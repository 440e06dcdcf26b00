-------------------------- MODULE ContextAssembly --------------------------
(***************************************************************************)
(* How the chunks of the documents that a search found become the context  *)
(* of a prompt: chunks that follow each other are merged into windows, and *)
(* headers and windows are added while the budgets last.                   *)
(*                                                                         *)
(*   pkg/vectors/context_assembly.py                                       *)
(*                                                                         *)
(* A text is its length.  One step is one round of the loop of assemble.   *)
(***************************************************************************)
EXTENDS Integers, FiniteSets, Lists

CONSTANTS
  Inputs,        \* the lists of documents; a document is a list of chunks
  Unlimited,     \* no budget
  MaxTotal,      \* max_total_chars
  MaxDocument,   \* max_document_chars
  MaxDocuments,  \* max_documents
  HeaderLength,  \* of a document, 0 if headers are off
  DocumentSeparator, \* what stands between two documents
  Separator,     \* and between header, windows and chunks
  Gap,           \* adjacent_order_gap
  MaxWindow      \* max_chunks_per_window

\* A chunk: its id, its text without surrounding blanks, and its index in the document,
\* or -1.
Chunk == [id : Nat, length : Nat, index : Int]

ASSUME AssemblyAssumption ==
  /\ \A input \in Inputs : input \in Seq(Seq(Chunk))
  /\ {MaxTotal, MaxDocument} \subseteq (Nat \ {0}) \cup {Unlimited} /\ MaxDocuments \in Nat \ {0}
  /\ {HeaderLength, DocumentSeparator, Separator, Gap} \subseteq Nat
  /\ MaxWindow \in Nat \ {0} /\ Unlimited \notin Int

VARIABLES
  documents, \* what is to be assembled
  next,      \* the document of the next round
  remaining, \* remaining_total_chars
  context    \* the assembled documents: number, length, windows, truncated

assemblyVars == <<documents, next, remaining, context>>

-----------------------------------------------------------------------------
(* Windows *)

\* A chunk without an index is sorted by its id, among the indexes of the others.
Order(chunk) == IF chunk.index >= 0 THEN chunk.index ELSE chunk.id

NonEmpty == {chunk \in Chunk : chunk.length > 0}

\* Sorted by that; ties in the order in which they came.
SortChunks(chunks) ==
  LET kept == Kept(chunks, NonEmpty)
  IN Sorted(kept, {p \in (DOMAIN kept) \X (DOMAIN kept) :
                     \/ Order(kept[p[1]]) < Order(kept[p[2]])
                     \/ Order(kept[p[1]]) = Order(kept[p[2]]) /\ p[1] < p[2]})

Window == Seq(Chunk) \ {<<>>}

Adjacent(previous, chunk) ==
  /\ previous.index >= 0 /\ chunk.index >= 0
  /\ chunk.index - previous.index \in 0 .. Gap

Merge(windows, chunk) ==
  LET last == windows[Len(windows)]
  IN IF windows # <<>> /\ Len(last) < MaxWindow /\ Adjacent(last[Len(last)], chunk)
     THEN [windows EXCEPT ![Len(windows)] = Append(@, chunk)]
     ELSE Append(windows, <<chunk>>)

Windows(chunks) ==
  Fold([windows \in Seq(Window) |-> [chunk \in Chunk |-> Merge(windows, chunk)]], <<>>,
       SortChunks(chunks))

Length(window) ==
  Fold([sum \in Nat |-> [chunk \in Chunk |-> sum + chunk.length]], 0, window)
    + (Len(window) - 1) * Separator

-----------------------------------------------------------------------------
(* Budgets *)

Within(length, budget) == budget = Unlimited \/ length <= budget

PartialTexts == [length : Nat, windows : Seq(Window), truncated : BOOLEAN]

\* What a text has got so far: its length, its windows, whether something was cut off.
Text(length) == [length |-> length, windows |-> <<>>, truncated |-> FALSE]

\* A window is added whole, or cut to what is left of the budget, where no blanks are lost
\* in this model; nothing follows a cut.
AddWindow(text, window, budget) ==
  LET start == IF text.length = 0 THEN 0 ELSE text.length + Separator
  IN IF text.truncated THEN text
     ELSE IF Within(start + Length(window), budget)
     THEN [text EXCEPT !.length = start + Length(window), !.windows = Append(@, window)]
     ELSE IF start >= budget THEN [text EXCEPT !.truncated = TRUE]
     ELSE [length |-> budget, windows |-> Append(text.windows, window), truncated |-> TRUE]

FitText(windows, budget) ==
  IF HeaderLength > 0 /\ budget # Unlimited /\ HeaderLength >= budget
  THEN [Text(budget) EXCEPT !.truncated = TRUE]
  ELSE Fold([text \in PartialTexts |-> [window \in Window |-> AddWindow(text, window, budget)]],
            Text(HeaderLength), windows)

\* The budget of the next document: its own, or what is left of the total.
Before == IF context = <<>> THEN 0 ELSE DocumentSeparator
Available ==
  IF remaining = Unlimited THEN MaxDocument
  ELSE IF MaxDocument # Unlimited /\ MaxDocument < remaining - Before THEN MaxDocument
  ELSE remaining - Before

-----------------------------------------------------------------------------

AssemblyInit ==
  /\ documents \in Inputs /\ next = 1 /\ remaining = MaxTotal /\ context = <<>>

\* The loop goes on while there are documents and room.
Round ==
  /\ next <= Len(documents) /\ next <= MaxDocuments
  /\ remaining # Unlimited => remaining > 0
  /\ Available # Unlimited => Available > 0

NumberedTexts == [number : Nat, length : Nat, windows : Seq(Window), truncated : BOOLEAN]
Numbered(text, n) ==
  [number |-> n, length |-> text.length, windows |-> text.windows, truncated |-> text.truncated]

AddDocument_FreeSeparator ==
  /\ Round
  /\ LET text == FitText(Windows(documents[next]), Available)
     IN /\ text.length > 0
        /\ context' = Append(context, Numbered(text, next))
        /\ remaining' = IF remaining = Unlimited THEN remaining ELSE remaining - text.length
  /\ next' = next + 1
  /\ UNCHANGED documents

AddDocument ==
  /\ Round
  /\ LET text == FitText(Windows(documents[next]), Available)
     IN /\ text.length > 0
        /\ context' = Append(context, Numbered(text, next))
        /\ remaining' = IF remaining = Unlimited THEN remaining
                        ELSE remaining - Before - text.length
  /\ next' = next + 1
  /\ UNCHANGED documents

\* Without a header, a document of empty chunks gives no text.
SkipDocument ==
  /\ Round
  /\ FitText(Windows(documents[next]), Available).length = 0
  /\ next' = next + 1
  /\ UNCHANGED <<documents, remaining, context>>

AssemblyNext == AddDocument \/ SkipDocument

AssemblySpec == AssemblyInit /\ [][AssemblyNext]_assemblyVars

-----------------------------------------------------------------------------
(* Properties *)

AssemblyTypeOK ==
  /\ documents \in Inputs /\ next \in Nat \ {0} /\ remaining \in Int \cup {Unlimited}
  /\ context \in Seq(NumberedTexts)
  /\ \A i \in DOMAIN context : context[i].number \in DOMAIN documents /\ context[i].length > 0

TotalLength ==
  Fold([sum \in Nat |-> [text \in NumberedTexts |-> sum + text.length]], 0, context)
    + (IF context = <<>> THEN 0 ELSE (Len(context) - 1) * DocumentSeparator)

\* The context never exceeds its budgets, with all headers and separators, wherever texts
\* had to be cut.
BudgetIsKept ==
  /\ Within(TotalLength, MaxTotal)
  /\ Len(context) <= MaxDocuments
  /\ \A i \in DOMAIN context : Within(context[i].length, MaxDocument)

\* How often a chunk is in a list.
Times(chunk, chunks) == Cardinality({i \in DOMAIN chunks : chunks[i] = chunk})

\* The windows of a text hold the first of the non-empty chunks of its document in ascending
\* order, without a gap and none of them more often than the document does, and all of them
\* as often unless it is marked as truncated; a window holds chunks that follow each other.
Keeps(text, document) ==
  LET chunks == FlattenSeq(text.windows)
      all    == {chunk \in ToSet(document) : chunk.length > 0}
  IN /\ ToSet(chunks) \subseteq all
     /\ \A chunk \in all :
          /\ Times(chunk, chunks) <= Times(chunk, document)
          /\ ~text.truncated => Times(chunk, chunks) = Times(chunk, document)
          /\ chunk \notin ToSet(chunks) /\ chunks # <<>> =>
               Order(chunk) >= Order(chunks[Len(chunks)])
     /\ \A n \in 1 .. Len(chunks) - 1 : Order(chunks[n]) <= Order(chunks[n + 1])
     /\ \A w \in DOMAIN text.windows :
          LET window == text.windows[w]
          IN /\ Len(window) \in 1 .. MaxWindow
             /\ \A n \in 1 .. Len(window) - 1 : Adjacent(window[n], window[n + 1])

\* The documents keep their order, and each text keeps what its document says.
ChunksAreKept ==
  /\ \A i, j \in DOMAIN context : i < j => context[i].number < context[j].number
  /\ \A i \in DOMAIN context : Keeps(context[i], documents[context[i].number])

\* The context is what the documents say, as far as the budgets allow.
ContextIsFaithful == BudgetIsKept /\ ChunksAreKept
=============================================================================
