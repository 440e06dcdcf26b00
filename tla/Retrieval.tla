----------------------------- MODULE Retrieval -----------------------------
(***************************************************************************)
(* How a question is answered from the knowledge base: scope, search,      *)
(* post-retrieval, evidence, prompt, answer of the model, citations.       *)
(*                                                                         *)
(*   internal/services/rag.py, pkg/vectors/post_retrieval.py               *)
(*   pkg/vectors/repositories/base.py, internal/dao/rag.py                 *)
(*                                                                         *)
(* A hit is a chunk, numbered by its id, and its score; the search may     *)
(* return one chunk more than once, found in different ways, in any order. *)
(***************************************************************************)
EXTENDS Integers, Lists

CONSTANTS
  Chunks,        \* the ids of the indexed chunks
  Scores,        \* the scores a hit may have
  DocOf,         \* the document of a chunk in the index, or NoDoc
  NoDoc,
  TopK, FinalK,  \* the bounded top_k and final_k
  KeepBest,      \* the strategy of the deduplication is best_score, not first
  AnswerAnyway   \* answer_on_low_confidence

ASSUME RetrievalAssumption ==
  /\ Chunks \subseteq Nat \ {0} /\ Scores \subseteq Int /\ NoDoc \notin Chunks
  /\ TopK \in Nat \ {0} /\ FinalK \in 1 .. TopK
  /\ KeepBest \in BOOLEAN /\ AnswerAnyway \in BOOLEAN

VARIABLES
  stage,     \* how far the request is
  hits,      \* what the search returned
  evidence,  \* the evidence: chunks, or NoDoc where one was left out
  cited,     \* the numbers of the evidence in the validated citations
  answer     \* "none", "generated", "low" (confidence) or "error"

retrievalVars == <<stage, hits, evidence, cited, answer>>

Hit == [id : Chunks, score : Scores]

-----------------------------------------------------------------------------
(* Post-retrieval *)

\* Sorted by descending score, then by ascending id.
Better(g, h) == g.score > h.score \/ (g.score = h.score /\ g.id < h.id)
SortHits(s) ==
  Sorted(s, {p \in (DOMAIN s) \X (DOMAIN s) : Better(s[p[1]], s[p[2]])})

\* One hit of each chunk: the first, or the best.
KeepHit(kept, h) ==
  LET same == {i \in DOMAIN kept : kept[i].id = h.id}
  IN IF same = {} THEN Append(kept, h)
     ELSE [i \in DOMAIN kept |-> IF i \in same /\ KeepBest /\ Better(h, kept[i])
                                 THEN h ELSE kept[i]]
Deduplicate_Off(s) == SortHits(s)

Deduplicate(s) ==
  SortHits(Fold([kept \in Seq(Hit) |-> [h \in Hit |-> KeepHit(kept, h)]], <<>>, s))

\* A chunk of no document is a document of its own.
DocumentKey(h) == IF DocOf[h.id] = NoDoc THEN <<"hit", h.id>> ELSE <<"doc", DocOf[h.id]>>

\* The first hit of each document.
KeepDocument(heads, h) ==
  IF \E i \in DOMAIN heads : DocumentKey(heads[i]) = DocumentKey(h) THEN heads ELSE Append(heads, h)
Heads(s) == Fold([heads \in Seq(Hit) |-> [h \in Hit |-> KeepDocument(heads, h)]], <<>>, s)

\* A document has the hits of its group, best first, at most FinalK of them, and the score
\* of the best one.
Document(s, key) ==
  LET group == SortHits(Kept(s, {h \in Hit : DocumentKey(h) = key}))
  IN [chunks |-> FirstOf(group, FinalK), primary |-> group[1]]

SortDocuments(d) ==
  Sorted(d, {p \in (DOMAIN d) \X (DOMAIN d) : Better(d[p[1]].primary, d[p[2]].primary)})

Collapse(s) ==
  LET heads == Heads(s)
  IN FirstOf(SortDocuments([i \in DOMAIN heads |-> Document(s, DocumentKey(heads[i]))]), FinalK)

\* The chunks of the best documents; if they are too few, the best hits.
SelectEvidence(s) ==
  LET ordered   == Deduplicate(SortHits(s))
      collapsed == Collapse(ordered)
      chunks    == FlattenSeq([i \in DOMAIN collapsed |-> collapsed[i].chunks])
  IN FirstOf(IF Len(chunks) >= FinalK THEN chunks ELSE ordered, FinalK)

-----------------------------------------------------------------------------

RetrievalInit ==
  /\ stage = "search" /\ hits = <<>> /\ evidence = <<>> /\ cited = <<>>
  /\ answer = "none"

GiveAnswer(what) == stage' = "done" /\ answer' = what

\* The request asks for nothing that it is allowed to see: no search.
RefuseScope ==
  /\ stage = "search"
  /\ GiveAnswer("low")
  /\ UNCHANGED <<hits, evidence, cited>>

Search ==
  /\ stage = "search"
  /\ \E n \in 0 .. TopK : hits' \in [1 .. n -> Hit]
  /\ stage' = "evidence"
  /\ UNCHANGED <<evidence, cited, answer>>

\* The rows of the chunks tell their documents; one that neither row nor index places in a
\* document is left out, and its number stays free.
BuildEvidence ==
  /\ stage = "evidence"
  /\ LET selected == SelectEvidence(hits)
     IN \E rowless \in SUBSET Chunks :
          evidence' = [i \in DOMAIN selected |->
                         LET c == selected[i].id
                         IN IF c \in rowless /\ DocOf[c] = NoDoc THEN NoDoc ELSE c]
  /\ IF \E i \in DOMAIN evidence' : evidence'[i] # NoDoc
     THEN stage' = "citations" /\ UNCHANGED answer
     ELSE GiveAnswer("low")
  /\ UNCHANGED <<hits, cited>>

\* Of what the model cites, each piece of evidence counts once, and nothing else counts.
KeepCitation_AnyNumber(kept, n) ==
  IF (\E i \in DOMAIN kept : kept[i] = n) THEN kept ELSE Append(kept, n)

KeepCitation(kept, n) ==
  IF (\E i \in DOMAIN kept : kept[i] = n) \/ n \notin DOMAIN evidence \/ evidence[n] = NoDoc
  THEN kept ELSE Append(kept, n)

ValidateCitations(citations) ==
  /\ stage = "citations"
  /\ cited' = Fold([kept \in Seq(Nat) |-> [n \in Nat |-> KeepCitation(kept, n)]], <<>>, citations)
  /\ GiveAnswer(IF cited' = <<>> /\ ~AnswerAnyway THEN "low" ELSE "generated")
  /\ UNCHANGED <<hits, evidence>>

\* The search, the database or the model raises.
RetrievalFails ==
  /\ stage # "done"
  /\ GiveAnswer("error")
  /\ UNCHANGED <<hits, evidence, cited>>

RetrievalNext ==
  \/ RefuseScope \/ Search \/ BuildEvidence
  \/ \E n \in 0 .. 2 : \E citations \in [1 .. n -> 0 .. FinalK + 1] : ValidateCitations(citations)
  \/ RetrievalFails

RetrievalSpec == RetrievalInit /\ [][RetrievalNext]_retrievalVars

-----------------------------------------------------------------------------
(* Properties *)

RetrievalTypeOK ==
  /\ stage \in {"search", "evidence", "citations", "done"}
  /\ hits \in Seq(Hit) /\ evidence \in Seq(Chunks \cup {NoDoc})
  /\ cited \in Seq(1 .. FinalK)
  /\ answer \in {"none", "generated", "low", "error"}

\* The chunks that rank before chunk c, by the best hit of its document and then by its
\* own best hit, with ties to the smaller id: no matter in which order, and how often, the
\* search returned them.
BestHit(C) == CHOOSE h \in ToSet(hits) :
                h.id \in C /\ \A g \in ToSet(hits) : g.id \in C => ~Better(g, h)
Found == {h.id : h \in ToSet(hits)}
Kin(c) == {d \in Found : d = c \/ (DocOf[c] # NoDoc /\ DocOf[d] = DocOf[c])}
Ahead(c) ==
  {d \in Found : IF d \in Kin(c) THEN Better(BestHit({d}), BestHit({c}))
                 ELSE Better(BestHit(Kin(d)), BestHit(Kin(c)))}

\* The evidence consists of the best chunks in that ranking, each of them once, except for
\* those nobody can place in a document.
EvidenceIsBest ==
  stage = "citations" =>
    LET best == {c \in Found : Cardinality(Ahead(c)) < FinalK}
        used == ToSet(evidence) \ {NoDoc}
    IN /\ used \subseteq best /\ \A c \in best \ used : DocOf[c] = NoDoc
       /\ \A i, j \in DOMAIN evidence : i # j /\ evidence[i] # NoDoc => evidence[i] # evidence[j]

\* What the client gets as an answer from the knowledge base cites evidence, each piece
\* once, that was found in this request.
AnswerIsGrounded ==
  answer = "generated" /\ ~AnswerAnyway =>
    /\ cited # <<>>
    /\ \A i \in DOMAIN cited : cited[i] \in DOMAIN evidence /\ evidence[cited[i]] \in Found
    /\ \A i, j \in DOMAIN cited : cited[i] = cited[j] => i = j

\* An answer rests on the best evidence the search found, and on nothing else.
RetrievalIsSound == EvidenceIsBest /\ AnswerIsGrounded
=============================================================================
