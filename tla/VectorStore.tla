---------------------------- MODULE VectorStore ----------------------------
(***************************************************************************)
(* One collection of the vector database, as the repositories of this      *)
(* program create, check, load, write and search it.  Several backends,    *)
(* one for each repository, share the server; operations share a backend,  *)
(* its caches of what it knows of the collection, and its lock.            *)
(*                                                                         *)
(*   pkg/vectors/backends/milvus/ (backend.py, schema.py, codec.py)        *)
(*   pkg/vectors/repositories/base.py                                      *)
(*   internal/rag/repositories/chunk_vector.py                             *)
(*                                                                         *)
(* A call to the server returns, raises what counts as recoverable (the    *)
(* server may have done it, and a client closed by the reset of another    *)
(* operation is one such case), or fails.  Nobody here drops or releases   *)
(* a collection.                                                           *)
(***************************************************************************)
EXTENDS Naturals

CONSTANTS
  Backend,      \* the backends
  Operation,    \* operations, each on a repository of its own request
  BackendOf,    \* the backend of each one
  OperationKind,\* "search", "fetch", "upsert" or "delete"
  Direct,       \* those whose repository was built without ensuring the collection
  ModeOf,       \* the retrieval mode of a search, "auto" included
  Embeds,       \* the searches with a query vector
  Worded,       \* the searches with a query text
  Scalars,      \* scalar fields of the specification: name and type
  PayloadField, \* its payload field, or NoField
  FullText,     \* full_text_search.enabled
  Dimension,    \* its dimension
  Descriptions, \* the collections that may exist before: fields, analyzer, function, dim
  NoField, NoCollection, Nobody

ASSUME StoreAssumption ==
  /\ BackendOf \in [Operation -> Backend] /\ Nobody \notin Operation
  /\ OperationKind \in [Operation -> {"search", "fetch", "upsert", "delete"}]
  /\ ModeOf \in [Operation -> {"auto", "dense", "full_text", "hybrid"}]
  /\ \A o \in Operation : OperationKind[o] = "search" => o \in Embeds \cup Worded
  /\ FullText \in BOOLEAN /\ NoCollection \notin Descriptions

VARIABLES
  \* the server
  collection, \* its description
  serving,    \* it is loaded
  \* a backend
  loaded,     \* the collection is in _loaded_collections
  ensured,    \* it is in _ensured_collections
  holder,     \* who holds the lock of the collection
  \* an operation
  phase,      \* where it is
  retried,    \* its recoveries used up: of "ensure", of the "operation"
  opening     \* it is past the ensure of its repository

storeVars == <<collection, serving, loaded, ensured, holder, phase, retried, opening>>

-----------------------------------------------------------------------------
(* The schema *)

Core == [id |-> "int64", text |-> "varchar", embedding |-> "float_vector"]

Both(f, g) == [name \in DOMAIN f \cup DOMAIN g |-> IF name \in DOMAIN f THEN f[name] ELSE g[name]]

\* The columns of a row.
RowColumns ==
  Both(Core, Both(Scalars, [name \in {PayloadField} \ {NoField} |-> "json"]))

build_schema ==
  [fields   |-> Both(RowColumns, [name \in IF FullText THEN {"text_sparse"} ELSE {} |-> "sparse"]),
   analyzer |-> FullText, function |-> FullText, dim |-> Dimension]

ASSUME SchemaAssumption == build_schema # NoCollection

HasField(description, name, type) ==
  name \in DOMAIN description.fields /\ description.fields[name] = type

\* A collection that exists must have every field, with its type; more fields are allowed.
Fits(description) ==
  /\ \A name \in DOMAIN Core : HasField(description, name, Core[name])
  /\ PayloadField # NoField => HasField(description, PayloadField, "json")
  /\ \A name \in DOMAIN Scalars : HasField(description, name, Scalars[name])
  /\ FullText => /\ HasField(description, "text_sparse", "sparse")
                 /\ description.analyzer /\ description.function
  /\ description.dim # 0 => description.dim = Dimension

\* The mode that was asked for, or that of what a search brings; only dense does without full text.
Mode(o) ==
  LET mode == CASE ModeOf[o] # "auto" -> ModeOf[o]
                [] ModeOf[o] = "auto" /\ o \in Embeds \cap Worded -> "hybrid"
                [] ModeOf[o] = "auto" /\ o \in Embeds \ Worded -> "dense"
                [] ModeOf[o] = "auto" /\ o \notin Embeds -> "full_text"
  IN  IF mode = "dense" \/ FullText THEN mode ELSE "refused"

\* The branches of the search plan search these fields.
AnnsFields(o) ==
  CASE Mode(o) = "dense" -> {"embedding"} [] Mode(o) = "full_text" -> {"text_sparse"}
    [] Mode(o) = "hybrid" -> {"embedding", "text_sparse"} [] Mode(o) = "refused" -> {}

-----------------------------------------------------------------------------

\* How an operation begins: an upsert ensures the collection on its own.
Start(o) ==
  CASE OperationKind[o] = "upsert" -> "ensure" [] OperationKind[o] = "delete" -> "find" [] OTHER -> "open"

StoreInit ==
  /\ collection \in Descriptions \cup {NoCollection}
  /\ serving \in IF collection = NoCollection THEN {FALSE} ELSE BOOLEAN
  /\ loaded = [b \in Backend |-> FALSE] /\ ensured = [b \in Backend |-> FALSE]
  /\ holder = [b \in Backend |-> Nobody]
  /\ phase = [o \in Operation |-> IF o \in Direct THEN Start(o) ELSE "ensure"]
  /\ retried = [o \in Operation |-> {}] /\ opening = [o \in Operation |-> o \in Direct]

InCall(o, places)  == phase[o] \in places
GoTo(o, place) == phase' = [phase EXCEPT ![o] = place]
Mine(o)        == BackendOf[o]
Unlock(o)     == holder' = [holder EXCEPT ![Mine(o)] = IF @ = o THEN Nobody ELSE @]

\* After the ensure of its repository, or that of the upsert.
Onward(o) ==
  /\ opening' = [opening EXCEPT ![o] = TRUE]
  /\ retried' = [retried EXCEPT ![o] = IF opening[o] THEN @ ELSE {}]
  /\ GoTo(o, IF opening[o] THEN "write" ELSE Start(o))

Fail(o) == GoTo(o, "failed") /\ Unlock(o)

-----------------------------------------------------------------------------
(* ensure_collection *)

ensure_collection_TrustsLoaded(o) ==
  /\ InCall(o, {"ensure"})
  /\ \/ (ensured[Mine(o)] \/ loaded[Mine(o)]) /\ Onward(o) /\ UNCHANGED holder
     \/ ~ensured[Mine(o)] /\ ~loaded[Mine(o)] /\ holder[Mine(o)] = Nobody
        /\ holder' = [holder EXCEPT ![Mine(o)] = o]
        /\ GoTo(o, "has")
        /\ UNCHANGED <<retried, opening>>
  /\ UNCHANGED <<collection, serving, loaded, ensured>>

\* The caches are read without the lock first, and again with it.
ensure_collection(o) ==
  /\ InCall(o, {"ensure"})
  /\ \/ ensured[Mine(o)] /\ Onward(o) /\ UNCHANGED holder
     \/ ~ensured[Mine(o)] /\ holder[Mine(o)] = Nobody
        /\ holder' = [holder EXCEPT ![Mine(o)] = o]
        /\ GoTo(o, IF loaded[Mine(o)] THEN "describe" ELSE "has")
        /\ UNCHANGED <<retried, opening>>
  /\ UNCHANGED <<collection, serving, loaded, ensured>>

has_collection(o) ==
  /\ InCall(o, {"has"})
  /\ GoTo(o, IF collection = NoCollection THEN "create" ELSE "describe")
  /\ UNCHANGED <<collection, serving, loaded, ensured, holder, retried, opening>>

describe_collection(o) ==
  /\ InCall(o, {"describe"})
  /\ IF Fits(collection) THEN GoTo(o, "load") /\ UNCHANGED holder ELSE Fail(o)
  /\ UNCHANGED <<collection, serving, loaded, ensured, retried, opening>>

\* If another backend was faster the server may take the same collection again or refuse.
create_collection(o) ==
  /\ InCall(o, {"create"})
  /\ \/ /\ collection = NoCollection
        /\ collection' = build_schema /\ GoTo(o, "load") /\ UNCHANGED holder
     \/ /\ collection # NoCollection
        /\ UNCHANGED collection
        /\ \/ collection = build_schema /\ GoTo(o, "load") /\ UNCHANGED holder
           \/ Fail(o)
  /\ UNCHANGED <<serving, loaded, ensured, retried, opening>>

Ensured(o) ==
  /\ ensured' = [ensured EXCEPT ![Mine(o)] = TRUE]
  /\ Unlock(o) /\ Onward(o)

load_collection(o) ==
  /\ InCall(o, {"load"})
  /\ serving' = (serving \/ ~loaded[Mine(o)])
  /\ loaded' = [loaded EXCEPT ![Mine(o)] = TRUE]
  /\ Ensured(o)
  /\ UNCHANGED collection

-----------------------------------------------------------------------------
(* search, fetch, upsert and delete *)

\* A collection that is not known to be loaded is looked for under the lock; without one
\* there is nothing to find.
open_collection(o) ==
  /\ InCall(o, {"open"})
  /\ \/ loaded[Mine(o)] /\ GoTo(o, "query") /\ UNCHANGED holder
     \/ /\ ~loaded[Mine(o)] /\ holder[Mine(o)] = Nobody
        /\ IF collection = NoCollection THEN GoTo(o, "done") /\ UNCHANGED holder
           ELSE GoTo(o, "reload") /\ holder' = [holder EXCEPT ![Mine(o)] = o]
  /\ UNCHANGED <<collection, serving, loaded, ensured, retried, opening>>

reload_collection(o) ==
  /\ InCall(o, {"reload"})
  /\ serving' = (serving \/ ~loaded[Mine(o)])
  /\ loaded' = [loaded EXCEPT ![Mine(o)] = TRUE]
  /\ Unlock(o) /\ GoTo(o, "query")
  /\ UNCHANGED <<collection, ensured, retried, opening>>

\* A deletion needs no loaded collection, and nothing to delete is no error.
find_collection(o) ==
  /\ InCall(o, {"find"})
  /\ GoTo(o, IF loaded[Mine(o)] \/ collection # NoCollection THEN "erase" ELSE "done")
  /\ UNCHANGED <<collection, serving, loaded, ensured, holder, retried, opening>>

\* The plan of a search is made now.
query_rows(o) ==
  /\ InCall(o, {"query"})
  /\ GoTo(o, IF OperationKind[o] = "search" /\ Mode(o) = "refused" THEN "failed" ELSE "done")
  /\ UNCHANGED <<collection, serving, loaded, ensured, holder, retried, opening>>

upsert_rows(o) ==
  /\ InCall(o, {"write"}) /\ GoTo(o, "done")
  /\ UNCHANGED <<collection, serving, loaded, ensured, holder, retried, opening>>

delete_rows(o) ==
  /\ InCall(o, {"erase"}) /\ GoTo(o, "done")
  /\ UNCHANGED <<collection, serving, loaded, ensured, holder, retried, opening>>

-----------------------------------------------------------------------------
(* Failures *)

InEnsure == {"has", "describe", "create", "load"}
Calling  == InEnsure \cup {"open", "reload", "find", "query", "write", "erase"}

\* The first recoverable error of an ensure, or of an operation, resets the backend and
\* starts it again; the operation around an ensure recovers once more when that gave up.
\* The lock is released before the caches are emptied: in between, others would trust them a
\* little longer, as they do before this step.
reset_client_state(o) ==
  /\ InCall(o, Calling)
  /\ LET ensuring == InCall(o, InEnsure)
         scopes   == (IF ensuring THEN {"ensure"} ELSE {}) \cup
                     (IF opening[o] THEN {"operation"} ELSE {})
         inner    == IF ensuring /\ "ensure" \notin retried[o] THEN "ensure" ELSE "operation"
     IN /\ scopes \ retried[o] # {}
        /\ retried' = [retried EXCEPT ![o] = IF inner = "ensure" THEN @ \cup {"ensure"}
                                             ELSE {"operation"}]
        /\ GoTo(o, IF ensuring THEN "ensure" ELSE Start(o))
  /\ loaded' = [loaded EXCEPT ![Mine(o)] = FALSE]
  /\ ensured' = [ensured EXCEPT ![Mine(o)] = FALSE]
  /\ Unlock(o)
  /\ UNCHANGED opening

\* What a call may have done on the server when it raised.
LostReply(o) ==
  \/ UNCHANGED <<collection, serving>>
  \/ InCall(o, {"create"}) /\ collection = NoCollection /\ collection' = build_schema
     /\ UNCHANGED serving
  \/ InCall(o, {"load", "reload"}) /\ serving' = TRUE /\ UNCHANGED collection

run_with_recovery(o) == LostReply(o) /\ reset_client_state(o)

\* An error that is not recoverable, a second one, invalid records, a cancellation.
GiveUp(o) ==
  /\ InCall(o, Calling) /\ LostReply(o) /\ Fail(o)
  /\ UNCHANGED <<loaded, ensured, retried, opening>>

StoreNext ==
  \E o \in Operation :
    \/ ensure_collection(o) \/ has_collection(o) \/ describe_collection(o)
    \/ create_collection(o) \/ load_collection(o)
    \/ open_collection(o) \/ reload_collection(o) \/ find_collection(o)
    \/ query_rows(o) \/ upsert_rows(o) \/ delete_rows(o)
    \/ run_with_recovery(o) \/ GiveUp(o)

StoreSpec == StoreInit /\ [][StoreNext]_storeVars

-----------------------------------------------------------------------------
(* Properties *)

StoreTypeOK ==
  /\ collection \in Descriptions \cup {NoCollection, build_schema} /\ serving \in BOOLEAN
  /\ loaded \in [Backend -> BOOLEAN] /\ ensured \in [Backend -> BOOLEAN]
  /\ holder \in [Backend -> Operation \cup {Nobody}]
  /\ phase \in [Operation -> {"ensure", "done", "failed"} \cup Calling]
  /\ retried \in [Operation -> SUBSET {"ensure", "operation"}]
  /\ opening \in [Operation -> BOOLEAN]

\* Whichever calls failed, were repeated, or took effect although they raised, and whatever
\* the other operations and backends did in between: rows are written only to a collection
\* that has a column for each of their values, vectors of their length included; it is
\* searched only while it is loaded, and, behind an ensure, by fields that it has.
CallsFindTheirCollection ==
  \A o \in Operation :
    /\ InCall(o, {"write"}) =>
         /\ collection # NoCollection
         /\ \A name \in DOMAIN RowColumns : HasField(collection, name, RowColumns[name])
         /\ collection.dim \in {0, Dimension}
    /\ InCall(o, {"query"}) =>
         /\ collection # NoCollection /\ serving
         /\ OperationKind[o] = "search" /\ o \notin Direct => AnnsFields(o) \subseteq DOMAIN collection.fields
=============================================================================
