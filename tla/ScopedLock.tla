------------------------------ MODULE ScopedLock ------------------------------
(***************************************************************************)
(* The transaction lock of a business resource                             *)
(* (internal/services/scoped_operation_lock.py and                         *)
(* internal/dao/scoped_operation_lock.py): a caller inside a transaction   *)
(* ensures that the row naming the resource exists (INSERT IGNORE), then   *)
(* locks that row (SELECT ... FOR UPDATE, with NOWAIT in TRY mode).  The   *)
(* lock is the one the database holds on the row until the transaction     *)
(* ends; nothing in the program records it.                                *)
(*                                                                         *)
(* The locks of InnoDB are external, and modelled from what the code       *)
(* expects of them: an insertion locks the row it adds exclusively; an     *)
(* insertion that meets a row takes (or waits for) a shared lock on it; a  *)
(* cycle of waiting transactions is broken by rolling one of them back; a  *)
(* waiting statement may run out of time.  IGNORE cuts a value that is too *)
(* long for its column instead of refusing it.                             *)
(***************************************************************************)
EXTENDS Naturals, FiniteSets

CONSTANTS
    Callers,    \* transactions, each in a session of its own
    Elsewhere,  \* the callers whose session is bound to another database
    Resources,  \* pairs of a scope and a key, all of them
    Blank,      \* those with an empty scope or key
    Long,       \* those longer than their columns
    NoResource  \* none

ASSUME CallersAssumption == Elsewhere \subseteq Callers
ASSUME ResourcesAssumption ==
    Blank \subseteq Resources /\ Long \subseteq Resources /\ NoResource \notin Resources

VARIABLES
    rows,       \* the rows of scoped_operation_locks, uncommitted ones too
    unsaved,    \* the rows a transaction has inserted
    shared,     \* the transactions with a shared lock on a row
    exclusive,  \* the transactions with an exclusive lock on a row
    doing,      \* what a caller is doing
    resource,   \* the resource a caller is acquiring
    waits,      \* whether it does so in WAIT mode
    told        \* the resources a caller was told, in this transaction, it holds

lockVars == <<rows, unsaved, shared, exclusive, doing, resource, waits, told>>

\* outside: no transaction.  free: inside one, the code of the caller runs.
\* ensure, lock: inside acquire, its first and its second statement is sent.
Stations == {"outside", "free", "ensure", "lock"}

\* The text a column keeps of a name that does not fit it.
Cut == "cut"

Rows == Resources \cup {Cut}

Stored(r) == IF r \in Long THEN Cut ELSE r

LockTypeOK ==
    /\ rows \subseteq Rows
    /\ unsaved \in [Callers -> SUBSET Rows]
    /\ shared \in [Rows -> SUBSET Callers]
    /\ exclusive \in [Rows -> SUBSET Callers]
    /\ doing \in [Callers -> Stations]
    /\ resource \in [Callers -> Resources \cup {NoResource}]
    /\ waits \in [Callers -> BOOLEAN]
    /\ told \in [Callers -> SUBSET Resources]

LockInit ==
    /\ rows = {}
    /\ unsaved = [c \in Callers |-> {}]
    /\ shared = [r \in Rows |-> {}]
    /\ exclusive = [r \in Rows |-> {}]
    /\ doing = [c \in Callers |-> "outside"]
    /\ resource = [c \in Callers |-> NoResource]
    /\ waits = [c \in Callers |-> FALSE]
    /\ told = [c \in Callers |-> {}]

-----------------------------------------------------------------------------
(* What a caller is refused before any statement is sent.                  *)

ValidParameters(r) == r \notin Blank /\ r \notin Long

\* An acquisition needs a transaction, of MySQL; without one it raises.
ValidSession(c) == doing[c] = "free" /\ c \notin Elsewhere

Begin(c) ==
    /\ doing[c] = "outside"
    /\ doing' = [doing EXCEPT ![c] = "free"]
    /\ UNCHANGED <<rows, unsaved, shared, exclusive, resource, waits, told>>

Acquire(c, r, wait) ==
    /\ ValidParameters(r)
    /\ ValidSession(c)
    /\ doing' = [doing EXCEPT ![c] = "ensure"]
    /\ resource' = [resource EXCEPT ![c] = r]
    /\ waits' = [waits EXCEPT ![c] = wait]
    /\ UNCHANGED <<rows, unsaved, shared, exclusive, told>>

-----------------------------------------------------------------------------
(* The statements, and whom they wait for.                                 *)

Others(c) == Callers \ {c}

\* The first statement adds the row, or meets it and needs to share it.
InsertBlockers(c) ==
    LET r == Stored(resource[c])
    IN  IF r \in rows THEN exclusive[r] \cap Others(c) ELSE {}

\* The second needs the row for itself; one that finds no row waits for nobody.
SelectBlockers(c) ==
    IF resource[c] \in rows
    THEN (exclusive[resource[c]] \cup shared[resource[c]]) \cap Others(c)
    ELSE {}

Blockers(c) ==
    CASE doing[c] = "ensure" -> InsertBlockers(c)
      [] doing[c] = "lock" /\ waits[c] -> SelectBlockers(c)
      [] OTHER -> {}

_ensure_lock_row_exists(c) ==
    LET r == Stored(resource[c])
    IN  /\ doing[c] = "ensure"
        /\ InsertBlockers(c) = {}
        /\ rows' = rows \cup {r}
        /\ IF r \in rows
           THEN /\ shared' = [shared EXCEPT ![r] = @ \cup {c}]
                /\ UNCHANGED <<unsaved, exclusive>>
           ELSE /\ exclusive' = [exclusive EXCEPT ![r] = @ \cup {c}]
                /\ unsaved' = [unsaved EXCEPT ![c] = @ \cup {r}]
                /\ UNCHANGED shared
        /\ doing' = [doing EXCEPT ![c] = "lock"]
        /\ UNCHANGED <<resource, waits, told>>

\* What acquire does when it finds no row is left out: LockRowIsThere says that
\* it never gets there.
LockRow_Plain(c) ==
    /\ doing[c] = "lock"
    /\ resource[c] \in rows
    /\ exclusive[resource[c]] \cap Others(c) = {}
    /\ shared' = [shared EXCEPT ![resource[c]] = @ \cup {c}]
    /\ told' = [told EXCEPT ![c] = @ \cup {resource[c]}]
    /\ doing' = [doing EXCEPT ![c] = "free"]
    /\ resource' = [resource EXCEPT ![c] = NoResource]
    /\ UNCHANGED <<rows, unsaved, exclusive, waits>>

LockRow(c) ==
    /\ doing[c] = "lock"
    /\ resource[c] \in rows
    /\ SelectBlockers(c) = {}
    /\ exclusive' = [exclusive EXCEPT ![resource[c]] = @ \cup {c}]
    /\ told' = [told EXCEPT ![c] = @ \cup {resource[c]}]
    /\ doing' = [doing EXCEPT ![c] = "free"]
    /\ resource' = [resource EXCEPT ![c] = NoResource]
    /\ UNCHANGED <<rows, unsaved, shared, waits>>

\* In TRY mode a row that is not free is answered with False, and the caller
\* goes on in its transaction, which keeps what the first statement locked.
LockUnavailable(c) ==
    /\ doing[c] = "lock"
    /\ ~waits[c]
    /\ SelectBlockers(c) # {}
    /\ doing' = [doing EXCEPT ![c] = "free"]
    /\ resource' = [resource EXCEPT ![c] = NoResource]
    /\ UNCHANGED <<rows, unsaved, shared, exclusive, waits, told>>

-----------------------------------------------------------------------------
(* The end of a transaction releases what it holds.                        *)

Release(c) ==
    /\ shared' = [r \in Rows |-> shared[r] \ {c}]
    /\ exclusive' = [r \in Rows |-> exclusive[r] \ {c}]
    /\ unsaved' = [unsaved EXCEPT ![c] = {}]
    /\ doing' = [doing EXCEPT ![c] = "outside"]
    /\ resource' = [resource EXCEPT ![c] = NoResource]
    /\ told' = [told EXCEPT ![c] = {}]
    /\ UNCHANGED waits

Commit(c) ==
    /\ doing[c] = "free"
    /\ Release(c)
    /\ UNCHANGED rows

Rollback(c) ==
    /\ Release(c)
    /\ rows' = rows \ unsaved[c]

Abandon(c) ==
    /\ doing[c] = "free"
    /\ Rollback(c)

\* A set of transactions each of which waits for another of the set, none to spare.
Closed(cycle) ==
    cycle # {} /\ \A c \in cycle : Blockers(c) \cap cycle # {}

Cycle(cycle) ==
    Closed(cycle) /\ \A part \in SUBSET cycle : Closed(part) => part = cycle

\* The database rolls a waiting transaction back, one of a cycle or one whose
\* statement ran out of time; acquire raises the error to the caller.
DeadlockFound(c) ==
    /\ \E cycle \in SUBSET Callers : c \in cycle /\ Cycle(cycle)
    /\ Rollback(c)

WaitTimeout(c) ==
    /\ Blockers(c) # {}
    /\ Rollback(c)

LockNext ==
    \E c \in Callers :
        \/ Begin(c)
        \/ \E r \in Resources, wait \in BOOLEAN : Acquire(c, r, wait)
        \/ _ensure_lock_row_exists(c)
        \/ LockRow(c)
        \/ LockUnavailable(c)
        \/ Commit(c)
        \/ Abandon(c)
        \/ DeadlockFound(c)
        \/ WaitTimeout(c)

LockSpec == LockInit /\ [][LockNext]_lockVars

-----------------------------------------------------------------------------
(* A resource a caller was told it holds is its own until its transaction  *)
(* ends: nobody else was told so, and nobody else is let at the row, not   *)
(* even to share it, however the two statements of several callers         *)
(* interleave, wait, time out, deadlock and roll back.                     *)
HolderIsAlone ==
    \A c \in Callers : \A r \in told[c] :
        /\ exclusive[r] = {c}
        /\ shared[r] \subseteq {c}
        /\ \A d \in Others(c) : r \notin told[d]

(* The row is there when the second statement looks for it, though the     *)
(* transaction that inserted it may have rolled back and although IGNORE   *)
(* hides what the insertion cut: the case the code raises a RuntimeError   *)
(* for does not happen.                                                    *)
LockRowIsThere ==
    \A c \in Callers : doing[c] = "lock" => resource[c] \in rows

\* A caller that acquired the lock has it, and one that is acquiring it can.
LockIsExclusive == HolderIsAlone /\ LockRowIsThere
=============================================================================
