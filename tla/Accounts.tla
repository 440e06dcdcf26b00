------------------------------ MODULE Accounts ------------------------------
(***************************************************************************)
(* How a sign-in finds or creates the account of its user: registration    *)
(* with a phone number, login with a name and a password, and login with   *)
(* an identity of an external provider, which creates the account when it  *)
(* is first seen.                                                          *)
(*                                                                         *)
(*   internal/services/user.py, internal/services/auth.py                  *)
(*   internal/dao/user.py, internal/dao/external_identity.py               *)
(*                                                                         *)
(* A transaction whose rows are locked is one action; a lookup that finds  *)
(* no row locks nothing, so the insert that follows it is another.  Any    *)
(* commit may take effect although the caller sees an error.  An account   *)
(* is named by the sign-in that creates it.                                *)
(***************************************************************************)
EXTENDS Naturals

CONSTANTS
  SignIn,     \* requests to sign in
  KindOf,     \* of each one: "register", "password" or "external"
  NameOf,     \* the user name it registers, asks for, or brings as nickname
  PhoneOf,    \* the phone number it registers
  PasswordOf, \* the password it sets or presents
  Identity,   \* (provider, connection key, subject)
  SubjectOf,  \* the identity an external sign-in proves
  NoUser      \* no account

ASSUME SignInAssumption ==
  /\ KindOf \in [SignIn -> {"register", "password", "external"}]
  /\ \A r \in SignIn : KindOf[r] = "external" => SubjectOf[r] \in Identity
  /\ NoUser \notin SignIn

VARIABLES
  users,    \* the rows of the user table
  closed,   \* those that are soft-deleted
  identity, \* the row of each identity: its user and whether it is soft-deleted
  step,     \* where each sign-in is
  account   \* the account it resolved to

accountVars == <<users, closed, identity, step, account>>

-----------------------------------------------------------------------------

NoRow      == [user |-> NoUser, deleted |-> FALSE]
Row(u)     == [user |-> u, deleted |-> FALSE]
Active     == users \ closed
External   == {r \in SignIn : KindOf[r] = "external"}
Registered == {r \in SignIn : KindOf[r] = "register"}

AccountInit ==
  /\ users = {} /\ closed = {}
  /\ identity = [i \in Identity |-> NoRow]
  /\ step = [r \in SignIn |-> "idle"] /\ account = [r \in SignIn |-> NoUser]

Resolve(r, u) ==
  /\ step' = [step EXCEPT ![r] = "resolved"]
  /\ account' = [account EXCEPT ![r] = u]

StepTo(r, place) == step' = [step EXCEPT ![r] = place] /\ UNCHANGED account
FailSignIn(r)    == StepTo(r, "failed")

\* The commit of a transaction that takes effect: the caller goes on, or sees an error.
Committed(r, u) == Resolve(r, u) \/ FailSignIn(r)

-----------------------------------------------------------------------------
(* External identities *)

\* The transaction locks the row of the identity, deleted or not, and its user; it brings
\* a deleted row back.  It inserts nothing yet when there is no row.
FindIdentity(r) ==
  /\ step[r] = "idle" /\ KindOf[r] = "external"
  /\ LET row == identity[SubjectOf[r]]
     IN \/ /\ row.user \in Active
           /\ identity' = [identity EXCEPT ![SubjectOf[r]].deleted = FALSE]
           /\ Committed(r, row.user)
        \/ /\ row # NoRow /\ row.user \notin Active
           /\ FailSignIn(r) /\ UNCHANGED identity
        \/ /\ row = NoRow
           /\ StepTo(r, "insert") /\ UNCHANGED identity
  /\ UNCHANGED <<users, closed>>

InsertAccount_Apart(r) ==
  /\ step[r] = "insert"
  /\ users' = users \cup {r}
  /\ IF identity[SubjectOf[r]] = NoRow
     THEN identity' = [identity EXCEPT ![SubjectOf[r]] = Row(r)] /\ Committed(r, r)
     ELSE UNCHANGED identity /\ StepTo(r, "reread")
  /\ UNCHANGED closed

\* The account and its identity are inserted together; the unique key of the identity
\* lets one of two first sign-ins win and rolls both rows of the other back.
InsertAccount(r) ==
  /\ step[r] = "insert"
  /\ IF identity[SubjectOf[r]] = NoRow
     THEN /\ users' = users \cup {r}
          /\ identity' = [identity EXCEPT ![SubjectOf[r]] = Row(r)]
          /\ Committed(r, r)
     ELSE StepTo(r, "reread") /\ UNCHANGED <<users, identity>>
  /\ UNCHANGED closed

\* The loser reads what the winner committed, from the primary database.
RereadIdentity(r) ==
  /\ step[r] = "reread"
  /\ LET row == identity[SubjectOf[r]]
     IN IF ~row.deleted /\ row.user \in Active THEN Resolve(r, row.user) ELSE FailSignIn(r)
  /\ UNCHANGED <<users, closed, identity>>

-----------------------------------------------------------------------------
(* Names and phone numbers *)

\* The number is looked up on a read replica, which may lag behind: an account it does not
\* have yet, or that another registration is about to insert, is not seen.
CheckPhone(r) ==
  /\ step[r] = "idle" /\ KindOf[r] = "register"
  /\ \/ (\E u \in Active \cap Registered : PhoneOf[u] = PhoneOf[r]) /\ FailSignIn(r)
     \/ StepTo(r, "hash")
  /\ UNCHANGED <<users, closed, identity>>

\* After the hash of the password was computed in a thread.  No unique key protects the
\* number.
InsertUser(r) ==
  /\ step[r] = "hash"
  /\ users' = users \cup {r}
  /\ Committed(r, r)
  /\ UNCHANGED <<closed, identity>>

\* The first row of that name on the replica decides; names are not unique, and an account
\* of an external identity has no password.
LoginByName(r) ==
  /\ step[r] = "idle" /\ KindOf[r] = "password"
  /\ \E u \in Active :
       /\ NameOf[u] = NameOf[r]
       /\ IF KindOf[u] = "register" /\ PasswordOf[u] = PasswordOf[r]
          THEN Resolve(r, u) ELSE FailSignIn(r)
  /\ UNCHANGED <<users, closed, identity>>

\* The provider refuses, there is no such name, the database fails before a commit, or the
\* client goes away.
GiveUpSignIn(r) ==
  /\ step[r] \in {"idle", "insert", "reread", "hash"}
  /\ FailSignIn(r)
  /\ UNCHANGED <<users, closed, identity>>

-----------------------------------------------------------------------------
(* Soft deletion, which no service of this program performs *)

CloseUser(u) ==
  /\ u \in Active
  /\ closed' = closed \cup {u}
  /\ UNCHANGED <<users, identity, step, account>>

DropIdentity(i) ==
  /\ identity[i] # NoRow /\ ~identity[i].deleted
  /\ identity' = [identity EXCEPT ![i].deleted = TRUE]
  /\ UNCHANGED <<users, closed, step, account>>

AccountNext ==
  \/ \E r \in SignIn :
       \/ FindIdentity(r) \/ InsertAccount(r) \/ RereadIdentity(r)
       \/ CheckPhone(r) \/ InsertUser(r) \/ LoginByName(r) \/ GiveUpSignIn(r)
  \/ \E u \in SignIn : CloseUser(u)
  \/ \E i \in Identity : DropIdentity(i)

-----------------------------------------------------------------------------
(* Properties *)

AccountTypeOK ==
  /\ users \subseteq SignIn /\ closed \subseteq users
  /\ identity \in [Identity -> [user : SignIn \cup {NoUser}, deleted : BOOLEAN]]
  /\ step \in [SignIn -> {"idle", "insert", "reread", "hash", "resolved", "failed"}]
  /\ account \in [SignIn -> SignIn \cup {NoUser}]

\* First sign-ins of one identity that race, fail half way, are retried, or find the
\* identity or the account deleted, all end in one account, and leave no account behind
\* that no identity leads to.
OneAccountPerIdentity ==
  /\ \A u, v \in users \cap External : SubjectOf[u] = SubjectOf[v] => u = v
  /\ \A r \in External : step[r] = "resolved" => identity[SubjectOf[r]].user = account[r]
=============================================================================
