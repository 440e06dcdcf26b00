---------------------------- MODULE AuthSession ----------------------------
(***************************************************************************)
(* The sessions of signed-in users.  A session is two entries in Redis:    *)
(* the metadata of its token, which expires, and the token in the list of  *)
(* its user, which does not.  A request is let in only if it finds both.   *)
(*                                                                         *)
(*   internal/services/auth.py, internal/cache/auth.py                     *)
(*   internal/dependencies/auth.py                                         *)
(*                                                                         *)
(* A Redis command is one action; it may raise before or after it had its  *)
(* effect.  The token of a sign-in, a fresh random string, is named by it. *)
(***************************************************************************)
EXTENDS Accounts

CONSTANTS
  Served,  \* the sign-ins that go on to save a session; the others end before (a bound)
  Check,   \* requests that present a token
  TokenOf, \* the token each one presents
  Logout   \* those of them that log out

ASSUME CheckAssumption ==
  Served \subseteq SignIn /\ Logout \subseteq Check /\ TokenOf \in [Check -> Served]

VARIABLES
  metadata,   \* the user in the metadata of each token
  tokenLists, \* the pairs of a user and a token in his list
  saving,     \* how far each sign-in has saved its session, and its answer
  check,      \* where each request is
  principal,  \* the user its token names
  \* history
  loggedOut,  \* the tokens whose logout was answered
  late        \* the requests that came after that

sessionVars == <<metadata, tokenLists, saving, check, principal, loggedOut, late>>
authVars    == <<users, closed, identity, step, account, metadata, tokenLists, saving,
                 check, principal, loggedOut, late>>

-----------------------------------------------------------------------------

AuthInit ==
  /\ AccountInit
  /\ metadata = [r \in SignIn |-> NoUser] /\ tokenLists = {}
  /\ saving = [r \in SignIn |-> "metadata"]
  /\ check = [c \in Check |-> "idle"]
  /\ principal = [c \in Check |-> NoUser]
  /\ loggedOut = {} /\ late = {}

-----------------------------------------------------------------------------
(* A sign-in saves its session *)

SaveTo(r, place) == saving' = [saving EXCEPT ![r] = place]

\* SET token EX.
SaveMetadata(r) ==
  /\ step[r] = "resolved" /\ saving[r] = "metadata"
  /\ metadata' = [metadata EXCEPT ![r] = account[r]]
  /\ SaveTo(r, "list") \/ SaveTo(r, "error")
  /\ UNCHANGED <<accountVars, tokenLists, check, principal, loggedOut, late>>

\* RPUSH token_list; then the client gets the token, if nothing else raises.
PushToken(r) ==
  /\ saving[r] = "list"
  /\ tokenLists' = tokenLists \cup {<<account[r], r>>}
  /\ SaveTo(r, "answered") \/ SaveTo(r, "error")
  /\ UNCHANGED <<accountVars, metadata, check, principal, loggedOut, late>>

\* A command raises without an effect: what was saved before it stays.
FailSave(r) ==
  /\ step[r] = "resolved" /\ saving[r] \in {"metadata", "list"}
  /\ SaveTo(r, "error")
  /\ UNCHANGED <<accountVars, metadata, tokenLists, check, principal, loggedOut, late>>

\* After TOKEN_EXPIRE_SECONDS.
ExpireMetadata(t) ==
  /\ metadata[t] # NoUser
  /\ metadata' = [metadata EXCEPT ![t] = NoUser]
  /\ UNCHANGED <<accountVars, tokenLists, saving, check, principal, loggedOut, late>>

-----------------------------------------------------------------------------
(* A request presents a token *)

CheckTo(c, place) == check' = [check EXCEPT ![c] = place]

\* verify_token: the metadata of the token names the user.
ReadMetadata(c) ==
  /\ check[c] = "idle" /\ saving[TokenOf[c]] = "answered"
  /\ principal' = [principal EXCEPT ![c] = metadata[TokenOf[c]]]
  /\ CheckTo(c, IF metadata[TokenOf[c]] = NoUser THEN "refused" ELSE "list")
  /\ late' = IF TokenOf[c] \in loggedOut THEN late \cup {c} ELSE late
  /\ UNCHANGED <<accountVars, metadata, tokenLists, saving, loggedOut>>

\* The list of that user must have the token, read by another command.
ReadTokenList(c) ==
  /\ check[c] = "list"
  /\ CheckTo(c, IF <<principal[c], TokenOf[c]>> \in tokenLists THEN "accepted" ELSE "refused")
  /\ UNCHANGED <<accountVars, metadata, tokenLists, saving, principal, loggedOut, late>>

-----------------------------------------------------------------------------
(* An accepted request logs out *)

DeleteMetadata_WrongKey(c) ==
  /\ c \in Logout /\ check[c] = "accepted"
  /\ CheckTo(c, "out") /\ loggedOut' = loggedOut \cup {TokenOf[c]}
  /\ UNCHANGED <<accountVars, metadata, tokenLists, saving, principal, late>>

\* If nothing was deleted, the token expired or another logout was faster.
DeleteMetadata(c) ==
  /\ c \in Logout /\ check[c] = "accepted"
  /\ metadata' = [metadata EXCEPT ![TokenOf[c]] = NoUser]
  /\ \/ /\ metadata[TokenOf[c]] = NoUser
        /\ CheckTo(c, "out") /\ loggedOut' = loggedOut \cup {TokenOf[c]}
     \/ metadata[TokenOf[c]] # NoUser /\ CheckTo(c, "remove") /\ UNCHANGED loggedOut
     \/ CheckTo(c, "error") /\ UNCHANGED loggedOut
  /\ UNCHANGED <<accountVars, tokenLists, saving, principal, late>>

\* Only the logout that deleted the metadata removes the token from the list.
RemoveToken(c) ==
  /\ check[c] = "remove"
  /\ tokenLists' = tokenLists \ {<<principal[c], TokenOf[c]>>}
  /\ \/ CheckTo(c, "out") /\ loggedOut' = loggedOut \cup {TokenOf[c]}
     \/ CheckTo(c, "error") /\ UNCHANGED loggedOut
  /\ UNCHANGED <<accountVars, metadata, saving, principal, late>>

\* A command raises without an effect, or the client goes away.
FailCheck(c) ==
  /\ check[c] \in {"list", "remove"} \/ (c \in Logout /\ check[c] = "accepted")
  /\ CheckTo(c, "error")
  /\ UNCHANGED <<accountVars, metadata, tokenLists, saving, principal, loggedOut, late>>

AuthNext ==
  \/ AccountNext /\ UNCHANGED sessionVars
  \/ \E r \in Served : SaveMetadata(r) \/ PushToken(r) \/ FailSave(r) \/ ExpireMetadata(r)
  \/ \E c \in Check :
       \/ ReadMetadata(c) \/ ReadTokenList(c)
       \/ DeleteMetadata(c) \/ RemoveToken(c) \/ FailCheck(c)

AuthSpec == AuthInit /\ [][AuthNext]_authVars

-----------------------------------------------------------------------------
(* Properties *)

AuthTypeOK ==
  /\ AccountTypeOK
  /\ metadata \in [SignIn -> SignIn \cup {NoUser}]
  /\ tokenLists \subseteq SignIn \X SignIn
  /\ saving \in [SignIn -> {"metadata", "list", "answered", "error"}]
  /\ check \in [Check -> {"idle", "list", "accepted", "refused", "remove", "out", "error"}]
  /\ principal \in [Check -> SignIn \cup {NoUser}]
  /\ loggedOut \subseteq SignIn /\ late \subseteq Check

LetIn(c) == check[c] \in {"accepted", "remove", "out"}

\* Once a logout has been answered, no request that comes later is let in with the token,
\* whatever failed between the two commands of the sign-in or of a logout, whichever
\* logouts and expiries raced; and a request is let in only as the user who signed in.
LogoutIsFinal ==
  \A c \in Check : LetIn(c) => c \notin late /\ principal[c] = account[TokenOf[c]]
=============================================================================
