---------------------------- MODULE MCManagedRun ----------------------------
(***************************************************************************)
(* Instances of ManagedRun for TLC.                                        *)
(***************************************************************************)
EXTENDS ManagedRun, TLC

CONSTANTS r1, r2, r3, k1, k2, lookup, invoice

\* Two resume requests of two clients.
TwoKeys == (r1 :> k1) @@ (r2 :> k2)

\* The second request is a retry of the first.
SharedKey == (r1 :> k1) @@ (r2 :> k1) @@ (r3 :> k2)

\* A tool that only reads, and one that writes a pending token.
Policies == (lookup :> "replay_safe") @@ (invoice :> "non_replayable")
=============================================================================
