---------------------------- MODULE MCCeleryTask ----------------------------
(***************************************************************************)
(* Instances of CeleryTask for TLC.                                        *)
(***************************************************************************)
EXTENDS CeleryTask, TLC

CONSTANTS c1, c2, c3, p1, p2

\* Two submissions of one task, and one of another under the same key.
Payloads == (c1 :> p1) @@ (c2 :> p1) @@ (c3 :> p2)

\* A single submission.
OnePayload == c1 :> p1
=============================================================================
