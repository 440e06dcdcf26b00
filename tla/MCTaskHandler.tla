--------------------------- MODULE MCTaskHandler ---------------------------
(***************************************************************************)
(* Instances of TaskHandler for TLC.                                       *)
(***************************************************************************)
EXTENDS TaskHandler, TLC

CONSTANTS a1, a2, b1, a, b

\* Two submissions share an identifier.
Ids == (a1 :> a) @@ (a2 :> a) @@ (b1 :> b)
=============================================================================
