----------------------- MODULE MCInvoiceConfirmation -----------------------
(***************************************************************************)
(* Instances of InvoiceConfirmation for TLC.                               *)
(***************************************************************************)
EXTENDS InvoiceConfirmation, TLC

CONSTANTS q1, q2, q3, q4, t1, t2, k1, k2

\* A confirmation, its retry, one of the same token with another key, and one of
\* another token with the same key.
Tokens == (q1 :> t1) @@ (q2 :> t1) @@ (q3 :> t1) @@ (q4 :> t2)
Keys   == (q1 :> k1) @@ (q2 :> k1) @@ (q3 :> k2) @@ (q4 :> k1)

\* The confirmation and its retry are interchangeable.
Retries == Permutations({q1, q2})

\* Two tokens confirmed with one key.
TwoTokens == (q1 :> t1) @@ (q4 :> t2)
SharedKey == (q1 :> k1) @@ (q4 :> k1)
=============================================================================
