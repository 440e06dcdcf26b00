------------------------------ MODULE AgentTools ------------------------------
(***************************************************************************)
(* What the read-only tools of the agents make of the arguments a model    *)
(* wrote: the calculators of a refund and of a payment, and the search of  *)
(* the knowledge base with the scope the service resolves for it.          *)
(*                                                                         *)
(*   internal/agents/order/tools.py, internal/agents/payment/tools.py,     *)
(*   internal/services/rag.py (scope)                                      *)
(*                                                                         *)
(* Amounts are integers of cents without a bound.  The refund is split     *)
(* into yuan and cents with divmod; the payment is divided by 100 as a     *)
(* floating point number and formatted with two digits.  A float has a     *)
(* mantissa of Bits bits, 53 in the program.                               *)
(***************************************************************************)
EXTENDS Integers

CONSTANTS
  Refunds, Totals, Searches,  \* the calls of the three tools, with their arguments
  AllowedKbs,                 \* the knowledge bases of the settings
  Bits

ASSUME ToolsAssumption ==
  /\ AllowedKbs \subseteq Nat \ {0} /\ Bits \in Nat \ {0}
  /\ Refunds \cap Totals = {} /\ Refunds \cap Searches = {} /\ Totals \cap Searches = {}
  /\ \A c \in Refunds : {c.price.n, c.quantity.n, c.shipping.n, c.discount.n} \subseteq Int
  /\ \A c \in Totals : {c.item.n, c.shipping.n, c.discount.n} \subseteq Int
  /\ \A c \in Searches : c.top_k.n \in Int

VARIABLES
  call,   \* a call, an element of one of the three sets
  result  \* its result, a refusal, or NoResult before it

toolVars == <<call, result>>

\* An argument is absent, null, a bool, a text or an integer.
Integer(n)  == [is |-> "int", n |-> n]
Lacking(is) == [is |-> is, n |-> 0]

NoResult == [ok |-> FALSE, done |-> FALSE]
Refused  == [ok |-> FALSE, done |-> TRUE]

-----------------------------------------------------------------------------
(* Amounts *)

Reads(a, optional) == a.is = "int" \/ (optional /\ a.is = "absent")

\* The calculator of payments checks the sign when it reads a number.
ReadsAmount(a, optional) == Reads(a, optional) /\ a.n >= 0

Gross(c) == c.price.n * c.quantity.n + c.shipping.n

RefundIsValid(c) ==
  /\ Reads(c.price, FALSE) /\ Reads(c.quantity, FALSE)
  /\ Reads(c.shipping, TRUE) /\ Reads(c.discount, TRUE)
  /\ c.price.n >= 0 /\ c.quantity.n >= 1 /\ c.shipping.n >= 0 /\ c.discount.n >= 0
  /\ c.discount.n <= Gross(c)

TotalIsValid(c) ==
  /\ ReadsAmount(c.item, FALSE) /\ ReadsAmount(c.shipping, TRUE) /\ ReadsAmount(c.discount, TRUE)
  /\ c.discount.n <= c.item.n + c.shipping.n

\* An amount in cents, and the yuan and cents of the text that tells it.
Split(amount, told) ==
  [ok |-> TRUE, amount |-> amount, yuan |-> told \div 100, cents |-> told % 100]

RoundHalfEven(a, b) ==
  LET q == a \div b
      r == a % b
  IN IF 2 * r > b \/ (2 * r = b /\ q % 2 = 1) THEN q + 1 ELSE q

\* Powers of two.
Power[k \in Nat] == IF k = 0 THEN 1 ELSE 2 * Power[k - 1]

\* The float nearest to amount / 100 has Bits bits: amount / 100 is below 2^(Exponent - 7),
\* and at least half of it.
Exponent(amount) ==
  CHOOSE e \in 0 .. amount + 7 : 128 * amount \in 50 * Power[e] .. 100 * Power[e] - 1
Mantissa(amount) == RoundHalfEven(128 * Power[Bits] * amount, 100 * Power[Exponent(amount)])

\* Hundred times the float, as a fraction.
Numerator(amount) == 100 * Mantissa(amount) * Power[Exponent(amount)]
Denominator       == 128 * Power[Bits]

FormatFloat_Truncates(amount) ==
  Split(amount, IF amount = 0 THEN 0 ELSE Numerator(amount) \div Denominator)

\* Formatting rounds the exact value of the float to two digits.
FormatFloat(amount) ==
  Split(amount, IF amount = 0 THEN 0 ELSE RoundHalfEven(Numerator(amount), Denominator))

CalculateRefund ==
  /\ call \in Refunds /\ result = NoResult
  /\ result' = LET amount == Gross(call) - call.discount.n
               IN  IF RefundIsValid(call) THEN Split(amount, amount) ELSE Refused
  /\ UNCHANGED call

CalculateTotal ==
  /\ call \in Totals /\ result = NoResult
  /\ result' = IF TotalIsValid(call)
               THEN FormatFloat(call.item.n + call.shipping.n - call.discount.n) ELSE Refused
  /\ UNCHANGED call

-----------------------------------------------------------------------------
(* Search *)

\* Nothing, null, False and 0 are the default; True is 1; a text may be a number.
ResultCount(a) ==
  LET k == IF a.n = 0 THEN 3 ELSE a.n
  IN IF k > 5 THEN 5 ELSE IF k < 1 THEN 1 ELSE k

KbsAreValid(k) ==
  \/ k.is \in {"absent", "null"}
  \/ k.is = "list" /\ k.ids \subseteq Nat \ {0}

SearchIsValid(c) == c.query # "" /\ c.top_k.is # "words" /\ KbsAreValid(c.kb_ids)

EffectiveKbs(k) == IF k.is = "list" THEN AllowedKbs \cap k.ids ELSE AllowedKbs

\* An empty scope is answered without a search.
SearchKnowledge ==
  /\ call \in Searches /\ result = NoResult
  /\ result' = IF SearchIsValid(call) /\ EffectiveKbs(call.kb_ids) # {}
               THEN [ok |-> TRUE, kbs |-> EffectiveKbs(call.kb_ids), final_k |-> ResultCount(call.top_k)]
               ELSE Refused
  /\ UNCHANGED call

-----------------------------------------------------------------------------

ToolsInit == call \in Refunds \cup Totals \cup Searches /\ result = NoResult

ToolsNext == CalculateRefund \/ CalculateTotal \/ SearchKnowledge

ToolsSpec == ToolsInit /\ [][ToolsNext]_toolVars

-----------------------------------------------------------------------------
(* Properties *)

\* A call is answered once, with an amount, a search or a refusal.
ToolsTypeOK ==
  /\ call \in Refunds \cup Totals \cup Searches
  /\ result \in {NoResult, Refused}
       \/ IF call \in Searches THEN result.kbs \subseteq AllowedKbs ELSE result.amount \in Int

\* The text of an amount is one of yuan and cents, never negative, and it is, in yuan, the
\* amount in cents that was calculated, which makes up the gross amount with the discount.
IsAmount == result.amount >= 0 /\ result.cents \in 0 .. 99
IsExact(gross, discount) ==
  100 * result.yuan + result.cents = result.amount /\ result.amount + discount.n = gross

\* So it is for every refund, and for a payment as long as it has at most half of the cents
\* the mantissa of a float can tell apart.
RefundIsExact == result.ok /\ call \in Refunds => IsAmount /\ IsExact(Gross(call), call.discount)
TotalIsExact ==
  result.ok /\ call \in Totals =>
    /\ IsAmount
    /\ result.amount < Power[Bits - 1] => IsExact(call.item.n + call.shipping.n, call.discount)

\* A search sees knowledge bases that the settings allow and, when the model names any,
\* even none, only those it named.
SearchIsInScope ==
  result.ok /\ call \in Searches =>
    /\ result.kbs \subseteq AllowedKbs /\ result.final_k \in 1 .. 5
    /\ call.kb_ids.is = "list" => result.kbs \subseteq call.kb_ids.ids

\* A tool answers the question that was asked, or refuses.
ToolsAreExact == RefundIsExact /\ TotalIsExact /\ SearchIsInScope
=============================================================================
