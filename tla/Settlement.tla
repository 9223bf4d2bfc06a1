------------------------------ MODULE Settlement ------------------------------
(***************************************************************************)
(* What the exchange promises about one order's crypto, with no request,   *)
(* document or database in sight.  A sell order's amount is held when the  *)
(* order is opened and leaves the hold once: paid out to the buyer and     *)
(* then debited, or returned to the merchant.  A buy order holds nothing;  *)
(* it ends with the deposit credited, or dropped.                          *)
(***************************************************************************)
EXTENDS Naturals

VARIABLES
  side,     \* "sell", "buy", or "" before the order is placed
  phase,
  paidOut   \* withdrawals made for the order

vars == <<side, phase, paidOut>>

Move(s, from, to) ==
  /\ phase = from /\ side = s
  /\ phase' = to
  /\ UNCHANGED <<side, paidOut>>

Place ==
  /\ phase = "none"
  /\ phase' = "placed" /\ side' \in {"sell", "buy"}
  /\ UNCHANGED paidOut

Hold     == Move("sell", "placed", "held")
GiveBack == Move("sell", "held", "returned")
Debit    == Move("sell", "paying", "released")
Credit   == Move("buy", "placed", "credited")
Drop     == Move("buy", "placed", "dropped")

PayOut ==
  /\ phase = "held" /\ side = "sell"
  /\ phase' = "paying"
  /\ paidOut' = paidOut + 1
  /\ UNCHANGED side

Init == side = "" /\ phase = "none" /\ paidOut = 0

Next == Place \/ Hold \/ PayOut \/ Debit \/ GiveBack \/ Credit \/ Drop

Spec == Init /\ [][Next]_vars
=============================================================================
