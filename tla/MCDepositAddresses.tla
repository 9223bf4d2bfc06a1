-------------------------- MODULE MCDepositAddresses --------------------------
(* A small instance of the deposit address registry for TLC. *)
EXTENDS DepositAddresses, TLC

CONSTANTS usdt, btc, w1, w2, x, y, padded, blank

(* "padded" is x with blanks around it, "blank" is nothing but blanks. *)
Trim == [t \in Texts |-> CASE t = padded -> x [] t = blank -> Empty [] OTHER -> t]
=============================================================================
