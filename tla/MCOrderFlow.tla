------------------------------ MODULE MCOrderFlow ------------------------------
(* Small instances of the order service for TLC. *)
EXTENDS OrderFlowProperties, TLC

CONSTANTS sell, buy, t1, w1, w2, addr, padded, tx1, tx2

SellCapacity == [a \in Ads |-> 2]

(* Two creates that race for the buy ad's only unit both find it open. *)
ContestedCapacity == [a \in Ads |-> IF a = buy THEN 1 ELSE 2]
RoundedCapacity == [a \in Ads |-> 26]

(* "padded" is addr with blanks around it. *)
Trim == [a \in Addresses |-> addr]

OneUnitDeposits == [tx \in Txs |-> 1]

(* What ads.Update accepts from an admin who typed a wrong number *)
NegativeAmount == {-1}

WorkerSymmetry == Permutations(Workers)
=============================================================================
