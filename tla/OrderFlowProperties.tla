-------------------------- MODULE OrderFlowProperties --------------------------
(***************************************************************************)
(* What the order service must guarantee, in three groups: what holds      *)
(* however requests overlap and fail, what holds when requests about one   *)
(* order never overlap and none fails, and what the sweep must achieve.    *)
(***************************************************************************)
EXTENDS OrderFlow

Unlocks(o) == entries[o]["order_cancel"] + entries[o]["order_dispute"]
CreditCount(o) == Sum(credits[o], Txs \cup {NoTx})
AmountOf(S) == Sum([o \in S |-> orders[o].amount], S)
Status(o) == IF Exists(o) THEN orders[o].status ELSE "none"
SettledFor(o, doc) ==
  IF Sells(doc) THEN entries[o]["order_release"] > 0
                ELSE \E tx \in Txs \cup {NoTx} : credits[o][tx] > 0
Settled(o) == Status(o) \in {"completed", "cancelled"}
Resting(o) == Exists(o) /\ ~Busy(o)

-----------------------------------------------------------------------------
(* Whatever overlaps or fails *)

(* An order is marked completed only after its settlement was recorded: a    *)
(* sell order has been debited from the locked balance, a buy order has been *)
(* credited (completeRelease writes the status last, and no stale copy of    *)
(* the document can claim completion early).                                 *)
CompletedIsSettled ==
  \A o \in OrderIds : Status(o) = "completed" => SettledFor(o, orders[o])

(* A cancelled sell order has given its locked amount back at least once:    *)
(* unwindCancelledOrder and RefundFromDispute unlock before they write the   *)
(* status.                                                                   *)
CancelledIsUnlocked ==
  \A o \in OrderIds : Status(o) = "cancelled" /\ Sells(orders[o]) => Unlocks(o) > 0

(* The ledger never records a payout that Bybit did not make: however often  *)
(* releases are repeated or race, there are at least as many withdrawals for *)
(* an order as order_release debits (completeRelease debits only after the   *)
(* withdrawal succeeded).                                                    *)
DebitsArePaidOut ==
  \A o \in OrderIds : entries[o]["order_release"] <= withdrawn[o]

(* Money leaves only for sell orders, and only to an address that, trimmed,  *)
(* an admin has recorded as whitelisted (completeRelease's gate before       *)
(* Withdraw), even if the order document was rewritten from a stale copy     *)
(* meanwhile.                                                                *)
PayoutsAreWhitelisted ==
  \A o \in OrderIds : withdrawn[o] > 0 =>
    Exists(o) /\ Sells(orders[o]) /\ IsWhitelisted(orders[o].addr)

(* The merchant is credited only for deposits that Bybit has reported as     *)
(* successful.  The one exception is an order that was disputed before any   *)
(* deposit was submitted and then released: that records an entry of nothing *)
(* (CreditDeposit takes the transaction from a copy of the order, which any  *)
(* stale write may have replaced in the meantime).                           *)
CreditsAreBacked ==
  \A o \in OrderIds, tx \in Txs \cup {NoTx} : credits[o][tx] > 0 =>
    \/ tx \in arrived
    \/ /\ tx = NoTx
       /\ \E d \in DisputeIds : disputes[d] # NoDispute /\ disputes[d].order = o

(* A dispute is marked resolved only after its order was settled the way the *)
(* resolution says (Resolve closes the document last).                       *)
ResolvedDisputeIsSettled ==
  \A d \in DisputeIds : disputes[d] # NoDispute =>
    LET o == disputes[d].order
    IN  /\ disputes[d].resolution = "release_to_buyer" => SettledFor(o, orders[o])
        /\ disputes[d].resolution = "refund_to_seller" /\ Sells(orders[o]) =>
             entries[o]["order_dispute"] > 0

(* What was agreed when the order was placed (ad, taker, amount, payout      *)
(* address) survives every later whole-document write, stale ones included,  *)
(* and an order is never deleted.                                            *)
AgreementIsFinal ==
  [][\A o \in OrderIds : Exists(o) =>
       /\ orders'[o] # NoOrder
       /\ \A f \in {"ad", "taker", "amount", "addr"} : orders'[o][f] = orders[o][f]]_vars

-----------------------------------------------------------------------------
(* The inductive invariant behind the first group: what the order documents, *)
(* the copies held by requests and by the sweep, and the point each request  *)
(* has reached say about the ledger.  Every part of it only ever becomes     *)
(* truer as postings, payouts and whitelist entries are added, which is why  *)
(* stale copies cannot break it.                                             *)

SameTerms(x, y) == x.ad = y.ad /\ x.taker = y.taker /\ x.amount = y.amount /\ x.addr = y.addr

(* A copy of an order is that order's, and its status is backed by the ledger. *)
Justified(o, doc) ==
  /\ doc.status = "completed" => SettledFor(o, doc)
  /\ doc.status = "cancelled" /\ Sells(doc) => Unlocks(o) > 0

Known(o, doc) ==
  /\ o \in OrderIds /\ Exists(o) /\ doc \in OrderDoc
  /\ SameTerms(doc, orders[o]) /\ Justified(o, doc)

CreatePCs  == {"checkBalance", "insertOrder", "debitAd"}
NoOrderPCs == {"idle", "checkBalance", "insertOrder", "writeAd"}
CopyPCs    == PCs \ (CreatePCs \cup {"idle", "lockFunds", "markDisputed", "readDisputed", "writeAd"})

(* What a request holds, by how far it has got *)
HoldsCopies(r) ==
  /\ r.pc \notin NoOrderPCs => r.o \in OrderIds /\ Exists(r.o)
  /\ r.pc \in CopyPCs => Known(r.o, r.doc)
  /\ r.pc \in CreatePCs \cup {"lockFunds"} => r.doc \in OrderDoc
  /\ r.pc \in CreatePCs => /\ r.a \in Ads /\ r.ad \in AdDoc
                           /\ r.doc.status = "awaiting_payment"
                           /\ r.doc.amount <= r.ad.avail
  /\ r.pc = "restoreAd" => r.ad \in AdDoc
  /\ r.pc = "writeAd" => r.a \in Ads /\ r.ad \in AdDoc
  /\ r.op \in Resolutions => r.d \in DisputeIds
  /\ r.pc \in {"readDisputed", "closeDispute"} => r.op \in Resolutions
  /\ r.pc \in {"verifyDeposit", "writeMarked"} => r.op = "submitDeposit"
  /\ r.pc \in {"checkWhitelist", "withdraw", "debitLocked", "creditDeposit"} =>
       r.op \in {"release", "resolveRelease"}
  /\ r.pc \in {"unlock", "readAd", "restoreAd"} => r.op \in {"cancel", "resolveRefund"}

HasDone(r) ==
  /\ r.pc \in {"checkWhitelist", "withdraw", "debitLocked", "unlock"} => Sells(r.doc)
  /\ r.pc = "creditDeposit" => ~Sells(r.doc)
  /\ r.pc = "withdraw" => IsWhitelisted(r.doc.addr)
  /\ r.pc = "debitLocked" => withdrawn[r.o] > 0
  /\ r.pc \in {"readAd", "restoreAd"} /\ Sells(r.doc) => Unlocks(r.o) > 0
  /\ r.op = "resolveRefund" /\ r.pc \in {"readAd", "restoreAd", "writeOrder", "closeDispute"}
       /\ Sells(r.doc) => entries[r.o]["order_dispute"] > 0
  /\ r.op = "resolveRelease" /\ r.pc \in {"writeOrder", "closeDispute"} => SettledFor(r.o, r.doc)

RequestsJustified == \A p \in Procs : HoldsCopies(req[p]) /\ HasDone(req[p])
OrdersJustified == \A o \in OrderIds : Exists(o) => Justified(o, orders[o])
SweepJustified == \A t \in todo : Known(t.o, t.doc)
DebitsFollowPayouts ==
  \A o \in OrderIds : entries[o]["order_release"] > 0 => withdrawn[o] > 0
DisputesNameOrders ==
  \A d \in DisputeIds : disputes[d] # NoDispute => Exists(disputes[d].order)

IInv == /\ TypeOK
        /\ RequestsJustified /\ OrdersJustified /\ SweepJustified
        /\ DebitsFollowPayouts /\ PayoutsAreWhitelisted
        /\ DisputesNameOrders /\ ResolvedDisputeIsSettled

-----------------------------------------------------------------------------
(* When requests about one order do not overlap and none fails *)

(* Every order is settled exactly once: while it is live its amount is held  *)
(* and nothing has been paid; a completed order was paid out or credited     *)
(* once and not unlocked; a cancelled one was unlocked once and not paid.    *)
(* What is credited is the deposit the order's document names.               *)
SettledExactlyOnce ==
  \A o \in OrderIds : Resting(o) =>
    LET sells == Sells(orders[o])
        paid  == Status(o) = "completed"
        back  == Status(o) = "cancelled"
    IN  /\ entries[o]["order_lock"] = IF sells THEN 1 ELSE 0
        /\ entries[o]["order_release"] = IF sells /\ paid THEN 1 ELSE 0
        /\ withdrawn[o] = entries[o]["order_release"]
        /\ Unlocks(o) = IF sells /\ back THEN 1 ELSE 0
        /\ CreditCount(o) = IF ~sells /\ paid THEN 1 ELSE 0
        /\ CreditCount(o) = credits[o][orders[o].tx]

(* The status only moves along validOrderTransitions ("released" is passed   *)
(* over), into the disputed branch from a disputable state, into cancelled   *)
(* from a cancellable or disputed one; completed and cancelled are final.    *)
StatusStep(from, to) ==
  \/ from = to
  \/ CanTransition(from, to)
  \/ from = "none" /\ to = "awaiting_payment"
  \/ from = "payment_confirmed" /\ to = "completed"
  \/ IsDisputable(from) /\ to = "disputed"
  \/ from = "disputed" /\ to = "completed"
  \/ (IsCancellable(from) \/ from = "disputed") /\ to = "cancelled"

StatusMovesForward == [][\A o \in OrderIds : StatusStep(Status(o), Status(o)')]_vars

(* A completed or cancelled order stays so: no transition leads out of these *)
(* statuses, and none of them can be cancelled or disputed (order.go:23-51). *)
SettledIsFinal == [][\A o \in OrderIds : Settled(o) => Status(o)' = Status(o)]_vars

(* An order is in dispute exactly when one open dispute document names it,   *)
(* and a resolved dispute's order ended the way the resolution says.         *)
DisputeMatchesOrder ==
  \A o \in OrderIds : Resting(o) =>
    LET of == {d \in DisputeIds : disputes[d] # NoDispute /\ disputes[d].order = o}
    IN  /\ Cardinality({d \in of : disputes[d].status = "open"})
             = IF Status(o) = "disputed" THEN 1 ELSE 0
        /\ \A d \in of :
             /\ disputes[d].resolution = "release_to_buyer" => Status(o) = "completed"
             /\ disputes[d].resolution = "refund_to_seller" => Status(o) = "cancelled"

(* How far x may be from y after n roundings of amounts up to max: not at    *)
(* all while those are exact.                                                *)
Near(x, y, n, max) == x - y \in -(n * (Ulp(max) \div 2)) .. n * (Ulp(max) \div 2)

(* The merchant's locked balance, summed from the ledger, is the total of    *)
(* the sell orders that are neither completed nor cancelled, up to the three *)
(* roundings of one such sum: errors do not pile up with the entries.        *)
LockedIsLiveOrders ==
  Quiet => Near(Balance("locked"),
                AmountOf({o \in OrderIds : Exists(o) /\ Sells(orders[o]) /\ ~Settled(o)}),
                3, Posted("locked", 1))

(* The available balance never goes below zero by more than those roundings: *)
(* Create refuses an order the merchant does not have the crypto for.        *)
NeverOverdrawn ==
  \/ Balance("available") >= 0
  \/ Near(Balance("available"), 0, 3, Posted("available", 1))

(* However creates, cancellations and edits of other fields overwrite each   *)
(* other, an ad never offers less than nothing: every write takes at most    *)
(* what its own copy of the ad still offered (Create compares with it), if   *)
(* no admin types a negative amount, which ads.Update would accept.          *)
AdNeverOversold == \A a \in Ads : IsPosted(a) => ads[a].avail >= 0

(* An ad's open amount plus what its uncancelled orders took is what it was  *)
(* posted with, up to one rounding for every order taken and every one given *)
(* back, and unless an admin set its status, the ad is paused exactly when   *)
(* nothing is open.                                                          *)
AdCapacityConserved ==
  Quiet => \A a \in Ads : IsPosted(a) =>
    LET of   == {o \in OrderIds : Exists(o) /\ orders[o].ad = a}
        back == {o \in of : Status(o) = "cancelled"}
    IN  /\ Near(ads[a].avail + AmountOf(of \ back), Capacity[a],
                Cardinality(of) + Cardinality(back), Capacity[a])
        /\ ads[a].status \in
             EditStatuses \cup {IF ads[a].avail = 0 THEN "paused" ELSE "active"}

(* An ad an admin has closed is opened again only by an admin's own edit:    *)
(* neither a new order nor a cancellation's restoreAdCapacity revives it.    *)
ClosedAdStaysClosed ==
  [][\A a \in Ads : IsPosted(a) /\ ads[a].status = "closed" /\ ads'[a].status # "closed" =>
       \E w \in Workers : At(w, "writeAd") /\ req[w].a = a]_vars

(* How the settlement promise is read off the ledger and Bybit's withdrawals *)
PhaseOf(o) ==
  IF ~Exists(o) THEN "none"
  ELSE IF Sells(orders[o])
       THEN IF Unlocks(o) > 0 THEN "returned"
            ELSE IF entries[o]["order_release"] > 0 THEN "released"
            ELSE IF withdrawn[o] > 0 THEN "paying"
            ELSE IF entries[o]["order_lock"] > 0 THEN "held" ELSE "placed"
       ELSE IF \E tx \in Txs \cup {NoTx} : credits[o][tx] > 0 THEN "credited"
            ELSE IF Status(o) = "cancelled" THEN "dropped" ELSE "placed"

SideOf(o) == IF ~Exists(o) THEN "" ELSE IF Sells(orders[o]) THEN "sell" ELSE "buy"

Promise(o) == INSTANCE Settlement WITH side <- SideOf(o), phase <- PhaseOf(o),
                                       paidOut <- withdrawn[o]

(* The order service implements the settlement promise of module Settlement:  *)
(* every order's crypto is held once and leaves once, by payout or by        *)
(* return.  This is Promise(o)!Spec of every order, in the form TLC checks.  *)
ImplementsSettlement ==
  /\ \A o \in OrderIds : Promise(o)!Init
  /\ [][\A o \in OrderIds : [Promise(o)!Next]_(Promise(o)!vars)]_vars

-----------------------------------------------------------------------------
(* The sweep's purpose *)

(* ExpireStale (service.go:581) "auto-cancels every still-cancellable order  *)
(* ... whose payment deadline has passed".                                   *)
OverdueIsCancelled ==
  \A o \in OrderIds :
    (o \in overdue /\ IsCancellable(Status(o))) ~> ~IsCancellable(Status(o))
=============================================================================
