-------------------------- MODULE OrderFlowSerialProofs --------------------------
(***************************************************************************)
(* Proofs about requests that do not disturb each other: at most one at a  *)
(* time about an order, none of which fails.  Any number of them about     *)
(* different orders may still overlap.  This restricts the environment,    *)
(* not the code, which lets requests overlap as they come.                 *)
(*                                                                         *)
(* The argument: an order that no request is about has its books in        *)
(* balance for the status in its document, and one open dispute exactly    *)
(* when that status is "disputed" (RestingOrders).  A request may be ahead *)
(* of the document by the one thing it has just done; how far is read off  *)
(* the point it has reached (RequestsOnCourse).  Nobody else touches the   *)
(* order meanwhile (OnePerOrder), so its copy is current when it writes.   *)
(***************************************************************************)
EXTENDS OrderFlowBackingProofs, SumLemmas

Undisturbed == Overlap # "anyOrder" /\ MaxFailures = 0

OnePerOrder ==
  /\ \A p \in Procs : req[p].pc \in NoOrderPCs => req[p].o = 0
  /\ \A p, q \in Procs : req[p].o = req[q].o /\ req[p].o # 0 => p = q
  /\ \A p \in Procs : \A t \in todo : req[p].o # t.o
  /\ \A s, t \in todo : s.o = t.o => s = t

(* What the sweep has listed has not changed since. *)
SweepIsCurrent ==
  \A t \in todo : t.doc.tx = orders[t.o].tx /\ IsCancellable(orders[t.o].status)

(* The open disputes about an order *)
OpenOn(o) ==
  {d \in DisputeIds : disputes[d] # NoDispute /\ disputes[d].order = o /\ disputes[d].status = "open"}

(* The books of order o: its amount has been locked "held" times, it is      *)
(* "ahead" withdrawals ahead of the ledger, it is settled as one in status s *)
(* is, and it has an open dispute or has none.                              *)
Account(o, held, ahead, s, opened) ==
  LET sells == Sells(orders[o])
  IN  /\ entries[o]["order_lock"] = IF sells THEN held ELSE 0
      /\ entries[o]["order_release"] = IF sells /\ s = "completed" THEN 1 ELSE 0
      /\ Unlocks(o) = IF sells /\ s = "cancelled" THEN 1 ELSE 0
      /\ withdrawn[o] = entries[o]["order_release"] + ahead
      /\ \A tx \in Txs \cup {NoTx} :
           credits[o][tx] = IF ~sells /\ s = "completed" /\ tx = orders[o].tx THEN 1 ELSE 0
      /\ IF opened THEN \E d \in DisputeIds : OpenOn(o) = {d} ELSE OpenOn(o) = {}

AtRest(o) == Account(o, 1, 0, orders[o].status, orders[o].status = "disputed")

RestingOrders ==
  \A o \in OrderIds : Exists(o) /\ (\A p \in Procs : req[p].o # o) => AtRest(o)

(* The statuses a request's last write takes an order from, and to *)
Leaves(op, s) ==
  \/ op = "markPaid" /\ s = "awaiting_payment"
  \/ op \in {"confirmPayment", "submitDeposit"} /\ s = "payment_marked"
  \/ op = "release" /\ s = "payment_confirmed"
  \/ op = "raise" /\ IsDisputable(s)
  \/ op \in Resolutions /\ s = "disputed"
  \/ op = "cancel" /\ IsCancellable(s)

EndsIn(op) ==
  CASE op = "markPaid" -> "payment_marked"
    [] op \in {"confirmPayment", "submitDeposit"} -> "payment_confirmed"
    [] op = "raise" -> "disputed"
    [] op \in {"release", "resolveRelease"} -> "completed"
    [] OTHER -> "cancelled"

SettlingPCs == {"checkWhitelist", "withdraw", "debitLocked", "creditDeposit",
                "unlock", "readAd", "restoreAd", "writeOrder"}

(* How the request's copy and its order's document are related *)
Fits(r) ==
  /\ r.pc \in CopyPCs \ {"verifyDeposit", "writeMarked"} => r.doc.tx = orders[r.o].tx
  /\ r.pc \in {"debitAd", "lockFunds"} => orders[r.o].status = "awaiting_payment"
  /\ r.pc = "debitAd" => (Sells(r.doc) <=> Sells(orders[r.o]))
  /\ r.pc = "lockFunds" => Sells(orders[r.o])
  /\ r.pc \in {"verifyDeposit", "writeMarked"} => orders[r.o].status = "awaiting_payment"
  /\ r.pc = "writeMarked" => r.doc.status = "payment_marked"
  /\ r.pc \in SettlingPCs => Leaves(r.op, orders[r.o].status)
  /\ r.pc = "writeOrder" => r.doc.status = EndsIn(r.op)
  /\ r.pc = "openDispute" => r.op = "raise" /\ orders[r.o].status = "disputed"
  /\ r.pc = "closeDispute" => orders[r.o].status = EndsIn(r.op)
  /\ r.op \in Resolutions /\ r.pc \notin {"debitAd", "lockFunds"} => OpenOn(r.o) = {r.d}

Held(r) == IF r.pc \in {"debitAd", "lockFunds"} THEN 0 ELSE 1
Ahead(r) == IF r.pc = "debitLocked" THEN 1 ELSE 0
BookedAs(r) == IF r.pc \in {"readAd", "restoreAd"} THEN "cancelled"
               ELSE IF r.pc = "writeOrder" THEN r.doc.status ELSE orders[r.o].status
Opened(r) == IF r.pc = "openDispute" THEN FALSE
             ELSE IF r.pc = "closeDispute" THEN TRUE ELSE orders[r.o].status = "disputed"

OnCourse(r) == Fits(r) /\ Account(r.o, Held(r), Ahead(r), BookedAs(r), Opened(r))

RequestsOnCourse == \A p \in Procs : req[p].o # 0 => OnCourse(req[p])

(* Nothing is recorded for an order that has not been placed.               *)
Unplaced ==
  \A o \in OrderIds : ~Exists(o) =>
    /\ \A r \in Reasons : entries[o][r] = 0
    /\ withdrawn[o] = 0 /\ \A tx \in Txs \cup {NoTx} : credits[o][tx] = 0

(* A dispute is resolved once, after its order has been settled for good.   *)
ResolutionsHold ==
  \A d \in DisputeIds : disputes[d] # NoDispute =>
    LET o == disputes[d].order
    IN  /\ disputes[d].resolution # "" => disputes[d].status = "resolved"
        /\ disputes[d].resolution = "release_to_buyer" => orders[o].status = "completed"
        /\ disputes[d].resolution = "refund_to_seller" => orders[o].status = "cancelled"

SerialInv == /\ OnePerOrder /\ SweepIsCurrent /\ RestingOrders /\ RequestsOnCourse
             /\ Unplaced /\ ResolutionsHold

-----------------------------------------------------------------------------
(* Frames *)

(* What the invariant reads of order n has not changed. *)
Alone(n) ==
  /\ orders'[n] = orders[n] /\ entries'[n] = entries[n] /\ credits'[n] = credits[n]
  /\ withdrawn'[n] = withdrawn[n] /\ OpenOn(n)' = OpenOn(n)

LEMMA AloneKeeps ==
  ASSUME NEW n, Alone(n)
  PROVE  /\ \A h, a, s, b : Account(n, h, a, s, b)' <=> Account(n, h, a, s, b)
         /\ AtRest(n)' <=> AtRest(n)
         /\ \A r : r.o = n => (OnCourse(r)' <=> OnCourse(r))
<1>1. \A h, a, s, b : Account(n, h, a, s, b)' <=> Account(n, h, a, s, b)
  BY DEF Alone, Account, Unlocks, Sells
<1>2. AtRest(n)' <=> AtRest(n)
  BY <1>1 DEF AtRest, Alone
<1>3. ASSUME NEW r, r.o = n PROVE OnCourse(r)' <=> OnCourse(r)
  <2>1. Fits(r)' <=> Fits(r)
    BY <1>3 DEF Fits, Alone, Sells
  <2>2. BookedAs(r)' = BookedAs(r) /\ Opened(r)' = Opened(r)
    BY <1>3 DEF BookedAs, Opened, Alone
  <2>3. Account(r.o, Held(r), Ahead(r), BookedAs(r), Opened(r))'
          <=> Account(r.o, Held(r), Ahead(r), BookedAs(r), Opened(r))
    BY <1>1, <1>3, <2>2 DEF Held, Ahead
  <2> QED BY <2>1, <2>3 DEF OnCourse
<1> QED BY <1>1, <1>2, <1>3

(* A step of p about order o: the others and their orders stay as they are. *)
LEMMA OrderStep ==
  ASSUME IInv, SerialInv, NEW p \in Procs, OnlyMoves(p), NEW o \in OrderIds,
         req[p].o \in {0, o}, req'[p].o \in {0, o},
         \A q \in Procs \ {p} : req[q].o # o,
         todo' \subseteq todo, \A t \in todo' : t.o # o,
         \A n \in OrderIds \ {o} : Alone(n),
         req'[p].pc \in NoOrderPCs => req'[p].o = 0,
         Exists(o)',
         req'[p].o = o => OnCourse(req[p])',
         req'[p].o = 0 => AtRest(o)',
         ResolutionsHold'
  PROVE  SerialInv'
<1>1. \A q \in Procs \ {p} : req'[q] = req[q]
  BY DEF OnlyMoves
<1>2. o # 0 /\ \A t \in todo : t.o \in OrderIds /\ t.o # 0
  BY DEF IInv, TypeOK, OrderIds
<1>3. \A q \in Procs : req[q].o \in OrderIds \cup {0}
  BY DEF IInv, TypeOK, Request
<1>4. OnePerOrder'
  <2>1. \A q \in Procs : req'[q].pc \in NoOrderPCs => req'[q].o = 0
    BY <1>1 DEF SerialInv, OnePerOrder
  <2>2. \A q, q2 \in Procs : req'[q].o = req'[q2].o /\ req'[q].o # 0 => q = q2
    BY <1>1 DEF SerialInv, OnePerOrder
  <2>3. \A q \in Procs : \A t \in todo' : req'[q].o # t.o
    BY <1>1, <1>2 DEF SerialInv, OnePerOrder
  <2>4. \A s, t \in todo' : s.o = t.o => s = t
    BY DEF SerialInv, OnePerOrder
  <2> QED BY <2>1, <2>2, <2>3, <2>4 DEF OnePerOrder
<1>5. SweepIsCurrent'
  BY <1>2 DEF SerialInv, SweepIsCurrent, Alone
<1>6. RestingOrders'
  <2>1. ASSUME NEW n \in OrderIds, Exists(n)', \A q \in Procs : req'[q].o # n PROVE AtRest(n)'
    <3>1. CASE n = o
      BY <2>1, <3>1
    <3>2. CASE n # o
      <4>1. Alone(n) /\ Exists(n) /\ n # 0
        BY <2>1, <3>2 DEF Alone, Exists, OrderIds
      <4>2. \A q \in Procs : req[q].o # n
        BY <1>1, <2>1, <3>2, <4>1
      <4> QED BY <4>1, <4>2, AloneKeeps DEF SerialInv, RestingOrders
    <3> QED BY <3>1, <3>2
  <2> QED BY <2>1 DEF RestingOrders
<1>7. RequestsOnCourse'
  <2>1. ASSUME NEW q \in Procs, req'[q].o # 0 PROVE OnCourse(req[q])'
    <3>1. CASE q = p
      BY <2>1, <3>1
    <3>2. CASE q # p
      <4>1. PICK r : r = req[q] /\ r = req'[q]
        BY <1>1, <3>2
      <4>2. r.o \in OrderIds \ {o} /\ r.o # 0
        BY <1>3, <2>1, <3>2, <4>1
      <4>3. OnCourse(r)
        BY <4>1, <4>2 DEF SerialInv, RequestsOnCourse
      <4>4. OnCourse(r)'
        BY <4>2, <4>3, AloneKeeps
      <4> QED BY <4>1, <4>4 DEF OnCourse, Fits, Held, Ahead, BookedAs, Opened
    <3> QED BY <3>1, <3>2
  <2> QED BY <2>1 DEF RequestsOnCourse
<1>8. Unplaced'
  BY DEF SerialInv, Unplaced, Alone, Exists
<1> QED BY <1>4, <1>5, <1>6, <1>7, <1>8 DEF SerialInv

(* Documents, ledger, withdrawals and disputes unchanged *)
SameBooks == UNCHANGED <<orders, entries, credits, withdrawn, disputes>>

LEMMA SameBooksKeep ==
  ASSUME SameBooks
  PROVE  /\ \A n : Alone(n)
         /\ \A n : AtRest(n)' <=> AtRest(n)
         /\ \A r : OnCourse(r)' <=> OnCourse(r)
         /\ ResolutionsHold' <=> ResolutionsHold
         /\ \A n : Exists(n)' <=> Exists(n)
<1>1. \A n : Alone(n)
  BY DEF SameBooks, Alone, OpenOn
<1>2. ResolutionsHold' <=> ResolutionsHold
  BY DEF SameBooks, ResolutionsHold
<1> QED BY <1>1, <1>2, AloneKeeps DEF SameBooks, Exists

(* A step of p about order o that changes no books *)
LEMMA MoveStep ==
  ASSUME IInv, SerialInv, SameBooks, NEW p \in Procs, OnlyMoves(p), NEW o \in OrderIds, Exists(o),
         req[p].o \in {0, o}, \A q \in Procs \ {p} : req[q].o # o,
         todo' \subseteq todo, \A t \in todo' : t.o # o,
         NEW r, req'[p] = r,
         \/ r.pc \in NoOrderPCs /\ r.o = 0 /\ AtRest(o)
         \/ r.pc \notin NoOrderPCs /\ r.o = o /\ OnCourse(r)
  PROVE  SerialInv'
<1>1. /\ \A n \in OrderIds \ {o} : Alone(n)
      /\ Exists(o)' /\ ResolutionsHold'
  BY SameBooksKeep DEF SerialInv
<1>2. o # 0
  BY DEF OrderIds
<1>3. r.o = 0 => AtRest(o)'
  BY <1>2, SameBooksKeep
<1>4. r.o = o => OnCourse(req[p])'
  <2>1. r.o = o => OnCourse(r)'
    BY <1>2, SameBooksKeep
  <2> QED BY <2>1 DEF OnCourse, Fits, Held, Ahead, BookedAs, Opened
<1> QED BY <1>1, <1>2, <1>3, <1>4, OrderStep

(* Requests that are about no order yet, and what happens outside *)
LEMMA NoOrderStep ==
  ASSUME IInv, SerialInv, SameBooks, todo' = todo,
         \A p \in Procs : \/ req'[p] = req[p]
                          \/ req[p].o = 0 /\ req'[p].o = 0
  PROVE  SerialInv'
<1>1. /\ \A n : Alone(n)
      /\ \A n : Exists(n)' <=> Exists(n)
      /\ ResolutionsHold'
  BY SameBooksKeep DEF SerialInv
<1>2. \A p \in Procs : req'[p].o = req[p].o
  OBVIOUS
<1>3. OnePerOrder'
  BY <1>2 DEF SerialInv, OnePerOrder
<1>4. SweepIsCurrent'
  BY DEF SerialInv, SweepIsCurrent, SameBooks
<1>5. RestingOrders'
  BY <1>1, <1>2, SameBooksKeep DEF SerialInv, RestingOrders
<1>6. RequestsOnCourse'
  <2>1. ASSUME NEW p \in Procs, req'[p].o # 0 PROVE OnCourse(req[p])'
    <3>1. PICK r : r = req[p] /\ r = req'[p]
      BY <2>1
    <3>2. OnCourse(r)'
      BY <2>1, <3>1, SameBooksKeep DEF SerialInv, RequestsOnCourse
    <3> QED BY <3>1, <3>2 DEF OnCourse, Fits, Held, Ahead, BookedAs, Opened
  <2> QED BY <2>1 DEF RequestsOnCourse
<1>7. Unplaced'
  BY <1>1 DEF SerialInv, Unplaced, SameBooks
<1> QED BY <1>1, <1>3, <1>4, <1>5, <1>6, <1>7 DEF SerialInv

-----------------------------------------------------------------------------
(* What is known of a request under way, and of an order a request may begin *)
(* with                                                                      *)

LEMMA UnderWay ==
  ASSUME IInv, SerialInv, NEW p \in Procs, req[p].pc \notin NoOrderPCs, NEW r, r = req[p]
  PROVE  /\ r.o \in OrderIds /\ r.o # 0 /\ Exists(r.o)
         /\ \A q \in Procs \ {p} : req[q].o # r.o
         /\ \A t \in todo : t.o # r.o
         /\ OnCourse(r) /\ HoldsCopies(r) /\ HasDone(r)
         /\ r.pc \in CopyPCs => /\ r.doc \in OrderDoc
                                /\ Sells(r.doc) <=> Sells(orders[r.o])
                                /\ r.doc.status \in OrderStatuses
<1>1. HoldsCopies(r) /\ HasDone(r)
  BY DEF IInv, RequestsJustified
<1>2. r.o \in OrderIds /\ r.o # 0 /\ Exists(r.o)
  BY <1>1 DEF HoldsCopies, OrderIds
<1>3. /\ \A q \in Procs \ {p} : req[q].o # r.o
      /\ \A t \in todo : t.o # r.o
      /\ OnCourse(r)
  BY <1>2 DEF SerialInv, OnePerOrder, RequestsOnCourse
<1>4. r.pc \in CopyPCs => /\ r.doc \in OrderDoc
                          /\ Sells(r.doc) <=> Sells(orders[r.o])
                          /\ r.doc.status \in OrderStatuses
  BY <1>1 DEF HoldsCopies, Known, SameTerms, Sells, OrderDoc
<1> QED BY <1>1, <1>2, <1>3, <1>4

LEMMA MayBegin ==
  ASSUME Undisturbed, IInv, SerialInv, NEW o \in OrderIds, Exists(o), MayTouch(o)
  PROVE  /\ \A q \in Procs : req[q].o # o
         /\ \A t \in todo : t.o # o
         /\ AtRest(o) /\ ResolutionsHold
<1>1. ~Busy(o)
  <2>1. CASE Overlap = "otherOrders"
    BY <2>1 DEF MayTouch
  <2>2. CASE Overlap # "otherOrders"
    <3>1. Quiet
      BY <2>2, OrderFlowAssumption DEF MayTouch, OrderFlowAssumption, Undisturbed
    <3>2. todo = {} /\ \A q \in Procs : req[q].o = 0
      BY <3>1 DEF Quiet, SerialInv, OnePerOrder, NoOrderPCs
    <3> QED BY <3>2 DEF Busy, OrderIds
  <2> QED BY <2>1, <2>2
<1> QED BY <1>1 DEF Busy, SerialInv, RestingOrders

(* The books of an order look the same in all statuses it is not settled in. *)
LEMMA SameAccount ==
  ASSUME NEW o, NEW h, NEW a, NEW s, NEW t, NEW b, Account(o, h, a, s, b),
         s = "completed" <=> t = "completed",
         Sells(orders[o]) => (s = "cancelled" <=> t = "cancelled")
  PROVE  Account(o, h, a, t, b)
  BY DEF Account

(* An order that may still be settled is not settled. *)
LEMMA LeavesLive ==
  ASSUME NEW op, NEW s, Leaves(op, s)
  PROVE  s # "completed" /\ s # "cancelled" /\ (s = "disputed" <=> op \in Resolutions)
  BY DEF Leaves, IsDisputable, IsCancellable, Resolutions

-----------------------------------------------------------------------------
(* Requests that begin *)

(* A request that begins with a copy of the order as it is *)
LEMMA BeginStep ==
  ASSUME Undisturbed, IInv, SerialInv, SameBooks, NEW p \in Procs,
         NEW o \in OrderIds, Exists(o), req[p].o \in {0, o}, \A q \in Procs \ {p} : req[q].o # o,
         AtRest(o),
         NEW op, NEW pc, NEW doc, Start(p, op, pc, o, doc),
         todo' \subseteq todo, \A t \in todo' : t.o # o,
         op \notin Resolutions,
         \/ pc = "markDisputed"
         \/ pc = "verifyDeposit" /\ orders[o].status = "awaiting_payment"
         \/ /\ pc = "writeOrder" /\ doc.tx = orders[o].tx
            /\ Leaves(op, orders[o].status) /\ doc.status = EndsIn(op)
            /\ op \in {"markPaid", "confirmPayment", "raise"}
         \/ /\ pc \in {"checkWhitelist", "creditDeposit", "unlock"} /\ doc.tx = orders[o].tx
            /\ Leaves(op, orders[o].status)
         \/ /\ pc = "readAd" /\ doc.tx = orders[o].tx /\ ~Sells(orders[o])
            /\ Leaves(op, orders[o].status)
  PROVE  SerialInv'
<1>1. /\ OnlyMoves(p)
      /\ req'[p].pc = pc /\ req'[p].op = op /\ req'[p].o = o /\ req'[p].doc = doc
  BY StartFields DEF IInv
<1>2. PICK r : r = req'[p]
  OBVIOUS
<1>3. pc \notin NoOrderPCs
  BY DEF NoOrderPCs
<1>4. Held(r) = 1 /\ Ahead(r) = 0 /\ Opened(r) = (orders[o].status = "disputed")
  BY <1>1, <1>2 DEF Held, Ahead, Opened
<1>5. Account(o, 1, 0, orders[o].status, orders[o].status = "disputed")
  BY DEF AtRest
<1>6. Account(o, 1, 0, BookedAs(r), orders[o].status = "disputed")
  <2>1. CASE pc \in {"writeOrder", "readAd"}
    <3>1. orders[o].status # "completed" /\ orders[o].status # "cancelled"
      BY <2>1, LeavesLive
    <3>2. BookedAs(r) # "completed" /\ (Sells(orders[o]) => BookedAs(r) # "cancelled")
      BY <1>1, <1>2, <2>1 DEF BookedAs, EndsIn, Resolutions
    <3> QED BY <1>5, <3>1, <3>2, SameAccount
  <2>2. CASE pc \notin {"writeOrder", "readAd"}
    <3>1. BookedAs(r) = orders[o].status
      BY <1>1, <1>2, <2>2 DEF BookedAs
    <3> QED BY <1>5, <3>1
  <2> QED BY <2>1, <2>2
<1>7. Fits(r)
  BY <1>1, <1>2 DEF Fits, CopyPCs, SettlingPCs, PCs, CreatePCs
<1>8. OnCourse(r)
  BY <1>1, <1>2, <1>4, <1>6, <1>7 DEF OnCourse
<1> QED BY <1>1, <1>2, <1>3, <1>8, MoveStep

LEMMA BeginSteps ==
  ASSUME Undisturbed, IInv, SerialInv, NEW w \in Workers, NEW o \in OrderIds, NEW u,
         \/ MarkPaid(w, o, u) \/ ConfirmPayment(w, o, u) \/ RaiseDispute(w, o, u)
         \/ Cancel(w, o, u) \/ Release(w, o) \/ \E tx \in Txs : SubmitDeposit(w, o, u, tx)
  PROVE  SerialInv'
<1>1. /\ At(w, "idle") /\ Exists(o) /\ MayTouch(o) /\ SameBooks /\ todo' = todo
      /\ w \in Procs
  BY DEF MarkPaid, ConfirmPayment, RaiseDispute, Cancel, Release, SubmitDeposit, SameBooks, ledger, Procs
<1>2. /\ \A q \in Procs \ {w} : req[q].o # o
      /\ \A t \in todo' : t.o # o
      /\ AtRest(o)
  BY <1>1, MayBegin
<1>3. req[w].o = 0
  BY <1>1 DEF At, SerialInv, OnePerOrder, NoOrderPCs
<1>4. orders[o] \in OrderDoc
  BY <1>1 DEF IInv, TypeOK, Exists
<1>5. CASE MarkPaid(w, o, u)
  <2> DEFINE doc == [orders[o] EXCEPT !.status = "payment_marked"]
  <2>1. doc.tx = orders[o].tx /\ doc.status = "payment_marked"
    BY <1>4 DEF OrderDoc
  <2>2. Start(w, "markPaid", "writeOrder", o, doc) /\ orders[o].status = "awaiting_payment"
    BY <1>5 DEF MarkPaid, CanTransition, ValidTransitions
  <2> HIDE DEF doc
  <2>3. Leaves("markPaid", orders[o].status) /\ doc.status = EndsIn("markPaid")
        /\ "markPaid" \notin Resolutions
    BY <2>1, <2>2 DEF Leaves, EndsIn, Resolutions
  <2> QED BY <1>1, <1>2, <1>3, <2>1, <2>2, <2>3, BeginStep
<1>6. CASE ConfirmPayment(w, o, u)
  <2> DEFINE doc == [orders[o] EXCEPT !.status = "payment_confirmed"]
  <2>1. doc.tx = orders[o].tx /\ doc.status = "payment_confirmed"
    BY <1>4 DEF OrderDoc
  <2>2. Start(w, "confirmPayment", "writeOrder", o, doc) /\ orders[o].status = "payment_marked"
    BY <1>6 DEF ConfirmPayment, CanTransition, ValidTransitions
  <2> HIDE DEF doc
  <2>3. Leaves("confirmPayment", orders[o].status) /\ doc.status = EndsIn("confirmPayment")
        /\ "confirmPayment" \notin Resolutions
    BY <2>1, <2>2 DEF Leaves, EndsIn, Resolutions
  <2> QED BY <1>1, <1>2, <1>3, <2>1, <2>2, <2>3, BeginStep
<1>7. CASE RaiseDispute(w, o, u)
  <2>1. Start(w, "raise", "markDisputed", o, NoOrder) /\ "raise" \notin Resolutions
    BY <1>7 DEF RaiseDispute, Resolutions
  <2> QED BY <1>1, <1>2, <1>3, <2>1, BeginStep
<1>8. CASE Cancel(w, o, u)
  <2>1. PICK doc, pc : doc = orders[o] /\ pc = UnwindPC(doc)
    OBVIOUS
  <2>2. Start(w, "cancel", pc, o, doc) /\ Leaves("cancel", orders[o].status)
        /\ "cancel" \notin Resolutions
    BY <1>8, <2>1 DEF Cancel, Leaves, Resolutions
  <2>3. pc \in {"checkWhitelist", "creditDeposit", "unlock"} \/ (pc = "readAd" /\ ~Sells(orders[o]))
    BY <2>1 DEF UnwindPC
  <2> QED BY <1>1, <1>2, <1>3, <2>1, <2>2, <2>3, BeginStep
<1>9. CASE Release(w, o)
  <2>1. PICK doc, pc : doc = orders[o] /\ pc = SettlePC(doc)
    OBVIOUS
  <2>2. Start(w, "release", pc, o, doc) /\ Leaves("release", orders[o].status)
        /\ "release" \notin Resolutions
    BY <1>9, <2>1 DEF Release, Leaves, Resolutions, CanTransition, ValidTransitions
  <2>3. pc \in {"checkWhitelist", "creditDeposit", "unlock"}
    BY <2>1 DEF SettlePC
  <2> QED BY <1>1, <1>2, <1>3, <2>1, <2>2, <2>3, BeginStep
<1>10. ASSUME NEW tx, SubmitDeposit(w, o, u, tx) PROVE SerialInv'
  <2>1. PICK doc : doc = [orders[o] EXCEPT !.tx = tx]
    OBVIOUS
  <2>2. Start(w, "submitDeposit", "verifyDeposit", o, doc) /\ "submitDeposit" \notin Resolutions
        /\ orders[o].status = "awaiting_payment"
    BY <1>10, <2>1 DEF SubmitDeposit, Resolutions
  <2> QED BY <1>1, <1>2, <1>3, <2>2, BeginStep
<1> QED BY <1>5, <1>6, <1>7, <1>8, <1>9, <1>10

(* The sweep comes to the next order it has listed, which nobody touched. *)
LEMMA SweepNextBegins ==
  ASSUME Undisturbed, IInv, SerialInv, SweepNext
  PROVE  SerialInv'
<1>1. PICK t \in todo : /\ todo' = todo \ {t}
                        /\ Start(Sweeper, "cancel", UnwindPC(t.doc), t.o, t.doc)
  BY DEF SweepNext
<1>2. /\ SameBooks /\ req[Sweeper].pc = "idle" /\ Sweeper \in Procs
  BY DEF SweepNext, SameBooks, ledger, At, Procs
<1>3. Known(t.o, t.doc) /\ t.o \in OrderIds /\ Exists(t.o)
  BY DEF IInv, SweepJustified, Known
<1>4. t.doc.tx = orders[t.o].tx /\ IsCancellable(orders[t.o].status)
  BY DEF SerialInv, SweepIsCurrent
<1>5. /\ \A q \in Procs : req[q].o # t.o
      /\ \A n \in todo' : n.o # t.o
      /\ todo' \subseteq todo
  BY <1>1 DEF SerialInv, OnePerOrder
<1>6. AtRest(t.o) /\ req[Sweeper].o = 0
  BY <1>2, <1>3, <1>5 DEF SerialInv, RestingOrders, OnePerOrder, NoOrderPCs
<1>7. Leaves("cancel", orders[t.o].status) /\ "cancel" \notin Resolutions
  BY <1>4 DEF Leaves, Resolutions
<1>8. PICK doc, pc, o : doc = t.doc /\ pc = UnwindPC(t.doc) /\ o = t.o
  OBVIOUS
<1>9. pc = "unlock" \/ (pc = "readAd" /\ ~Sells(orders[o]))
  BY <1>3, <1>8 DEF UnwindPC, Known, SameTerms, Sells
<1> QED BY <1>1, <1>2, <1>3, <1>4, <1>5, <1>6, <1>7, <1>8, <1>9, BeginStep

(* The sweep lists orders that nobody touches. *)
LEMMA SweepListLists ==
  ASSUME Undisturbed, IInv, SerialInv, SweepList
  PROVE  SerialInv'
<1>1. SameBooks /\ req' = req
  BY DEF SweepList, SameBooks, ledger
<1>2. \A t \in todo' : /\ t.o \in OrderIds /\ Exists(t.o) /\ MayTouch(t.o)
                       /\ t = [o |-> t.o, doc |-> orders[t.o]]
                       /\ IsCancellable(orders[t.o].status)
  <2> SUFFICES ASSUME NEW t \in todo'
               PROVE  /\ t.o \in OrderIds /\ Exists(t.o) /\ MayTouch(t.o)
                      /\ t = [o |-> t.o, doc |-> orders[t.o]]
                      /\ IsCancellable(orders[t.o].status)
    OBVIOUS
  <2>1. PICK n \in ListActive : t = [o |-> n, doc |-> orders[n]] /\ IsCancellable(orders[n].status)
    BY DEF SweepList
  <2>2. n \in OrderIds /\ Exists(n)
    BY DEF ListActive, Active
  <2>3. MayTouch(t.o)
    BY DEF SweepList
  <2> QED BY <2>1, <2>2, <2>3
<1>3. \A t \in todo' : \A p \in Procs : req[p].o # t.o
  BY <1>2, MayBegin
<1>4. OnePerOrder'
  <2>1. \A s, t \in todo' : s.o = t.o => s = t
    BY <1>2
  <2> QED BY <1>1, <1>3, <2>1 DEF SerialInv, OnePerOrder
<1>5. SweepIsCurrent'
  <2>1. \A t \in todo' : t.doc.tx = orders[t.o].tx /\ IsCancellable(orders[t.o].status)
    BY <1>2
  <2> QED BY <1>1, <2>1 DEF SweepIsCurrent, SameBooks
<1>6. RestingOrders' /\ ResolutionsHold' /\ Unplaced'
  BY <1>1, SameBooksKeep DEF SerialInv, RestingOrders, Unplaced, SameBooks
<1>7. RequestsOnCourse'
  <2>1. ASSUME NEW p \in Procs, req'[p].o # 0 PROVE OnCourse(req[p])'
    <3>1. PICK r : r = req[p] /\ r = req'[p]
      BY <1>1
    <3>2. OnCourse(r)'
      BY <1>1, <2>1, <3>1, SameBooksKeep DEF SerialInv, RequestsOnCourse
    <3> QED BY <3>1, <3>2 DEF OnCourse, Fits, Held, Ahead, BookedAs, Opened
  <2> QED BY <2>1 DEF RequestsOnCourse
<1> QED BY <1>4, <1>5, <1>6, <1>7 DEF SerialInv

(* Resolving begins with an open dispute: it is the only one of its order.  *)
LEMMA ResolveBegins ==
  ASSUME Undisturbed, IInv, SerialInv, NEW w \in Workers, NEW d \in DisputeIds,
         NEW op \in Resolutions, ResolveDispute(w, d, op)
  PROVE  SerialInv'
<1>1. /\ At(w, "idle") /\ disputes[d] # NoDispute /\ disputes[d].status = "open"
      /\ MayTouch(disputes[d].order) /\ SameBooks /\ todo' = todo /\ w \in Procs
  BY DEF ResolveDispute, SameBooks, ledger, Procs
<1>2. PICK o : o = disputes[d].order
  OBVIOUS
<1>3. o \in OrderIds /\ Exists(o)
  BY <1>1, <1>2 DEF IInv, TypeOK, DisputesNameOrders, DisputeDoc
<1>4. /\ \A q \in Procs : req[q].o # o
      /\ \A t \in todo : t.o # o
      /\ AtRest(o)
  BY <1>1, <1>2, <1>3, MayBegin
<1>5. req[w].o = 0
  BY <1>1 DEF At, SerialInv, OnePerOrder, NoOrderPCs
<1>6. PICK r : r = req'[w]
  OBVIOUS
<1>7. /\ OnlyMoves(w)
      /\ r.pc = "readDisputed" /\ r.op = op /\ r.o = o /\ r.d = d
  BY <1>1, <1>2, <1>6 DEF ResolveDispute, IInv, TypeOK, OnlyMoves, Idle
<1>8. OpenOn(o) = {d}
  <2>1. d \in OpenOn(o)
    BY <1>1, <1>2 DEF OpenOn
  <2>2. OpenOn(o) = {} \/ \E e \in DisputeIds : OpenOn(o) = {e}
    BY <1>4 DEF AtRest, Account
  <2> QED BY <2>1, <2>2
<1>9. Fits(r)
  BY <1>7, <1>8 DEF Fits, CopyPCs, SettlingPCs
<1>10. Account(o, Held(r), Ahead(r), BookedAs(r), Opened(r))
  BY <1>4, <1>7 DEF AtRest, Held, Ahead, BookedAs, Opened
<1>11. OnCourse(r) /\ r.pc \notin NoOrderPCs
  BY <1>7, <1>9, <1>10 DEF OnCourse, NoOrderPCs
<1> QED BY <1>1, <1>3, <1>4, <1>5, <1>6, <1>7, <1>11, MoveStep

-----------------------------------------------------------------------------
(* Requests that move on without changing the books *)

(* A request about an order moves to r, or is finished. *)
LEMMA MovesOn ==
  ASSUME IInv, SerialInv, SameBooks, todo' = todo, NEW p \in Procs, OnlyMoves(p),
         req[p].pc \notin NoOrderPCs, NEW r, req'[p] = r,
         \/ r.pc \in NoOrderPCs /\ r.o = 0 /\ AtRest(req[p].o)
         \/ r.pc \notin NoOrderPCs /\ r.o = req[p].o /\ OnCourse(r)
  PROVE  SerialInv'
<1>1. PICK o : o = req[p].o
  OBVIOUS
<1>2. /\ o \in OrderIds /\ Exists(o)
      /\ \A q \in Procs \ {p} : req[q].o # o
      /\ \A t \in todo : t.o # o
  BY <1>1, UnderWay
<1> QED BY <1>1, <1>2, MoveStep

LEMMA Finishes ==
  ASSUME IInv, SerialInv, SameBooks, todo' = todo, NEW p \in Procs, Finish(p),
         req[p].pc \notin NoOrderPCs, AtRest(req[p].o)
  PROVE  SerialInv'
<1>1. /\ OnlyMoves(p)
      /\ req'[p].pc \in NoOrderPCs /\ req'[p].o = 0
  BY FinishFields DEF IInv, NoOrderPCs
<1> QED BY <1>1, MovesOn

(* A request that has done nothing yet leaves its order at rest. *)
LEMMA StillAtRest ==
  ASSUME NEW r, OnCourse(r), r.pc \in {"verifyDeposit", "checkWhitelist", "markDisputed", "readDisputed"}
  PROVE  AtRest(r.o)
  BY DEF OnCourse, AtRest, Held, Ahead, BookedAs, Opened

LEMMA VerifyDepositMoves ==
  ASSUME IInv, SerialInv, NEW p \in Procs, VerifyDeposit(p)
  PROVE  SerialInv'
<1>1. /\ req[p].pc = "verifyDeposit" /\ SameBooks /\ todo' = todo
      /\ req[p].pc \notin NoOrderPCs /\ req[p].pc \in CopyPCs
  BY DEF VerifyDeposit, At, SameBooks, ledger, NoOrderPCs, CopyPCs, PCs, CreatePCs
<1>2. PICK r : r = req[p]
  OBVIOUS
<1>3. /\ r.o \in OrderIds /\ OnCourse(r) /\ r.doc \in OrderDoc /\ HoldsCopies(r)
  BY <1>1, <1>2, UnderWay
<1>4. CASE GotoWith(p, "writeMarked", "payment_marked")
  <2>1. PICK s : s = req'[p]
    OBVIOUS
  <2>2. /\ OnlyMoves(p) /\ s.pc = "writeMarked" /\ s.op = r.op /\ s.o = r.o
        /\ s.doc = [r.doc EXCEPT !.status = "payment_marked"] /\ s.d = r.d
    BY <1>2, <1>4, <2>1, GotoWithFields DEF IInv
  <2>3. s.doc.status = "payment_marked"
    BY <1>3, <2>2 DEF OrderDoc
  <2>4. Fits(s)
    BY <1>1, <1>2, <1>3, <2>2, <2>3 DEF OnCourse, Fits, SettlingPCs
  <2>5. Account(s.o, Held(s), Ahead(s), BookedAs(s), Opened(s))
    BY <1>1, <1>2, <1>3, <2>2 DEF OnCourse, Held, Ahead, BookedAs, Opened
  <2>6. OnCourse(s) /\ s.pc \notin NoOrderPCs
    BY <2>2, <2>4, <2>5 DEF OnCourse, NoOrderPCs
  <2> QED BY <1>1, <1>2, <2>1, <2>2, <2>6, MovesOn
<1>5. CASE Finish(p)
  <2>1. AtRest(r.o)
    BY <1>1, <1>2, <1>3, StillAtRest
  <2> QED BY <1>1, <1>2, <1>5, <2>1, Finishes
<1> QED BY <1>4, <1>5 DEF VerifyDeposit

(* From one point of settling to the next one, with the copy kept *)
LEMMA SettlingMoves ==
  ASSUME IInv, SerialInv, NEW p \in Procs, CheckWhitelist(p) \/ ReadAd(p)
  PROVE  SerialInv'
<1>1. /\ req[p].pc \in {"checkWhitelist", "readAd"} /\ SameBooks /\ todo' = todo
      /\ req[p].pc \notin NoOrderPCs /\ req[p].pc \in CopyPCs
  BY DEF CheckWhitelist, ReadAd, At, SameBooks, ledger, NoOrderPCs, CopyPCs, PCs, CreatePCs
<1>2. PICK r : r = req[p]
  OBVIOUS
<1>3. r.o \in OrderIds /\ OnCourse(r)
  BY <1>1, <1>2, UnderWay
<1>4. PICK s : s = req'[p]
  OBVIOUS
<1>5. CASE Goto(p, "withdraw") /\ r.pc = "checkWhitelist"
  <2>1. /\ OnlyMoves(p) /\ s.pc = "withdraw" /\ s.op = r.op /\ s.o = r.o /\ s.doc = r.doc /\ s.d = r.d
    BY <1>2, <1>4, <1>5, GotoFields DEF IInv
  <2>2. Fits(s)
    BY <1>3, <1>5, <2>1 DEF OnCourse, Fits, SettlingPCs, CopyPCs, PCs, CreatePCs
  <2>3. Account(s.o, Held(s), Ahead(s), BookedAs(s), Opened(s))
    BY <1>3, <1>5, <2>1 DEF OnCourse, Held, Ahead, BookedAs, Opened
  <2>4. OnCourse(s) /\ s.pc \notin NoOrderPCs
    BY <2>1, <2>2, <2>3 DEF OnCourse, NoOrderPCs
  <2> QED BY <1>1, <1>2, <1>4, <2>1, <2>4, MovesOn
<1>6. CASE Finish(p) /\ r.pc = "checkWhitelist"
  <2>1. AtRest(r.o)
    BY <1>3, <1>6, StillAtRest
  <2> QED BY <1>1, <1>2, <1>6, <2>1, Finishes
<1>7. CASE ReadAd(p)
  <2>1. /\ OnlyMoves(p) /\ s.pc = "restoreAd" /\ s.op = r.op /\ s.o = r.o /\ s.doc = r.doc /\ s.d = r.d
        /\ r.pc = "readAd"
    BY <1>2, <1>4, <1>7 DEF ReadAd, At, IInv, TypeOK, Request, OnlyMoves
  <2>2. Fits(s)
    BY <1>3, <2>1 DEF OnCourse, Fits, SettlingPCs, CopyPCs, PCs, CreatePCs
  <2>3. Account(s.o, Held(s), Ahead(s), BookedAs(s), Opened(s))
    BY <1>3, <2>1 DEF OnCourse, Held, Ahead, BookedAs, Opened
  <2>4. OnCourse(s) /\ s.pc \notin NoOrderPCs
    BY <2>1, <2>2, <2>3 DEF OnCourse, NoOrderPCs
  <2> QED BY <1>1, <1>2, <1>4, <2>1, <2>4, MovesOn
<1> QED BY <1>2, <1>5, <1>6, <1>7 DEF CheckWhitelist, At

LEMMA MarkDisputedMoves ==
  ASSUME Undisturbed, IInv, SerialInv, NEW p \in Procs, MarkDisputed(p)
  PROVE  SerialInv'
<1>1. /\ req[p].pc = "markDisputed" /\ SameBooks /\ todo' = todo /\ req[p].pc \notin NoOrderPCs
  BY DEF MarkDisputed, At, SameBooks, ledger, NoOrderPCs
<1>2. PICK o : o = req[p].o
  OBVIOUS
<1>3. /\ o \in OrderIds /\ Exists(o)
      /\ \A q \in Procs \ {p} : req[q].o # o
      /\ \A t \in todo : t.o # o
      /\ OnCourse(req[p])
  BY <1>1, <1>2, UnderWay
<1>4. AtRest(o)
  BY <1>1, <1>2, <1>3, StillAtRest
<1>5. CASE IsDisputable(orders[o].status)
  <2>1. PICK doc : doc = [orders[o] EXCEPT !.status = "disputed"]
    OBVIOUS
  <2>2. Start(p, "raise", "writeOrder", o, doc)
    BY <1>2, <1>5, <2>1 DEF MarkDisputed
  <2>3. orders[o] \in OrderDoc
    BY <1>3 DEF IInv, TypeOK, Exists
  <2>4. doc.tx = orders[o].tx /\ doc.status = "disputed"
    BY <2>1, <2>3 DEF OrderDoc
  <2>5. Leaves("raise", orders[o].status) /\ doc.status = EndsIn("raise") /\ "raise" \notin Resolutions
    BY <1>5, <2>4 DEF Leaves, EndsIn, Resolutions
  <2> QED BY <1>1, <1>2, <1>3, <1>4, <2>2, <2>4, <2>5, BeginStep
<1>6. CASE ~IsDisputable(orders[o].status)
  <2>1. Finish(p)
    BY <1>2, <1>6 DEF MarkDisputed
  <2> QED BY <1>1, <1>2, <1>4, <2>1, Finishes
<1> QED BY <1>5, <1>6

LEMMA ReadDisputedMoves ==
  ASSUME IInv, SerialInv, NEW p \in Procs, ReadDisputed(p)
  PROVE  SerialInv'
<1>1. /\ req[p].pc = "readDisputed" /\ SameBooks /\ todo' = todo /\ req[p].pc \notin NoOrderPCs
  BY DEF ReadDisputed, At, SameBooks, ledger, NoOrderPCs
<1>2. PICK r : r = req[p]
  OBVIOUS
<1>3. r.o \in OrderIds /\ OnCourse(r) /\ HoldsCopies(r)
  BY <1>1, <1>2, UnderWay
<1>4. AtRest(r.o)
  BY <1>1, <1>2, <1>3, StillAtRest
<1>5. CASE orders[r.o].status = "disputed"
  <2>1. PICK next : next = IF r.op = "resolveRelease" THEN SettlePC(orders[r.o])
                           ELSE UnwindPC(orders[r.o])
    OBVIOUS
  <2>2. PICK s : s = req'[p]
    OBVIOUS
  <2>3. /\ OnlyMoves(p) /\ s.pc = next /\ s.op = r.op /\ s.o = r.o /\ s.doc = orders[r.o] /\ s.d = r.d
    BY <1>2, <1>5, <2>1, <2>2 DEF ReadDisputed, IInv, TypeOK, Request, OnlyMoves
  <2>4. /\ next \in {"checkWhitelist", "creditDeposit", "unlock", "readAd"}
        /\ next = "readAd" => ~Sells(orders[r.o])
    BY <2>1 DEF SettlePC, UnwindPC
  <2>5. r.op \in Resolutions
    BY <1>1, <1>2, <1>3 DEF HoldsCopies
  <2>6. Fits(s)
    <3>1. Leaves(s.op, orders[s.o].status)
      BY <1>5, <2>3, <2>5 DEF Leaves
    <3>2. OpenOn(s.o) = {s.d}
      BY <1>1, <1>2, <1>3, <2>3, <2>5 DEF OnCourse, Fits
    <3> QED BY <2>3, <2>4, <3>1, <3>2 DEF Fits
  <2>7. Account(s.o, Held(s), Ahead(s), BookedAs(s), Opened(s))
    <3>1. Held(s) = 1 /\ Ahead(s) = 0 /\ Opened(s) = (orders[s.o].status = "disputed")
      BY <2>3, <2>4 DEF Held, Ahead, Opened
    <3>2. /\ BookedAs(s) # "completed"
          /\ Sells(orders[s.o]) => BookedAs(s) # "cancelled"
      BY <1>5, <2>3, <2>4 DEF BookedAs
    <3>3. Account(s.o, 1, 0, orders[s.o].status, orders[s.o].status = "disputed")
      BY <1>4, <2>3 DEF AtRest
    <3> QED BY <1>5, <2>3, <3>1, <3>2, <3>3, SameAccount
  <2>8. OnCourse(s) /\ s.pc \notin NoOrderPCs
    BY <2>3, <2>4, <2>6, <2>7 DEF OnCourse, NoOrderPCs
  <2> QED BY <1>1, <1>2, <2>2, <2>3, <2>8, MovesOn
<1>6. CASE orders[r.o].status # "disputed"
  <2>1. Finish(p)
    BY <1>2, <1>6 DEF ReadDisputed
  <2> QED BY <1>1, <1>2, <1>4, <2>1, Finishes
<1> QED BY <1>5, <1>6

-----------------------------------------------------------------------------
(* Steps about no order, and the end of placing one *)

LEMMA AboutNoOrder ==
  ASSUME IInv, SerialInv,
         \/ \E w \in Workers, a \in Ads, u \in Takers, amt \in Amounts,
              addr \in Addresses \cup {NoAddress} : CreateOrder(w, a, u, amt, addr)
         \/ \E w \in Workers, a \in Ads : EditAd(w, a)
         \/ \E p \in Procs : CheckBalance(p) \/ WriteAd(p)
         \/ Environment
         \/ UNCHANGED vars
  PROVE  SerialInv'
<1>1. ASSUME SameBooks, todo' = todo, NEW p \in Procs, req[p].pc \in NoOrderPCs,
             OnlyMoves(p), req'[p].o \in {0, req[p].o}
      PROVE  SerialInv'
  <2>1. req[p].o = 0
    BY <1>1 DEF SerialInv, OnePerOrder
  <2> QED BY <1>1, <2>1, NoOrderStep DEF OnlyMoves
<1>2. ASSUME NEW w \in Workers, NEW a \in Ads, NEW u \in Takers, NEW amt \in Amounts,
             NEW addr \in Addresses \cup {NoAddress}, CreateOrder(w, a, u, amt, addr)
      PROVE  SerialInv'
  <2>1. /\ SameBooks /\ todo' = todo /\ w \in Procs /\ req[w].pc \in NoOrderPCs
    BY <1>2 DEF CreateOrder, SameBooks, ledger, Procs, At, NoOrderPCs
  <2>2. OnlyMoves(w) /\ req'[w].o = 0
    BY <1>2, <2>1 DEF CreateOrder, IInv, TypeOK, OnlyMoves, Idle
  <2> QED BY <1>1, <2>1, <2>2
<1>3. ASSUME NEW w \in Workers, NEW a \in Ads, EditAd(w, a) PROVE SerialInv'
  <2>1. /\ SameBooks /\ todo' = todo /\ w \in Procs /\ req[w].pc \in NoOrderPCs
    BY <1>3 DEF EditAd, SameBooks, ledger, Procs, At, NoOrderPCs
  <2>2. PICK ad : req' = [req EXCEPT ![w] = [Idle EXCEPT !.op = "editAd", !.pc = "writeAd",
                                                      !.ad = ad, !.a = a]]
    BY <1>3 DEF EditAd
  <2>3. OnlyMoves(w) /\ req'[w].o = 0
    BY <2>1, <2>2 DEF IInv, TypeOK, OnlyMoves, Idle
  <2> QED BY <1>1, <2>1, <2>3
<1>4. ASSUME NEW p \in Procs, CheckBalance(p) \/ WriteAd(p) PROVE SerialInv'
  <2>1. /\ SameBooks /\ todo' = todo /\ req[p].pc \in NoOrderPCs
        /\ Finish(p) \/ Goto(p, "insertOrder")
    BY <1>4 DEF CheckBalance, WriteAd, SameBooks, ledger, At, NoOrderPCs
  <2>2. OnlyMoves(p) /\ req'[p].o \in {0, req[p].o}
    BY <2>1, FinishFields, GotoFields DEF IInv
  <2> QED BY <1>1, <2>1, <2>2
<1>5. CASE Environment \/ UNCHANGED vars
  <2>1. SameBooks /\ todo' = todo /\ req' = req
    BY <1>5 DEF Environment, AdminCredit, PostAd, MarkAddressWhitelisted, DepositArrives,
       DeadlinePasses, vars, SameBooks, ledger
  <2> QED BY <2>1, NoOrderStep
<1> QED BY <1>2, <1>3, <1>4, <1>5

(* A new order gets an id nothing refers to and nothing is recorded for.    *)
LEMMA InsertOrderPlaces ==
  ASSUME IInv, SerialInv, NEW p \in Procs, InsertOrder(p)
  PROVE  SerialInv'
<1>1. PICK o \in OrderIds : /\ ~Exists(o)
                            /\ orders' = [orders EXCEPT ![o] = req[p].doc]
                            /\ req' = [req EXCEPT ![p].pc = "debitAd", ![p].o = o]
  BY DEF InsertOrder
<1>2. /\ req[p].pc = "insertOrder" /\ req[p].o = 0 /\ todo' = todo
      /\ UNCHANGED <<entries, credits, withdrawn, disputes>>
  BY DEF InsertOrder, At, ledger, SerialInv, OnePerOrder, NoOrderPCs
<1>3. req[p].doc \in OrderDoc /\ req[p].doc.status = "awaiting_payment"
  BY <1>2 DEF IInv, RequestsJustified, HoldsCopies, CreatePCs
<1>4. PICK r : r = req'[p]
  OBVIOUS
<1>5. /\ OnlyMoves(p) /\ r.pc = "debitAd" /\ r.o = o /\ r.doc = req[p].doc
  BY <1>1, <1>4 DEF IInv, TypeOK, Request, OnlyMoves
<1>6. /\ orders'[o] = r.doc
      /\ \A n \in OrderIds \ {o} : orders'[n] = orders[n]
  BY <1>1, <1>5 DEF IInv, TypeOK
<1>7. Exists(o)' /\ o # 0
  BY <1>3, <1>5, <1>6, OrderFlowAssumption DEF Exists, OrderFlowAssumption, OrderIds
<1>8. \A q \in Procs : req[q].o # o
  <2> SUFFICES ASSUME NEW q \in Procs, req[q].o = o PROVE FALSE
    OBVIOUS
  <2>1. req[q].pc \notin NoOrderPCs
    BY <1>7 DEF SerialInv, OnePerOrder
  <2>2. Exists(req[q].o)
    BY <2>1 DEF IInv, RequestsJustified, HoldsCopies
  <2> QED BY <1>1, <2>2
<1>9. \A t \in todo : t.o # o
  BY <1>1 DEF IInv, SweepJustified, Known
<1>10. /\ OpenOn(o)' = {}
       /\ \A n \in OrderIds \ {o} : Alone(n)
  <2>1. OpenOn(o) = {}
    BY <1>1 DEF OpenOn, IInv, DisputesNameOrders
  <2>2. \A n : OpenOn(n)' = OpenOn(n)
    BY <1>2 DEF OpenOn
  <2> QED BY <1>2, <1>6, <2>1, <2>2 DEF Alone
<1>11. OnCourse(r)'
  <2>1. /\ \A k \in Reasons : entries[o][k] = 0
        /\ withdrawn[o] = 0 /\ \A tx \in Txs \cup {NoTx} : credits[o][tx] = 0
    BY <1>1 DEF SerialInv, Unplaced
  <2>2. Account(o, 0, 0, "awaiting_payment", FALSE)'
    BY <1>2, <1>10, <2>1 DEF Account, Unlocks, Reasons
  <2>3. Fits(r)'
    BY <1>3, <1>5, <1>6 DEF Fits, SettlingPCs
  <2>4. Held(r) = 0 /\ Ahead(r) = 0 /\ BookedAs(r)' = "awaiting_payment" /\ Opened(r)' = FALSE
    BY <1>3, <1>5, <1>6 DEF Held, Ahead, BookedAs, Opened
  <2> QED BY <1>5, <2>2, <2>3, <2>4 DEF OnCourse, Held, Ahead
<1>12. ResolutionsHold'
  <2> SUFFICES ASSUME NEW d \in DisputeIds, disputes[d] # NoDispute
               PROVE  orders'[disputes[d].order] = orders[disputes[d].order]
    BY <1>2 DEF SerialInv, ResolutionsHold
  <2>1. Exists(disputes[d].order) /\ disputes[d].order \in OrderIds
    BY DEF IInv, TypeOK, DisputesNameOrders, DisputeDoc
  <2> QED BY <1>1, <1>6, <2>1
<1>13. OnCourse(req[p])'
  BY <1>4, <1>11 DEF OnCourse, Fits, Held, Ahead, BookedAs, Opened
<1>14. req'[p].pc \notin NoOrderPCs /\ req'[p].o = o
  BY <1>4, <1>5 DEF NoOrderPCs
<1> QED BY <1>2, <1>5, <1>7, <1>8, <1>9, <1>10, <1>12, <1>13, <1>14, OrderStep

(* The ad is debited before the order's amount is locked.                   *)
LEMMA DebitAdMoves ==
  ASSUME IInv, SerialInv, NEW p \in Procs, DebitAd(p)
  PROVE  SerialInv'
<1>1. /\ req[p].pc = "debitAd" /\ SameBooks /\ todo' = todo /\ req[p].pc \notin NoOrderPCs
  BY DEF DebitAd, At, SameBooks, ledger, NoOrderPCs
<1>2. PICK r : r = req[p]
  OBVIOUS
<1>3. r.o \in OrderIds /\ OnCourse(r)
  BY <1>1, <1>2, UnderWay
<1>4. PICK s : s = req'[p]
  OBVIOUS
<1>5. CASE Sells(r.doc)
  <2>1. Goto(p, "lockFunds")
    BY <1>2, <1>5 DEF DebitAd
  <2>2. /\ OnlyMoves(p) /\ s.pc = "lockFunds" /\ s.op = r.op /\ s.o = r.o
    BY <1>2, <1>4, <2>1, GotoFields DEF IInv
  <2>3. Fits(s)
    BY <1>1, <1>2, <1>3, <1>5, <2>2 DEF OnCourse, Fits, SettlingPCs, CopyPCs
  <2>4. Account(s.o, Held(s), Ahead(s), BookedAs(s), Opened(s))
    BY <1>1, <1>2, <1>3, <2>2 DEF OnCourse, Held, Ahead, BookedAs, Opened
  <2>5. OnCourse(s) /\ s.pc \notin NoOrderPCs
    BY <2>2, <2>3, <2>4 DEF OnCourse, NoOrderPCs
  <2> QED BY <1>1, <1>2, <1>4, <2>2, <2>5, MovesOn
<1>6. CASE ~Sells(r.doc)
  <2>1. Finish(p)
    BY <1>2, <1>6 DEF DebitAd
  <2>2. ~Sells(orders[r.o])
    BY <1>1, <1>2, <1>3, <1>6 DEF OnCourse, Fits
  <2>3. Account(r.o, 0, 0, orders[r.o].status, orders[r.o].status = "disputed")
    BY <1>1, <1>2, <1>3 DEF OnCourse, Held, Ahead, BookedAs, Opened
  <2>4. AtRest(r.o)
    BY <2>2, <2>3 DEF AtRest, Account
  <2> QED BY <1>1, <1>2, <2>1, <2>4, Finishes
<1> QED BY <1>5, <1>6

-----------------------------------------------------------------------------
(* Steps that add to the books of one order *)

(* The documents and the disputes stay, and so do all other orders' books.  *)
LEMMA BooksStep ==
  ASSUME IInv, SerialInv, UNCHANGED <<orders, disputes>>, todo' = todo,
         NEW p \in Procs, OnlyMoves(p), req[p].pc \notin NoOrderPCs, NEW o, o = req[p].o,
         \A n \in OrderIds \ {o} : /\ entries'[n] = entries[n] /\ credits'[n] = credits[n]
                                   /\ withdrawn'[n] = withdrawn[n],
         NEW r, req'[p] = r,
         \/ r.pc \in NoOrderPCs /\ r.o = 0 /\ AtRest(o)'
         \/ /\ r.pc \notin NoOrderPCs /\ r.o = o /\ Fits(r)
            /\ Account(o, Held(r), Ahead(r), BookedAs(r), Opened(r))'
  PROVE  SerialInv'
<1>1. /\ o \in OrderIds /\ o # 0 /\ Exists(o)
      /\ \A q \in Procs \ {p} : req[q].o # o
      /\ \A t \in todo : t.o # o
  BY UnderWay
<1>2. \A n : OpenOn(n)' = OpenOn(n)
  BY DEF OpenOn
<1>3. \A n \in OrderIds \ {o} : Alone(n)
  BY <1>2 DEF Alone
<1>4. Exists(o)' /\ ResolutionsHold'
  BY <1>1 DEF SerialInv, ResolutionsHold, Exists
<1>5. r.o = o => OnCourse(req[p])'
  <2> SUFFICES ASSUME r.o = o PROVE OnCourse(req[p])'
    OBVIOUS
  <2>1. Fits(r)'
    BY <1>1, <1>2 DEF Fits, Sells
  <2>2. OnCourse(r)'
    BY <1>1, <2>1 DEF OnCourse, Held, Ahead
  <2> QED BY <2>2 DEF OnCourse, Fits, Held, Ahead, BookedAs, Opened
<1> QED BY <1>1, <1>3, <1>4, <1>5, OrderStep

(* What one posting does to the books *)
LEMMA PostBooks ==
  ASSUME IInv, NEW o \in OrderIds, NEW k \in Reasons, Post(o, k)
  PROVE  /\ \A n \in OrderIds \ {o} : entries'[n] = entries[n]
         /\ \A r \in Reasons : entries'[o][r] = IF r = k THEN entries[o][r] + 1 ELSE entries[o][r]
         /\ \A r \in Reasons : entries[o][r] \in Nat
<1>1. entries \in [OrderIds -> [Reasons -> 0 .. MaxEntries]] /\ MaxEntries \in Nat
  BY OrderFlowAssumption DEF IInv, TypeOK, OrderFlowAssumption
<1>2. entries' = [entries EXCEPT ![o][k] = @ + 1]
  BY DEF Post
<1> QED BY <1>1, <1>2

(* The order's amount is locked: it is placed. *)
LEMMA LockFundsBooks ==
  ASSUME IInv, SerialInv, NEW p \in Procs, LockFunds(p)
  PROVE  SerialInv'
<1>1. /\ req[p].pc = "lockFunds" /\ req[p].pc \notin NoOrderPCs /\ todo' = todo
      /\ UNCHANGED <<orders, disputes, credits, withdrawn>>
      /\ Post(req[p].o, "order_lock") /\ Finish(p) /\ "order_lock" \in Reasons
  BY DEF LockFunds, At, NoOrderPCs, Reasons
<1>2. PICK r : r = req[p]
  OBVIOUS
<1>3. r.o \in OrderIds /\ OnCourse(r)
  BY <1>1, <1>2, UnderWay
<1>4. /\ \A n \in OrderIds \ {r.o} : entries'[n] = entries[n]
      /\ entries'[r.o]["order_lock"] = entries[r.o]["order_lock"] + 1
      /\ \A k \in {"order_release", "order_cancel", "order_dispute"} :
           entries'[r.o][k] = entries[r.o][k]
  BY <1>1, <1>2, <1>3, PostBooks DEF Reasons
<1>5. /\ Sells(orders[r.o])
      /\ Account(r.o, 0, 0, orders[r.o].status, orders[r.o].status = "disputed")
  BY <1>1, <1>2, <1>3 DEF OnCourse, Fits, Held, Ahead, BookedAs, Opened
<1>6. OpenOn(r.o)' = OpenOn(r.o)
  BY <1>1 DEF OpenOn
<1>7. AtRest(r.o)'
  BY <1>1, <1>4, <1>5, <1>6 DEF AtRest, Account, Unlocks, Sells
<1>8. OnlyMoves(p) /\ req'[p].pc \in NoOrderPCs /\ req'[p].o = 0
  BY <1>1, FinishFields DEF IInv, NoOrderPCs
<1> QED BY <1>1, <1>2, <1>4, <1>7, <1>8, BooksStep

(* Bybit has paid out: the ledger is one debit behind.                      *)
LEMMA WithdrawBooks ==
  ASSUME IInv, SerialInv, NEW p \in Procs, Withdraw(p)
  PROVE  SerialInv'
<1>1. /\ req[p].pc = "withdraw" /\ req[p].pc \notin NoOrderPCs /\ todo' = todo
      /\ UNCHANGED <<orders, disputes, entries, credits>>
      /\ PayOut(req[p].o) /\ Goto(p, "debitLocked")
  BY DEF Withdraw, At, NoOrderPCs, ledger
<1>2. PICK r : r = req[p]
  OBVIOUS
<1>3. r.o \in OrderIds /\ OnCourse(r)
  BY <1>1, <1>2, UnderWay
<1>4. PICK s : s = req'[p]
  OBVIOUS
<1>5. /\ OnlyMoves(p) /\ s.pc = "debitLocked" /\ s.op = r.op /\ s.o = r.o /\ s.doc = r.doc /\ s.d = r.d
  BY <1>1, <1>2, <1>4, GotoFields DEF IInv
<1>6. /\ \A n \in OrderIds \ {r.o} : withdrawn'[n] = withdrawn[n]
      /\ withdrawn'[r.o] = withdrawn[r.o] + 1
  BY <1>1, <1>2, <1>3 DEF PayOut, IInv, TypeOK
<1>7. Fits(s)
  BY <1>1, <1>2, <1>3, <1>5 DEF OnCourse, Fits, SettlingPCs, CopyPCs, PCs, CreatePCs
<1>8. Account(r.o, 1, 0, orders[r.o].status, orders[r.o].status = "disputed")
  BY <1>1, <1>2, <1>3 DEF OnCourse, Held, Ahead, BookedAs, Opened
<1>9. OpenOn(r.o)' = OpenOn(r.o)
  BY <1>1 DEF OpenOn
<1>10. Account(r.o, 1, 1, orders[r.o].status, orders[r.o].status = "disputed")'
  BY <1>1, <1>6, <1>8, <1>9 DEF Account, Unlocks, Sells
<1>11. Held(s) = 1 /\ Ahead(s) = 1 /\ BookedAs(s)' = orders'[r.o].status
       /\ Opened(s)' = (orders'[r.o].status = "disputed")
  BY <1>5 DEF Held, Ahead, BookedAs, Opened
<1>12. Account(r.o, Held(s), Ahead(s), BookedAs(s), Opened(s))'
  BY <1>10, <1>11 DEF Held, Ahead
<1>13. s.pc \notin NoOrderPCs
  BY <1>5 DEF NoOrderPCs
<1> QED BY <1>1, <1>2, <1>4, <1>5, <1>6, <1>7, <1>12, <1>13, BooksStep

(* The ledger catches up with the payout, before the document does.         *)
LEMMA DebitLockedBooks ==
  ASSUME IInv, SerialInv, NEW p \in Procs, DebitLocked(p)
  PROVE  SerialInv'
<1>1. /\ req[p].pc = "debitLocked" /\ req[p].pc \notin NoOrderPCs /\ todo' = todo
      /\ UNCHANGED <<orders, disputes, withdrawn, credits>>
      /\ Post(req[p].o, "order_release") /\ GotoWith(p, "writeOrder", "completed")
      /\ "order_release" \in Reasons /\ req[p].pc \in CopyPCs
  BY DEF DebitLocked, At, NoOrderPCs, Reasons, CopyPCs, PCs, CreatePCs
<1>2. PICK r : r = req[p]
  OBVIOUS
<1>3. /\ r.o \in OrderIds /\ OnCourse(r) /\ HoldsCopies(r) /\ HasDone(r)
      /\ r.doc \in OrderDoc /\ (Sells(r.doc) <=> Sells(orders[r.o]))
  BY <1>1, <1>2, UnderWay
<1>4. PICK s : s = req'[p]
  OBVIOUS
<1>5. /\ OnlyMoves(p) /\ s.pc = "writeOrder" /\ s.op = r.op /\ s.o = r.o /\ s.d = r.d
      /\ s.doc = [r.doc EXCEPT !.status = "completed"]
  BY <1>1, <1>2, <1>4, GotoWithFields DEF IInv
<1>6. s.doc.status = "completed" /\ s.doc.tx = r.doc.tx
  BY <1>3, <1>5 DEF OrderDoc
<1>7. /\ \A n \in OrderIds \ {r.o} : entries'[n] = entries[n]
      /\ entries'[r.o]["order_release"] = entries[r.o]["order_release"] + 1
      /\ \A k \in {"order_lock", "order_cancel", "order_dispute"} :
           entries'[r.o][k] = entries[r.o][k]
  BY <1>1, <1>2, <1>3, PostBooks DEF Reasons
<1>8. /\ Sells(orders[r.o]) /\ EndsIn(r.op) = "completed" /\ Leaves(r.op, orders[r.o].status)
      /\ Account(r.o, 1, 1, orders[r.o].status, orders[r.o].status = "disputed")
  BY <1>1, <1>2, <1>3 DEF OnCourse, Fits, Held, Ahead, BookedAs, Opened, SettlingPCs, HoldsCopies,
     HasDone, EndsIn
<1>9. orders[r.o].status # "completed" /\ orders[r.o].status # "cancelled"
  BY <1>8, LeavesLive
<1>10. Fits(s)
  BY <1>1, <1>2, <1>3, <1>5, <1>6, <1>8 DEF OnCourse, Fits, SettlingPCs, CopyPCs, PCs, CreatePCs
<1>11. OpenOn(r.o)' = OpenOn(r.o)
  BY <1>1 DEF OpenOn
<1>12. Account(r.o, 1, 0, "completed", orders[r.o].status = "disputed")'
  BY <1>1, <1>7, <1>8, <1>9, <1>11 DEF Account, Unlocks, Sells
<1>13. Held(s) = 1 /\ Ahead(s) = 0 /\ BookedAs(s)' = "completed"
       /\ Opened(s)' = (orders'[r.o].status = "disputed")
  BY <1>5, <1>6 DEF Held, Ahead, BookedAs, Opened
<1>14. Account(r.o, Held(s), Ahead(s), BookedAs(s), Opened(s))'
  BY <1>12, <1>13 DEF Held, Ahead
<1>15. s.pc \notin NoOrderPCs
  BY <1>5 DEF NoOrderPCs
<1> QED BY <1>1, <1>2, <1>4, <1>5, <1>7, <1>10, <1>14, <1>15, BooksStep

(* A buy order is credited once, for the deposit its document names.        *)
LEMMA CreditDepositBooks ==
  ASSUME IInv, SerialInv, NEW p \in Procs, CreditDeposit(p)
  PROVE  SerialInv'
<1>1. /\ req[p].pc = "creditDeposit" /\ req[p].pc \notin NoOrderPCs /\ todo' = todo
      /\ UNCHANGED <<orders, disputes, withdrawn, entries>>
      /\ GotoWith(p, "writeOrder", "completed") /\ req[p].pc \in CopyPCs
      /\ credits' = [credits EXCEPT ![req[p].o][req[p].doc.tx] = @ + 1]
  BY DEF CreditDeposit, At, NoOrderPCs, CopyPCs, PCs, CreatePCs
<1>2. PICK r : r = req[p]
  OBVIOUS
<1>3. /\ r.o \in OrderIds /\ OnCourse(r) /\ HoldsCopies(r) /\ HasDone(r)
      /\ r.doc \in OrderDoc /\ (Sells(r.doc) <=> Sells(orders[r.o]))
  BY <1>1, <1>2, UnderWay
<1>4. PICK s : s = req'[p]
  OBVIOUS
<1>5. /\ OnlyMoves(p) /\ s.pc = "writeOrder" /\ s.op = r.op /\ s.o = r.o /\ s.d = r.d
      /\ s.doc = [r.doc EXCEPT !.status = "completed"]
  BY <1>1, <1>2, <1>4, GotoWithFields DEF IInv
<1>6. s.doc.status = "completed" /\ s.doc.tx = r.doc.tx /\ r.doc.tx \in Txs \cup {NoTx}
  BY <1>3, <1>5 DEF OrderDoc
<1>7. /\ \A n \in OrderIds \ {r.o} : credits'[n] = credits[n]
      /\ \A x \in Txs \cup {NoTx} :
           credits'[r.o][x] = IF x = r.doc.tx THEN credits[r.o][x] + 1 ELSE credits[r.o][x]
  BY <1>1, <1>2, <1>3, <1>6 DEF IInv, TypeOK
<1>8. /\ ~Sells(orders[r.o]) /\ EndsIn(r.op) = "completed" /\ Leaves(r.op, orders[r.o].status)
      /\ r.doc.tx = orders[r.o].tx
      /\ Account(r.o, 1, 0, orders[r.o].status, orders[r.o].status = "disputed")
  BY <1>1, <1>2, <1>3 DEF OnCourse, Fits, Held, Ahead, BookedAs, Opened, SettlingPCs, HoldsCopies,
     HasDone, EndsIn
<1>9. orders[r.o].status # "completed" /\ orders[r.o].status # "cancelled"
  BY <1>8, LeavesLive
<1>10. Fits(s)
  BY <1>1, <1>2, <1>3, <1>5, <1>6, <1>8 DEF OnCourse, Fits, SettlingPCs, CopyPCs, PCs, CreatePCs
<1>11. OpenOn(r.o)' = OpenOn(r.o)
  BY <1>1 DEF OpenOn
<1>12. Account(r.o, 1, 0, "completed", orders[r.o].status = "disputed")'
  BY <1>1, <1>7, <1>8, <1>9, <1>11 DEF Account, Unlocks, Sells
<1>13. Held(s) = 1 /\ Ahead(s) = 0 /\ BookedAs(s)' = "completed"
       /\ Opened(s)' = (orders'[r.o].status = "disputed")
  BY <1>5, <1>6 DEF Held, Ahead, BookedAs, Opened
<1>14. Account(r.o, Held(s), Ahead(s), BookedAs(s), Opened(s))'
  BY <1>12, <1>13 DEF Held, Ahead
<1>15. s.pc \notin NoOrderPCs
  BY <1>5 DEF NoOrderPCs
<1> QED BY <1>1, <1>2, <1>4, <1>5, <1>7, <1>10, <1>14, <1>15, BooksStep

(* A sell order's amount is given back, before the document is cancelled.   *)
LEMMA UnlockBooks ==
  ASSUME IInv, SerialInv, NEW p \in Procs, Unlock(p)
  PROVE  SerialInv'
<1>1. PICK k : k = IF req[p].op = "cancel" THEN "order_cancel" ELSE "order_dispute"
  OBVIOUS
<1>2. /\ req[p].pc = "unlock" /\ req[p].pc \notin NoOrderPCs /\ todo' = todo
      /\ UNCHANGED <<orders, disputes, withdrawn, credits>>
      /\ Post(req[p].o, k) /\ Goto(p, "readAd")
      /\ k \in {"order_cancel", "order_dispute"} /\ k \in Reasons /\ req[p].pc \in CopyPCs
  BY <1>1 DEF Unlock, At, NoOrderPCs, Reasons, CopyPCs, PCs, CreatePCs
<1>3. PICK r : r = req[p]
  OBVIOUS
<1>4. /\ r.o \in OrderIds /\ OnCourse(r) /\ HasDone(r) /\ (Sells(r.doc) <=> Sells(orders[r.o]))
  BY <1>2, <1>3, UnderWay
<1>5. PICK s : s = req'[p]
  OBVIOUS
<1>6. /\ OnlyMoves(p) /\ s.pc = "readAd" /\ s.op = r.op /\ s.o = r.o /\ s.d = r.d /\ s.doc = r.doc
  BY <1>2, <1>3, <1>5, GotoFields DEF IInv
<1>7. /\ \A n \in OrderIds \ {r.o} : entries'[n] = entries[n]
      /\ \A j \in Reasons :
           entries'[r.o][j] = IF j = k THEN entries[r.o][j] + 1 ELSE entries[r.o][j]
      /\ \A j \in Reasons : entries[r.o][j] \in Nat
  BY <1>2, <1>3, <1>4, PostBooks
<1>8. /\ Sells(orders[r.o]) /\ Leaves(r.op, orders[r.o].status)
      /\ Account(r.o, 1, 0, orders[r.o].status, orders[r.o].status = "disputed")
  BY <1>2, <1>3, <1>4 DEF OnCourse, Fits, Held, Ahead, BookedAs, Opened, SettlingPCs, HasDone
<1>9. orders[r.o].status # "completed" /\ orders[r.o].status # "cancelled"
  BY <1>8, LeavesLive
<1>10. Fits(s)
  BY <1>2, <1>3, <1>4, <1>6, <1>8 DEF OnCourse, Fits, SettlingPCs, CopyPCs, PCs, CreatePCs
<1>11. OpenOn(r.o)' = OpenOn(r.o)
  BY <1>2 DEF OpenOn
<1>12. Unlocks(r.o)' = 1
  <2>1. Unlocks(r.o) = 0
    BY <1>8, <1>9 DEF Account
  <2> QED BY <1>2, <1>7, <2>1 DEF Unlocks, Reasons
<1>13. Account(r.o, 1, 0, "cancelled", orders[r.o].status = "disputed")'
  <2>1. /\ entries'[r.o]["order_lock"] = entries[r.o]["order_lock"]
        /\ entries'[r.o]["order_release"] = entries[r.o]["order_release"]
    BY <1>2, <1>7 DEF Reasons
  <2> QED BY <1>2, <1>8, <1>9, <1>11, <1>12, <2>1 DEF Account, Sells
<1>14. Held(s) = 1 /\ Ahead(s) = 0 /\ BookedAs(s)' = "cancelled"
       /\ Opened(s)' = (orders'[r.o].status = "disputed")
  BY <1>6 DEF Held, Ahead, BookedAs, Opened
<1>15. Account(r.o, Held(s), Ahead(s), BookedAs(s), Opened(s))'
  BY <1>13, <1>14 DEF Held, Ahead
<1>16. s.pc \notin NoOrderPCs
  BY <1>6 DEF NoOrderPCs
<1> QED BY <1>2, <1>3, <1>5, <1>6, <1>7, <1>10, <1>15, <1>16, BooksStep

(* The ad is given its amount back, and the copy is marked cancelled.       *)
LEMMA RestoreAdMoves ==
  ASSUME IInv, SerialInv, NEW p \in Procs, RestoreAd(p)
  PROVE  SerialInv'
<1>1. /\ req[p].pc = "restoreAd" /\ SameBooks /\ todo' = todo /\ req[p].pc \notin NoOrderPCs
      /\ GotoWith(p, "writeOrder", "cancelled") /\ req[p].pc \in CopyPCs
  BY DEF RestoreAd, At, SameBooks, ledger, NoOrderPCs, CopyPCs, PCs, CreatePCs
<1>2. PICK r : r = req[p]
  OBVIOUS
<1>3. r.o \in OrderIds /\ OnCourse(r) /\ HoldsCopies(r) /\ r.doc \in OrderDoc
  BY <1>1, <1>2, UnderWay
<1>4. PICK s : s = req'[p]
  OBVIOUS
<1>5. /\ OnlyMoves(p) /\ s.pc = "writeOrder" /\ s.op = r.op /\ s.o = r.o /\ s.d = r.d
      /\ s.doc = [r.doc EXCEPT !.status = "cancelled"]
  BY <1>1, <1>2, <1>4, GotoWithFields DEF IInv
<1>6. s.doc.status = "cancelled" /\ s.doc.tx = r.doc.tx
  BY <1>3, <1>5 DEF OrderDoc
<1>7. EndsIn(r.op) = "cancelled" /\ Leaves(r.op, orders[r.o].status)
  BY <1>1, <1>2, <1>3 DEF OnCourse, Fits, SettlingPCs, HoldsCopies, EndsIn
<1>8. Fits(s)
  BY <1>1, <1>2, <1>3, <1>5, <1>6, <1>7 DEF OnCourse, Fits, SettlingPCs, CopyPCs, PCs, CreatePCs
<1>9. Account(s.o, Held(s), Ahead(s), BookedAs(s), Opened(s))
  BY <1>1, <1>2, <1>3, <1>5, <1>6 DEF OnCourse, Held, Ahead, BookedAs, Opened
<1>10. OnCourse(s) /\ s.pc \notin NoOrderPCs
  BY <1>5, <1>8, <1>9 DEF OnCourse, NoOrderPCs
<1> QED BY <1>1, <1>2, <1>4, <1>5, <1>10, MovesOn

-----------------------------------------------------------------------------
(* Steps that write the document *)

(* A request writes its copy, which is current, over a document that is not  *)
(* in a final status.                                                       *)
LEMMA DocumentStep ==
  ASSUME IInv, SerialInv, NEW p \in Procs, OnlyMoves(p), NEW c, c = req[p],
         c.pc \notin NoOrderPCs, c.pc \in CopyPCs,
         orders' = [orders EXCEPT ![c.o] = c.doc], todo' = todo,
         UNCHANGED <<entries, credits, withdrawn, disputes>>,
         orders[c.o].status \notin {"completed", "cancelled"},
         NEW r, req'[p] = r,
         \/ r.pc \in NoOrderPCs /\ r.o = 0 /\ AtRest(c.o)'
         \/ r.pc \notin NoOrderPCs /\ r.o = c.o /\ OnCourse(r)'
  PROVE  SerialInv'
<1>1. /\ c.o \in OrderIds /\ c.o # 0 /\ c.doc \in OrderDoc
      /\ \A q \in Procs \ {p} : req[q].o # c.o
      /\ \A t \in todo : t.o # c.o
  BY UnderWay
<1>2. /\ orders'[c.o] = c.doc
      /\ \A n \in OrderIds \ {c.o} : orders'[n] = orders[n]
  BY <1>1 DEF IInv, TypeOK
<1>3. Exists(c.o)'
  BY <1>1, <1>2, OrderFlowAssumption DEF Exists, OrderFlowAssumption
<1>4. \A n \in OrderIds \ {c.o} : Alone(n)
  BY <1>2 DEF Alone, OpenOn
<1>5. ResolutionsHold'
  <2> SUFFICES ASSUME NEW d \in DisputeIds, disputes[d] # NoDispute
               PROVE  LET o == disputes[d].order
                      IN  /\ disputes[d].resolution # "" => disputes[d].status = "resolved"
                          /\ disputes[d].resolution = "release_to_buyer" =>
                               orders'[o].status = "completed"
                          /\ disputes[d].resolution = "refund_to_seller" =>
                               orders'[o].status = "cancelled"
    BY DEF ResolutionsHold
  <2>1. disputes[d].order \in OrderIds
    BY DEF IInv, TypeOK, DisputeDoc
  <2>2. /\ disputes[d].resolution # "" => disputes[d].status = "resolved"
        /\ disputes[d].resolution = "release_to_buyer" => orders[disputes[d].order].status = "completed"
        /\ disputes[d].resolution = "refund_to_seller" => orders[disputes[d].order].status = "cancelled"
    BY DEF SerialInv, ResolutionsHold
  <2> QED BY <1>2, <2>1, <2>2
<1>6. r.o = c.o => OnCourse(req[p])'
  <2>1. r.o = c.o => OnCourse(r)'
    BY <1>1
  <2> QED BY <2>1 DEF OnCourse, Fits, Held, Ahead, BookedAs, Opened
<1>7. r.o = 0 => AtRest(c.o)'
  BY <1>1
<1> QED BY <1>1, <1>3, <1>4, <1>5, <1>6, <1>7, OrderStep

(* The books of an order whose document is replaced by a copy of it *)
LEMMA SameAccountWritten ==
  ASSUME NEW o \in OrderIds, NEW doc, orders'[o] = doc, Sells(doc) <=> Sells(orders[o]),
         doc.tx = orders[o].tx, UNCHANGED <<entries, credits, withdrawn, disputes>>,
         NEW h, NEW a, NEW s, NEW b, Account(o, h, a, s, b)
  PROVE  Account(o, h, a, s, b)'
<1>1. OpenOn(o)' = OpenOn(o)
  BY DEF OpenOn
<1> QED BY <1>1 DEF Account, Unlocks, Sells

(* SubmitDeposit's first write: the transaction is new to the document. *)
LEMMA WriteMarkedWrites ==
  ASSUME IInv, SerialInv, NEW p \in Procs, WriteMarked(p)
  PROVE  SerialInv'
<1>1. /\ req[p].pc = "writeMarked" /\ req[p].pc \notin NoOrderPCs /\ todo' = todo
      /\ UNCHANGED <<entries, credits, withdrawn, disputes>>
      /\ orders' = [orders EXCEPT ![req[p].o] = req[p].doc]
      /\ GotoWith(p, "writeOrder", "payment_confirmed") /\ req[p].pc \in CopyPCs
  BY DEF WriteMarked, At, ledger, NoOrderPCs, CopyPCs, PCs, CreatePCs
<1>2. PICK r : r = req[p]
  OBVIOUS
<1>3. /\ r.o \in OrderIds /\ OnCourse(r) /\ HoldsCopies(r) /\ r.doc \in OrderDoc
      /\ (Sells(r.doc) <=> Sells(orders[r.o]))
  BY <1>1, <1>2, UnderWay
<1>4. PICK s : s = req'[p]
  OBVIOUS
<1>5. /\ OnlyMoves(p) /\ s.pc = "writeOrder" /\ s.op = r.op /\ s.o = r.o /\ s.d = r.d
      /\ s.doc = [r.doc EXCEPT !.status = "payment_confirmed"]
  BY <1>1, <1>2, <1>4, GotoWithFields DEF IInv
<1>6. s.doc.status = "payment_confirmed" /\ s.doc.tx = r.doc.tx
  BY <1>3, <1>5 DEF OrderDoc
<1>7. /\ orders'[r.o] = r.doc /\ r.doc.status = "payment_marked"
      /\ orders[r.o].status = "awaiting_payment" /\ r.op = "submitDeposit"
  BY <1>1, <1>2, <1>3 DEF IInv, TypeOK, OnCourse, Fits, HoldsCopies
<1>8. Account(r.o, 1, 0, "awaiting_payment", FALSE)
  BY <1>1, <1>2, <1>3, <1>7 DEF OnCourse, Held, Ahead, BookedAs, Opened
<1>9. OpenOn(r.o)' = OpenOn(r.o)
  BY <1>1 DEF OpenOn
<1>10. Account(r.o, 1, 0, "payment_confirmed", FALSE)'
  BY <1>1, <1>3, <1>7, <1>8, <1>9 DEF Account, Unlocks, Sells
<1>11. Fits(s)'
  BY <1>5, <1>6, <1>7 DEF Fits, Leaves, EndsIn, Resolutions
<1>12. Held(s) = 1 /\ Ahead(s) = 0 /\ BookedAs(s)' = "payment_confirmed" /\ Opened(s)' = FALSE
  BY <1>5, <1>6, <1>7 DEF Held, Ahead, BookedAs, Opened
<1>13. OnCourse(s)' /\ s.pc \notin NoOrderPCs
  BY <1>5, <1>10, <1>11, <1>12 DEF OnCourse, Held, Ahead, NoOrderPCs
<1> QED BY <1>1, <1>2, <1>4, <1>5, <1>7, <1>13, DocumentStep

(* The last write: the document catches up with the books.                  *)
LEMMA WriteOrderWrites ==
  ASSUME IInv, SerialInv, NEW p \in Procs, WriteOrder(p)
  PROVE  SerialInv'
<1>1. /\ req[p].pc = "writeOrder" /\ req[p].pc \notin NoOrderPCs /\ todo' = todo
      /\ UNCHANGED <<entries, credits, withdrawn, disputes>>
      /\ orders' = [orders EXCEPT ![req[p].o] = req[p].doc] /\ req[p].pc \in CopyPCs
  BY DEF WriteOrder, At, ledger, NoOrderPCs, CopyPCs, PCs, CreatePCs
<1>2. PICK r : r = req[p]
  OBVIOUS
<1>3. /\ r.o \in OrderIds /\ OnCourse(r) /\ r.doc \in OrderDoc
      /\ (Sells(r.doc) <=> Sells(orders[r.o]))
  BY <1>1, <1>2, UnderWay
<1>4. /\ orders'[r.o] = r.doc /\ r.doc.tx = orders[r.o].tx /\ r.doc.status = EndsIn(r.op)
      /\ Leaves(r.op, orders[r.o].status)
      /\ r.op \in Resolutions => OpenOn(r.o) = {r.d}
  BY <1>1, <1>2, <1>3 DEF IInv, TypeOK, OnCourse, Fits, SettlingPCs
<1>5. /\ orders[r.o].status \notin {"completed", "cancelled"}
      /\ orders[r.o].status = "disputed" <=> r.op \in Resolutions
  BY <1>4, LeavesLive
<1>6. Account(r.o, 1, 0, EndsIn(r.op), r.op \in Resolutions)
  <2>1. Account(r.o, 1, 0, EndsIn(r.op), orders[r.o].status = "disputed")
    BY <1>1, <1>2, <1>3, <1>4 DEF OnCourse, Held, Ahead, BookedAs, Opened
  <2> QED BY <1>5, <2>1 DEF Account
<1>7. Account(r.o, 1, 0, EndsIn(r.op), r.op \in Resolutions)'
  BY <1>1, <1>3, <1>4, <1>6, SameAccountWritten DEF EndsIn
<1>8. PICK s : s = req'[p]
  OBVIOUS
<1>9. CASE r.op \in {"raise"} \cup Resolutions
  <2>1. PICK pc : pc = IF r.op = "raise" THEN "openDispute" ELSE "closeDispute"
    OBVIOUS
  <2>2. Goto(p, pc)
    BY <1>2, <1>9, <2>1 DEF WriteOrder, Resolutions
  <2>3. /\ OnlyMoves(p) /\ s.pc = pc /\ s.op = r.op /\ s.o = r.o /\ s.d = r.d /\ s.doc = r.doc
    BY <1>2, <1>8, <2>2, GotoFields DEF IInv
  <2>4. OpenOn(r.o)' = OpenOn(r.o)
    BY <1>1 DEF OpenOn
  <2>5. Fits(s)'
    BY <1>4, <1>9, <2>1, <2>3, <2>4 DEF Fits, SettlingPCs, EndsIn, Resolutions
  <2>6. /\ Held(s) = 1 /\ Ahead(s) = 0 /\ BookedAs(s)' = EndsIn(r.op)
        /\ r.op \in Resolutions => Opened(s)' = TRUE
        /\ r.op \notin Resolutions => Opened(s)' = FALSE
    BY <1>4, <1>9, <2>1, <2>3 DEF Held, Ahead, BookedAs, Opened, Resolutions
  <2>7. Account(s.o, Held(s), Ahead(s), BookedAs(s), Opened(s))'
    BY <1>7, <2>3, <2>6 DEF Held, Ahead, Account
  <2>8. OnCourse(s)' /\ s.pc \notin NoOrderPCs
    BY <2>1, <2>3, <2>5, <2>7 DEF OnCourse, NoOrderPCs
  <2> QED BY <1>1, <1>2, <1>5, <1>8, <2>3, <2>8, DocumentStep
<1>10. CASE r.op \notin {"raise"} \cup Resolutions
  <2>1. Finish(p)
    BY <1>2, <1>10 DEF WriteOrder
  <2>2. OnlyMoves(p) /\ s.pc \in NoOrderPCs /\ s.o = 0
    BY <1>8, <2>1, FinishFields DEF IInv, NoOrderPCs
  <2>3. EndsIn(r.op) # "disputed"
    BY <1>10 DEF EndsIn, Resolutions
  <2>4. AtRest(r.o)'
    BY <1>4, <1>7, <1>10, <2>3 DEF AtRest
  <2> QED BY <1>1, <1>2, <1>5, <1>8, <2>2, <2>4, DocumentStep
<1> QED BY <1>9, <1>10

-----------------------------------------------------------------------------
(* Steps that write a dispute *)

(* The request about order o writes a dispute about o and finishes.         *)
LEMMA DisputeWrite ==
  ASSUME IInv, SerialInv, NEW p \in Procs, req[p].pc \notin NoOrderPCs, Finish(p),
         NEW o, o = req[p].o, NEW d \in DisputeIds, NEW doc,
         disputes[d] = NoDispute \/ disputes[d].order = o,
         disputes' = [disputes EXCEPT ![d] = doc], doc.order = o, todo' = todo,
         UNCHANGED <<orders, entries, credits, withdrawn>>,
         doc.resolution # "" => doc.status = "resolved",
         doc.resolution = "release_to_buyer" => orders[o].status = "completed",
         doc.resolution = "refund_to_seller" => orders[o].status = "cancelled",
         AtRest(o)'
  PROVE  SerialInv'
<1>1. /\ o \in OrderIds /\ o # 0 /\ Exists(o)
      /\ \A q \in Procs \ {p} : req[q].o # o
      /\ \A t \in todo : t.o # o
  BY UnderWay
<1>2. \A n \in DisputeIds : disputes'[n] = IF n = d THEN doc ELSE disputes[n]
  BY DEF IInv, TypeOK
<1>3. \A n \in OrderIds \ {o} : Alone(n)
  <2> SUFFICES ASSUME NEW n \in OrderIds \ {o} PROVE OpenOn(n)' = OpenOn(n)
    BY DEF Alone
  <2>1. \A e \in DisputeIds : e \in OpenOn(n)' <=> e \in OpenOn(n)
    BY <1>2 DEF OpenOn
  <2> QED BY <2>1 DEF OpenOn
<1>4. ResolutionsHold'
  <2> SUFFICES ASSUME NEW e \in DisputeIds, disputes'[e] # NoDispute
               PROVE  (LET o2 == disputes[e].order
                       IN  /\ disputes[e].resolution # "" => disputes[e].status = "resolved"
                           /\ disputes[e].resolution = "release_to_buyer" =>
                                orders[o2].status = "completed"
                           /\ disputes[e].resolution = "refund_to_seller" =>
                                orders[o2].status = "cancelled")'
    BY DEF ResolutionsHold
  <2>1. CASE e = d
    BY <1>2, <2>1
  <2>2. CASE e # d
    <3>1. disputes'[e] = disputes[e]
      BY <1>2, <2>2
    <3>2. LET o2 == disputes[e].order
          IN  /\ disputes[e].resolution # "" => disputes[e].status = "resolved"
              /\ disputes[e].resolution = "release_to_buyer" => orders[o2].status = "completed"
              /\ disputes[e].resolution = "refund_to_seller" => orders[o2].status = "cancelled"
      BY <3>1 DEF SerialInv, ResolutionsHold
    <3> QED BY <3>1, <3>2
  <2> QED BY <2>1, <2>2
<1>5. OnlyMoves(p) /\ req'[p].pc \in NoOrderPCs /\ req'[p].o = 0 /\ Exists(o)'
  BY <1>1, FinishFields DEF IInv, NoOrderPCs, Exists
<1> QED BY <1>1, <1>3, <1>4, <1>5, OrderStep

(* Raise ends: the order in dispute has the dispute that says so.           *)
LEMMA OpenDisputeWrites ==
  ASSUME IInv, SerialInv, NEW p \in Procs, OpenDispute(p)
  PROVE  SerialInv'
<1>1. /\ req[p].pc = "openDispute" /\ req[p].pc \notin NoOrderPCs /\ todo' = todo /\ Finish(p)
      /\ UNCHANGED <<orders, entries, credits, withdrawn>>
  BY DEF OpenDispute, At, ledger, NoOrderPCs
<1>2. PICK doc : doc = [order |-> req[p].o, status |-> "open", resolution |-> ""]
  OBVIOUS
<1>3. PICK d \in DisputeIds : disputes[d] = NoDispute /\ disputes' = [disputes EXCEPT ![d] = doc]
  BY <1>2 DEF OpenDispute
<1>4. PICK r : r = req[p]
  OBVIOUS
<1>5. doc.order = r.o /\ doc.status = "open" /\ doc.resolution = ""
  BY <1>2, <1>4
<1>6. r.o \in OrderIds /\ OnCourse(r)
  BY <1>1, <1>4, UnderWay
<1>7. orders[r.o].status = "disputed" /\ Account(r.o, 1, 0, "disputed", FALSE)
  BY <1>1, <1>4, <1>6 DEF OnCourse, Fits, Held, Ahead, BookedAs, Opened
<1>8. OpenOn(r.o)' = {d}
  <2>1. OpenOn(r.o) = {}
    BY <1>7 DEF Account
  <2>2. \A n \in DisputeIds : disputes'[n] = IF n = d THEN doc ELSE disputes[n]
    BY <1>3 DEF IInv, TypeOK
  <2>3. doc # NoDispute
    <3>1. doc \in DisputeDoc
      BY <1>2, <1>4, <1>6 DEF DisputeDoc
    <3> QED BY <3>1, OrderFlowAssumption DEF OrderFlowAssumption
  <2>4. \A n \in DisputeIds : n \in OpenOn(r.o)' <=> n = d
    BY <1>5, <2>1, <2>2, <2>3 DEF OpenOn
  <2> QED BY <2>4 DEF OpenOn
<1>9. AtRest(r.o)'
  BY <1>1, <1>7, <1>8 DEF AtRest, Account, Unlocks, Sells
<1> QED BY <1>1, <1>3, <1>4, <1>5, <1>9, DisputeWrite

(* Resolve ends: the order is settled and its dispute is closed.            *)
LEMMA CloseDisputeWrites ==
  ASSUME IInv, SerialInv, NEW p \in Procs, CloseDispute(p)
  PROVE  SerialInv'
<1>1. /\ req[p].pc = "closeDispute" /\ req[p].pc \notin NoOrderPCs /\ todo' = todo /\ Finish(p)
      /\ UNCHANGED <<orders, entries, credits, withdrawn>>
  BY DEF CloseDispute, At, ledger, NoOrderPCs
<1>2. PICK r : r = req[p]
  OBVIOUS
<1>3. PICK doc : doc = [order |-> r.o, status |-> "resolved",
                        resolution |-> IF r.op = "resolveRelease"
                                       THEN "release_to_buyer" ELSE "refund_to_seller"]
  OBVIOUS
<1>4. disputes' = [disputes EXCEPT ![r.d] = doc]
  BY <1>2, <1>3 DEF CloseDispute
<1>5. r.o \in OrderIds /\ OnCourse(r) /\ HoldsCopies(r)
  BY <1>1, <1>2, UnderWay
<1>6. r.op \in Resolutions /\ r.d \in DisputeIds
  BY <1>1, <1>2, <1>5 DEF HoldsCopies
<1>7. /\ doc.order = r.o /\ doc.status = "resolved"
      /\ doc.resolution = "release_to_buyer" => r.op = "resolveRelease"
      /\ doc.resolution = "refund_to_seller" => r.op = "resolveRefund"
  BY <1>3, <1>6 DEF Resolutions
<1>8. /\ OpenOn(r.o) = {r.d} /\ orders[r.o].status = EndsIn(r.op)
      /\ Account(r.o, 1, 0, EndsIn(r.op), TRUE)
  BY <1>1, <1>2, <1>5, <1>6 DEF OnCourse, Fits, Held, Ahead, BookedAs, Opened
<1>9. /\ r.op = "resolveRelease" => EndsIn(r.op) = "completed"
      /\ r.op = "resolveRefund" => EndsIn(r.op) = "cancelled"
  BY DEF EndsIn
<1>10. disputes[r.d].order = r.o
  BY <1>8 DEF OpenOn
<1>11. OpenOn(r.o)' = {}
  <2>1. \A n \in DisputeIds : disputes'[n] = IF n = r.d THEN doc ELSE disputes[n]
    BY <1>4 DEF IInv, TypeOK
  <2>2. \A n \in DisputeIds : n \notin OpenOn(r.o)'
    BY <1>7, <1>8, <2>1 DEF OpenOn
  <2> QED BY <2>2 DEF OpenOn
<1>12. AtRest(r.o)'
  <2>1. EndsIn(r.op) # "disputed"
    BY <1>6, <1>9 DEF Resolutions
  <2> QED BY <1>1, <1>8, <1>11, <2>1 DEF AtRest, Account, Unlocks, Sells
<1> QED BY <1>1, <1>2, <1>4, <1>6, <1>7, <1>8, <1>9, <1>10, <1>12, DisputeWrite

-----------------------------------------------------------------------------
(* The invariant *)

LEMMA InitSerial == Init => SerialInv
<1> SUFFICES ASSUME Init PROVE SerialInv
  OBVIOUS
<1>1. OnePerOrder /\ SweepIsCurrent /\ RequestsOnCourse
  BY DEF Init, OnePerOrder, SweepIsCurrent, RequestsOnCourse, Idle
<1>2. RestingOrders /\ Unplaced /\ ResolutionsHold
  BY DEF Init, RestingOrders, Unplaced, ResolutionsHold, Exists
<1> QED BY <1>1, <1>2 DEF SerialInv

(* No request fails: there is no step of that kind. *)
LEMMA NothingFails ==
  ASSUME Undisturbed, IInv, NEW p \in Procs PROVE ~Failure(p)
<1>1. failures = 0
  BY DEF Undisturbed, IInv, TypeOK
<1> QED BY <1>1 DEF Undisturbed, Failure, Fail, RestoreAdFails, WithdrawAnswerLost

LEMMA NextSerial == Undisturbed /\ IInv /\ SerialInv /\ [Next]_vars => SerialInv'
<1> SUFFICES ASSUME Undisturbed, IInv, SerialInv, [Next]_vars PROVE SerialInv'
  OBVIOUS
<1>1. ASSUME NEW w \in Workers, NewRequest(w) PROVE SerialInv'
  <2>1. CASE \E a \in Ads, u \in Takers, amt \in Amounts, addr \in Addresses \cup {NoAddress} :
               CreateOrder(w, a, u, amt, addr)
    BY <2>1, AboutNoOrder
  <2>2. CASE \E a \in Ads : EditAd(w, a)
    BY <2>2, AboutNoOrder
  <2>3. CASE \E o \in OrderIds, u \in Users :
               \/ MarkPaid(w, o, u) \/ ConfirmPayment(w, o, u)
               \/ RaiseDispute(w, o, u) \/ Cancel(w, o, u)
               \/ \E tx \in Txs : SubmitDeposit(w, o, u, tx)
    BY <2>3, BeginSteps
  <2>4. CASE \E o \in OrderIds : Release(w, o)
    BY <2>4, BeginSteps
  <2>5. CASE \E d \in DisputeIds, op \in Resolutions : ResolveDispute(w, d, op)
    BY <2>5, ResolveBegins
  <2> QED BY <1>1, <2>1, <2>2, <2>3, <2>4, <2>5 DEF NewRequest
<1>2. ASSUME NEW p \in Procs, Continue(p) PROVE SerialInv'
  <2>1. CASE CheckBalance(p) \/ WriteAd(p)     BY <2>1, AboutNoOrder
  <2>2. CASE InsertOrder(p)    BY <2>2, InsertOrderPlaces
  <2>3. CASE DebitAd(p)        BY <2>3, DebitAdMoves
  <2>4. CASE LockFunds(p)      BY <2>4, LockFundsBooks
  <2>5. CASE VerifyDeposit(p)  BY <2>5, VerifyDepositMoves
  <2>6. CASE WriteMarked(p)    BY <2>6, WriteMarkedWrites
  <2>7. CASE WriteOrder(p)     BY <2>7, WriteOrderWrites
  <2>8. CASE CheckWhitelist(p) \/ ReadAd(p)    BY <2>8, SettlingMoves
  <2>9. CASE Withdraw(p)       BY <2>9, WithdrawBooks
  <2>10. CASE DebitLocked(p)   BY <2>10, DebitLockedBooks
  <2>11. CASE CreditDeposit(p) BY <2>11, CreditDepositBooks
  <2>12. CASE MarkDisputed(p)  BY <2>12, MarkDisputedMoves
  <2>13. CASE OpenDispute(p)   BY <2>13, OpenDisputeWrites
  <2>14. CASE ReadDisputed(p)  BY <2>14, ReadDisputedMoves
  <2>15. CASE CloseDispute(p)  BY <2>15, CloseDisputeWrites
  <2>16. CASE Unlock(p)        BY <2>16, UnlockBooks
  <2>17. CASE RestoreAd(p)     BY <2>17, RestoreAdMoves
  <2> QED BY <1>2, <2>1, <2>2, <2>3, <2>4, <2>5, <2>6, <2>7, <2>8, <2>9, <2>10, <2>11, <2>12,
             <2>13, <2>14, <2>15, <2>16, <2>17 DEF Continue
<1>3. ASSUME NEW p \in Procs, Failure(p) PROVE SerialInv'
  BY <1>3, NothingFails
<1>4. CASE Sweep
  BY <1>4, SweepListLists, SweepNextBegins DEF Sweep
<1>5. CASE Environment \/ UNCHANGED vars
  BY <1>5, AboutNoOrder
<1> QED BY <1>1, <1>2, <1>3, <1>4, <1>5 DEF Next

(* When requests about one order do not overlap and none fails, the books of *)
(* every order agree with its document whenever nobody is about it, and a    *)
(* request under way is exactly as far ahead of the document as the calls it *)
(* has made: the order in which completeRelease, unwindCancelledOrder, Raise *)
(* and Resolve make them loses nothing.                                     *)
THEOREM SerialInvariant ==
  ASSUME Undisturbed
  PROVE  Spec => [](IInv /\ SerialInv)
<1>1. Init => SerialInv
  BY InitSerial
<1>2. IInv /\ SerialInv /\ [Next]_vars => SerialInv'
  BY NextSerial
<1> QED BY <1>1, <1>2, InductiveInvariant, PTL DEF Spec

(* Every order is settled once: nothing is locked, paid out, credited or     *)
(* given back twice, and nothing is left out, once nobody is about it. The   *)
(* deposits a taker can name are finitely many, as anything in a database.   *)
THEOREM OrdersSettleOnce ==
  ASSUME Undisturbed, IsFiniteSet(Txs)
  PROVE  Spec => []SettledExactlyOnce
<1>1. ASSUME IInv, SerialInv PROVE SettledExactlyOnce
  <2> SUFFICES ASSUME NEW o \in OrderIds, Resting(o)
               PROVE  LET sells == Sells(orders[o])
                          paid  == Status(o) = "completed"
                          back  == Status(o) = "cancelled"
                      IN  /\ entries[o]["order_lock"] = IF sells THEN 1 ELSE 0
                          /\ entries[o]["order_release"] = IF sells /\ paid THEN 1 ELSE 0
                          /\ withdrawn[o] = entries[o]["order_release"]
                          /\ Unlocks(o) = IF sells /\ back THEN 1 ELSE 0
                          /\ CreditCount(o) = IF ~sells /\ paid THEN 1 ELSE 0
                          /\ CreditCount(o) = credits[o][orders[o].tx]
    BY DEF SettledExactlyOnce
  <2>1. Exists(o) /\ Status(o) = orders[o].status /\ orders[o] \in OrderDoc
    BY <1>1 DEF Resting, Status, Exists, IInv, TypeOK
  <2>2. Account(o, 1, 0, orders[o].status, orders[o].status = "disputed")
    BY <1>1, <2>1 DEF Resting, Busy, SerialInv, RestingOrders, AtRest
  <2>3. /\ orders[o].tx \in Txs \cup {NoTx} /\ IsFiniteSet(Txs \cup {NoTx})
        /\ credits[o][orders[o].tx] \in Int
    <3>1. orders[o].tx \in Txs \cup {NoTx} /\ IsFiniteSet(Txs \cup {NoTx})
      BY <2>1, FS_AddElement DEF OrderDoc
    <3> QED BY <1>1, <3>1 DEF IInv, TypeOK
  <2>4. \A tx \in (Txs \cup {NoTx}) \ {orders[o].tx} : credits[o][tx] = 0
    BY <2>2 DEF Account
  <2>5. CreditCount(o) = SumOver(credits[o], Txs \cup {NoTx})
    BY DEF CreditCount, Sum, SumOver
  <2>6. CreditCount(o) = credits[o][orders[o].tx]
    BY <2>3, <2>4, <2>5, SumSingle
  <2> QED BY <2>1, <2>2, <2>3, <2>6 DEF Account
<1> QED BY <1>1, SerialInvariant, PTL

(* An order is in dispute exactly when one open dispute names it, and ends   *)
(* the way its dispute was resolved.                                        *)
THEOREM DisputesMatchOrders ==
  ASSUME Undisturbed
  PROVE  Spec => []DisputeMatchesOrder
<1>1. ASSUME IInv, SerialInv PROVE DisputeMatchesOrder
  <2> SUFFICES ASSUME NEW o \in OrderIds, Resting(o)
               PROVE  LET of == {d \in DisputeIds : disputes[d] # NoDispute /\ disputes[d].order = o}
                      IN  /\ Cardinality({d \in of : disputes[d].status = "open"})
                               = IF Status(o) = "disputed" THEN 1 ELSE 0
                          /\ \A d \in of :
                               /\ disputes[d].resolution = "release_to_buyer" => Status(o) = "completed"
                               /\ disputes[d].resolution = "refund_to_seller" => Status(o) = "cancelled"
    BY DEF DisputeMatchesOrder
  <2> DEFINE of == {d \in DisputeIds : disputes[d] # NoDispute /\ disputes[d].order = o}
  <2>1. Status(o) = orders[o].status
    BY DEF Resting, Status
  <2>2. Account(o, 1, 0, orders[o].status, orders[o].status = "disputed")
    BY <1>1 DEF Resting, Busy, SerialInv, RestingOrders, AtRest
  <2>3. {d \in of : disputes[d].status = "open"} = OpenOn(o)
    BY DEF OpenOn
  <2>4. Cardinality(OpenOn(o)) = IF orders[o].status = "disputed" THEN 1 ELSE 0
    BY <2>2, FS_EmptySet, FS_Singleton DEF Account
  <2>5. \A d \in of : /\ disputes[d].resolution = "release_to_buyer" => orders[o].status = "completed"
                      /\ disputes[d].resolution = "refund_to_seller" => orders[o].status = "cancelled"
    BY <1>1 DEF SerialInv, ResolutionsHold
  <2> QED BY <2>1, <2>3, <2>4, <2>5
<1> QED BY <1>1, SerialInvariant, PTL

(* Only three steps write an order document. *)
LEMMA WhoWrites ==
  ASSUME Next, \A p \in Procs : ~InsertOrder(p) /\ ~WriteMarked(p) /\ ~WriteOrder(p)
  PROVE  UNCHANGED orders
<1>1. ASSUME NEW w \in Workers, NewRequest(w) PROVE UNCHANGED orders
  BY <1>1 DEF NewRequest, CreateOrder, EditAd, MarkPaid, ConfirmPayment, RaiseDispute, Cancel,
     SubmitDeposit, Release, ResolveDispute
<1>2. ASSUME NEW p \in Procs, Continue(p) PROVE UNCHANGED orders
  BY <1>2 DEF Continue, CheckBalance, DebitAd, LockFunds, VerifyDeposit, CheckWhitelist,
     Withdraw, DebitLocked, CreditDeposit, MarkDisputed, OpenDispute, ReadDisputed,
     CloseDispute, Unlock, ReadAd, RestoreAd, WriteAd
<1>3. ASSUME NEW p \in Procs, Failure(p) PROVE UNCHANGED orders
  BY <1>3 DEF Failure, Fail, RestoreAdFails, WithdrawAnswerLost
<1>4. CASE Sweep
  BY <1>4 DEF Sweep, SweepList, SweepNext
<1>5. CASE Environment
  BY <1>5 DEF Environment, AdminCredit, MarkAddressWhitelisted, DepositArrives, DeadlinePasses, PostAd
<1> QED BY <1>1, <1>2, <1>3, <1>4, <1>5 DEF Next

(* A request's last write moves the status one step on. *)
LEMMA LastStep ==
  ASSUME NEW op, NEW s, Leaves(op, s) PROVE StatusStep(s, EndsIn(op))
  BY DEF Leaves, EndsIn, StatusStep, CanTransition, ValidTransitions, IsDisputable,
         IsCancellable, Resolutions

(* The status of an order only moves forward: no write, though each replaces *)
(* the whole document, takes one back.                                      *)
THEOREM StatusOnlyMovesForward ==
  ASSUME Undisturbed
  PROVE  Spec => StatusMovesForward
<1> DEFINE Forward == \A o \in OrderIds : StatusStep(Status(o), Status(o)')
<1>1. ASSUME IInv, SerialInv, Next PROVE Forward
  <2>1. ASSUME NEW c \in OrderIds, \A n \in OrderIds \ {c} : orders'[n] = orders[n],
               StatusStep(Status(c), Status(c)')
        PROVE  Forward
    BY <2>1 DEF Status, Exists, StatusStep
  <2>2. ASSUME NEW p \in Procs, InsertOrder(p) PROVE Forward
    <3>1. PICK o \in OrderIds : ~Exists(o) /\ orders' = [orders EXCEPT ![o] = req[p].doc]
      BY <2>2 DEF InsertOrder
    <3>2. req[p].doc \in OrderDoc /\ req[p].doc.status = "awaiting_payment"
      BY <1>1, <2>2 DEF InsertOrder, At, IInv, RequestsJustified, HoldsCopies, CreatePCs
    <3>3. orders'[o] = req[p].doc /\ \A n \in OrderIds \ {o} : orders'[n] = orders[n]
      BY <1>1, <3>1 DEF IInv, TypeOK
    <3>4. Status(o) = "none" /\ Status(o)' = "awaiting_payment"
      BY <3>1, <3>2, <3>3, OrderFlowAssumption DEF Status, Exists, OrderFlowAssumption
    <3> QED BY <2>1, <3>3, <3>4 DEF StatusStep
  <2>3. ASSUME NEW p \in Procs, WriteMarked(p) \/ WriteOrder(p) PROVE Forward
    <3>1. /\ req[p].pc \in {"writeMarked", "writeOrder"} /\ req[p].pc \in CopyPCs
          /\ req[p].pc \notin NoOrderPCs /\ orders' = [orders EXCEPT ![req[p].o] = req[p].doc]
      BY <2>3 DEF WriteMarked, WriteOrder, At, CopyPCs, PCs, CreatePCs, NoOrderPCs
    <3>2. PICK r : r = req[p]
      OBVIOUS
    <3>3. r.o \in OrderIds /\ Exists(r.o) /\ OnCourse(r) /\ r.doc \in OrderDoc
      BY <1>1, <3>1, <3>2, UnderWay
    <3>4. orders'[r.o] = r.doc /\ \A n \in OrderIds \ {r.o} : orders'[n] = orders[n]
      BY <1>1, <3>1, <3>2, <3>3 DEF IInv, TypeOK
    <3>5. Status(r.o) = orders[r.o].status /\ Status(r.o)' = r.doc.status
      BY <3>3, <3>4, OrderFlowAssumption DEF Status, Exists, OrderFlowAssumption
    <3>6. StatusStep(orders[r.o].status, r.doc.status)
      <4>1. CASE r.pc = "writeMarked"
        BY <3>3, <4>1 DEF OnCourse, Fits, StatusStep, CanTransition, ValidTransitions
      <4>2. CASE r.pc = "writeOrder"
        BY <3>3, <4>2, LastStep DEF OnCourse, Fits, SettlingPCs
      <4> QED BY <3>1, <3>2, <4>1, <4>2
    <3> QED BY <2>1, <3>3, <3>4, <3>5, <3>6
  <2>4. CASE UNCHANGED orders
    BY <2>4 DEF Status, Exists, StatusStep
  <2> QED BY <1>1, <2>2, <2>3, <2>4, WhoWrites
<1>2. IInv /\ SerialInv /\ [Next]_vars => [Forward]_vars
  BY <1>1
<1> QED BY <1>2, SerialInvariant, PTL DEF Spec, StatusMovesForward

-----------------------------------------------------------------------------
(* Every order keeps the promise of module Settlement.  For each action, the *)
(* books before it and after it are stated, and the phases read off them.   *)

(* What the promise is read off has not changed for order n. *)
LEMMA SamePhase ==
  ASSUME NEW n, orders'[n] = orders[n], entries'[n] = entries[n], credits'[n] = credits[n],
         withdrawn'[n] = withdrawn[n]
  PROVE  UNCHANGED Promise(n)!vars
  BY DEF Promise!vars, SideOf, PhaseOf, Exists, Unlocks, Status, Sells

Kept(n) == [Promise(n)!Next]_(Promise(n)!vars)

(* Only order c is concerned. *)
LEMMA OthersKeep ==
  ASSUME NEW c, \A n \in OrderIds \ {c} : /\ orders'[n] = orders[n] /\ entries'[n] = entries[n]
                                          /\ credits'[n] = credits[n] /\ withdrawn'[n] = withdrawn[n],
         c \in OrderIds => Kept(c)
  PROVE  \A n \in OrderIds : Kept(n)
<1> SUFFICES ASSUME NEW n \in OrderIds PROVE Kept(n)
  OBVIOUS
<1>1. CASE n = c
  BY <1>1
<1>2. CASE n # c
  BY <1>2, SamePhase DEF Kept
<1> QED BY <1>1, <1>2

(* Place *)
LEMMA InsertOrderKeeps ==
  ASSUME IInv, SerialInv, NEW p \in Procs, InsertOrder(p) PROVE \A n \in OrderIds : Kept(n)
<1>1. PICK o \in OrderIds : ~Exists(o) /\ orders' = [orders EXCEPT ![o] = req[p].doc]
  BY DEF InsertOrder
<1>2. req[p].doc \in OrderDoc /\ UNCHANGED <<entries, credits, withdrawn>>
  BY DEF InsertOrder, At, IInv, RequestsJustified, HoldsCopies, CreatePCs, ledger
<1>3. orders'[o] = req[p].doc /\ \A n \in OrderIds \ {o} : orders'[n] = orders[n]
  BY <1>1 DEF IInv, TypeOK
<1>4. Exists(o)'
  BY <1>2, <1>3, OrderFlowAssumption DEF Exists, OrderFlowAssumption
<1>5. /\ \A k \in Reasons : entries[o][k] = 0
      /\ withdrawn[o] = 0 /\ \A tx \in Txs \cup {NoTx} : credits[o][tx] = 0
  BY <1>1 DEF SerialInv, Unplaced
<1>6. /\ Unlocks(o)' = 0 /\ entries'[o]["order_release"] = 0 /\ withdrawn'[o] = 0
      /\ entries'[o]["order_lock"] = 0 /\ \A tx \in Txs \cup {NoTx} : credits'[o][tx] = 0
  BY <1>2, <1>5 DEF Unlocks, Reasons
<1>7. PhaseOf(o) = "none" /\ SideOf(o)' \in {"sell", "buy"}
  BY <1>1, <1>4 DEF PhaseOf, SideOf
<1>8. PhaseOf(o)' = "placed"
  <2>1. Status(o)' # "cancelled"
    <3>1. req[p].doc.status = "awaiting_payment"
      BY DEF InsertOrder, At, IInv, RequestsJustified, HoldsCopies, CreatePCs
    <3> QED BY <1>3, <1>4, <3>1 DEF Status
  <2> QED BY <1>4, <1>6, <2>1 DEF PhaseOf
<1>9. Kept(o)
  BY <1>2, <1>7, <1>8 DEF Kept, Promise!Next, Promise!Place
<1> QED BY <1>2, <1>3, <1>9, OthersKeep

(* Hold *)
LEMMA LockFundsKeeps ==
  ASSUME IInv, SerialInv, NEW p \in Procs, LockFunds(p) PROVE \A n \in OrderIds : Kept(n)
<1>1. /\ req[p].pc = "lockFunds" /\ req[p].pc \notin NoOrderPCs
      /\ UNCHANGED <<orders, credits, withdrawn>>
      /\ Post(req[p].o, "order_lock") /\ "order_lock" \in Reasons
  BY DEF LockFunds, At, NoOrderPCs, Reasons
<1>2. PICK r : r = req[p]
  OBVIOUS
<1>3. r.o \in OrderIds /\ Exists(r.o) /\ OnCourse(r)
  BY <1>1, <1>2, UnderWay
<1>4. /\ \A n \in OrderIds \ {r.o} : entries'[n] = entries[n]
      /\ entries'[r.o]["order_lock"] = entries[r.o]["order_lock"] + 1
      /\ \A k \in {"order_release", "order_cancel", "order_dispute"} :
           entries'[r.o][k] = entries[r.o][k]
  BY <1>1, <1>2, <1>3, PostBooks DEF Reasons
<1>5. /\ Sells(orders[r.o]) /\ orders[r.o].status = "awaiting_payment"
      /\ Account(r.o, 0, 0, orders[r.o].status, orders[r.o].status = "disputed")
  BY <1>1, <1>2, <1>3 DEF OnCourse, Fits, Held, Ahead, BookedAs, Opened
<1>6. /\ Unlocks(r.o) = 0 /\ entries[r.o]["order_release"] = 0 /\ withdrawn[r.o] = 0
      /\ entries[r.o]["order_lock"] = 0
  BY <1>5 DEF Account
<1>7. /\ Unlocks(r.o)' = 0 /\ entries'[r.o]["order_release"] = 0 /\ withdrawn'[r.o] = 0
      /\ entries'[r.o]["order_lock"] = 1
  BY <1>1, <1>4, <1>6 DEF Unlocks
<1>8. PhaseOf(r.o) = "placed" /\ PhaseOf(r.o)' = "held"
  BY <1>1, <1>3, <1>5, <1>6, <1>7 DEF PhaseOf, Exists, Sells
<1>9. SideOf(r.o) = "sell" /\ SideOf(r.o)' = "sell"
  BY <1>1, <1>3, <1>5 DEF SideOf, Exists, Sells
<1>10. Kept(r.o)
  BY <1>1, <1>8, <1>9 DEF Kept, Promise!Next, Promise!Hold, Promise!Move
<1> QED BY <1>1, <1>4, <1>10, OthersKeep

(* PayOut *)
LEMMA WithdrawKeeps ==
  ASSUME IInv, SerialInv, NEW p \in Procs, Withdraw(p) PROVE \A n \in OrderIds : Kept(n)
<1>1. /\ req[p].pc = "withdraw" /\ req[p].pc \notin NoOrderPCs
      /\ UNCHANGED <<orders, entries, credits>> /\ PayOut(req[p].o) /\ req[p].pc \in CopyPCs
  BY DEF Withdraw, At, NoOrderPCs, ledger, CopyPCs, PCs, CreatePCs
<1>2. PICK r : r = req[p]
  OBVIOUS
<1>3. /\ r.o \in OrderIds /\ Exists(r.o) /\ OnCourse(r) /\ HasDone(r)
      /\ (Sells(r.doc) <=> Sells(orders[r.o]))
  BY <1>1, <1>2, UnderWay
<1>4. /\ \A n \in OrderIds \ {r.o} : withdrawn'[n] = withdrawn[n]
      /\ withdrawn'[r.o] = withdrawn[r.o] + 1
  BY <1>1, <1>2, <1>3 DEF PayOut, IInv, TypeOK
<1>5. /\ Sells(orders[r.o]) /\ Leaves(r.op, orders[r.o].status)
      /\ Account(r.o, 1, 0, orders[r.o].status, orders[r.o].status = "disputed")
  BY <1>1, <1>2, <1>3 DEF OnCourse, Fits, Held, Ahead, BookedAs, Opened, SettlingPCs, HasDone
<1>6. /\ Unlocks(r.o) = 0 /\ entries[r.o]["order_release"] = 0 /\ withdrawn[r.o] = 0
      /\ entries[r.o]["order_lock"] = 1
  BY <1>5, LeavesLive DEF Account
<1>7. PhaseOf(r.o) = "held"
  BY <1>3, <1>5, <1>6 DEF PhaseOf
<1>8. PhaseOf(r.o)' = "paying"
  BY <1>1, <1>3, <1>4, <1>5, <1>6 DEF PhaseOf, Exists, Sells, Unlocks
<1>9. SideOf(r.o) = "sell" /\ SideOf(r.o)' = "sell"
  BY <1>1, <1>3, <1>5 DEF SideOf, Exists, Sells
<1>10. Kept(r.o)
  BY <1>4, <1>7, <1>8, <1>9 DEF Kept, Promise!Next, Promise!PayOut
<1> QED BY <1>1, <1>4, <1>10, OthersKeep

(* Debit *)
LEMMA DebitLockedKeeps ==
  ASSUME IInv, SerialInv, NEW p \in Procs, DebitLocked(p) PROVE \A n \in OrderIds : Kept(n)
<1>1. /\ req[p].pc = "debitLocked" /\ req[p].pc \notin NoOrderPCs
      /\ UNCHANGED <<orders, withdrawn, credits>> /\ Post(req[p].o, "order_release")
      /\ "order_release" \in Reasons /\ req[p].pc \in CopyPCs
  BY DEF DebitLocked, At, NoOrderPCs, Reasons, CopyPCs, PCs, CreatePCs
<1>2. PICK r : r = req[p]
  OBVIOUS
<1>3. /\ r.o \in OrderIds /\ Exists(r.o) /\ OnCourse(r) /\ HasDone(r)
      /\ (Sells(r.doc) <=> Sells(orders[r.o]))
  BY <1>1, <1>2, UnderWay
<1>4. /\ \A n \in OrderIds \ {r.o} : entries'[n] = entries[n]
      /\ entries'[r.o]["order_release"] = entries[r.o]["order_release"] + 1
      /\ \A k \in {"order_lock", "order_cancel", "order_dispute"} :
           entries'[r.o][k] = entries[r.o][k]
  BY <1>1, <1>2, <1>3, PostBooks DEF Reasons
<1>5. /\ Sells(orders[r.o]) /\ Leaves(r.op, orders[r.o].status)
      /\ Account(r.o, 1, 1, orders[r.o].status, orders[r.o].status = "disputed")
  BY <1>1, <1>2, <1>3 DEF OnCourse, Fits, Held, Ahead, BookedAs, Opened, SettlingPCs, HasDone
<1>6. Unlocks(r.o) = 0 /\ entries[r.o]["order_release"] = 0 /\ withdrawn[r.o] = 1
  BY <1>5, LeavesLive DEF Account
<1>7. Unlocks(r.o)' = 0 /\ entries'[r.o]["order_release"] = 1
  BY <1>4, <1>6 DEF Unlocks
<1>8. PhaseOf(r.o) = "paying" /\ PhaseOf(r.o)' = "released"
  BY <1>1, <1>3, <1>5, <1>6, <1>7 DEF PhaseOf, Exists, Sells
<1>9. SideOf(r.o) = "sell" /\ SideOf(r.o)' = "sell"
  BY <1>1, <1>3, <1>5 DEF SideOf, Exists, Sells
<1>10. Kept(r.o)
  BY <1>1, <1>8, <1>9 DEF Kept, Promise!Next, Promise!Debit, Promise!Move
<1> QED BY <1>1, <1>4, <1>10, OthersKeep

(* GiveBack *)
LEMMA UnlockKeeps ==
  ASSUME IInv, SerialInv, NEW p \in Procs, Unlock(p) PROVE \A n \in OrderIds : Kept(n)
<1>1. PICK k : k = IF req[p].op = "cancel" THEN "order_cancel" ELSE "order_dispute"
  OBVIOUS
<1>2. /\ req[p].pc = "unlock" /\ req[p].pc \notin NoOrderPCs
      /\ UNCHANGED <<orders, withdrawn, credits>> /\ Post(req[p].o, k)
      /\ k \in {"order_cancel", "order_dispute"} /\ k \in Reasons /\ req[p].pc \in CopyPCs
  BY <1>1 DEF Unlock, At, NoOrderPCs, Reasons, CopyPCs, PCs, CreatePCs
<1>3. PICK r : r = req[p]
  OBVIOUS
<1>4. /\ r.o \in OrderIds /\ Exists(r.o) /\ OnCourse(r) /\ HasDone(r)
      /\ (Sells(r.doc) <=> Sells(orders[r.o]))
  BY <1>2, <1>3, UnderWay
<1>5. /\ \A n \in OrderIds \ {r.o} : entries'[n] = entries[n]
      /\ \A j \in Reasons :
           entries'[r.o][j] = IF j = k THEN entries[r.o][j] + 1 ELSE entries[r.o][j]
      /\ \A j \in Reasons : entries[r.o][j] \in Nat
  BY <1>2, <1>3, <1>4, PostBooks
<1>6. /\ Sells(orders[r.o]) /\ Leaves(r.op, orders[r.o].status)
      /\ Account(r.o, 1, 0, orders[r.o].status, orders[r.o].status = "disputed")
  BY <1>2, <1>3, <1>4 DEF OnCourse, Fits, Held, Ahead, BookedAs, Opened, SettlingPCs, HasDone
<1>7. /\ Unlocks(r.o) = 0 /\ entries[r.o]["order_release"] = 0 /\ withdrawn[r.o] = 0
      /\ entries[r.o]["order_lock"] = 1
  BY <1>6, LeavesLive DEF Account
<1>8. Unlocks(r.o)' = 1
  BY <1>2, <1>5, <1>7 DEF Unlocks, Reasons
<1>9. PhaseOf(r.o) = "held" /\ PhaseOf(r.o)' = "returned"
  <2>1. PhaseOf(r.o) = "held"
    BY <1>4, <1>6, <1>7 DEF PhaseOf
  <2> QED BY <1>2, <1>4, <1>6, <1>8, <2>1 DEF PhaseOf, Exists, Sells
<1>10. SideOf(r.o) = "sell" /\ SideOf(r.o)' = "sell"
  BY <1>2, <1>4, <1>6 DEF SideOf, Exists, Sells
<1>11. Kept(r.o)
  BY <1>2, <1>9, <1>10 DEF Kept, Promise!Next, Promise!GiveBack, Promise!Move
<1> QED BY <1>2, <1>5, <1>11, OthersKeep

(* Credit *)
LEMMA CreditDepositKeeps ==
  ASSUME IInv, SerialInv, NEW p \in Procs, CreditDeposit(p) PROVE \A n \in OrderIds : Kept(n)
<1>1. /\ req[p].pc = "creditDeposit" /\ req[p].pc \notin NoOrderPCs
      /\ UNCHANGED <<orders, withdrawn, entries>> /\ req[p].pc \in CopyPCs
      /\ credits' = [credits EXCEPT ![req[p].o][req[p].doc.tx] = @ + 1]
  BY DEF CreditDeposit, At, NoOrderPCs, CopyPCs, PCs, CreatePCs
<1>2. PICK r : r = req[p]
  OBVIOUS
<1>3. /\ r.o \in OrderIds /\ Exists(r.o) /\ OnCourse(r) /\ HasDone(r)
      /\ r.doc \in OrderDoc /\ (Sells(r.doc) <=> Sells(orders[r.o]))
  BY <1>1, <1>2, UnderWay
<1>4. /\ r.doc.tx \in Txs \cup {NoTx}
      /\ \A n \in OrderIds \ {r.o} : credits'[n] = credits[n]
      /\ credits'[r.o][r.doc.tx] = credits[r.o][r.doc.tx] + 1
  BY <1>1, <1>2, <1>3 DEF IInv, TypeOK, OrderDoc
<1>5. /\ ~Sells(orders[r.o]) /\ Leaves(r.op, orders[r.o].status)
      /\ Account(r.o, 1, 0, orders[r.o].status, orders[r.o].status = "disputed")
  BY <1>1, <1>2, <1>3 DEF OnCourse, Fits, Held, Ahead, BookedAs, Opened, SettlingPCs, HasDone
<1>6. orders[r.o].status # "completed" /\ orders[r.o].status # "cancelled"
  BY <1>5, LeavesLive
<1>7. \A tx \in Txs \cup {NoTx} : credits[r.o][tx] = 0
  BY <1>5, <1>6 DEF Account
<1>8. PhaseOf(r.o) = "placed"
  BY <1>3, <1>5, <1>6, <1>7 DEF PhaseOf, Status
<1>9. PhaseOf(r.o)' = "credited"
  <2>1. credits'[r.o][r.doc.tx] > 0
    BY <1>4, <1>7
  <2> QED BY <1>1, <1>3, <1>4, <1>5, <2>1 DEF PhaseOf, Exists, Sells
<1>10. SideOf(r.o) = "buy" /\ SideOf(r.o)' = "buy"
  BY <1>1, <1>3, <1>5 DEF SideOf, Exists, Sells
<1>11. Kept(r.o)
  BY <1>1, <1>8, <1>9, <1>10 DEF Kept, Promise!Next, Promise!Credit, Promise!Move
<1> QED BY <1>1, <1>4, <1>11, OthersKeep

(* Drop, or nothing the promise speaks of *)
LEMMA WritesKeep ==
  ASSUME IInv, SerialInv, NEW p \in Procs, WriteMarked(p) \/ WriteOrder(p)
  PROVE  \A n \in OrderIds : Kept(n)
<1>1. /\ req[p].pc \in {"writeMarked", "writeOrder"} /\ req[p].pc \in CopyPCs
      /\ req[p].pc \notin NoOrderPCs /\ UNCHANGED <<entries, credits, withdrawn>>
      /\ orders' = [orders EXCEPT ![req[p].o] = req[p].doc]
  BY DEF WriteMarked, WriteOrder, At, CopyPCs, PCs, CreatePCs, NoOrderPCs, ledger
<1>2. PICK r : r = req[p]
  OBVIOUS
<1>3. /\ r.o \in OrderIds /\ Exists(r.o) /\ OnCourse(r) /\ r.doc \in OrderDoc
      /\ (Sells(r.doc) <=> Sells(orders[r.o]))
  BY <1>1, <1>2, UnderWay
<1>4. orders'[r.o] = r.doc /\ \A n \in OrderIds \ {r.o} : orders'[n] = orders[n]
  BY <1>1, <1>2, <1>3 DEF IInv, TypeOK
<1>5. /\ Exists(r.o)' /\ Status(r.o)' = r.doc.status
      /\ Sells(orders[r.o])' <=> Sells(orders[r.o])
  BY <1>3, <1>4, OrderFlowAssumption DEF Exists, Status, Sells, OrderFlowAssumption
<1>6. Status(r.o) = orders[r.o].status /\ orders[r.o].status # "cancelled"
  BY <1>1, <1>2, <1>3, LeavesLive DEF Status, OnCourse, Fits, SettlingPCs
<1>7. SideOf(r.o)' = SideOf(r.o) /\ withdrawn'[r.o] = withdrawn[r.o]
  BY <1>1, <1>3, <1>5 DEF SideOf
<1>8. Unlocks(r.o)' = Unlocks(r.o)
  BY <1>1 DEF Unlocks
<1>9. CASE \/ Sells(orders[r.o]) \/ r.doc.status # "cancelled"
           \/ \E tx \in Txs \cup {NoTx} : credits[r.o][tx] > 0
  <2>1. PhaseOf(r.o)' = PhaseOf(r.o)
    BY <1>1, <1>3, <1>5, <1>6, <1>8, <1>9 DEF PhaseOf
  <2>2. Kept(r.o)
    BY <1>7, <2>1 DEF Kept, Promise!vars
  <2> QED BY <1>1, <1>4, <2>2, OthersKeep
<1>10. CASE /\ ~Sells(orders[r.o]) /\ r.doc.status = "cancelled"
            /\ ~ \E tx \in Txs \cup {NoTx} : credits[r.o][tx] > 0
  <2>1. PhaseOf(r.o) = "placed" /\ PhaseOf(r.o)' = "dropped" /\ SideOf(r.o) = "buy"
    BY <1>1, <1>3, <1>5, <1>6, <1>10 DEF PhaseOf, SideOf
  <2>2. Kept(r.o)
    BY <1>7, <2>1 DEF Kept, Promise!Next, Promise!Drop, Promise!Move
  <2> QED BY <1>1, <1>4, <2>2, OthersKeep
<1> QED BY <1>9, <1>10

(* No other step touches what the promise is read off. *)
LEMMA OtherStepsKeep ==
  ASSUME Next, \A p \in Procs : /\ ~InsertOrder(p) /\ ~WriteMarked(p) /\ ~WriteOrder(p)
                                /\ ~LockFunds(p) /\ ~Withdraw(p) /\ ~DebitLocked(p)
                                /\ ~CreditDeposit(p) /\ ~Unlock(p) /\ ~Failure(p)
  PROVE  \A n \in OrderIds : Kept(n)
<1>1. CASE UNCHANGED <<orders, entries, credits, withdrawn>>
  BY <1>1, SamePhase DEF Kept
<1>2. ASSUME NEW w \in Workers, NewRequest(w) PROVE UNCHANGED <<orders, entries, credits, withdrawn>>
  BY <1>2 DEF NewRequest, CreateOrder, EditAd, MarkPaid, ConfirmPayment, RaiseDispute, Cancel,
     SubmitDeposit, Release, ResolveDispute, ledger
<1>3. ASSUME NEW p \in Procs, Continue(p) PROVE UNCHANGED <<orders, entries, credits, withdrawn>>
  BY <1>3 DEF Continue, CheckBalance, DebitAd, VerifyDeposit, CheckWhitelist, MarkDisputed,
     OpenDispute, ReadDisputed, CloseDispute, ReadAd, RestoreAd, WriteAd, ledger
<1>4. CASE Sweep
  BY <1>1, <1>4 DEF Sweep, SweepList, SweepNext, ledger
<1>5. CASE Environment
  BY <1>1, <1>5 DEF Environment, AdminCredit, MarkAddressWhitelisted, DepositArrives,
     DeadlinePasses, PostAd, ledger
<1> QED BY <1>1, <1>2, <1>3, <1>4, <1>5 DEF Next

(* The order service implements the promise of module Settlement for every   *)
(* order: its crypto is held once and leaves once, by payout or by return.   *)
THEOREM SettlementIsImplemented ==
  ASSUME Undisturbed
  PROVE  Spec => ImplementsSettlement
<1>1. Init => \A o \in OrderIds : Promise(o)!Init
  BY DEF Init, Promise!Init, SideOf, PhaseOf, Exists
<1>2. ASSUME IInv, SerialInv, Next PROVE \A o \in OrderIds : Kept(o)
  BY <1>2, InsertOrderKeeps, LockFundsKeeps, WithdrawKeeps, DebitLockedKeeps, UnlockKeeps,
     CreditDepositKeeps, WritesKeep, OtherStepsKeep, NothingFails
<1>3. ASSUME IInv, SerialInv, Next PROVE \A o \in OrderIds : [Promise(o)!Next]_(Promise(o)!vars)
  BY <1>2, <1>3 DEF Kept
<1>4. IInv /\ SerialInv /\ [Next]_vars
        => [\A o \in OrderIds : [Promise(o)!Next]_(Promise(o)!vars)]_vars
  BY <1>3
<1> QED BY <1>1, <1>4, SerialInvariant, PTL DEF Spec, ImplementsSettlement
================================================================================
