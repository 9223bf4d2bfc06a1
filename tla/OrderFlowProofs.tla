---------------------------- MODULE OrderFlowProofs ----------------------------
(***************************************************************************)
(* Proofs about the order service for every number of goroutines, orders,  *)
(* ads and failures, and every way requests may overlap.                   *)
(*                                                                         *)
(* The argument: postings, payouts and whitelist entries are only added,   *)
(* and the agreed terms of an order never change (Grows).  What IInv says  *)
(* of a request's copies survives any such step of another request         *)
(* (CopiesGrow), so each action has to re-establish it for its own         *)
(* request only (OwnStep, QuietStep).                                      *)
(***************************************************************************)
EXTENDS OrderFlowProperties, TLAPS

(* An idle goroutine holds nothing and owes nothing.                        *)
LEMMA IdleRequest == Idle \in Request /\ HoldsCopies(Idle) /\ HasDone(Idle)
  BY DEF Idle, Request, PCs, Ops, HoldsCopies, HasDone, NoOrderPCs, CreatePCs, CopyPCs,
         Resolutions

(* Moving a request on keeps it a request.                                  *)
LEMMA RequestTypes ==
  ASSUME NEW r \in Request
  PROVE  /\ \A pc \in PCs : [r EXCEPT !.pc = pc] \in Request
         /\ \A pc \in PCs, doc \in OrderDoc : [r EXCEPT !.pc = pc, !.doc = doc] \in Request
         /\ \A pc \in PCs, o \in OrderIds : [r EXCEPT !.pc = pc, !.o = o] \in Request
         /\ \A pc \in PCs, ad \in AdDoc : [r EXCEPT !.pc = pc, !.ad = ad] \in Request
  BY DEF Request

(* A new status leaves the agreed terms of a copy alone.                    *)
LEMMA StatusChange ==
  ASSUME NEW doc \in OrderDoc, NEW s \in OrderStatuses
  PROVE  /\ [doc EXCEPT !.status = s] \in OrderDoc
         /\ SameTerms([doc EXCEPT !.status = s], doc)
         /\ [doc EXCEPT !.status = s].status = s
  BY DEF OrderDoc, SameTerms

-----------------------------------------------------------------------------
(* What every step of the service does to the shared state *)

Grows ==
  /\ \A o \in OrderIds : Exists(o) => Exists(o)' /\ SameTerms(orders'[o], orders[o])
  /\ \A o \in OrderIds, r \in Reasons : entries[o][r] <= entries'[o][r]
  /\ \A o \in OrderIds, tx \in Txs \cup {NoTx} : credits[o][tx] <= credits'[o][tx]
  /\ \A o \in OrderIds : withdrawn[o] <= withdrawn'[o]
  /\ whitelist \subseteq whitelist'

(* What the ledger and Bybit have recorded for an order stays recorded.     *)
LEMMA FactsGrow ==
  ASSUME TypeOK, TypeOK', Grows, NEW o \in OrderIds, NEW doc
  PROVE  /\ SettledFor(o, doc) => SettledFor(o, doc)'
         /\ Unlocks(o) > 0 => Unlocks(o)' > 0
         /\ entries[o]["order_dispute"] > 0 => entries'[o]["order_dispute"] > 0
         /\ withdrawn[o] > 0 => withdrawn'[o] > 0
         /\ Justified(o, doc) => Justified(o, doc)'
         /\ Known(o, doc) => Known(o, doc)'
<1> USE DEF Reasons
<1>0. /\ \A r \in Reasons : entries[o][r] \in Int /\ entries'[o][r] \in Int
      /\ \A tx \in Txs \cup {NoTx} : credits[o][tx] \in Int /\ credits'[o][tx] \in Int
      /\ withdrawn[o] \in Int /\ withdrawn'[o] \in Int
  BY OrderFlowAssumption DEF TypeOK, OrderFlowAssumption
<1>1. SettledFor(o, doc) => SettledFor(o, doc)'
  BY <1>0 DEF SettledFor, Grows, Sells
<1>2. Unlocks(o) > 0 => Unlocks(o)' > 0
  <2>1. /\ entries[o]["order_cancel"] <= entries'[o]["order_cancel"]
        /\ entries[o]["order_dispute"] <= entries'[o]["order_dispute"]
    BY DEF Grows
  <2> QED BY <1>0, <2>1 DEF Unlocks
<1>3. entries[o]["order_dispute"] > 0 => entries'[o]["order_dispute"] > 0
  BY <1>0 DEF Grows
<1>4. withdrawn[o] > 0 => withdrawn'[o] > 0
  BY <1>0 DEF Grows
<1>5. Justified(o, doc) => Justified(o, doc)'
  BY <1>1, <1>2 DEF Justified, Sells
<1>6. Known(o, doc) => Known(o, doc)'
  BY <1>5 DEF Known, Grows, SameTerms
<1> QED BY <1>1, <1>2, <1>3, <1>4, <1>5, <1>6

(* A request that does nothing keeps its justification while others move.   *)
LEMMA CopiesGrow ==
  ASSUME TypeOK, TypeOK', Grows, NEW r \in Request, HoldsCopies(r), HasDone(r)
  PROVE  HoldsCopies(r)' /\ HasDone(r)'
<1>1. ASSUME r.pc \notin NoOrderPCs PROVE r.o \in OrderIds /\ Exists(r.o) /\ Exists(r.o)'
  BY <1>1 DEF HoldsCopies, Grows
<1>2. HoldsCopies(r)'
  <2>1. ASSUME r.pc \in CopyPCs PROVE Known(r.o, r.doc)'
    <3>1. Known(r.o, r.doc) /\ r.o \in OrderIds
      BY <2>1 DEF HoldsCopies, Known
    <3> QED BY <3>1, FactsGrow
  <2> QED BY <1>1, <2>1 DEF HoldsCopies
<1>3. HasDone(r)'
  <2>1. ASSUME r.pc \in {"debitLocked", "readAd", "restoreAd", "writeOrder", "closeDispute"}
        PROVE  r.o \in OrderIds
    BY <1>1, <2>1 DEF NoOrderPCs
  <2>2. r.pc = "withdraw" => IsWhitelisted(r.doc.addr)'
    BY DEF HasDone, Grows, IsWhitelisted
  <2>3. r.pc = "debitLocked" => (withdrawn[r.o] > 0)'
    BY <2>1, FactsGrow DEF HasDone
  <2>4. r.pc \in {"readAd", "restoreAd"} /\ Sells(r.doc) => (Unlocks(r.o) > 0)'
    BY <2>1, FactsGrow DEF HasDone
  <2>5. r.op = "resolveRefund" /\ r.pc \in {"readAd", "restoreAd", "writeOrder", "closeDispute"}
         /\ Sells(r.doc) => (entries[r.o]["order_dispute"] > 0)'
    BY <2>1, FactsGrow DEF HasDone
  <2>6. r.op = "resolveRelease" /\ r.pc \in {"writeOrder", "closeDispute"}
          => SettledFor(r.o, r.doc)'
    BY <2>1, FactsGrow DEF HasDone
  <2> QED BY <2>2, <2>3, <2>4, <2>5, <2>6 DEF HasDone, Sells
<1> QED BY <1>2, <1>3

(* If only p moves, and p's new request is justified, all requests are.     *)
LEMMA OwnStep ==
  ASSUME IInv, TypeOK', Grows, NEW p \in Procs, NEW r \in Request,
         req' = [req EXCEPT ![p] = r], HoldsCopies(r)', HasDone(r)'
  PROVE  RequestsJustified'
<1> SUFFICES ASSUME NEW q \in Procs PROVE HoldsCopies(req[q])' /\ HasDone(req[q])'
  BY DEF RequestsJustified
<1>1. req \in [Procs -> Request]
  BY DEF IInv, TypeOK
<1>2. CASE q = p
  <2>1. req'[q] = r
    BY <1>1, <1>2
  <2> QED BY <2>1 DEF HoldsCopies, HasDone
<1>3. CASE q # p
  <2>1. PICK c \in Request : c = req[q] /\ c = req'[q]
    BY <1>1, <1>3
  <2>2. HoldsCopies(c) /\ HasDone(c)
    BY <2>1 DEF IInv, RequestsJustified
  <2>3. HoldsCopies(c)' /\ HasDone(c)'
    BY <2>2, CopiesGrow DEF IInv
  <2> QED BY <2>1, <2>3 DEF HoldsCopies, HasDone
<1> QED BY <1>2, <1>3

(* The sweep's listed copies stay those of existing orders.                 *)
LEMMA SweepStep ==
  ASSUME TypeOK, TypeOK', Grows, SweepJustified, todo' \subseteq todo
  PROVE  SweepJustified'
<1> SUFFICES ASSUME NEW t \in todo' PROVE Known(t.o, t.doc)'
  BY DEF SweepJustified
<1>1. Known(t.o, t.doc) /\ t.o \in OrderIds
  BY DEF SweepJustified, Known
<1> QED BY <1>1, FactsGrow

(* A step that leaves the order documents alone and only adds to the rest   *)
LEMMA KeptDocsStep ==
  ASSUME IInv, TypeOK', Grows, orders' = orders, todo' \subseteq todo
  PROVE  OrdersJustified' /\ SweepJustified' /\ (disputes' = disputes => DisputesNameOrders')
<1>1. OrdersJustified'
  <2> SUFFICES ASSUME NEW o \in OrderIds, Exists(o) PROVE Justified(o, orders[o])'
    BY DEF OrdersJustified, Exists
  <2>1. Justified(o, orders[o])
    BY DEF IInv, OrdersJustified
  <2>2. PICK doc : doc = orders[o] /\ doc = orders'[o]
    OBVIOUS
  <2>3. Justified(o, doc)'
    BY <2>1, <2>2, FactsGrow DEF IInv, Justified, SettledFor, Sells
  <2> QED BY <2>2, <2>3 DEF Justified, SettledFor, Sells
<1>2. SweepJustified'
  BY SweepStep DEF IInv
<1>3. disputes' = disputes => DisputesNameOrders'
  BY DEF IInv, DisputesNameOrders, Exists
<1> QED BY <1>1, <1>2, <1>3

(* A step that only moves a request on, or drops work of the sweep *)
LEMMA QuietStep ==
  ASSUME IInv, NEW p \in Procs, NEW r \in Request, req' = [req EXCEPT ![p] = r],
         HoldsCopies(r), HasDone(r),
         UNCHANGED <<orders, ads, disputes, ledger, withdrawn, outside>>,
         todo' \subseteq todo, failures' \in 0 .. MaxFailures
  PROVE  IInv'
<1>1. TypeOK'
  BY DEF IInv, TypeOK, ledger, outside
<1>2. Grows
  BY OrderFlowAssumption DEF Grows, IInv, TypeOK, ledger, outside, Exists, SameTerms,
     OrderFlowAssumption
<1>3. HoldsCopies(r)' /\ HasDone(r)'
  BY <1>1, <1>2, CopiesGrow DEF IInv
<1>4. RequestsJustified'
  BY <1>1, <1>2, <1>3, OwnStep
<1>5. OrdersJustified' /\ SweepJustified' /\ DisputesNameOrders'
  BY <1>1, <1>2, KeptDocsStep DEF outside
<1>6. DebitsFollowPayouts' /\ PayoutsAreWhitelisted' /\ ResolvedDisputeIsSettled'
  BY DEF IInv, DebitsFollowPayouts, PayoutsAreWhitelisted,
     IsWhitelisted, ResolvedDisputeIsSettled, ledger,
         outside, Exists, Sells, SettledFor
<1> QED BY <1>1, <1>4, <1>5, <1>6 DEF IInv

-----------------------------------------------------------------------------
(* Steps that only read and check *)

(* A new request about order o, holding a copy of its document *)
LEMMA StartStep ==
  ASSUME IInv, NEW p \in Procs, NEW o \in OrderIds, NEW doc, NEW op \in Ops, NEW pc \in CopyPCs,
         Known(o, doc), Start(p, op, pc, o, doc),
         op \notin Resolutions,
         pc \notin {"withdraw", "debitLocked", "restoreAd", "closeDispute"},
         pc \in {"unlock", "readAd"} => op = "cancel",
         pc \in {"verifyDeposit", "writeMarked"} => op = "submitDeposit",
         pc \in {"checkWhitelist", "creditDeposit"} => op = "release",
         pc = "readAd" => ~Sells(doc),
         pc \in {"checkWhitelist", "unlock"} => Sells(doc), pc = "creditDeposit" => ~Sells(doc),
         UNCHANGED <<orders, ads, disputes, ledger, withdrawn, outside, failures>>,
         todo' \subseteq todo
  PROVE  IInv'
<1> DEFINE r == [Idle EXCEPT !.op = op, !.pc = pc, !.o = o, !.doc = doc]
<1>1. r \in Request
  BY DEF Request, Idle, Known, CopyPCs
<1>2. HoldsCopies(r)
  BY DEF HoldsCopies, Idle, Known, CopyPCs, CreatePCs
<1>3. HasDone(r)
  BY DEF HasDone, Idle, Resolutions
<1>4. req' = [req EXCEPT ![p] = r] /\ failures' \in 0 .. MaxFailures
  BY DEF Start, IInv, TypeOK
<1> QED BY <1>1, <1>2, <1>3, <1>4, QuietStep

(* A request may stop at any point.                                         *)
LEMMA FinishStep ==
  ASSUME IInv, NEW p \in Procs, Finish(p),
         UNCHANGED <<orders, ads, disputes, ledger, withdrawn, outside>>,
         todo' \subseteq todo, failures' \in 0 .. MaxFailures
  PROVE  IInv'
  BY IdleRequest, QuietStep DEF Finish

(* Create's checks of the ad: the copy it starts with fits the ad.          *)
LEMMA CreateOrderStep ==
  ASSUME IInv, NEW w \in Workers, NEW a \in Ads, NEW u \in Takers, NEW amt \in Amounts,
         NEW addr \in Addresses \cup {NoAddress}, CreateOrder(w, a, u, amt, addr)
  PROVE  IInv'
<1> DEFINE doc == NewOrder(a, u, amt, addr)
           r == [Idle EXCEPT !.op = "create", !.doc = doc, !.ad = ads[a], !.a = a,
                             !.pc = IF a \in SellAds THEN "checkBalance" ELSE "insertOrder"]
<1>1. doc \in OrderDoc
  BY DEF NewOrder, OrderDoc, OrderStatuses
<1>2. ads[a] \in AdDoc
  BY DEF IInv, TypeOK, CreateOrder, IsPosted
<1>3. r \in Request
  BY <1>1, <1>2 DEF Request, Idle, PCs, Ops
<1>4. HoldsCopies(r) /\ HasDone(r)
  BY <1>1, <1>2 DEF CreateOrder, NewOrder, HoldsCopies, HasDone, Idle, CopyPCs, CreatePCs,
     NoOrderPCs, Resolutions
<1>5. req' = [req EXCEPT ![w] = r] /\ failures' \in 0 .. MaxFailures
  BY DEF CreateOrder, IInv, TypeOK
<1> QED BY <1>3, <1>4, <1>5, QuietStep DEF CreateOrder, Procs

(* A request moves to pc with its copies unchanged. *)
LEMMA GotoStep ==
  ASSUME IInv, NEW p \in Procs, NEW pc \in PCs, Goto(p, pc),
         HoldsCopies([req[p] EXCEPT !.pc = pc]), HasDone([req[p] EXCEPT !.pc = pc]),
         UNCHANGED <<orders, ads, disputes, ledger, withdrawn, outside, todo, failures>>
  PROVE  IInv'
<1>1. PICK r \in Request : r = [req[p] EXCEPT !.pc = pc]
  BY RequestTypes DEF IInv, TypeOK
<1>2. req' = [req EXCEPT ![p] = r]
  BY <1>1 DEF Goto, IInv, TypeOK
<1> QED BY <1>1, <1>2, QuietStep DEF IInv, TypeOK

(* Create's balance check only moves on or stops.                           *)
LEMMA CheckBalanceStep ==
  ASSUME IInv, NEW w \in Procs, CheckBalance(w) PROVE IInv'
<1>1. CASE Finish(w)
  BY <1>1, FinishStep DEF CheckBalance, IInv, TypeOK
<1>2. CASE Goto(w, "insertOrder")
  <2>1. req[w] \in Request /\ HoldsCopies(req[w]) /\ HasDone(req[w]) /\ req[w].pc = "checkBalance"
    BY DEF IInv, TypeOK, RequestsJustified, CheckBalance, At
  <2>2. HoldsCopies([req[w] EXCEPT !.pc = "insertOrder"])
    BY <2>1 DEF HoldsCopies, Request, CreatePCs, NoOrderPCs, CopyPCs
  <2>3. HasDone([req[w] EXCEPT !.pc = "insertOrder"])
    BY <2>1 DEF HasDone, Request
  <2> QED BY <1>2, <2>2, <2>3, GotoStep DEF CheckBalance, PCs
<1> QED BY <1>1, <1>2 DEF CheckBalance

(* The requests that start from a copy of an order.                         *)
LEMMA StartSteps ==
  ASSUME IInv, NEW w \in Workers, NEW o \in OrderIds, NEW u \in Users
  PROVE  /\ MarkPaid(w, o, u) => IInv'
         /\ ConfirmPayment(w, o, u) => IInv'
         /\ Cancel(w, o, u) => IInv'
         /\ Release(w, o) => IInv'
         /\ \A tx \in Txs : SubmitDeposit(w, o, u, tx) => IInv'
<1> USE DEF Procs
<1>0. ASSUME Exists(o)
      PROVE  /\ orders[o] \in OrderDoc /\ Known(o, orders[o])
             /\ \A s \in {"payment_marked", "payment_confirmed"} :
                  Known(o, [orders[o] EXCEPT !.status = s])
  <2>1. orders[o] \in OrderDoc /\ Justified(o, orders[o])
    BY <1>0 DEF IInv, TypeOK, OrdersJustified, Exists
  <2>2. Known(o, orders[o])
    BY <1>0, <2>1 DEF Known, SameTerms
  <2>3. ASSUME NEW s \in {"payment_marked", "payment_confirmed"}
        PROVE  Known(o, [orders[o] EXCEPT !.status = s])
    BY <1>0, <2>1, StatusChange DEF Known, Justified, OrderStatuses
  <2> QED BY <2>1, <2>2, <2>3
<1>1. ASSUME MarkPaid(w, o, u) PROVE IInv'
  <2> DEFINE doc == [orders[o] EXCEPT !.status = "payment_marked"]
  <2>1. Known(o, doc) /\ Start(w, "markPaid", "writeOrder", o, doc)
    BY <1>1, <1>0 DEF MarkPaid
  <2>2. /\ UNCHANGED <<orders, ads, disputes, ledger, withdrawn, outside, failures>>
        /\ todo' \subseteq todo
    BY <1>1 DEF MarkPaid
  <2>3. "writeOrder" \in CopyPCs /\ "markPaid" \in Ops /\ "markPaid" \notin Resolutions
    BY DEF Ops, CopyPCs, PCs, CreatePCs, Resolutions
  <2> HIDE DEF doc
  <2> QED BY <2>1, <2>2, <2>3, StartStep
<1>2. ASSUME ConfirmPayment(w, o, u) PROVE IInv'
  <2> DEFINE doc == [orders[o] EXCEPT !.status = "payment_confirmed"]
  <2>1. Known(o, doc) /\ Start(w, "confirmPayment", "writeOrder", o, doc)
    BY <1>2, <1>0 DEF ConfirmPayment
  <2>2. /\ UNCHANGED <<orders, ads, disputes, ledger, withdrawn, outside, failures>>
        /\ todo' \subseteq todo
    BY <1>2 DEF ConfirmPayment
  <2>3. "writeOrder" \in CopyPCs /\ "confirmPayment" \in Ops /\ "confirmPayment" \notin Resolutions
    BY DEF Ops, CopyPCs, PCs, CreatePCs, Resolutions
  <2> HIDE DEF doc
  <2> QED BY <2>1, <2>2, <2>3, StartStep
<1>3. Cancel(w, o, u) => IInv'
  <2>1. UnwindPC(orders[o]) \in CopyPCs /\ UnwindPC(orders[o]) \in {"unlock", "readAd"}
    BY DEF UnwindPC, CopyPCs, PCs, CreatePCs
  <2> QED BY <1>0, <2>1, StartStep DEF Cancel, Ops, Resolutions, UnwindPC
<1>4. Release(w, o) => IInv'
  <2>1. SettlePC(orders[o]) \in CopyPCs /\ SettlePC(orders[o]) \in {"checkWhitelist", "creditDeposit"}
    BY DEF SettlePC, CopyPCs, PCs, CreatePCs
  <2> QED BY <1>0, <2>1, StartStep DEF Release, Ops, Resolutions, SettlePC
<1>5. ASSUME NEW tx \in Txs, SubmitDeposit(w, o, u, tx) PROVE IInv'
  <2>1. Exists(o) /\ orders[o].status = "awaiting_payment"
    BY <1>5 DEF SubmitDeposit
  <2> DEFINE doc == [orders[o] EXCEPT !.tx = tx]
  <2>2. Known(o, doc) /\ Start(w, "submitDeposit", "verifyDeposit", o, doc)
    BY <1>5, <1>0, <2>1 DEF SubmitDeposit, Known, SameTerms, Justified, OrderDoc
  <2>3. /\ UNCHANGED <<orders, ads, disputes, ledger, withdrawn, outside, failures>>
        /\ todo' \subseteq todo
    BY <1>5 DEF SubmitDeposit
  <2>4. "verifyDeposit" \in CopyPCs /\ "submitDeposit" \in Ops /\ "submitDeposit" \notin Resolutions
    BY DEF Ops, CopyPCs, PCs, CreatePCs, Resolutions
  <2> HIDE DEF doc
  <2> QED BY <2>2, <2>3, <2>4, StartStep
<1> QED BY <1>1, <1>2, <1>3, <1>4, <1>5

(* A request that carries a copy: what IInv says of it *)
LEMMA AtCopy ==
  ASSUME IInv, NEW p \in Procs, req[p].pc \in CopyPCs
  PROVE  /\ req[p] \in Request /\ HoldsCopies(req[p]) /\ HasDone(req[p])
         /\ req[p].o \in OrderIds /\ Exists(req[p].o)
         /\ req[p].doc \in OrderDoc /\ Known(req[p].o, req[p].doc)
  BY DEF IInv, TypeOK, RequestsJustified, HoldsCopies, Known

(* A request that gives its copy another status, with all the rest kept.    *)
LEMMA StatusRequest ==
  ASSUME IInv, NEW p \in Procs, NEW pc \in CopyPCs, NEW s \in OrderStatuses,
         req[p].pc \in CopyPCs, GotoWith(p, pc, s)
  PROVE  \E r \in Request :
           /\ req' = [req EXCEPT ![p] = r]
           /\ r.pc = pc /\ r.op = req[p].op /\ r.o = req[p].o /\ r.d = req[p].d
           /\ r.doc \in OrderDoc /\ SameTerms(r.doc, req[p].doc) /\ r.doc.status = s
<1>1. req[p] \in Request /\ req[p].doc \in OrderDoc
  BY AtCopy
<1>2. PICK doc \in OrderDoc : /\ doc = [req[p].doc EXCEPT !.status = s]
                              /\ SameTerms(doc, req[p].doc) /\ doc.status = s
  BY <1>1, StatusChange
<1>3. PICK r \in Request : r = [req[p] EXCEPT !.pc = pc, !.doc = doc]
  BY <1>1, RequestTypes DEF CopyPCs
<1>4. req' = [req EXCEPT ![p] = r]
  BY <1>2, <1>3 DEF GotoWith, IInv, TypeOK, Request
<1>5. /\ r.pc = pc /\ r.op = req[p].op /\ r.o = req[p].o /\ r.d = req[p].d /\ r.doc = doc
  BY <1>1, <1>3 DEF Request
<1> QED BY <1>2, <1>4, <1>5

(* SubmitDeposit hears from Bybit.                                          *)
LEMMA VerifyDepositStep ==
  ASSUME IInv, NEW w \in Procs, VerifyDeposit(w) PROVE IInv'
<1>1. CASE Finish(w)
  BY <1>1, FinishStep DEF VerifyDeposit, IInv, TypeOK
<1>2. CASE GotoWith(w, "writeMarked", "payment_marked")
  <2>1. req[w].pc = "verifyDeposit" /\ {"verifyDeposit", "writeMarked"} \subseteq CopyPCs
    BY DEF VerifyDeposit, At, CopyPCs, PCs, CreatePCs
  <2>2. PICK r \in Request : /\ req' = [req EXCEPT ![w] = r] /\ r.pc = "writeMarked"
                             /\ r.op = req[w].op /\ r.o = req[w].o /\ r.d = req[w].d
                             /\ r.doc \in OrderDoc /\ SameTerms(r.doc, req[w].doc)
                             /\ r.doc.status = "payment_marked"
    BY <1>2, <2>1, StatusRequest DEF OrderStatuses
  <2>3. Known(r.o, r.doc)
    BY <2>1, <2>2, AtCopy DEF Known, Justified, SameTerms
  <2>4. HoldsCopies(r) /\ HasDone(r)
    BY <2>1, <2>2, <2>3, AtCopy DEF HoldsCopies, HasDone, NoOrderPCs, CreatePCs
  <2> QED BY <2>2, <2>4, QuietStep DEF VerifyDeposit, IInv, TypeOK
<1> QED BY <1>1, <1>2 DEF VerifyDeposit

(* The gate before a withdrawal establishes that the address is             *)
(* whitelisted.                                                             *)
LEMMA CheckWhitelistStep ==
  ASSUME IInv, NEW w \in Procs, CheckWhitelist(w) PROVE IInv'
<1>1. CASE Finish(w)
  BY <1>1, FinishStep DEF CheckWhitelist, IInv, TypeOK
<1>2. CASE Goto(w, "withdraw") /\ IsWhitelisted(req[w].doc.addr)
  <2>1. req[w].pc = "checkWhitelist" /\ {"checkWhitelist", "withdraw"} \subseteq CopyPCs
    BY DEF CheckWhitelist, At, CopyPCs, PCs, CreatePCs
  <2>2. HoldsCopies([req[w] EXCEPT !.pc = "withdraw"])
    BY <2>1, AtCopy DEF HoldsCopies, Request, CreatePCs, NoOrderPCs
  <2>3. HasDone([req[w] EXCEPT !.pc = "withdraw"])
    BY <1>2, <2>1, AtCopy DEF HasDone, Request
  <2> QED BY <1>2, <2>2, <2>3, GotoStep DEF CheckWhitelist, PCs
<1> QED BY <1>1, <1>2 DEF CheckWhitelist

(* Reads of the dispute handlers *)
LEMMA RaiseDisputeStep ==
  ASSUME IInv, NEW w \in Workers, NEW o \in OrderIds, NEW u \in Users, RaiseDispute(w, o, u)
  PROVE  IInv'
<1> DEFINE r == [Idle EXCEPT !.op = "raise", !.pc = "markDisputed", !.o = o, !.doc = NoOrder]
<1>1. r \in Request
  BY DEF Request, Idle, PCs, Ops
<1>2. HoldsCopies(r) /\ HasDone(r)
  BY DEF RaiseDispute, HoldsCopies, HasDone, Idle, CopyPCs, CreatePCs, NoOrderPCs, Resolutions
<1>3. req' = [req EXCEPT ![w] = r]
  BY DEF RaiseDispute, Start
<1> QED BY <1>1, <1>2, <1>3, QuietStep DEF RaiseDispute, Procs, IInv, TypeOK

(* MarkDisputed reads the order afresh.                                     *)
LEMMA MarkDisputedStep ==
  ASSUME IInv, NEW w \in Procs, MarkDisputed(w) PROVE IInv'
<1> DEFINE o == req[w].o
           doc == [orders[o] EXCEPT !.status = "disputed"]
<1>1. CASE Finish(w)
  BY <1>1, FinishStep DEF MarkDisputed, IInv, TypeOK
<1>2. CASE Start(w, "raise", "writeOrder", o, doc)
  <2>1. o \in OrderIds /\ Exists(o)
    BY DEF MarkDisputed, At, IInv, RequestsJustified, HoldsCopies, NoOrderPCs
  <2>2. orders[o] \in OrderDoc
    BY <2>1 DEF IInv, TypeOK, Exists
  <2>3. Known(o, doc)
    BY <2>1, <2>2, StatusChange DEF Known, Justified, OrderStatuses
  <2>4. /\ UNCHANGED <<orders, ads, disputes, ledger, withdrawn, outside, failures>>
        /\ todo' \subseteq todo
    BY DEF MarkDisputed
  <2>5. "writeOrder" \in CopyPCs /\ "raise" \in Ops /\ "raise" \notin Resolutions
    BY DEF Ops, CopyPCs, PCs, CreatePCs, Resolutions
  <2> HIDE DEF o, doc
  <2> QED BY <1>2, <2>1, <2>3, <2>4, <2>5, StartStep
<1> QED BY <1>1, <1>2 DEF MarkDisputed

(* Resolve starts from an open dispute, which names an existing order.      *)
LEMMA ResolveDisputeStep ==
  ASSUME IInv, NEW w \in Workers, NEW d \in DisputeIds, NEW op \in Resolutions,
         ResolveDispute(w, d, op)
  PROVE  IInv'
<1> DEFINE r == [Idle EXCEPT !.op = op, !.pc = "readDisputed", !.o = disputes[d].order, !.d = d]
<1>1. disputes[d] \in DisputeDoc /\ disputes[d].order \in OrderIds /\ Exists(disputes[d].order)
  BY DEF ResolveDispute, IInv, TypeOK, DisputesNameOrders, DisputeDoc
<1>2. r \in Request
  BY <1>1 DEF Request, Idle, PCs, Ops, Resolutions
<1>3. HoldsCopies(r) /\ HasDone(r)
  BY <1>1 DEF HoldsCopies, HasDone, Idle, CopyPCs, CreatePCs, NoOrderPCs
<1>4. req' = [req EXCEPT ![w] = r]
  BY DEF ResolveDispute
<1> QED BY <1>2, <1>3, <1>4, QuietStep DEF ResolveDispute, Procs, IInv, TypeOK

(* ReleaseFromDispute and RefundFromDispute read the order afresh.          *)
LEMMA ReadDisputedStep ==
  ASSUME IInv, NEW w \in Procs, ReadDisputed(w) PROVE IInv'
<1> DEFINE order == orders[req[w].o]
           next == IF req[w].op = "resolveRelease" THEN SettlePC(order) ELSE UnwindPC(order)
<1>1. CASE Finish(w)
  BY <1>1, FinishStep DEF ReadDisputed, IInv, TypeOK
<1>2. CASE order.status = "disputed"
  <2>1. /\ req[w] \in Request /\ req[w].pc = "readDisputed"
        /\ HoldsCopies(req[w]) /\ req[w].o \in OrderIds /\ Exists(req[w].o)
    BY DEF ReadDisputed, At, IInv, TypeOK, RequestsJustified, HoldsCopies, NoOrderPCs
  <2>2. order \in OrderDoc /\ Known(req[w].o, order)
    BY <1>2, <2>1 DEF IInv, TypeOK, Exists, Known, Justified, SameTerms
  <2>3. /\ next \in CopyPCs /\ next \in {"checkWhitelist", "creditDeposit", "unlock", "readAd"}
        /\ next \in {"checkWhitelist", "unlock"} => Sells(order)
        /\ next \in {"creditDeposit", "readAd"} => ~Sells(order)
        /\ next \in {"unlock", "readAd"} <=> req[w].op # "resolveRelease"
    BY DEF SettlePC, UnwindPC, CopyPCs, PCs, CreatePCs
  <2> HIDE DEF next
  <2>4. PICK r \in Request : r = [req[w] EXCEPT !.pc = next, !.doc = order]
    BY <2>1, <2>2, <2>3, RequestTypes DEF CopyPCs
  <2>5. r.pc = next /\ r.doc = order /\ r.o = req[w].o /\ r.op = req[w].op /\ r.d = req[w].d
    BY <2>1, <2>4 DEF Request
  <2>6. HoldsCopies(r)
    BY <2>1, <2>2, <2>3, <2>5 DEF HoldsCopies, CopyPCs, CreatePCs, NoOrderPCs, Resolutions
  <2>7. HasDone(r)
    BY <2>3, <2>5 DEF HasDone
  <2>8. req' = [req EXCEPT ![w] = r]
    BY <1>2, <2>1, <2>4 DEF ReadDisputed, IInv, TypeOK, next
  <2> QED BY <2>6, <2>7, <2>8, QuietStep DEF ReadDisputed, IInv, TypeOK
<1> QED BY <1>1, <1>2 DEF ReadDisputed

(* restoreAdCapacity reads the ad.                                          *)
LEMMA ReadAdStep ==
  ASSUME IInv, NEW p \in Procs, ReadAd(p) PROVE IInv'
<1>1. req[p].pc = "readAd" /\ {"readAd", "restoreAd"} \subseteq CopyPCs
  BY DEF ReadAd, At, CopyPCs, PCs, CreatePCs
<1>2. ads[req[p].doc.ad] \in AdDoc
  BY <1>1, AtCopy DEF IInv, TypeOK, OrderDoc, ReadAd, IsPosted
<1>3. PICK r \in Request : r = [req[p] EXCEPT !.pc = "restoreAd", !.ad = ads[req[p].doc.ad]]
  BY <1>1, <1>2, AtCopy, RequestTypes DEF CopyPCs
<1>4. /\ r.pc = "restoreAd" /\ r.ad \in AdDoc /\ r.o = req[p].o /\ r.doc = req[p].doc
      /\ r.op = req[p].op /\ r.d = req[p].d
  BY <1>1, <1>2, <1>3, AtCopy DEF Request
<1>5. HoldsCopies(r) /\ HasDone(r)
  BY <1>1, <1>4, AtCopy DEF HoldsCopies, HasDone, CreatePCs
<1>6. req' = [req EXCEPT ![p] = r]
  BY <1>1, <1>3, AtCopy DEF ReadAd, IInv, TypeOK
<1> QED BY <1>5, <1>6, QuietStep DEF ReadAd, IInv, TypeOK

(* restoreAdCapacity gives up: the unlock is already posted.                *)
LEMMA RestoreAdFailsStep ==
  ASSUME IInv, NEW p \in Procs, RestoreAdFails(p) PROVE IInv'
<1>1. req[p].pc \in {"readAd", "restoreAd"} /\ {"readAd", "restoreAd", "writeOrder"} \subseteq CopyPCs
  BY DEF RestoreAdFails, CopyPCs, PCs, CreatePCs
<1>2. PICK r \in Request : /\ req' = [req EXCEPT ![p] = r] /\ r.pc = "writeOrder"
                           /\ r.op = req[p].op /\ r.o = req[p].o /\ r.d = req[p].d
                           /\ r.doc \in OrderDoc /\ SameTerms(r.doc, req[p].doc)
                           /\ r.doc.status = "cancelled"
  BY <1>1, StatusRequest DEF OrderStatuses, RestoreAdFails
<1>3. Known(r.o, r.doc) /\ Sells(r.doc) = Sells(req[p].doc)
  BY <1>1, <1>2, AtCopy DEF Known, Justified, SameTerms, Sells, HasDone
<1>4. HoldsCopies(r) /\ HasDone(r)
  BY <1>1, <1>2, <1>3, AtCopy DEF HoldsCopies, HasDone, NoOrderPCs, CreatePCs
<1>5. failures' \in 0 .. MaxFailures
  BY OrderFlowAssumption DEF RestoreAdFails, IInv, TypeOK, OrderFlowAssumption
<1> QED BY <1>2, <1>4, <1>5, QuietStep DEF RestoreAdFails, IInv, TypeOK

(* An admin's edit starts from a copy of the ad.                            *)
LEMMA EditAdStep ==
  ASSUME IInv, NEW w \in Workers, NEW a \in Ads, EditAd(w, a)
  PROVE  IInv'
<1>1. ads[a] \in AdDoc
  BY DEF IInv, TypeOK, EditAd, IsPosted
<1>2. PICK n \in EditAmounts, s \in EditStatuses :
        req' = [req EXCEPT ![w] =
                  [Idle EXCEPT !.op = "editAd", !.pc = "writeAd",
                               !.ad = [avail  |-> IF n = Absent THEN ads[a].avail ELSE n,
                                       status |-> IF s = Absent THEN ads[a].status ELSE s],
                               !.a = a]]
  BY DEF EditAd
<1> DEFINE ad == [avail  |-> IF n = Absent THEN ads[a].avail ELSE n,
                  status |-> IF s = Absent THEN ads[a].status ELSE s]
<1>3. ad \in AdDoc
  BY <1>1, OrderFlowAssumption DEF AdDoc, OrderFlowAssumption
<1> HIDE DEF ad
<1> DEFINE r == [Idle EXCEPT !.op = "editAd", !.pc = "writeAd", !.ad = ad, !.a = a]
<1>4. r \in Request
  BY <1>3 DEF Request, Idle, PCs, Ops
<1>5. HoldsCopies(r) /\ HasDone(r)
  BY <1>3 DEF HoldsCopies, HasDone, Idle, CopyPCs, CreatePCs, NoOrderPCs, Resolutions
<1>6. req' = [req EXCEPT ![w] = r]
  BY <1>2 DEF ad
<1> QED BY <1>4, <1>5, <1>6, QuietStep DEF EditAd, Procs, IInv, TypeOK

(* A request that fails becomes idle.                                       *)
LEMMA FailStep ==
  ASSUME IInv, NEW p \in Procs, Fail(p) PROVE IInv'
<1>1. failures' \in 0 .. MaxFailures
  BY OrderFlowAssumption DEF Fail, IInv, TypeOK, OrderFlowAssumption
<1> QED BY <1>1, FinishStep DEF Fail

-----------------------------------------------------------------------------
(* The sweep *)

(* The sweep lists copies of existing orders.                               *)
LEMMA SweepListStep ==
  ASSUME IInv, SweepList PROVE IInv'
<1>1. \A t \in todo' : Known(t.o, t.doc) /\ t \in [o : OrderIds, doc : OrderDoc]
  <2>1. ASSUME NEW n \in OrderIds, Exists(n) PROVE Known(n, orders[n]) /\ orders[n] \in OrderDoc
    BY <2>1 DEF IInv, TypeOK, OrdersJustified, Known, Exists, SameTerms
  <2>2. \A t \in todo' : \E n \in ListActive : t = [o |-> n, doc |-> orders[n]]
    BY DEF SweepList
  <2>3. \A n \in ListActive : n \in OrderIds /\ Exists(n)
    BY DEF ListActive, Active
  <2> QED BY <2>1, <2>2, <2>3
<1>2. TypeOK'
  BY <1>1 DEF SweepList, IInv, TypeOK, ledger, outside
<1>3. SweepJustified'
  BY <1>1 DEF SweepList, SweepJustified, Known, Exists, SameTerms, Justified, SettledFor,
     Unlocks, ledger
<1>4. RequestsJustified' /\ OrdersJustified' /\ DebitsFollowPayouts' /\ PayoutsAreWhitelisted'
      /\ DisputesNameOrders' /\ ResolvedDisputeIsSettled'
  BY DEF SweepList, IInv, RequestsJustified, OrdersJustified, DebitsFollowPayouts,
     PayoutsAreWhitelisted,
     IsWhitelisted, DisputesNameOrders, ResolvedDisputeIsSettled, HoldsCopies, HasDone,
     Known, Exists, SameTerms, Justified, SettledFor, Unlocks, ledger, outside
<1> QED BY <1>2, <1>3, <1>4 DEF IInv

(* The sweep takes up the next of its copies.                               *)
LEMMA SweepNextStep ==
  ASSUME IInv, SweepNext PROVE IInv'
<1>1. PICK t \in todo : /\ todo' = todo \ {t}
                        /\ Start(Sweeper, "cancel", UnwindPC(t.doc), t.o, t.doc)
  BY DEF SweepNext
<1>2. Known(t.o, t.doc) /\ t.o \in OrderIds
  BY DEF IInv, SweepJustified, Known
<1>3. UnwindPC(t.doc) \in CopyPCs /\ UnwindPC(t.doc) \in {"unlock", "readAd"}
  BY DEF UnwindPC, CopyPCs, PCs, CreatePCs
<1>4. "cancel" \in Ops /\ "cancel" \notin Resolutions /\ Sweeper \in Procs
  BY DEF Ops, Resolutions, Procs
<1>5. (UnwindPC(t.doc) = "unlock" => Sells(t.doc)) /\ (UnwindPC(t.doc) = "readAd" => ~Sells(t.doc))
  BY DEF UnwindPC
<1>6. /\ UNCHANGED <<orders, ads, disputes, ledger, withdrawn, outside, failures>>
      /\ todo' \subseteq todo
  BY <1>1 DEF SweepNext
<1> QED BY <1>1, <1>2, <1>3, <1>4, <1>5, <1>6, StartStep

-----------------------------------------------------------------------------
(* Steps that write *)

(* The order documents a request writes back are known copies. *)
LEMMA WriteDocs ==
  ASSUME IInv, NEW p \in Procs, req[p].pc \in CopyPCs,
         orders' = [orders EXCEPT ![req[p].o] = req[p].doc],
         UNCHANGED <<ads, disputes, ledger, withdrawn, outside, todo, failures>>,
         req' \in [Procs -> Request]
  PROVE  /\ TypeOK' /\ Grows /\ OrdersJustified' /\ SweepJustified' /\ DebitsFollowPayouts'
         /\ PayoutsAreWhitelisted' /\ DisputesNameOrders' /\ ResolvedDisputeIsSettled'
<1>1. /\ req[p].o \in OrderIds /\ Exists(req[p].o) /\ Known(req[p].o, req[p].doc)
      /\ req[p].doc \in OrderDoc
  BY AtCopy
<1>2. TypeOK'
  BY <1>1 DEF IInv, TypeOK, ledger, outside
<1>3. \A o \in OrderIds : orders'[o] = IF o = req[p].o THEN req[p].doc ELSE orders[o]
  BY <1>1 DEF IInv, TypeOK
<1>4. \A o \in OrderIds : /\ Exists(o) <=> Exists(o)'
                          /\ Exists(o) => SameTerms(orders'[o], orders[o])
  BY <1>1, <1>3, OrderFlowAssumption DEF Exists, SameTerms, Known, OrderFlowAssumption
<1>5. Grows
  BY <1>4, OrderFlowAssumption DEF Grows, IInv, TypeOK, ledger, outside, OrderFlowAssumption
<1>6. OrdersJustified'
  <2> SUFFICES ASSUME NEW o \in OrderIds, Exists(o)' PROVE Justified(o, orders[o])'
    BY DEF OrdersJustified
  <2>1. PICK doc : doc = orders'[o]
    OBVIOUS
  <2>2. Justified(o, doc)
    BY <1>1, <1>3, <1>4, <2>1 DEF Known, IInv, OrdersJustified
  <2>3. Justified(o, doc)'
    BY <1>2, <1>5, <2>2, FactsGrow DEF IInv
  <2> QED BY <2>1, <2>3 DEF Justified, SettledFor, Sells
<1>7. SweepJustified'
  BY <1>2, <1>5, SweepStep DEF IInv
<1>8. DebitsFollowPayouts'
  BY DEF IInv, DebitsFollowPayouts, ledger
<1>9. PayoutsAreWhitelisted'
  BY <1>4 DEF IInv, PayoutsAreWhitelisted, IsWhitelisted, SameTerms, Sells, outside
<1>10. DisputesNameOrders'
  BY <1>4 DEF IInv, TypeOK, DisputesNameOrders, DisputeDoc
<1>11. ResolvedDisputeIsSettled'
  <2> SUFFICES ASSUME NEW d \in DisputeIds, disputes[d] # NoDispute
               PROVE  (LET o == disputes[d].order
                       IN  /\ disputes[d].resolution = "release_to_buyer" => SettledFor(o, orders[o])
                           /\ disputes[d].resolution = "refund_to_seller" /\ Sells(orders[o]) =>
                                entries[o]["order_dispute"] > 0)'
    BY DEF ResolvedDisputeIsSettled, ledger
  <2>1. disputes[d].order \in OrderIds /\ Exists(disputes[d].order)
    BY DEF IInv, TypeOK, DisputesNameOrders, DisputeDoc
  <2>2. Sells(orders[disputes[d].order])' = Sells(orders[disputes[d].order])
    BY <2>1, <1>4 DEF Sells, SameTerms
  <2> QED BY <2>1, <2>2 DEF IInv, ResolvedDisputeIsSettled, SettledFor, ledger
<1> QED BY <1>2, <1>5, <1>6, <1>7, <1>8, <1>9, <1>10, <1>11

(* SubmitDeposit's first write of its copy.                                 *)
LEMMA WriteMarkedStep ==
  ASSUME IInv, NEW w \in Procs, WriteMarked(w) PROVE IInv'
<1>1. req[w].pc = "writeMarked" /\ {"writeMarked", "writeOrder"} \subseteq CopyPCs
  BY DEF WriteMarked, At, CopyPCs, PCs, CreatePCs
<1>2. PICK r \in Request : /\ req' = [req EXCEPT ![w] = r] /\ r.pc = "writeOrder"
                           /\ r.op = req[w].op /\ r.o = req[w].o /\ r.d = req[w].d
                           /\ r.doc \in OrderDoc /\ SameTerms(r.doc, req[w].doc)
                           /\ r.doc.status = "payment_confirmed"
  BY <1>1, StatusRequest DEF OrderStatuses, WriteMarked
<1>3. /\ UNCHANGED <<ads, disputes, ledger, withdrawn, outside, todo, failures>>
      /\ orders' = [orders EXCEPT ![req[w].o] = req[w].doc] /\ req' \in [Procs -> Request]
  BY <1>2 DEF WriteMarked, IInv, TypeOK
<1>4. /\ TypeOK' /\ Grows /\ OrdersJustified' /\ SweepJustified' /\ DebitsFollowPayouts'
      /\ PayoutsAreWhitelisted' /\ DisputesNameOrders' /\ ResolvedDisputeIsSettled'
  BY <1>1, <1>3, WriteDocs
<1>5. Known(r.o, r.doc)
  BY <1>1, <1>2, AtCopy DEF Known, Justified, SameTerms
<1>6. HoldsCopies(r) /\ HasDone(r)
  BY <1>1, <1>2, <1>5, AtCopy DEF HoldsCopies, HasDone, NoOrderPCs, CreatePCs, Resolutions
<1>7. HoldsCopies(r)' /\ HasDone(r)'
  BY <1>4, <1>6, CopiesGrow DEF IInv
<1> QED BY <1>2, <1>4, <1>7, OwnStep DEF IInv

(* The last write of every handler: its copy, however stale, is justified.  *)
LEMMA WriteOrderStep ==
  ASSUME IInv, NEW p \in Procs, WriteOrder(p) PROVE IInv'
<1>1. req[p].pc = "writeOrder" /\ {"writeOrder", "openDispute", "closeDispute"} \subseteq CopyPCs
  BY DEF WriteOrder, At, CopyPCs, PCs, CreatePCs
<1>2. PICK r \in Request : req' = [req EXCEPT ![p] = r] /\ HoldsCopies(r) /\ HasDone(r)
  <2>1. CASE Finish(p)
    BY <2>1, IdleRequest DEF Finish
  <2>2. ASSUME NEW pc \in {"openDispute", "closeDispute"}, Goto(p, pc),
               pc = "closeDispute" => req[p].op \in Resolutions
        PROVE  \E r \in Request : req' = [req EXCEPT ![p] = r] /\ HoldsCopies(r) /\ HasDone(r)
    <3>1. PICK r \in Request : r = [req[p] EXCEPT !.pc = pc]
      BY <1>1, <2>2, AtCopy, RequestTypes DEF CopyPCs
    <3>2. /\ r.pc = pc /\ r.op = req[p].op /\ r.o = req[p].o /\ r.d = req[p].d
          /\ r.doc = req[p].doc
      BY <1>1, <3>1, AtCopy DEF Request
    <3>3. HoldsCopies(r) /\ HasDone(r)
      BY <1>1, <2>2, <3>2, AtCopy DEF HoldsCopies, HasDone, NoOrderPCs, CreatePCs
    <3> QED BY <2>2, <3>1, <3>3 DEF Goto, IInv, TypeOK
  <2> QED BY <2>1, <2>2 DEF WriteOrder
<1>3. /\ UNCHANGED <<ads, disputes, ledger, withdrawn, outside, todo, failures>>
      /\ orders' = [orders EXCEPT ![req[p].o] = req[p].doc] /\ req' \in [Procs -> Request]
  BY <1>2 DEF WriteOrder, IInv, TypeOK
<1>4. /\ TypeOK' /\ Grows /\ OrdersJustified' /\ SweepJustified' /\ DebitsFollowPayouts'
      /\ PayoutsAreWhitelisted' /\ DisputesNameOrders' /\ ResolvedDisputeIsSettled'
  BY <1>1, <1>3, WriteDocs
<1>5. HoldsCopies(r)' /\ HasDone(r)'
  BY <1>2, <1>4, CopiesGrow DEF IInv
<1> QED BY <1>2, <1>4, <1>5, OwnStep DEF IInv

(* A new order gets an id no request or list refers to yet.                 *)
LEMMA InsertOrderStep ==
  ASSUME IInv, NEW w \in Procs, InsertOrder(w) PROVE IInv'
<1>1. PICK o \in OrderIds : /\ ~Exists(o)
                            /\ orders' = [orders EXCEPT ![o] = req[w].doc]
                            /\ req' = [req EXCEPT ![w].pc = "debitAd", ![w].o = o]
  BY DEF InsertOrder
<1>2. /\ req[w] \in Request /\ req[w].pc = "insertOrder" /\ HoldsCopies(req[w]) /\ HasDone(req[w])
      /\ req[w].doc \in OrderDoc /\ req[w].doc.status = "awaiting_payment"
  BY DEF InsertOrder, At, IInv, TypeOK, RequestsJustified, HoldsCopies, CreatePCs
<1>3. PICK r \in Request : r = [req[w] EXCEPT !.pc = "debitAd", !.o = o]
  BY <1>2, RequestTypes DEF PCs
<1>4. r.pc = "debitAd" /\ r.o = o /\ r.doc = req[w].doc /\ r.a = req[w].a /\ r.ad = req[w].ad
      /\ r.op = req[w].op /\ r.d = req[w].d
  BY <1>2, <1>3 DEF Request
<1>5. req' = [req EXCEPT ![w] = r]
  BY <1>1, <1>2, <1>3 DEF IInv, TypeOK, Request
<1>6. TypeOK'
  <2>1. orders' \in [OrderIds -> OrderDoc \cup {NoOrder}]
    BY <1>1, <1>2 DEF IInv, TypeOK
  <2>2. req' \in [Procs -> Request]
    BY <1>5 DEF IInv, TypeOK
  <2>3. UNCHANGED <<ads, disputes, ledger, withdrawn, outside, todo, failures>>
    BY DEF InsertOrder
  <2> QED BY <2>1, <2>2, <2>3 DEF IInv, TypeOK, ledger, outside
<1>7. \A n \in OrderIds : Exists(n) => orders'[n] = orders[n]
  BY <1>1 DEF IInv, TypeOK, Exists
<1>8. orders'[o] = req[w].doc /\ Exists(o)'
  BY <1>1, <1>2, OrderFlowAssumption DEF IInv, TypeOK, Exists, OrderFlowAssumption
<1>9. Grows
  BY <1>7, OrderFlowAssumption DEF Grows, Exists, SameTerms, InsertOrder, IInv, TypeOK, ledger,
     outside, OrderFlowAssumption
<1>10. HoldsCopies(r)' /\ HasDone(r)'
  BY <1>2, <1>4, <1>8 DEF HoldsCopies, HasDone, CopyPCs, CreatePCs
<1>11. RequestsJustified'
  BY <1>5, <1>6, <1>9, <1>10, OwnStep
<1>12. OrdersJustified'
  <2> SUFFICES ASSUME NEW n \in OrderIds, Exists(n)' PROVE Justified(n, orders[n])'
    BY DEF OrdersJustified
  <2>1. CASE n = o
    BY <2>1, <1>2, <1>8 DEF Justified
  <2>2. CASE n # o
    BY <2>2, <1>1, <1>7 DEF IInv, TypeOK, OrdersJustified, Justified, SettledFor, Unlocks,
       Exists, InsertOrder, ledger, Sells
  <2> QED BY <2>1, <2>2
<1>13. SweepJustified'
  BY <1>6, <1>9, SweepStep DEF IInv, InsertOrder
<1>14. DebitsFollowPayouts' /\ PayoutsAreWhitelisted' /\ DisputesNameOrders'
  BY <1>7 DEF IInv, TypeOK, DebitsFollowPayouts, PayoutsAreWhitelisted,
     IsWhitelisted, DisputesNameOrders,
     DisputeDoc, Exists, InsertOrder, ledger, outside
<1>15. ResolvedDisputeIsSettled'
  BY <1>7 DEF IInv, TypeOK, ResolvedDisputeIsSettled, DisputesNameOrders, DisputeDoc, SettledFor,
     InsertOrder, ledger
<1> QED BY <1>6, <1>11, <1>12, <1>13, <1>14, <1>15 DEF IInv

(* Steps that post to the ledger, pay out, or write an ad.  Each adds to    *)
(* the shared state, moves its own request on to r, and leaves the order    *)
(* documents and disputes alone.                                            *)
LEMMA AddStep ==
  ASSUME IInv, TypeOK', Grows, NEW p \in Procs, NEW r \in Request,
         req' = [req EXCEPT ![p] = r], HoldsCopies(r)', HasDone(r)',
         UNCHANGED <<orders, disputes>>, todo' \subseteq todo,
         DebitsFollowPayouts', PayoutsAreWhitelisted'
  PROVE  IInv'
<1>1. RequestsJustified'
  BY OwnStep
<1>2. OrdersJustified' /\ SweepJustified' /\ DisputesNameOrders'
  BY KeptDocsStep
<1>3. ResolvedDisputeIsSettled'
  <2> SUFFICES ASSUME NEW d \in DisputeIds, disputes[d] # NoDispute
               PROVE  (LET o == disputes[d].order
                       IN  /\ disputes[d].resolution = "release_to_buyer" => SettledFor(o, orders[o])
                           /\ disputes[d].resolution = "refund_to_seller" /\ Sells(orders[o]) =>
                                entries[o]["order_dispute"] > 0)'
    BY DEF ResolvedDisputeIsSettled
  <2>1. PICK o, doc, s : o = disputes[d].order /\ doc = orders[o] /\ s = disputes[d].resolution
    OBVIOUS
  <2>2. o \in OrderIds
    BY <2>1 DEF IInv, TypeOK, DisputesNameOrders, DisputeDoc
  <2>3. /\ s = "release_to_buyer" => SettledFor(o, doc)
        /\ s = "refund_to_seller" /\ Sells(doc) => entries[o]["order_dispute"] > 0
    BY <2>1 DEF IInv, ResolvedDisputeIsSettled
  <2>4. /\ s = "release_to_buyer" => SettledFor(o, doc)'
        /\ s = "refund_to_seller" /\ Sells(doc) => entries'[o]["order_dispute"] > 0
    BY <2>2, <2>3, FactsGrow DEF IInv
  <2> QED BY <2>1, <2>4 DEF SettledFor, Sells
<1> QED BY <1>1, <1>2, <1>3 DEF IInv

(* A posting adds one entry and takes none away.                            *)
LEMMA PostGrows ==
  ASSUME IInv, NEW o \in OrderIds, NEW k \in Reasons, Post(o, k)
  PROVE  /\ entries' \in [OrderIds -> [Reasons -> 0 .. MaxEntries]]
         /\ entries'[o][k] > 0
         /\ \A n \in OrderIds, r \in Reasons :
              /\ entries[n][r] <= entries'[n][r]
              /\ n # o \/ r # k => entries'[n][r] = entries[n][r]
<1>1. /\ entries \in [OrderIds -> [Reasons -> 0 .. MaxEntries]] /\ MaxEntries \in Nat
  BY OrderFlowAssumption DEF IInv, TypeOK, OrderFlowAssumption
<1>2. entries[o][k] + 1 \in 0 .. MaxEntries
  BY <1>1 DEF Post
<1>3. \A n \in OrderIds, r \in Reasons :
        entries'[n][r] = IF n = o /\ r = k THEN entries[n][r] + 1 ELSE entries[n][r]
  BY <1>1 DEF Post
<1>4. entries' \in [OrderIds -> [Reasons -> 0 .. MaxEntries]]
  BY <1>1, <1>2 DEF Post
<1>5. \A n \in OrderIds, r \in Reasons : entries[n][r] \in 0 .. MaxEntries
  BY <1>1
<1> QED BY <1>1, <1>3, <1>4, <1>5

(* A posting that is not a release debit *)
LEMMA PostStep ==
  ASSUME IInv, NEW p \in Procs, NEW r \in Request, req' = [req EXCEPT ![p] = r],
         NEW o \in OrderIds, NEW k \in Reasons, Post(o, k),
         UNCHANGED <<orders, ads, disputes, credits, funded, withdrawn, outside, todo, failures>>,
         k = "order_release" => withdrawn[o] > 0
  PROVE  TypeOK' /\ Grows /\ DebitsFollowPayouts' /\ PayoutsAreWhitelisted'
<1>1. TypeOK'
  <2>1. req' \in [Procs -> Request]
    BY DEF IInv, TypeOK
  <2> QED BY <2>1, PostGrows DEF IInv, TypeOK, outside
<1>2. Grows
  <2>1. \A n \in OrderIds, j \in Reasons : entries[n][j] <= entries'[n][j]
    BY PostGrows
  <2>2. /\ \A n \in OrderIds, tx \in Txs \cup {NoTx} : credits[n][tx] <= credits'[n][tx]
        /\ \A n \in OrderIds : withdrawn[n] <= withdrawn'[n]
    BY OrderFlowAssumption DEF IInv, TypeOK, OrderFlowAssumption
  <2> QED BY <2>1, <2>2 DEF Grows, outside, Exists, SameTerms
<1>3. DebitsFollowPayouts'
  BY PostGrows DEF IInv, DebitsFollowPayouts, Reasons
<1>4. PayoutsAreWhitelisted'
  BY DEF IInv, PayoutsAreWhitelisted, IsWhitelisted, Exists, Sells, outside
<1> QED BY <1>1, <1>2, <1>3, <1>4

(* Create posts its lock.                                                   *)
LEMMA LockFundsStep ==
  ASSUME IInv, NEW w \in Procs, LockFunds(w) PROVE IInv'
<1>1. req[w].o \in OrderIds /\ "order_lock" \in Reasons
  BY DEF LockFunds, At, IInv, RequestsJustified, HoldsCopies, NoOrderPCs, Reasons
<1>2. TypeOK' /\ Grows /\ DebitsFollowPayouts' /\ PayoutsAreWhitelisted'
  BY <1>1, PostStep, IdleRequest DEF LockFunds, Finish
<1>3. HoldsCopies(Idle)' /\ HasDone(Idle)'
  BY <1>2, IdleRequest, CopiesGrow DEF IInv
<1> QED BY <1>2, <1>3, IdleRequest, AddStep DEF LockFunds, Finish

(* The unlock is posted before the order is cancelled.                      *)
LEMMA UnlockStep ==
  ASSUME IInv, NEW p \in Procs, Unlock(p) PROVE IInv'
<1> DEFINE k == IF req[p].op = "cancel" THEN "order_cancel" ELSE "order_dispute"
<1>1. req[p].pc = "unlock" /\ {"unlock", "readAd"} \subseteq CopyPCs /\ k \in Reasons
      /\ k # "order_release"
  BY DEF Unlock, At, CopyPCs, PCs, CreatePCs, Reasons
<1>2. PICK r \in Request : r = [req[p] EXCEPT !.pc = "readAd"]
  BY <1>1, AtCopy, RequestTypes DEF CopyPCs
<1>3. /\ r.pc = "readAd" /\ r.op = req[p].op /\ r.o = req[p].o /\ r.d = req[p].d
      /\ r.doc = req[p].doc /\ r.o \in OrderIds
  BY <1>1, <1>2, AtCopy DEF Request
<1>4. req' = [req EXCEPT ![p] = r] /\ Post(r.o, k)
  BY <1>2, <1>3 DEF Unlock, Goto, IInv, TypeOK
<1>5. TypeOK' /\ Grows /\ DebitsFollowPayouts' /\ PayoutsAreWhitelisted'
  BY <1>1, <1>3, <1>4, PostStep DEF Unlock
<1>6. HoldsCopies(r)'
  <2>1. HoldsCopies(r)
    BY <1>1, <1>3, AtCopy DEF HoldsCopies, CreatePCs
  <2> QED BY <2>1, <1>2, <1>3, <1>5, FactsGrow DEF HoldsCopies, IInv, Grows, CreatePCs
<1>7. HasDone(r)'
  <2>1. entries'[r.o][k] > 0
    BY <1>1, <1>3, <1>4, PostGrows
  <2>2. (Unlocks(r.o) > 0)'
    <3>1. entries'[r.o]["order_cancel"] \in Nat /\ entries'[r.o]["order_dispute"] \in Nat
      BY <1>3, <1>5, OrderFlowAssumption DEF TypeOK, Reasons, OrderFlowAssumption
    <3> QED BY <2>1, <3>1 DEF Unlocks
  <2> QED BY <1>3, <2>1, <2>2 DEF HasDone
<1> QED BY <1>4, <1>5, <1>6, <1>7, AddStep DEF Unlock

(* The release is posted after the withdrawal and before completion.        *)
LEMMA DebitLockedStep ==
  ASSUME IInv, NEW w \in Procs, DebitLocked(w) PROVE IInv'
<1>1. req[w].pc = "debitLocked" /\ {"debitLocked", "writeOrder"} \subseteq CopyPCs
      /\ "order_release" \in Reasons
  BY DEF DebitLocked, At, CopyPCs, PCs, CreatePCs, Reasons
<1>2. PICK r \in Request : /\ req' = [req EXCEPT ![w] = r] /\ r.pc = "writeOrder"
                           /\ r.op = req[w].op /\ r.o = req[w].o /\ r.d = req[w].d
                           /\ r.doc \in OrderDoc /\ SameTerms(r.doc, req[w].doc)
                           /\ r.doc.status = "completed"
  BY <1>1, StatusRequest DEF OrderStatuses, DebitLocked
<1>3. r.o \in OrderIds /\ Exists(r.o) /\ withdrawn[r.o] > 0 /\ Sells(r.doc)
      /\ Known(r.o, req[w].doc)
  BY <1>1, <1>2, AtCopy DEF HasDone, Sells, SameTerms
<1>4. TypeOK' /\ Grows /\ DebitsFollowPayouts' /\ PayoutsAreWhitelisted'
  BY <1>1, <1>2, <1>3, PostStep DEF DebitLocked
<1>5. SettledFor(r.o, r.doc)'
  BY <1>1, <1>2, <1>3, PostGrows DEF DebitLocked, SettledFor, Sells
<1>6. Known(r.o, r.doc)'
  BY <1>2, <1>3, <1>5 DEF Known, Justified, SameTerms, DebitLocked, Exists, Sells
<1>7. HoldsCopies(r)'
  BY <1>1, <1>2, <1>6, AtCopy DEF HoldsCopies, CreatePCs, Known
<1>8. HasDone(r)'
  BY <1>1, <1>2, <1>5, AtCopy DEF HasDone, HoldsCopies
<1> QED BY <1>2, <1>4, <1>7, <1>8, AddStep DEF DebitLocked

(* The deposit is credited before the order is completed.                   *)
LEMMA CreditDepositStep ==
  ASSUME IInv, NEW w \in Procs, CreditDeposit(w) PROVE IInv'
<1> DEFINE o == req[w].o
           tx == req[w].doc.tx
<1>1. req[w].pc = "creditDeposit" /\ {"creditDeposit", "writeOrder"} \subseteq CopyPCs
  BY DEF CreditDeposit, At, CopyPCs, PCs, CreatePCs
<1>2. PICK r \in Request : /\ req' = [req EXCEPT ![w] = r] /\ r.pc = "writeOrder"
                           /\ r.op = req[w].op /\ r.o = o /\ r.d = req[w].d
                           /\ r.doc \in OrderDoc /\ SameTerms(r.doc, req[w].doc)
                           /\ r.doc.status = "completed"
  BY <1>1, StatusRequest DEF OrderStatuses, CreditDeposit
<1>3. /\ o \in OrderIds /\ Exists(o) /\ ~Sells(r.doc) /\ tx \in Txs \cup {NoTx}
      /\ Known(o, req[w].doc)
  BY <1>1, <1>2, AtCopy DEF HasDone, Sells, SameTerms, OrderDoc
<1>4. /\ credits \in [OrderIds -> [Txs \cup {NoTx} -> 0 .. MaxEntries]] /\ MaxEntries \in Nat
      /\ credits' = [credits EXCEPT ![o][tx] = @ + 1] /\ credits[o][tx] < MaxEntries
  BY OrderFlowAssumption DEF IInv, TypeOK, OrderFlowAssumption, CreditDeposit
<1> HIDE DEF o, tx
<1>5. /\ credits' \in [OrderIds -> [Txs \cup {NoTx} -> 0 .. MaxEntries]]
      /\ credits'[o][tx] > 0
      /\ \A n \in OrderIds, x \in Txs \cup {NoTx} : credits[n][x] <= credits'[n][x]
  <2>1. credits[o][tx] + 1 \in 0 .. MaxEntries
    BY <1>3, <1>4
  <2>2. \A n \in OrderIds, x \in Txs \cup {NoTx} :
          credits'[n][x] = IF n = o /\ x = tx THEN credits[n][x] + 1 ELSE credits[n][x]
    BY <1>3, <1>4
  <2>3. credits' \in [OrderIds -> [Txs \cup {NoTx} -> 0 .. MaxEntries]]
    BY <1>3, <1>4, <2>1
  <2>4. \A n \in OrderIds, x \in Txs \cup {NoTx} : credits[n][x] \in 0 .. MaxEntries
    BY <1>4
  <2>5. credits'[o][tx] > 0
    <3>1. credits'[o][tx] = credits[o][tx] + 1 /\ credits[o][tx] \in 0 .. MaxEntries
      BY <1>3, <2>2, <2>4
    <3> QED BY <1>4, <3>1
  <2>6. ASSUME NEW n \in OrderIds, NEW x \in Txs \cup {NoTx}
        PROVE  credits[n][x] <= credits'[n][x]
    <3>1. credits[n][x] \in Int
      BY <1>4, <2>4
    <3>2. credits'[n][x] \in {credits[n][x], credits[n][x] + 1}
      BY <2>2
    <3> QED BY <3>1, <3>2
  <2> QED BY <2>3, <2>5, <2>6
<1>6. TypeOK'
  BY <1>2, <1>5 DEF IInv, TypeOK, outside, CreditDeposit
<1>7. Grows
  <2>1. /\ \A n \in OrderIds, j \in Reasons : entries[n][j] <= entries'[n][j]
        /\ \A n \in OrderIds : withdrawn[n] <= withdrawn'[n]
    BY OrderFlowAssumption DEF IInv, TypeOK, OrderFlowAssumption, CreditDeposit
  <2>2. UNCHANGED <<orders, whitelist>>
    BY DEF CreditDeposit, outside
  <2> QED BY <1>5, <2>1, <2>2 DEF Grows, Exists, SameTerms
<1>8. DebitsFollowPayouts' /\ PayoutsAreWhitelisted'
  BY DEF IInv, DebitsFollowPayouts, PayoutsAreWhitelisted,
     IsWhitelisted, Exists, Sells, outside, CreditDeposit
<1>9. SettledFor(r.o, r.doc)'
  BY <1>2, <1>3, <1>5 DEF SettledFor, Sells
<1>10. Known(r.o, r.doc)'
  BY <1>2, <1>3, <1>9 DEF Known, Justified, SameTerms, CreditDeposit, Exists, Sells
<1>11. HoldsCopies(r)'
  BY <1>1, <1>2, <1>10, AtCopy DEF HoldsCopies, CreatePCs, Known, o
<1>12. HasDone(r)'
  BY <1>1, <1>2, <1>9, AtCopy DEF HasDone, HoldsCopies
<1> QED BY <1>2, <1>6, <1>7, <1>8, <1>11, <1>12, AddStep DEF CreditDeposit

(* Withdraw, with or without an answer *)
LEMMA PayOutStep ==
  ASSUME IInv, NEW w \in Procs, At(w, "withdraw"), PayOut(req[w].o), NEW r \in Request,
         req' = [req EXCEPT ![w] = r],
         UNCHANGED <<orders, ads, disputes, ledger, outside, todo>>,
         failures' \in 0 .. MaxFailures
  PROVE  TypeOK' /\ Grows /\ DebitsFollowPayouts' /\ PayoutsAreWhitelisted'
         /\ withdrawn'[req[w].o] > 0
<1> DEFINE o == req[w].o
<1>1. req[w].pc = "withdraw" /\ {"withdraw"} \subseteq CopyPCs
  BY DEF At, CopyPCs, PCs, CreatePCs
<1>2. /\ o \in OrderIds /\ Exists(o) /\ Sells(orders[o])
      /\ IsWhitelisted(orders[o].addr)
  BY <1>1, AtCopy DEF HasDone, Known, SameTerms, Sells
<1>3. /\ withdrawn \in [OrderIds -> 0 .. MaxEntries] /\ MaxEntries \in Nat
      /\ withdrawn' = [withdrawn EXCEPT ![o] = @ + 1] /\ withdrawn[o] < MaxEntries
  BY OrderFlowAssumption DEF IInv, TypeOK, OrderFlowAssumption, PayOut
<1> HIDE DEF o
<1>4. /\ withdrawn' \in [OrderIds -> 0 .. MaxEntries]
      /\ withdrawn'[o] > 0
      /\ \A n \in OrderIds : /\ withdrawn[n] <= withdrawn'[n]
                             /\ n # o => withdrawn'[n] = withdrawn[n]
  BY <1>2, <1>3
<1>5. TypeOK'
  BY <1>4 DEF IInv, TypeOK, ledger, outside
<1>6. Grows
  <2>1. /\ \A n \in OrderIds, j \in Reasons : entries[n][j] <= entries'[n][j]
        /\ \A n \in OrderIds, tx \in Txs \cup {NoTx} : credits[n][tx] <= credits'[n][tx]
    BY OrderFlowAssumption DEF IInv, TypeOK, OrderFlowAssumption, ledger
  <2> QED BY <1>4, <2>1 DEF Grows, outside, Exists, SameTerms
<1>7. DebitsFollowPayouts'
  BY <1>2, <1>4 DEF IInv, DebitsFollowPayouts, ledger
<1>8. PayoutsAreWhitelisted'
  BY <1>2, <1>4 DEF IInv, PayoutsAreWhitelisted, IsWhitelisted, Exists, Sells, outside
<1> QED BY <1>4, <1>5, <1>6, <1>7, <1>8 DEF o

(* A withdrawal is made only behind the whitelist gate, whether its answer  *)
(* arrives or not.                                                          *)
LEMMA WithdrawSteps ==
  ASSUME IInv, NEW w \in Procs
  PROVE  Withdraw(w) \/ WithdrawAnswerLost(w) => IInv'
<1>1. ASSUME Withdraw(w) PROVE IInv'
  <2>1. req[w].pc = "withdraw" /\ {"withdraw", "debitLocked"} \subseteq CopyPCs
    BY <1>1 DEF Withdraw, At, CopyPCs, PCs, CreatePCs
  <2>2. PICK r \in Request : r = [req[w] EXCEPT !.pc = "debitLocked"]
    BY <2>1, AtCopy, RequestTypes DEF CopyPCs
  <2>3. /\ r.pc = "debitLocked" /\ r.op = req[w].op /\ r.o = req[w].o /\ r.d = req[w].d
        /\ r.doc = req[w].doc
    BY <2>1, <2>2, AtCopy DEF Request
  <2>4. req' = [req EXCEPT ![w] = r] /\ failures' \in 0 .. MaxFailures
    BY <1>1, <2>2 DEF Withdraw, Goto, IInv, TypeOK
  <2>5. TypeOK' /\ Grows /\ DebitsFollowPayouts' /\ PayoutsAreWhitelisted' /\ withdrawn'[r.o] > 0
    BY <1>1, <2>3, <2>4, PayOutStep DEF Withdraw
  <2>6. HoldsCopies(r)'
    <3>1. Known(r.o, r.doc)'
      BY <2>1, <2>3, <2>5, AtCopy, FactsGrow DEF IInv
    <3> QED BY <2>1, <2>3, <3>1, AtCopy DEF HoldsCopies, CreatePCs, Known
  <2>7. HasDone(r)'
    BY <2>1, <2>3, <2>5, AtCopy DEF HasDone, Sells
  <2> QED BY <1>1, <2>4, <2>5, <2>6, <2>7, AddStep DEF Withdraw
<1>2. ASSUME WithdrawAnswerLost(w) PROVE IInv'
  <2>1. req' = [req EXCEPT ![w] = Idle] /\ failures' \in 0 .. MaxFailures
    BY <1>2, OrderFlowAssumption DEF WithdrawAnswerLost, Finish, IInv, TypeOK, OrderFlowAssumption
  <2>2. TypeOK' /\ Grows /\ DebitsFollowPayouts' /\ PayoutsAreWhitelisted'
    BY <1>2, <2>1, IdleRequest, PayOutStep DEF WithdrawAnswerLost
  <2>3. HoldsCopies(Idle)' /\ HasDone(Idle)'
    BY <2>2, IdleRequest, CopiesGrow DEF IInv
  <2> QED BY <1>2, <2>1, <2>2, <2>3, IdleRequest, AddStep DEF WithdrawAnswerLost
<1> QED BY <1>1, <1>2

(* Rounding makes an integer of an integer, a natural number of a natural one. *)
LEMMA RoundedInt ==
  ASSUME NEW n \in Int PROVE Rounded(n) \in Int /\ (n >= 0 => Rounded(n) >= 0)
<1>1. Ulp(n) \in {1, 2, 4}
  BY DEF Ulp
<1>2. /\ n \div 1 \in Int /\ n \div 2 \in Int /\ n \div 4 \in Int
      /\ n >= 0 => n \div 1 >= 0 /\ n \div 2 >= 0 /\ n \div 4 >= 0
  OBVIOUS
<1>3. ASSUME NEW q \in Int, NEW u \in {1, 2, 4}
      PROVE  /\ q * u \in Int /\ (q + 1) * u \in Int
             /\ q >= 0 => q * u >= 0 /\ (q + 1) * u >= 0
  OBVIOUS
<1>4. n \div Ulp(n) \in Int /\ (n >= 0 => n \div Ulp(n) >= 0)
  BY <1>1, <1>2
<1> QED BY <1>1, <1>3, <1>4 DEF Rounded

(* Writes of an ad: the copy it is computed from is well formed. *)
LEMMA AdStep ==
  ASSUME IInv, NEW p \in Procs, NEW r \in Request, req' = [req EXCEPT ![p] = r],
         HoldsCopies(r), HasDone(r), NEW a \in Ads, NEW ad \in AdDoc,
         ads' = [ads EXCEPT ![a] = ad],
         UNCHANGED <<orders, disputes, ledger, withdrawn, outside, todo, failures>>
  PROVE  IInv'
<1>1. TypeOK'
  BY DEF IInv, TypeOK, ledger, outside
<1>2. Grows
  BY OrderFlowAssumption DEF Grows, IInv, TypeOK, ledger, outside, Exists, SameTerms,
     OrderFlowAssumption
<1>3. HoldsCopies(r)' /\ HasDone(r)'
  BY <1>1, <1>2, CopiesGrow DEF IInv
<1>4. DebitsFollowPayouts' /\ PayoutsAreWhitelisted'
  BY DEF IInv, DebitsFollowPayouts, PayoutsAreWhitelisted,
     IsWhitelisted, ledger, outside, Exists, Sells
<1> QED BY <1>1, <1>2, <1>3, <1>4, AddStep

(* Create's write of the ad: what it took was there in its copy.            *)
LEMMA DebitAdStep ==
  ASSUME IInv, NEW w \in Procs, DebitAd(w) PROVE IInv'
<1>1. /\ req[w].pc = "debitAd" /\ req[w] \in Request /\ HoldsCopies(req[w]) /\ HasDone(req[w])
      /\ req[w].doc \in OrderDoc /\ req[w].a \in Ads /\ req[w].ad \in AdDoc
      /\ req[w].doc.amount <= req[w].ad.avail
      /\ req[w].o \in OrderIds /\ Exists(req[w].o)
  BY DEF DebitAd, At, IInv, TypeOK, RequestsJustified, HoldsCopies, CreatePCs, NoOrderPCs
<1> DEFINE left == Rounded(req[w].ad.avail - req[w].doc.amount)
           ad == [avail |-> left, status |-> IF left <= 0 THEN "paused" ELSE req[w].ad.status]
<1>2. ad \in AdDoc
  <2>1. req[w].ad \in AdDoc /\ req[w].ad.avail \in Int /\ req[w].doc.amount \in Int
    <3>1. req[w].doc.amount \in Nat
      BY <1>1, OrderFlowAssumption DEF OrderDoc, OrderFlowAssumption
    <3>2. req[w].ad.avail \in Int
      BY <1>1 DEF AdDoc
    <3> QED BY <1>1, <3>1, <3>2
  <2>2. left \in Int
    <3>1. req[w].ad.avail - req[w].doc.amount \in Int
      BY <1>1, <2>1
    <3> QED BY <3>1, RoundedInt
  <2> HIDE DEF left
  <2> QED BY <2>1, <2>2 DEF AdDoc, AdStatuses
<1>3. ads' = [ads EXCEPT ![req[w].a] = ad]
  BY DEF DebitAd
<1>4. PICK r \in Request : req' = [req EXCEPT ![w] = r] /\ HoldsCopies(r) /\ HasDone(r)
  <2>1. CASE Finish(w)
    BY <2>1, IdleRequest DEF Finish
  <2>2. CASE Goto(w, "lockFunds")
    <3>1. PICK r \in Request : r = [req[w] EXCEPT !.pc = "lockFunds"]
      BY <1>1, RequestTypes DEF PCs
    <3>2. /\ r.pc = "lockFunds" /\ r.op = req[w].op /\ r.o = req[w].o /\ r.d = req[w].d
          /\ r.doc = req[w].doc
      BY <1>1, <3>1 DEF Request
    <3>3. HoldsCopies(r) /\ HasDone(r)
      BY <1>1, <3>2 DEF HoldsCopies, HasDone, CopyPCs, CreatePCs
    <3> QED BY <2>2, <3>1, <3>3 DEF Goto, IInv, TypeOK
  <2> QED BY <2>1, <2>2 DEF DebitAd
<1> HIDE DEF ad
<1> QED BY <1>1, <1>2, <1>3, <1>4, AdStep DEF DebitAd

(* restoreAdCapacity's write of the ad.                                     *)
LEMMA RestoreAdStep ==
  ASSUME IInv, NEW p \in Procs, RestoreAd(p) PROVE IInv'
<1>1. req[p].pc = "restoreAd" /\ {"restoreAd", "writeOrder"} \subseteq CopyPCs
  BY DEF RestoreAd, At, CopyPCs, PCs, CreatePCs
<1> DEFINE ad == [avail  |-> Rounded(req[p].ad.avail + req[p].doc.amount),
                  status |-> IF req[p].ad.status = "paused" THEN "active" ELSE req[p].ad.status]
<1>2. ad \in AdDoc /\ req[p].doc.ad \in Ads
  <2>1. req[p].ad \in AdDoc /\ req[p].doc \in OrderDoc
    BY <1>1, AtCopy DEF HoldsCopies
  <2>2. req[p].ad.avail \in Int /\ req[p].doc.amount \in Int
    <3>1. req[p].doc.amount \in Nat
      BY <2>1, OrderFlowAssumption DEF OrderDoc, OrderFlowAssumption
    <3>2. req[p].ad.avail \in Int
      BY <2>1 DEF AdDoc
    <3> QED BY <2>1, <3>1, <3>2
  <2>3. Rounded(req[p].ad.avail + req[p].doc.amount) \in Int
    <3>1. req[p].ad.avail + req[p].doc.amount \in Int
      BY <2>2
    <3> QED BY <3>1, RoundedInt
  <2> QED BY <2>1, <2>2, <2>3 DEF AdDoc, AdStatuses, OrderDoc
<1>3. ads' = [ads EXCEPT ![req[p].doc.ad] = ad]
  BY DEF RestoreAd
<1> HIDE DEF ad
<1>4. PICK r \in Request : /\ req' = [req EXCEPT ![p] = r] /\ r.pc = "writeOrder"
                           /\ r.op = req[p].op /\ r.o = req[p].o /\ r.d = req[p].d
                           /\ r.doc \in OrderDoc /\ SameTerms(r.doc, req[p].doc)
                           /\ r.doc.status = "cancelled"
  BY <1>1, StatusRequest DEF OrderStatuses, RestoreAd
<1>5. Known(r.o, r.doc) /\ Sells(r.doc) = Sells(req[p].doc)
  BY <1>1, <1>4, AtCopy DEF Known, Justified, SameTerms, Sells, HasDone
<1>6. HoldsCopies(r) /\ HasDone(r)
  BY <1>1, <1>4, <1>5, AtCopy DEF HoldsCopies, HasDone, NoOrderPCs, CreatePCs
<1> QED BY <1>2, <1>3, <1>4, <1>6, AdStep DEF RestoreAd

(* An admin's edit is written.                                              *)
LEMMA WriteAdStep ==
  ASSUME IInv, NEW w \in Procs, WriteAd(w) PROVE IInv'
<1>1. req[w].a \in Ads /\ req[w].ad \in AdDoc
  BY DEF WriteAd, At, IInv, RequestsJustified, HoldsCopies
<1> QED BY <1>1, IdleRequest, AdStep DEF WriteAd, Finish

(* A dispute document is inserted or closed: the order documents and the    *)
(* ledger stay as they are.                                                 *)
LEMMA DisputeStep ==
  ASSUME IInv, NEW p \in Procs, Finish(p), NEW d \in DisputeIds, NEW doc \in DisputeDoc,
         disputes' = [disputes EXCEPT ![d] = doc], Exists(doc.order),
         doc.resolution = "release_to_buyer" => SettledFor(doc.order, orders[doc.order]),
         doc.resolution = "refund_to_seller" /\ Sells(orders[doc.order]) =>
           entries[doc.order]["order_dispute"] > 0,
         UNCHANGED <<orders, ads, ledger, withdrawn, outside, todo, failures>>
  PROVE  IInv'
<1>1. TypeOK'
  BY IdleRequest DEF IInv, TypeOK, ledger, outside, Finish
<1>2. Grows
  BY OrderFlowAssumption DEF Grows, IInv, TypeOK, ledger, outside, Exists, SameTerms,
     OrderFlowAssumption
<1>3. HoldsCopies(Idle)' /\ HasDone(Idle)'
  BY <1>1, <1>2, IdleRequest, CopiesGrow DEF IInv
<1>4. RequestsJustified'
  BY <1>1, <1>2, <1>3, IdleRequest, OwnStep DEF Finish
<1>5. OrdersJustified' /\ SweepJustified'
  BY <1>1, <1>2, KeptDocsStep
<1>6. DebitsFollowPayouts' /\ PayoutsAreWhitelisted'
  BY DEF IInv, DebitsFollowPayouts, PayoutsAreWhitelisted,
     IsWhitelisted, ledger, outside, Exists, Sells
<1>7. \A n \in DisputeIds : disputes'[n] = IF n = d THEN doc ELSE disputes[n]
  BY DEF IInv, TypeOK
<1>8. DisputesNameOrders'
  BY <1>7 DEF IInv, DisputesNameOrders, Exists
<1>9. ResolvedDisputeIsSettled'
  <2> SUFFICES ASSUME NEW n \in DisputeIds, disputes'[n] # NoDispute
               PROVE  (LET o == disputes[n].order
                       IN  /\ disputes[n].resolution = "release_to_buyer" => SettledFor(o, orders[o])
                           /\ disputes[n].resolution = "refund_to_seller" /\ Sells(orders[o]) =>
                                entries[o]["order_dispute"] > 0)'
    BY DEF ResolvedDisputeIsSettled
  <2>1. CASE n = d
    BY <2>1, <1>7 DEF SettledFor, Sells, ledger
  <2>2. CASE n # d
    BY <2>2, <1>7 DEF IInv, ResolvedDisputeIsSettled, SettledFor, Sells, ledger
  <2> QED BY <2>1, <2>2
<1> QED BY <1>1, <1>4, <1>5, <1>6, <1>8, <1>9 DEF IInv

(* Raise inserts a dispute for an order that exists.                        *)
LEMMA OpenDisputeStep ==
  ASSUME IInv, NEW w \in Procs, OpenDispute(w) PROVE IInv'
<1>1. req[w].o \in OrderIds /\ Exists(req[w].o)
  BY DEF OpenDispute, At, IInv, RequestsJustified, HoldsCopies, NoOrderPCs
<1> DEFINE doc == [order |-> req[w].o, status |-> "open", resolution |-> ""]
<1>2. PICK d \in DisputeIds : disputes' = [disputes EXCEPT ![d] = doc]
  BY DEF OpenDispute
<1>3. /\ doc \in DisputeDoc /\ doc.order = req[w].o
      /\ doc.resolution # "release_to_buyer" /\ doc.resolution # "refund_to_seller"
  BY <1>1 DEF DisputeDoc
<1>4. Finish(w) /\ UNCHANGED <<orders, ads, ledger, withdrawn, outside, todo, failures>>
  BY DEF OpenDispute
<1> HIDE DEF doc
<1> QED BY <1>1, <1>2, <1>3, <1>4, DisputeStep

(* Resolve closes a dispute whose order has been settled that way.          *)
LEMMA CloseDisputeStep ==
  ASSUME IInv, NEW w \in Procs, CloseDispute(w) PROVE IInv'
<1>1. req[w].pc = "closeDispute" /\ {"closeDispute"} \subseteq CopyPCs
  BY DEF CloseDispute, At, CopyPCs, PCs, CreatePCs
<1>2. /\ req[w].o \in OrderIds /\ Exists(req[w].o) /\ Known(req[w].o, req[w].doc)
      /\ req[w].d \in DisputeIds /\ req[w].op \in Resolutions
  BY <1>1, AtCopy DEF HoldsCopies
<1> DEFINE doc == [order |-> req[w].o, status |-> "resolved",
                   resolution |-> IF req[w].op = "resolveRelease"
                                  THEN "release_to_buyer" ELSE "refund_to_seller"]
<1>3. disputes' = [disputes EXCEPT ![req[w].d] = doc]
  BY DEF CloseDispute
<1>4. doc \in DisputeDoc /\ doc.order = req[w].o
  BY <1>2 DEF DisputeDoc
<1>5. /\ doc.resolution = "release_to_buyer" => req[w].op = "resolveRelease"
      /\ doc.resolution = "refund_to_seller" => req[w].op = "resolveRefund"
  BY <1>2 DEF Resolutions
<1>6. Sells(req[w].doc) = Sells(orders[req[w].o])
  BY <1>2 DEF Known, SameTerms, Sells
<1>7. /\ req[w].op = "resolveRelease" => SettledFor(req[w].o, orders[req[w].o])
      /\ req[w].op = "resolveRefund" /\ Sells(orders[req[w].o]) =>
           entries[req[w].o]["order_dispute"] > 0
  BY <1>1, <1>6, AtCopy DEF HasDone, SettledFor
<1>8. Finish(w) /\ UNCHANGED <<orders, ads, ledger, withdrawn, outside, todo, failures>>
  BY DEF CloseDispute
<1> HIDE DEF doc
<1> QED BY <1>2, <1>3, <1>4, <1>5, <1>7, <1>8, DisputeStep

(* The merchant posts an ad: no copy of a document is concerned.            *)
LEMMA PostAdStep ==
  ASSUME IInv, NEW a \in Ads, PostAd(a) PROVE IInv'
<1>1. [avail |-> Capacity[a], status |-> "active"] \in AdDoc
  BY OrderFlowAssumption DEF OrderFlowAssumption, AdDoc, AdStatuses
<1>2. TypeOK'
  BY <1>1 DEF PostAd, IInv, TypeOK, ledger, outside
<1>3. Grows
  BY OrderFlowAssumption DEF PostAd, Grows, IInv, TypeOK, ledger, outside, Exists, SameTerms,
     OrderFlowAssumption
<1>4. RequestsJustified'
  <2> SUFFICES ASSUME NEW q \in Procs PROVE HoldsCopies(req[q])' /\ HasDone(req[q])'
    BY DEF RequestsJustified
  <2>1. PICK c \in Request : c = req[q] /\ c = req'[q]
    BY DEF PostAd, IInv, TypeOK
  <2>2. HoldsCopies(c) /\ HasDone(c)
    BY <2>1 DEF IInv, RequestsJustified
  <2>3. HoldsCopies(c)' /\ HasDone(c)'
    BY <1>2, <1>3, <2>2, CopiesGrow DEF IInv
  <2> QED BY <2>1, <2>3 DEF HoldsCopies, HasDone
<1>5. OrdersJustified' /\ SweepJustified' /\ DisputesNameOrders'
  BY <1>2, <1>3, KeptDocsStep DEF PostAd
<1>6. DebitsFollowPayouts' /\ PayoutsAreWhitelisted' /\ ResolvedDisputeIsSettled'
  BY DEF PostAd, IInv, DebitsFollowPayouts, PayoutsAreWhitelisted,
     IsWhitelisted, ResolvedDisputeIsSettled,
     ledger, outside, Exists, Sells, SettledFor
<1> QED BY <1>2, <1>4, <1>5, <1>6 DEF IInv

(* Admin funding, whitelisting, arriving deposits and passing deadlines *)
LEMMA EnvironmentStep ==
  ASSUME IInv, Environment, ~ \E a \in Ads : PostAd(a) PROVE IInv'
<1>1. UNCHANGED <<orders, ads, disputes, entries, credits, withdrawn, req, todo, failures>>
  BY DEF Environment, AdminCredit, MarkAddressWhitelisted, DepositArrives, DeadlinePasses,
         ledger, outside
<1>2. /\ funded' \in 0 .. MaxFunded /\ arrived' \subseteq Txs
      /\ whitelist \subseteq whitelist' /\ whitelist' \subseteq {Trimmed[a] : a \in Addresses}
      /\ overdue' \subseteq OrderIds
  <2>0. IInv /\ MaxFunded \in Nat
    BY OrderFlowAssumption DEF OrderFlowAssumption
  <2>1. ASSUME NEW amt \in CreditAmounts, AdminCredit(amt)
        PROVE  funded' \in 0 .. MaxFunded /\ UNCHANGED outside
    <3>1. amt \in Nat /\ funded \in Nat
      BY <2>0, OrderFlowAssumption DEF OrderFlowAssumption, IInv, TypeOK
    <3> QED BY <2>0, <2>1, <3>1 DEF AdminCredit
  <2>2. ASSUME NEW addr \in Addresses, MarkAddressWhitelisted(addr)
        PROVE  UNCHANGED <<funded, arrived, overdue>> /\ whitelist' = whitelist \cup {Trimmed[addr]}
    BY <2>2 DEF MarkAddressWhitelisted, ledger
  <2>3. ASSUME NEW tx \in Txs, DepositArrives(tx)
        PROVE  UNCHANGED <<funded, whitelist, overdue>> /\ arrived' = arrived \cup {tx}
    BY <2>3 DEF DepositArrives, ledger
  <2>4. ASSUME NEW o \in OrderIds, DeadlinePasses(o)
        PROVE  UNCHANGED <<funded, whitelist, arrived>> /\ overdue' = overdue \cup {o}
    BY <2>4 DEF DeadlinePasses, ledger
  <2> QED BY <2>1, <2>2, <2>3, <2>4 DEF Environment, IInv, TypeOK, outside
<1>3. TypeOK'
  BY <1>1, <1>2 DEF IInv, TypeOK
<1>4. Grows
  BY <1>1, <1>2, OrderFlowAssumption DEF Grows, IInv, TypeOK, Exists, SameTerms,
     OrderFlowAssumption
<1>5. RequestsJustified'
  <2> SUFFICES ASSUME NEW q \in Procs PROVE HoldsCopies(req[q])' /\ HasDone(req[q])'
    BY DEF RequestsJustified
  <2>1. PICK c \in Request : c = req[q] /\ c = req'[q]
    BY <1>1 DEF IInv, TypeOK
  <2>2. HoldsCopies(c) /\ HasDone(c)
    BY <2>1 DEF IInv, RequestsJustified
  <2>3. HoldsCopies(c)' /\ HasDone(c)'
    BY <1>3, <1>4, <2>2, CopiesGrow DEF IInv
  <2> QED BY <2>1, <2>3 DEF HoldsCopies, HasDone
<1>6. OrdersJustified' /\ SweepJustified' /\ DisputesNameOrders'
  BY <1>1, <1>3, <1>4, KeptDocsStep
<1>7. DebitsFollowPayouts' /\ PayoutsAreWhitelisted' /\ ResolvedDisputeIsSettled'
  BY <1>1, <1>2 DEF IInv, DebitsFollowPayouts, PayoutsAreWhitelisted,
     IsWhitelisted, ResolvedDisputeIsSettled,
     Exists, Sells, SettledFor
<1> QED BY <1>3, <1>5, <1>6, <1>7 DEF IInv

(* A stuttering step changes nothing the invariant looks at.                *)
LEMMA StutterStep ==
  ASSUME IInv, UNCHANGED vars PROVE IInv'
<1>1. UNCHANGED <<orders, ads, disputes, entries, credits, funded, withdrawn, arrived, whitelist,
                  overdue, req, todo, failures>>
  BY DEF vars, ledger, outside
<1>2. TypeOK' /\ Grows
  <2>1. TypeOK'
    BY <1>1 DEF IInv, TypeOK
  <2>2. /\ \A o \in OrderIds, r \in Reasons : entries[o][r] <= entries'[o][r]
        /\ \A o \in OrderIds, tx \in Txs \cup {NoTx} : credits[o][tx] <= credits'[o][tx]
        /\ \A o \in OrderIds : withdrawn[o] <= withdrawn'[o]
    BY <1>1, OrderFlowAssumption DEF IInv, TypeOK, OrderFlowAssumption
  <2> QED BY <1>1, <2>1, <2>2 DEF Grows, Exists, SameTerms
<1>3. RequestsJustified'
  <2> SUFFICES ASSUME NEW q \in Procs PROVE HoldsCopies(req[q])' /\ HasDone(req[q])'
    BY DEF RequestsJustified
  <2>1. PICK c \in Request : c = req[q] /\ c = req'[q]
    BY <1>1 DEF IInv, TypeOK
  <2>2. HoldsCopies(c)' /\ HasDone(c)'
    BY <1>2, <2>1, CopiesGrow DEF IInv, RequestsJustified
  <2> QED BY <2>1, <2>2 DEF HoldsCopies, HasDone
<1>4. OrdersJustified' /\ SweepJustified' /\ DisputesNameOrders'
  BY <1>1, <1>2, KeptDocsStep
<1>5. DebitsFollowPayouts' /\ PayoutsAreWhitelisted' /\ ResolvedDisputeIsSettled'
  BY <1>1 DEF IInv, DebitsFollowPayouts, PayoutsAreWhitelisted,
     IsWhitelisted, ResolvedDisputeIsSettled,
     Exists, Sells, SettledFor
<1> QED BY <1>2, <1>3, <1>4, <1>5 DEF IInv

-----------------------------------------------------------------------------
(* The theorems *)

(* The state the service starts in, an empty database, satisfies IInv. *)
LEMMA InitIInv == Init => IInv
<1> SUFFICES ASSUME Init PROVE IInv
  OBVIOUS
<1>1. TypeOK
  <2>1. ads \in [Ads -> AdDoc \cup {NoAd}]
    BY OrderFlowAssumption DEF Init, AdDoc, AdStatuses, OrderFlowAssumption
  <2>2. 0 \in 0 .. MaxEntries /\ 0 \in 0 .. MaxFunded /\ 0 \in 0 .. MaxFailures
    BY OrderFlowAssumption DEF OrderFlowAssumption
  <2>3. /\ orders \in [OrderIds -> OrderDoc \cup {NoOrder}]
        /\ disputes \in [DisputeIds -> DisputeDoc \cup {NoDispute}]
        /\ req \in [Procs -> Request]
    BY IdleRequest DEF Init
  <2>4. /\ entries \in [OrderIds -> [Reasons -> 0 .. MaxEntries]]
        /\ withdrawn \in [OrderIds -> 0 .. MaxEntries]
    BY <2>2 DEF Init
  <2>5. credits \in [OrderIds -> [Txs \cup {NoTx} -> 0 .. MaxEntries]]
    BY <2>2 DEF Init
  <2>6. /\ arrived \subseteq Txs /\ overdue \subseteq OrderIds
        /\ whitelist \subseteq {Trimmed[a] : a \in Addresses}
        /\ todo \subseteq [o : OrderIds, doc : OrderDoc]
    BY DEF Init
  <2> QED BY <2>1, <2>2, <2>3, <2>4, <2>5, <2>6 DEF TypeOK, Init
<1>2. RequestsJustified
  BY IdleRequest DEF Init, RequestsJustified
<1>3. OrdersJustified /\ SweepJustified /\ DisputesNameOrders /\ ResolvedDisputeIsSettled
  BY DEF Init, OrdersJustified, SweepJustified, DisputesNameOrders, ResolvedDisputeIsSettled,
     Exists
<1>4. DebitsFollowPayouts /\ PayoutsAreWhitelisted
  BY DEF Init, DebitsFollowPayouts, PayoutsAreWhitelisted, Reasons
<1> QED BY <1>1, <1>2, <1>3, <1>4 DEF IInv

(* Every action of every goroutine, and of the world outside, preserves IInv. *)
LEMMA NextIInv == IInv /\ [Next]_vars => IInv'
<1> SUFFICES ASSUME IInv, [Next]_vars PROVE IInv'
  OBVIOUS
<1>1. ASSUME NEW w \in Workers, NewRequest(w) PROVE IInv'
  <2>1. CASE \E a \in Ads, u \in Takers, amt \in Amounts, addr \in Addresses \cup {NoAddress} :
               CreateOrder(w, a, u, amt, addr)
    BY <2>1, CreateOrderStep
  <2>2. CASE \E a \in Ads : EditAd(w, a)
    BY <2>2, EditAdStep
  <2>3. CASE \E o \in OrderIds, u \in Users :
               \/ MarkPaid(w, o, u) \/ ConfirmPayment(w, o, u)
               \/ RaiseDispute(w, o, u) \/ Cancel(w, o, u)
               \/ \E tx \in Txs : SubmitDeposit(w, o, u, tx)
    BY <2>3, StartSteps, RaiseDisputeStep
  <2>4. CASE \E o \in OrderIds : Release(w, o)
    <3>1. Merchant \in Users
      BY DEF Users
    <3> QED BY <2>4, <3>1, StartSteps
  <2>5. CASE \E d \in DisputeIds, op \in Resolutions : ResolveDispute(w, d, op)
    BY <2>5, ResolveDisputeStep
  <2> QED BY <1>1, <2>1, <2>2, <2>3, <2>4, <2>5 DEF NewRequest
<1>2. ASSUME NEW p \in Procs, Continue(p) PROVE IInv'
  <2>1. CASE CheckBalance(p)   BY <2>1, CheckBalanceStep
  <2>2. CASE InsertOrder(p)    BY <2>2, InsertOrderStep
  <2>3. CASE DebitAd(p)        BY <2>3, DebitAdStep
  <2>4. CASE LockFunds(p)      BY <2>4, LockFundsStep
  <2>5. CASE VerifyDeposit(p)  BY <2>5, VerifyDepositStep
  <2>6. CASE WriteMarked(p)    BY <2>6, WriteMarkedStep
  <2>7. CASE WriteOrder(p)     BY <2>7, WriteOrderStep
  <2>8. CASE CheckWhitelist(p) BY <2>8, CheckWhitelistStep
  <2>9. CASE Withdraw(p)       BY <2>9, WithdrawSteps
  <2>10. CASE DebitLocked(p)   BY <2>10, DebitLockedStep
  <2>11. CASE CreditDeposit(p) BY <2>11, CreditDepositStep
  <2>12. CASE MarkDisputed(p)  BY <2>12, MarkDisputedStep
  <2>13. CASE OpenDispute(p)   BY <2>13, OpenDisputeStep
  <2>14. CASE ReadDisputed(p)  BY <2>14, ReadDisputedStep
  <2>15. CASE CloseDispute(p)  BY <2>15, CloseDisputeStep
  <2>16. CASE Unlock(p)        BY <2>16, UnlockStep
  <2>17. CASE ReadAd(p)        BY <2>17, ReadAdStep
  <2>18. CASE RestoreAd(p)     BY <2>18, RestoreAdStep
  <2>19. CASE WriteAd(p)       BY <2>19, WriteAdStep
  <2> QED BY <1>2, <2>1, <2>2, <2>3, <2>4, <2>5, <2>6, <2>7, <2>8, <2>9, <2>10, <2>11, <2>12,
             <2>13, <2>14, <2>15, <2>16, <2>17, <2>18, <2>19 DEF Continue
<1>3. ASSUME NEW p \in Procs, Failure(p) PROVE IInv'
  BY <1>3, FailStep, RestoreAdFailsStep, WithdrawSteps DEF Failure
<1>4. CASE Sweep
  BY <1>4, SweepListStep, SweepNextStep DEF Sweep
<1>5. CASE Environment
  BY <1>5, EnvironmentStep, PostAdStep
<1>6. CASE UNCHANGED vars
  BY <1>6, StutterStep
<1> QED BY <1>1, <1>2, <1>3, <1>4, <1>5, <1>6 DEF Next

(* The inductive invariant: whatever requests overlap and whichever fail,    *)
(* every order document, every copy a goroutine or the sweep holds, and the  *)
(* point each request has reached are backed by the ledger, by Bybit's       *)
(* withdrawals and by the whitelist.                                         *)
THEOREM InductiveInvariant == Spec => []IInv
<1>1. Init => IInv
  BY InitIInv
<1>2. IInv /\ [Next]_vars => IInv'
  BY NextIInv
<1> QED BY <1>1, <1>2, PTL DEF Spec

(* Documents, ledger counts and requests keep their shape, whatever amount   *)
(* and status an admin types into an ad: ads.Update checks neither.          *)
THEOREM TypeCorrect == Spec => []TypeOK
<1>1. IInv => TypeOK
  BY DEF IInv
<1> QED BY <1>1, InductiveInvariant, PTL

(* An order is completed only with its settlement on the ledger: the         *)
(* order_release debit of a sell order, the deposit credit of a buy order    *)
(* (completeRelease writes the status last).                                 *)
THEOREM CompletedOrdersAreSettled == Spec => []CompletedIsSettled
<1>1. IInv => CompletedIsSettled
  BY DEF IInv, OrdersJustified, Justified, CompletedIsSettled, Status, Exists
<1> QED BY <1>1, InductiveInvariant, PTL

(* A cancelled sell order has had its lock returned: unwindCancelledOrder    *)
(* and RefundFromDispute post the unlock before they write the status.       *)
THEOREM CancelledOrdersAreUnlocked == Spec => []CancelledIsUnlocked
<1>1. IInv => CancelledIsUnlocked
  BY DEF IInv, OrdersJustified, Justified, CancelledIsUnlocked, Status, Exists
<1> QED BY <1>1, InductiveInvariant, PTL

(* No withdrawal without a whitelisted address: completeRelease's gate holds *)
(* for the order as it stands, not only for the copy the gate looked at.     *)
THEOREM PayoutsStayWhitelisted == Spec => []PayoutsAreWhitelisted
<1>1. IInv => PayoutsAreWhitelisted
  BY DEF IInv
<1> QED BY <1>1, InductiveInvariant, PTL

(* A resolved dispute is backed by the settlement its resolution names: the  *)
(* dispute is closed only after ReleaseFromDispute or RefundFromDispute      *)
(* came back.                                                                *)
THEOREM ResolvedDisputesAreSettled == Spec => []ResolvedDisputeIsSettled
<1>1. IInv => ResolvedDisputeIsSettled
  BY DEF IInv
<1> QED BY <1>1, InductiveInvariant, PTL

(* The terms of an order (ad, taker, amount, address) never change and no    *)
(* order disappears, although every handler replaces the whole document from *)
(* a copy that may be stale.                                                 *)
THEOREM TermsAreFinal == Spec => AgreementIsFinal
<1> DEFINE Kept == \A o \in OrderIds : Exists(o) =>
                     /\ orders'[o] # NoOrder
                     /\ \A f \in {"ad", "taker", "amount", "addr"} : orders'[o][f] = orders[o][f]
<1>1. ASSUME IInv, Next PROVE Kept
  <2>1. ASSUME NEW p \in Procs, req[p].pc \in CopyPCs,
               orders' = [orders EXCEPT ![req[p].o] = req[p].doc]
        PROVE  Kept
    <3>1. /\ req[p].o \in OrderIds /\ Exists(req[p].o) /\ req[p].doc \in OrderDoc
          /\ SameTerms(req[p].doc, orders[req[p].o])
      BY <1>1, <2>1, AtCopy DEF Known
    <3>2. \A o \in OrderIds : orders'[o] = IF o = req[p].o THEN req[p].doc ELSE orders[o]
      BY <1>1, <2>1, <3>1 DEF IInv, TypeOK
    <3> QED BY <3>1, <3>2, OrderFlowAssumption DEF SameTerms, Exists, OrderFlowAssumption
  <2>2. ASSUME NEW w \in Procs, InsertOrder(w) PROVE Kept
    BY <1>1, <2>2 DEF InsertOrder, IInv, TypeOK, Exists
  <2>3. ASSUME NEW p \in Procs, WriteMarked(p) \/ WriteOrder(p) PROVE Kept
    BY <2>1, <2>3 DEF WriteMarked, WriteOrder, At, CopyPCs, PCs, CreatePCs
  <2>4. CASE UNCHANGED orders
    BY <2>4 DEF Exists
  <2>5. ASSUME NEW w \in Workers, NewRequest(w) PROVE UNCHANGED orders
    BY <2>5 DEF NewRequest, CreateOrder, EditAd, MarkPaid, ConfirmPayment, RaiseDispute, Cancel,
       SubmitDeposit, Release, ResolveDispute
  <2>6. ASSUME NEW p \in Procs, Continue(p), ~InsertOrder(p), ~WriteMarked(p), ~WriteOrder(p)
        PROVE  UNCHANGED orders
    BY <2>6 DEF Continue, CheckBalance, DebitAd, LockFunds, VerifyDeposit, CheckWhitelist,
       Withdraw, DebitLocked, CreditDeposit, MarkDisputed, OpenDispute, ReadDisputed,
       CloseDispute, Unlock, ReadAd, RestoreAd, WriteAd
  <2>7. ASSUME NEW p \in Procs, Failure(p) PROVE UNCHANGED orders
    BY <2>7 DEF Failure, Fail, RestoreAdFails, WithdrawAnswerLost
  <2>8. CASE Sweep
    BY <2>4, <2>8 DEF Sweep, SweepList, SweepNext
  <2>9. CASE Environment
    BY <2>4, <2>9 DEF Environment, AdminCredit, MarkAddressWhitelisted, DepositArrives,
       DeadlinePasses, PostAd
  <2> QED BY <1>1, <2>2, <2>3, <2>4, <2>5, <2>6, <2>7, <2>8, <2>9 DEF Next
<1>2. IInv /\ [Next]_vars => [Kept]_vars
  BY <1>1
<1> QED BY <1>2, InductiveInvariant, PTL DEF Spec, AgreementIsFinal
=============================================================================
