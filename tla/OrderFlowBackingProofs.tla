------------------------- MODULE OrderFlowBackingProofs -------------------------
(***************************************************************************)
(* What stands behind the ledger's entries: a withdrawal behind every      *)
(* debit, a deposit behind every credit.  Both need more than IInv says.   *)
(*                                                                         *)
(* Debits are COUNTED against withdrawals, so the requests that have been  *)
(* paid out and have not posted their debit yet are counted with them      *)
(* (PayoutsCoverDebits).  A credit is taken from a copy of the order, so   *)
(* the transaction that copy names is followed through every document and  *)
(* every copy (DepositsBacked).                                            *)
(***************************************************************************)
EXTENDS OrderFlowProofs, FiniteSetTheorems

(* Requests that Bybit has paid out for and that still owe the ledger the   *)
(* order_release entry.                                                     *)
Debiting(o) == {p \in Procs : req[p].pc = "debitLocked" /\ req[p].o = o}

PayoutsCoverDebits ==
  \A o \in OrderIds :
    /\ IsFiniteSet(Debiting(o))
    /\ entries[o]["order_release"] + Cardinality(Debiting(o)) <= withdrawn[o]

(* A document names a deposit that has arrived or none, and the documents    *)
(* that only SubmitDeposit produces name one.                               *)
Submitted(doc) ==
  /\ doc.tx \in arrived \cup {NoTx}
  /\ ~Sells(doc) /\ doc.status \in {"payment_marked", "payment_confirmed"} => doc.tx # NoTx

HoldsDeposit(r) ==
  /\ r.pc \in CreatePCs => r.op = "create" /\ r.doc.tx = NoTx
  /\ r.pc \in CopyPCs \ {"verifyDeposit"} => Submitted(r.doc)
  /\ r.pc = "writeMarked" => r.doc.tx \in arrived
  /\ r.pc = "creditDeposit" /\ r.op = "release" => r.doc.tx # NoTx
  /\ r.op \in Resolutions => disputes[r.d] # NoDispute /\ disputes[r.d].order = r.o

OrdersSubmitted == \A o \in OrderIds : Exists(o) => Submitted(orders[o])
RequestsSubmitted == \A p \in Procs : HoldsDeposit(req[p])
SweepSubmitted == \A t \in todo : Submitted(t.doc)

DepositsBacked ==
  OrdersSubmitted /\ RequestsSubmitted /\ SweepSubmitted /\ CreditsAreBacked

-----------------------------------------------------------------------------
(* How a request moves on, field by field *)

(* Nobody but p moves. *)
OnlyMoves(p) == \A q \in Procs \ {p} : req'[q] = req[q]

(* Goto changes the point a request has reached and nothing else.           *)
LEMMA GotoFields ==
  ASSUME TypeOK, NEW p \in Procs, NEW pc, Goto(p, pc)
  PROVE  /\ OnlyMoves(p)
         /\ req'[p].pc = pc /\ req'[p].op = req[p].op /\ req'[p].o = req[p].o
         /\ req'[p].doc = req[p].doc /\ req'[p].ad = req[p].ad
         /\ req'[p].a = req[p].a /\ req'[p].d = req[p].d
<1>1. req \in [Procs -> Request]
  BY DEF TypeOK
<1> QED BY <1>1 DEF Goto, OnlyMoves, Request

(* GotoWith also changes the status of its copy.                            *)
LEMMA GotoWithFields ==
  ASSUME TypeOK, NEW p \in Procs, NEW pc, NEW s, GotoWith(p, pc, s)
  PROVE  /\ OnlyMoves(p)
         /\ req'[p].pc = pc /\ req'[p].op = req[p].op /\ req'[p].o = req[p].o
         /\ req'[p].doc = [req[p].doc EXCEPT !.status = s] /\ req'[p].ad = req[p].ad
         /\ req'[p].a = req[p].a /\ req'[p].d = req[p].d
<1>1. req \in [Procs -> Request]
  BY DEF TypeOK
<1> QED BY <1>1 DEF GotoWith, OnlyMoves, Request

(* A finished request is idle.                                              *)
LEMMA FinishFields ==
  ASSUME TypeOK, NEW p \in Procs, Finish(p)
  PROVE  /\ OnlyMoves(p)
         /\ req'[p] = Idle /\ req'[p].pc = "idle" /\ req'[p].op = "" /\ req'[p].o = 0
  BY DEF TypeOK, Finish, OnlyMoves, Idle

(* A new request holds one copy.                                            *)
LEMMA StartFields ==
  ASSUME TypeOK, NEW p \in Procs, NEW op, NEW pc, NEW o, NEW doc, Start(p, op, pc, o, doc)
  PROVE  /\ OnlyMoves(p)
         /\ req'[p].pc = pc /\ req'[p].op = op /\ req'[p].o = o /\ req'[p].doc = doc
         /\ req'[p].ad = NoAd /\ req'[p].a = NoAd /\ req'[p].d = 0
  BY DEF TypeOK, Start, OnlyMoves, Idle

-----------------------------------------------------------------------------
(* Debits and payouts *)

(* A step in which no request starts to owe a debit, none is posted and no   *)
(* withdrawal is undone.                                                    *)
LEMMA NoNewDebit ==
  ASSUME IInv, IInv', PayoutsCoverDebits, NEW p \in Procs, OnlyMoves(p),
         req'[p] = req[p] \/ req'[p].pc # "debitLocked",
         \A o \in OrderIds : entries'[o]["order_release"] = entries[o]["order_release"],
         \A o \in OrderIds : withdrawn[o] <= withdrawn'[o]
  PROVE  PayoutsCoverDebits'
<1> SUFFICES ASSUME NEW o \in OrderIds
             PROVE  /\ IsFiniteSet(Debiting(o)')
                    /\ entries'[o]["order_release"] + Cardinality(Debiting(o)') <= withdrawn'[o]
  BY DEF PayoutsCoverDebits
<1>1. Debiting(o)' \subseteq Debiting(o)
  BY DEF Debiting, OnlyMoves
<1>2. /\ IsFiniteSet(Debiting(o))
      /\ entries[o]["order_release"] + Cardinality(Debiting(o)) <= withdrawn[o]
  BY DEF PayoutsCoverDebits
<1>3. IsFiniteSet(Debiting(o)') /\ Cardinality(Debiting(o)') <= Cardinality(Debiting(o))
  BY <1>1, <1>2, FS_Subset
<1>4. Cardinality(Debiting(o)) \in Int /\ Cardinality(Debiting(o)') \in Int
  BY <1>2, <1>3, FS_CardinalityType
<1>5. /\ entries[o]["order_release"] \in Int /\ withdrawn[o] \in Int /\ withdrawn'[o] \in Int
      /\ withdrawn[o] <= withdrawn'[o]
  BY OrderFlowAssumption DEF IInv, TypeOK, OrderFlowAssumption, Reasons
<1> QED BY <1>2, <1>3, <1>4, <1>5

(* Bybit's withdrawal is counted before the request that made it owes its    *)
(* debit.                                                                   *)
LEMMA WithdrawCovered ==
  ASSUME IInv, IInv', PayoutsCoverDebits, NEW p \in Procs, Withdraw(p)
  PROVE  PayoutsCoverDebits'
<1> DEFINE m == req[p].o
<1>0. TypeOK /\ req[p].pc = "withdraw"
  BY DEF IInv, Withdraw, At
<1>1. m \in OrderIds
  BY <1>0, AtCopy DEF CopyPCs, PCs, CreatePCs
<1>2. /\ OnlyMoves(p) /\ req'[p].pc = "debitLocked" /\ req'[p].o = m /\ entries' = entries
  BY <1>0, GotoFields DEF Withdraw, ledger
<1>3. \A o \in OrderIds : withdrawn'[o] = IF o = m THEN withdrawn[o] + 1 ELSE withdrawn[o]
  BY <1>0, <1>1 DEF Withdraw, PayOut, TypeOK
<1> SUFFICES ASSUME NEW o \in OrderIds
             PROVE  /\ IsFiniteSet(Debiting(o)')
                    /\ entries'[o]["order_release"] + Cardinality(Debiting(o)') <= withdrawn'[o]
  BY DEF PayoutsCoverDebits
<1>4. /\ IsFiniteSet(Debiting(o))
      /\ entries[o]["order_release"] + Cardinality(Debiting(o)) <= withdrawn[o]
  BY DEF PayoutsCoverDebits
<1>5. p \notin Debiting(o)
  BY <1>0 DEF Debiting
<1>6. Debiting(o)' = IF o = m THEN Debiting(o) \cup {p} ELSE Debiting(o)
  BY <1>0, <1>2 DEF Debiting, OnlyMoves
<1>7. /\ IsFiniteSet(Debiting(o)')
      /\ Cardinality(Debiting(o)') = Cardinality(Debiting(o)) + IF o = m THEN 1 ELSE 0
  <2>1. /\ IsFiniteSet(Debiting(o) \cup {p})
        /\ Cardinality(Debiting(o) \cup {p}) = Cardinality(Debiting(o)) + 1
    BY <1>4, <1>5, FS_AddElement
  <2>2. Cardinality(Debiting(o)) \in Int
    BY <1>4, FS_CardinalityType
  <2> QED BY <1>4, <1>6, <2>1, <2>2
<1>8. Cardinality(Debiting(o)) \in Int /\ entries[o]["order_release"] \in Int /\ withdrawn[o] \in Int
  BY <1>4, FS_CardinalityType, OrderFlowAssumption DEF IInv, TypeOK, OrderFlowAssumption, Reasons
<1> QED BY <1>2, <1>3, <1>4, <1>7, <1>8

(* The debit is posted by a request that was counted among those owing one.  *)
LEMMA DebitCovered ==
  ASSUME IInv, IInv', PayoutsCoverDebits, NEW p \in Procs, DebitLocked(p)
  PROVE  PayoutsCoverDebits'
<1> DEFINE m == req[p].o
<1>0. TypeOK /\ req[p].pc = "debitLocked"
  BY DEF IInv, DebitLocked, At
<1>1. m \in OrderIds
  BY <1>0, AtCopy DEF CopyPCs, PCs, CreatePCs
<1>2. OnlyMoves(p) /\ req'[p].pc = "writeOrder" /\ withdrawn' = withdrawn
  BY <1>0, GotoWithFields DEF DebitLocked
<1>3. \A o \in OrderIds : entries'[o]["order_release"] =
        IF o = m THEN entries[o]["order_release"] + 1 ELSE entries[o]["order_release"]
  BY <1>0, <1>1 DEF DebitLocked, Post, TypeOK, Reasons
<1> SUFFICES ASSUME NEW o \in OrderIds
             PROVE  /\ IsFiniteSet(Debiting(o)')
                    /\ entries'[o]["order_release"] + Cardinality(Debiting(o)') <= withdrawn'[o]
  BY DEF PayoutsCoverDebits
<1>4. /\ IsFiniteSet(Debiting(o))
      /\ entries[o]["order_release"] + Cardinality(Debiting(o)) <= withdrawn[o]
  BY DEF PayoutsCoverDebits
<1>5. o = m => p \in Debiting(o)
  BY <1>0 DEF Debiting
<1>6. Debiting(o)' = IF o = m THEN Debiting(o) \ {p} ELSE Debiting(o)
  BY <1>0, <1>2 DEF Debiting, OnlyMoves
<1>7. /\ IsFiniteSet(Debiting(o)')
      /\ Cardinality(Debiting(o)') = Cardinality(Debiting(o)) - IF o = m THEN 1 ELSE 0
  <2>1. o = m => /\ IsFiniteSet(Debiting(o) \ {p})
                 /\ Cardinality(Debiting(o) \ {p}) = Cardinality(Debiting(o)) - 1
    BY <1>4, <1>5, FS_RemoveElement
  <2>2. Cardinality(Debiting(o)) \in Int
    BY <1>4, FS_CardinalityType
  <2> QED BY <1>4, <1>6, <2>1, <2>2
<1>8. Cardinality(Debiting(o)) \in Int /\ entries[o]["order_release"] \in Int /\ withdrawn[o] \in Int
  BY <1>4, FS_CardinalityType, OrderFlowAssumption DEF IInv, TypeOK, OrderFlowAssumption, Reasons
<1> QED BY <1>2, <1>3, <1>4, <1>7, <1>8

(* Every other action. *)
NoDebitDue(p) ==
  /\ OnlyMoves(p) /\ (req'[p] = req[p] \/ req'[p].pc # "debitLocked")
  /\ \A o \in OrderIds : entries'[o]["order_release"] = entries[o]["order_release"]
  /\ \A o \in OrderIds : withdrawn[o] <= withdrawn'[o]

(* Only Withdraw makes a request owe a debit and only DebitLocked posts it.  *)
LEMMA OtherSteps ==
  ASSUME IInv, Next, \A p \in Procs : ~Withdraw(p) /\ ~DebitLocked(p)
  PROVE  \E p \in Procs : NoDebitDue(p)
<1>0. TypeOK
  BY DEF IInv
<1>a. \A o \in OrderIds : withdrawn[o] <= withdrawn[o]
  BY <1>0, OrderFlowAssumption DEF TypeOK, OrderFlowAssumption
<1>b. ASSUME NEW p \in Procs, OnlyMoves(p), req'[p].pc # "debitLocked",
             UNCHANGED <<entries, withdrawn>>
      PROVE  NoDebitDue(p)
  BY <1>a, <1>b DEF NoDebitDue
<1>1. ASSUME NEW w \in Workers, NewRequest(w) PROVE NoDebitDue(w)
  <2>1. UNCHANGED <<entries, withdrawn>>
    BY <1>1 DEF NewRequest, CreateOrder, EditAd, MarkPaid, ConfirmPayment, RaiseDispute, Cancel,
       SubmitDeposit, Release, ResolveDispute, ledger
  <2>2. w \in Procs /\ req \in [Procs -> Request]
    BY <1>0 DEF Procs, TypeOK
  <2>3. OnlyMoves(w) /\ req'[w].pc # "debitLocked"
    <3>1. CASE \E a \in Ads, u \in Takers, amt \in Amounts, addr \in Addresses \cup {NoAddress} :
                 CreateOrder(w, a, u, amt, addr)
      BY <2>2, <3>1 DEF CreateOrder, OnlyMoves, Idle
    <3>2. CASE \E a \in Ads : EditAd(w, a)
      BY <2>2, <3>2 DEF EditAd, OnlyMoves, Idle
    <3>3. CASE \E d \in DisputeIds, op \in Resolutions : ResolveDispute(w, d, op)
      BY <2>2, <3>3 DEF ResolveDispute, OnlyMoves, Idle
    <3>4. ASSUME NEW pc \in PCs \ {"debitLocked"}, NEW op, NEW o, NEW doc, Start(w, op, pc, o, doc)
          PROVE  OnlyMoves(w) /\ req'[w].pc # "debitLocked"
      BY <1>0, <2>2, <3>4, StartFields
    <3> QED BY <1>1, <3>1, <3>2, <3>3, <3>4 DEF NewRequest, MarkPaid, ConfirmPayment,
               RaiseDispute, Cancel, SubmitDeposit, Release, SettlePC, UnwindPC, PCs
  <2> QED BY <1>b, <2>1, <2>2, <2>3
<1>2. ASSUME NEW p \in Procs, CheckBalance(p) \/ InsertOrder(p) \/ DebitAd(p) \/ VerifyDeposit(p)
             \/ WriteMarked(p) \/ WriteOrder(p) \/ CheckWhitelist(p) \/ CreditDeposit(p)
             \/ MarkDisputed(p) \/ OpenDispute(p) \/ ReadDisputed(p) \/ CloseDispute(p)
             \/ ReadAd(p) \/ RestoreAd(p) \/ WriteAd(p)
      PROVE  NoDebitDue(p)
  <2>1. UNCHANGED <<entries, withdrawn>>
    BY <1>2 DEF CheckBalance, InsertOrder, DebitAd, VerifyDeposit, WriteMarked, WriteOrder,
       CheckWhitelist, CreditDeposit, MarkDisputed, OpenDispute, ReadDisputed, CloseDispute,
       ReadAd, RestoreAd, WriteAd, ledger
  <2>2. req \in [Procs -> Request]
    BY <1>0 DEF TypeOK
  <2>3. ASSUME NEW pc, pc # "debitLocked"
        PROVE  /\ Goto(p, pc) => OnlyMoves(p) /\ req'[p].pc # "debitLocked"
               /\ \A s : GotoWith(p, pc, s) => OnlyMoves(p) /\ req'[p].pc # "debitLocked"
    <3>1. Goto(p, pc) => OnlyMoves(p) /\ req'[p].pc = pc
      BY <1>0, GotoFields
    <3>2. ASSUME NEW s, GotoWith(p, pc, s) PROVE OnlyMoves(p) /\ req'[p].pc = pc
      BY <1>0, <3>2, GotoWithFields
    <3> QED BY <2>3, <3>1, <3>2
  <2>4. ASSUME Finish(p) PROVE OnlyMoves(p) /\ req'[p].pc # "debitLocked"
    BY <1>0, <2>4, FinishFields
  <2>5. ASSUME InsertOrder(p) \/ ReadDisputed(p) \/ ReadAd(p) \/ MarkDisputed(p)
        PROVE  OnlyMoves(p) /\ req'[p].pc # "debitLocked"
    <3>1. CASE InsertOrder(p)
      BY <2>2, <3>1 DEF InsertOrder, OnlyMoves, Request
    <3>2. CASE ReadDisputed(p)
      BY <2>2, <2>4, <3>2 DEF ReadDisputed, OnlyMoves, Request, SettlePC, UnwindPC
    <3>3. CASE ReadAd(p)
      BY <2>2, <3>3 DEF ReadAd, OnlyMoves, Request
    <3>4. CASE MarkDisputed(p)
      BY <1>0, <2>4, <3>4, StartFields DEF MarkDisputed
    <3> QED BY <2>5, <3>1, <3>2, <3>3, <3>4
  <2>6. OnlyMoves(p) /\ req'[p].pc # "debitLocked"
    BY <1>2, <2>3, <2>4, <2>5 DEF CheckBalance, DebitAd, VerifyDeposit, WriteMarked, WriteOrder,
       CheckWhitelist, CreditDeposit, OpenDispute, CloseDispute, RestoreAd, WriteAd
  <2> QED BY <1>b, <2>1, <2>6
<1>3. ASSUME NEW p \in Procs, LockFunds(p) \/ Unlock(p) PROVE NoDebitDue(p)
  <2>1. \A o \in OrderIds : entries'[o]["order_release"] = entries[o]["order_release"]
    BY <1>0, <1>3 DEF LockFunds, Unlock, Post, TypeOK, Reasons
  <2>2. OnlyMoves(p) /\ req'[p].pc # "debitLocked" /\ withdrawn' = withdrawn
    <3>1. CASE LockFunds(p)
      BY <1>0, <3>1, FinishFields DEF LockFunds
    <3>2. CASE Unlock(p)
      BY <1>0, <3>2, GotoFields DEF Unlock
    <3> QED BY <1>3, <3>1, <3>2
  <2> QED BY <1>a, <2>1, <2>2 DEF NoDebitDue
<1>4. ASSUME NEW p \in Procs, Fail(p) \/ RestoreAdFails(p) PROVE NoDebitDue(p)
  <2>1. CASE Fail(p)
    BY <1>0, <1>b, <2>1, FinishFields DEF Fail, ledger
  <2>2. CASE RestoreAdFails(p)
    <3>1. GotoWith(p, "writeOrder", "cancelled") /\ UNCHANGED <<entries, withdrawn>>
      BY <2>2 DEF RestoreAdFails, ledger
    <3>2. OnlyMoves(p) /\ req'[p].pc = "writeOrder"
      BY <1>0, <3>1, GotoWithFields
    <3> QED BY <1>b, <3>1, <3>2
  <2> QED BY <1>4, <2>1, <2>2
<1>5. ASSUME NEW p \in Procs, WithdrawAnswerLost(p) PROVE NoDebitDue(p)
  <2>1. OnlyMoves(p) /\ req'[p].pc # "debitLocked" /\ entries' = entries
    BY <1>0, <1>5, FinishFields DEF WithdrawAnswerLost, ledger
  <2>2. \A o \in OrderIds : withdrawn[o] <= withdrawn'[o]
    BY <1>0, <1>5, OrderFlowAssumption DEF WithdrawAnswerLost, PayOut, TypeOK, OrderFlowAssumption
  <2> QED BY <2>1, <2>2 DEF NoDebitDue
<1>6. CASE Sweep
  <2>1. Sweeper \in Procs /\ UNCHANGED <<entries, withdrawn>>
    BY <1>6 DEF Sweep, SweepList, SweepNext, ledger, Procs
  <2>2. OnlyMoves(Sweeper) /\ (req'[Sweeper] = req[Sweeper] \/ req'[Sweeper].pc # "debitLocked")
    BY <1>0, <1>6, <2>1, StartFields DEF Sweep, SweepList, SweepNext, OnlyMoves, UnwindPC
  <2>3. NoDebitDue(Sweeper)
    BY <1>a, <2>1, <2>2 DEF NoDebitDue
  <2> QED BY <2>1, <2>3
<1>7. CASE Environment
  <2>1. Sweeper \in Procs /\ UNCHANGED <<entries, withdrawn, req>>
    BY <1>7 DEF Environment, AdminCredit, PostAd, MarkAddressWhitelisted, DepositArrives,
       DeadlinePasses, ledger, Procs
  <2>2. NoDebitDue(Sweeper)
    BY <1>a, <2>1 DEF NoDebitDue, OnlyMoves
  <2> QED BY <2>1, <2>2
<1> QED BY <1>1, <1>2, <1>3, <1>4, <1>5, <1>6, <1>7 DEF Next, Continue, Failure, Procs

(* Steps keep every debit covered by a payout. *)
LEMMA NextCovered == IInv /\ IInv' /\ PayoutsCoverDebits /\ [Next]_vars => PayoutsCoverDebits'
<1> SUFFICES ASSUME IInv, IInv', PayoutsCoverDebits, [Next]_vars PROVE PayoutsCoverDebits'
  OBVIOUS
<1>1. CASE UNCHANGED vars
  BY <1>1 DEF vars, ledger, PayoutsCoverDebits, Debiting
<1>2. CASE Next /\ \E p \in Procs : Withdraw(p) \/ DebitLocked(p)
  BY <1>2, WithdrawCovered, DebitCovered
<1>3. CASE Next /\ \A p \in Procs : ~Withdraw(p) /\ ~DebitLocked(p)
  BY <1>3, OtherSteps, NoNewDebit DEF NoDebitDue
<1> QED BY <1>1, <1>2, <1>3

(* However often releases of an order are repeated, race or lose Bybit's     *)
(* answer, Bybit has made at least as many withdrawals for the order as the  *)
(* ledger has order_release debits: completeRelease withdraws first.         *)
THEOREM DebitsStayPaidOut == Spec => []DebitsArePaidOut
<1>1. Init => PayoutsCoverDebits
  <2> SUFFICES ASSUME Init, NEW o \in OrderIds
               PROVE  /\ IsFiniteSet(Debiting(o))
                      /\ entries[o]["order_release"] + Cardinality(Debiting(o)) <= withdrawn[o]
    BY DEF PayoutsCoverDebits
  <2>1. Debiting(o) = {}
    BY DEF Init, Debiting, Idle
  <2>2. entries[o]["order_release"] = 0 /\ withdrawn[o] = 0
    BY DEF Init, Reasons
  <2> QED BY <2>1, <2>2, FS_EmptySet
<1>2. IInv /\ PayoutsCoverDebits => DebitsArePaidOut
  <2> SUFFICES ASSUME IInv, PayoutsCoverDebits, NEW o \in OrderIds
               PROVE  entries[o]["order_release"] <= withdrawn[o]
    BY DEF DebitsArePaidOut
  <2>1. /\ Cardinality(Debiting(o)) \in Nat
        /\ entries[o]["order_release"] + Cardinality(Debiting(o)) <= withdrawn[o]
    BY FS_CardinalityType DEF PayoutsCoverDebits
  <2>2. entries[o]["order_release"] \in Int /\ withdrawn[o] \in Int
    BY OrderFlowAssumption DEF IInv, TypeOK, OrderFlowAssumption, Reasons
  <2> QED BY <2>1, <2>2
<1> QED BY <1>1, <1>2, NextCovered, InductiveInvariant, PTL DEF Spec

-----------------------------------------------------------------------------
(* Credits and deposits *)

(* Bybit's reports and the dispute documents' order ids stay. *)
DepositsGrow ==
  /\ arrived \subseteq arrived'
  /\ \A d \in DisputeIds : disputes[d] # NoDispute =>
       disputes'[d] # NoDispute /\ disputes'[d].order = disputes[d].order

(* What a document or a request relies on stays true as deposits arrive.     *)
LEMMA SubmittedGrows ==
  ASSUME arrived \subseteq arrived', NEW doc, Submitted(doc) PROVE Submitted(doc)'
  BY DEF Submitted, Sells

(* The same for everything a request holds.                                 *)
LEMMA HoldsDepositGrows ==
  ASSUME DepositsGrow, NEW r, HoldsCopies(r), HoldsDeposit(r) PROVE HoldsDeposit(r)'
<1>1. Submitted(r.doc) => Submitted(r.doc)'
  BY SubmittedGrows DEF DepositsGrow
<1>2. r.op \in Resolutions => r.d \in DisputeIds
  BY DEF HoldsCopies
<1> QED BY <1>1, <1>2 DEF HoldsDeposit, DepositsGrow

(* If only p moves, and its new request holds what it should, all do.       *)
LEMMA DepositOwnStep ==
  ASSUME IInv, RequestsSubmitted, DepositsGrow, NEW p \in Procs, OnlyMoves(p),
         NEW r, req'[p] = r, HoldsDeposit(r)'
  PROVE  RequestsSubmitted'
<1> SUFFICES ASSUME NEW q \in Procs PROVE HoldsDeposit(req[q])'
  BY DEF RequestsSubmitted
<1>1. CASE q = p
  BY <1>1 DEF HoldsDeposit
<1>2. CASE q # p
  <2>1. PICK c : c = req[q] /\ c = req'[q]
    BY <1>2 DEF OnlyMoves
  <2>2. HoldsCopies(c) /\ HoldsDeposit(c)
    BY <2>1 DEF IInv, RequestsJustified, RequestsSubmitted
  <2>3. HoldsDeposit(c)'
    BY <2>2, HoldsDepositGrows
  <2> QED BY <2>1, <2>3 DEF HoldsDeposit
<1> QED BY <1>1, <1>2

(* A step that records no credit *)
LEMMA CreditsStay ==
  ASSUME CreditsAreBacked, DepositsGrow, credits' = credits PROVE CreditsAreBacked'
  BY DEF CreditsAreBacked, DepositsGrow

(* A step that only moves a request on, or drops work of the sweep *)
LEMMA DepositQuiet ==
  ASSUME IInv, DepositsBacked, NEW p \in Procs, OnlyMoves(p), NEW r, req'[p] = r,
         HoldsDeposit(r), UNCHANGED <<orders, disputes, credits, arrived>>, todo' \subseteq todo
  PROVE  DepositsBacked'
<1>1. DepositsGrow /\ HoldsDeposit(r)'
  BY DEF DepositsGrow, HoldsDeposit, Submitted, Sells
<1>2. RequestsSubmitted' /\ CreditsAreBacked'
  BY <1>1, DepositOwnStep, CreditsStay DEF DepositsBacked
<1>3. OrdersSubmitted' /\ SweepSubmitted'
  BY DEF DepositsBacked, OrdersSubmitted, SweepSubmitted, Exists, Submitted, Sells
<1> QED BY <1>2, <1>3 DEF DepositsBacked

(* An idle request holds nothing.                                           *)
LEMMA IdleHoldsNothing == HoldsDeposit(Idle)
  BY DEF HoldsDeposit, Idle, CreatePCs, CopyPCs, Resolutions

(* A request that moves on with its copy, or with its copy marked as done,   *)
(* still names the deposit it named.                                        *)
LEMMA KeepsDeposit ==
  ASSUME NEW q, NEW r, HoldsDeposit(q), q.pc \in CopyPCs \ {"verifyDeposit"},
         r.pc \in CopyPCs \ {"verifyDeposit", "writeMarked", "creditDeposit"},
         r.op = q.op, r.o = q.o, r.d = q.d, r.doc.tx = q.doc.tx, r.doc.ad = q.doc.ad,
         r.doc.status \in {q.doc.status, "completed", "cancelled"}
  PROVE  HoldsDeposit(r)
  BY DEF HoldsDeposit, Submitted, Sells, CopyPCs, CreatePCs, PCs

(* Requests that end at this step. *)
LEMMA DepositFinish ==
  ASSUME IInv, DepositsBacked, NEW p \in Procs, Finish(p),
         UNCHANGED <<orders, disputes, credits, arrived>>, todo' \subseteq todo
  PROVE  DepositsBacked'
<1>1. OnlyMoves(p) /\ req'[p] = Idle
  BY FinishFields DEF IInv
<1> QED BY <1>1, IdleHoldsNothing, DepositQuiet

(* Requests that go on with the copy they have. *)
LEMMA DepositGoto ==
  ASSUME IInv, DepositsBacked, NEW p \in Procs, NEW pc, Goto(p, pc),
         req[p].pc \in CopyPCs \ {"verifyDeposit"},
         pc \in CopyPCs \ {"verifyDeposit", "writeMarked", "creditDeposit"},
         UNCHANGED <<orders, disputes, credits, arrived>>, todo' \subseteq todo
  PROVE  DepositsBacked'
<1>1. PICK r : r = req'[p]
  OBVIOUS
<1>2. /\ OnlyMoves(p) /\ r.pc = pc /\ r.op = req[p].op /\ r.o = req[p].o
      /\ r.doc = req[p].doc /\ r.d = req[p].d
  BY <1>1, GotoFields DEF IInv
<1>3. HoldsDeposit(r)
  BY <1>2, KeepsDeposit DEF DepositsBacked, RequestsSubmitted
<1> QED BY <1>1, <1>2, <1>3, DepositQuiet

(* Requests that settled or unwound the order mark their copy. *)
LEMMA DepositGotoWith ==
  ASSUME IInv, DepositsBacked, NEW p \in Procs, NEW s \in {"completed", "cancelled"},
         GotoWith(p, "writeOrder", s), req[p].pc \in CopyPCs \ {"verifyDeposit"}
  PROVE  \E r : /\ OnlyMoves(p) /\ req'[p] = r /\ HoldsDeposit(r)
<1>0. TypeOK
  BY DEF IInv
<1>1. PICK r : r = req'[p]
  OBVIOUS
<1>2. /\ OnlyMoves(p) /\ r.pc = "writeOrder" /\ r.op = req[p].op /\ r.o = req[p].o
      /\ r.doc = [req[p].doc EXCEPT !.status = s] /\ r.d = req[p].d
  BY <1>0, <1>1, GotoWithFields
<1>3. req[p].doc \in OrderDoc
  BY AtCopy
<1>4. r.doc.tx = req[p].doc.tx /\ r.doc.ad = req[p].doc.ad /\ r.doc.status = s
  BY <1>2, <1>3 DEF OrderDoc
<1>5. r.pc \in CopyPCs \ {"verifyDeposit", "writeMarked", "creditDeposit"}
  BY <1>2 DEF CopyPCs, PCs, CreatePCs
<1>6. HoldsDeposit(req[p])
  BY DEF DepositsBacked, RequestsSubmitted
<1>7. HoldsDeposit(r)
  BY <1>2, <1>4, <1>5, <1>6, KeepsDeposit
<1> QED BY <1>1, <1>2, <1>7

(* A new request takes its copy from the order document, with the deposit     *)
(* that document names; only SubmitDeposit names another, not verified yet.  *)
LEMMA DepositNew ==
  ASSUME IInv, DepositsBacked, NEW w \in Workers, NewRequest(w) PROVE DepositsBacked'
<1>0. TypeOK /\ w \in Procs /\ req \in [Procs -> Request]
  BY DEF IInv, Procs, TypeOK
<1>1. UNCHANGED <<orders, disputes, credits, arrived>> /\ todo' \subseteq todo
  BY DEF NewRequest, CreateOrder, EditAd, MarkPaid, ConfirmPayment, RaiseDispute, Cancel,
     SubmitDeposit, Release, ResolveDispute, ledger, outside
<1>2. ASSUME NEW r, req'[w] = r, OnlyMoves(w), HoldsDeposit(r) PROVE DepositsBacked'
  BY <1>0, <1>1, <1>2, DepositQuiet
<1>3. ASSUME NEW a \in Ads, NEW u \in Takers, NEW amt \in Amounts,
             NEW addr \in Addresses \cup {NoAddress}, CreateOrder(w, a, u, amt, addr)
      PROVE  DepositsBacked'
  <2>1. PICK r : r = req'[w]
    OBVIOUS
  <2>2. /\ OnlyMoves(w) /\ r.pc \in {"checkBalance", "insertOrder"} /\ r.op = "create"
        /\ r.doc.tx = NoTx
    BY <1>0, <1>3, <2>1 DEF CreateOrder, NewOrder, OnlyMoves, Idle
  <2>3. HoldsDeposit(r)
    BY <2>2 DEF HoldsDeposit, CopyPCs, CreatePCs, Resolutions
  <2> QED BY <1>2, <2>1, <2>2, <2>3
<1>4. ASSUME NEW a \in Ads, EditAd(w, a) PROVE DepositsBacked'
  <2>1. PICK r : r = req'[w]
    OBVIOUS
  <2>2. OnlyMoves(w) /\ r.pc = "writeAd" /\ r.op = "editAd"
    BY <1>0, <1>4, <2>1 DEF EditAd, OnlyMoves, Idle
  <2>3. HoldsDeposit(r)
    BY <2>2 DEF HoldsDeposit, CopyPCs, CreatePCs, Resolutions
  <2> QED BY <1>2, <2>1, <2>2, <2>3
<1>5. ASSUME NEW d \in DisputeIds, NEW op \in Resolutions, ResolveDispute(w, d, op)
      PROVE  DepositsBacked'
  <2>1. PICK r : r = req'[w]
    OBVIOUS
  <2>2. /\ OnlyMoves(w) /\ r.pc = "readDisputed" /\ r.op = op /\ r.d = d
        /\ r.o = disputes[d].order /\ disputes[d] # NoDispute
    BY <1>0, <1>5, <2>1 DEF ResolveDispute, OnlyMoves, Idle
  <2>3. HoldsDeposit(r)
    BY <2>2 DEF HoldsDeposit, CopyPCs, CreatePCs, Resolutions
  <2> QED BY <1>2, <2>1, <2>2, <2>3
<1>6. ASSUME NEW o \in OrderIds, NEW doc, NEW op \in Ops \ Resolutions, NEW pc \in PCs \ CreatePCs,
             Start(w, op, pc, o, doc), pc \in CopyPCs \ {"verifyDeposit"} => Submitted(doc),
             pc # "writeMarked", pc = "creditDeposit" => doc.tx # NoTx
      PROVE  DepositsBacked'
  <2>1. PICK r : r = req'[w]
    OBVIOUS
  <2>2. OnlyMoves(w) /\ r.pc = pc /\ r.op = op /\ r.o = o /\ r.doc = doc
    BY <1>0, <1>6, <2>1, StartFields
  <2>3. HoldsDeposit(r)
    BY <1>6, <2>2 DEF HoldsDeposit
  <2> QED BY <1>2, <2>1, <2>2, <2>3
<1>7. ASSUME NEW o \in OrderIds, Exists(o) PROVE orders[o] \in OrderDoc /\ Submitted(orders[o])
  BY <1>0, <1>7 DEF TypeOK, Exists, DepositsBacked, OrdersSubmitted
<1> USE DEF PCs, CreatePCs, Ops, Resolutions
<1>8. ASSUME NEW o \in OrderIds, NEW u \in Users, MarkPaid(w, o, u) PROVE DepositsBacked'
  <2> DEFINE doc == [orders[o] EXCEPT !.status = "payment_marked"]
  <2>1. Submitted(doc)
    BY <1>7, <1>8 DEF MarkPaid, Submitted, Sells, OrderDoc
  <2>2. Start(w, "markPaid", "writeOrder", o, doc)
    BY <1>8 DEF MarkPaid
  <2> HIDE DEF doc
  <2> QED BY <1>6, <2>1, <2>2
<1>9. ASSUME NEW o \in OrderIds, NEW u \in Users, ConfirmPayment(w, o, u) PROVE DepositsBacked'
  <2> DEFINE doc == [orders[o] EXCEPT !.status = "payment_confirmed"]
  <2>1. Submitted(doc)
    BY <1>7, <1>9 DEF ConfirmPayment, Submitted, Sells, OrderDoc
  <2>2. Start(w, "confirmPayment", "writeOrder", o, doc)
    BY <1>9 DEF ConfirmPayment
  <2> HIDE DEF doc
  <2> QED BY <1>6, <2>1, <2>2
<1>10. ASSUME NEW o \in OrderIds, NEW u \in Users, RaiseDispute(w, o, u) PROVE DepositsBacked'
  <2>1. Start(w, "raise", "markDisputed", o, NoOrder) /\ "markDisputed" \notin CopyPCs
    BY <1>10 DEF RaiseDispute, CopyPCs
  <2> QED BY <1>6, <2>1
<1>11. ASSUME NEW o \in OrderIds, NEW u \in Users, Cancel(w, o, u) PROVE DepositsBacked'
  <2>1. Start(w, "cancel", UnwindPC(orders[o]), o, orders[o]) /\ Submitted(orders[o])
    BY <1>7, <1>11 DEF Cancel
  <2>2. UnwindPC(orders[o]) \in {"unlock", "readAd"}
    BY DEF UnwindPC
  <2> QED BY <1>6, <2>1, <2>2
<1>12. ASSUME NEW o \in OrderIds, NEW u \in Users, NEW tx \in Txs, SubmitDeposit(w, o, u, tx)
       PROVE  DepositsBacked'
  <2>1. Start(w, "submitDeposit", "verifyDeposit", o, [orders[o] EXCEPT !.tx = tx])
    BY <1>12 DEF SubmitDeposit
  <2> QED BY <1>6, <2>1
<1>13. ASSUME NEW o \in OrderIds, Release(w, o) PROVE DepositsBacked'
  <2>1. /\ Start(w, "release", SettlePC(orders[o]), o, orders[o]) /\ Submitted(orders[o])
        /\ orders[o].status = "payment_confirmed"
    BY <1>7, <1>13 DEF Release, CanTransition, ValidTransitions
  <2>2. /\ SettlePC(orders[o]) \in {"checkWhitelist", "creditDeposit"}
        /\ SettlePC(orders[o]) = "creditDeposit" => orders[o].tx # NoTx
    BY <2>1 DEF SettlePC, Submitted
  <2> QED BY <1>6, <2>1, <2>2
<1> QED BY <1>3, <1>4, <1>5, <1>8, <1>9, <1>10, <1>11, <1>12, <1>13 DEF NewRequest

(* Bybit's answer is what makes a copy name an arrived deposit.             *)
LEMMA DepositVerify ==
  ASSUME IInv, DepositsBacked, NEW w \in Procs, VerifyDeposit(w) PROVE DepositsBacked'
<1>0. TypeOK /\ UNCHANGED <<orders, disputes, credits, arrived>> /\ todo' \subseteq todo
  BY DEF IInv, VerifyDeposit, ledger, outside
<1>1. CASE Finish(w)
  BY <1>0, <1>1, DepositFinish
<1>2. CASE GotoWith(w, "writeMarked", "payment_marked") /\ req[w].doc.tx \in arrived
  <2>1. PICK r : r = req'[w]
    OBVIOUS
  <2>2. /\ OnlyMoves(w) /\ r.pc = "writeMarked" /\ r.op = req[w].op /\ r.o = req[w].o
        /\ r.doc = [req[w].doc EXCEPT !.status = "payment_marked"] /\ r.d = req[w].d
    BY <1>0, <1>2, <2>1, GotoWithFields
  <2>3. req[w].doc \in OrderDoc
    BY AtCopy DEF VerifyDeposit, At, CopyPCs, PCs, CreatePCs
  <2>4. r.doc.tx \in arrived /\ arrived \subseteq Txs /\ NoTx \notin Txs
    BY <1>0, <1>2, <2>2, <2>3, OrderFlowAssumption DEF OrderDoc, TypeOK, OrderFlowAssumption
  <2>5. HoldsDeposit(req[w])
    BY DEF DepositsBacked, RequestsSubmitted
  <2>6. HoldsDeposit(r)
    BY <2>2, <2>4, <2>5 DEF HoldsDeposit, Submitted, CreatePCs
  <2> QED BY <1>0, <2>1, <2>2, <2>6, DepositQuiet
<1> QED BY <1>1, <1>2 DEF VerifyDeposit

(* Steps that write neither an order nor a dispute nor a credit             *)
LEMMA DepositContinue ==
  ASSUME IInv, DepositsBacked, NEW p \in Procs,
         \/ CheckBalance(p) \/ DebitAd(p) \/ LockFunds(p) \/ CheckWhitelist(p) \/ Withdraw(p)
         \/ DebitLocked(p) \/ MarkDisputed(p) \/ ReadDisputed(p) \/ Unlock(p) \/ ReadAd(p)
         \/ RestoreAd(p) \/ WriteAd(p)
  PROVE  DepositsBacked'
<1>0. TypeOK /\ req \in [Procs -> Request] /\ HoldsDeposit(req[p])
  BY DEF IInv, TypeOK, DepositsBacked, RequestsSubmitted
<1>1. UNCHANGED <<orders, disputes, credits, arrived>> /\ todo' \subseteq todo
  BY DEF CheckBalance, DebitAd, LockFunds, CheckWhitelist, Withdraw, DebitLocked, MarkDisputed,
     ReadDisputed, Unlock, ReadAd, RestoreAd, WriteAd, ledger, outside
<1>2. ASSUME Finish(p) PROVE DepositsBacked'
  BY <1>1, <1>2, DepositFinish
<1>3. ASSUME NEW pc, Goto(p, pc), pc \in CopyPCs \ {"verifyDeposit", "writeMarked", "creditDeposit"},
             req[p].pc \in CopyPCs \ {"verifyDeposit"}
      PROVE  DepositsBacked'
  BY <1>1, <1>3, DepositGoto
<1>4. ASSUME NEW s \in {"completed", "cancelled"}, GotoWith(p, "writeOrder", s),
             req[p].pc \in CopyPCs \ {"verifyDeposit"}
      PROVE  DepositsBacked'
  BY <1>1, <1>4, DepositGotoWith, DepositQuiet
<1>5. ASSUME NEW r, req'[p] = r, OnlyMoves(p), HoldsDeposit(r) PROVE DepositsBacked'
  BY <1>1, <1>5, DepositQuiet
<1> USE DEF CopyPCs, PCs, CreatePCs
<1>6. CASE CheckBalance(p) \/ DebitAd(p)
  <2>1. \/ Finish(p)
        \/ /\ req[p].pc \in CreatePCs
           /\ Goto(p, "insertOrder") \/ Goto(p, "lockFunds")
    BY <1>6 DEF CheckBalance, DebitAd, At
  <2>2. ASSUME NEW pc \in {"insertOrder", "lockFunds"}, Goto(p, pc), req[p].pc \in CreatePCs
        PROVE  DepositsBacked'
    <3>1. PICK r : r = req'[p]
      OBVIOUS
    <3>2. /\ OnlyMoves(p) /\ r.pc = pc /\ r.op = req[p].op /\ r.o = req[p].o
          /\ r.doc = req[p].doc /\ r.d = req[p].d
      BY <1>0, <2>2, <3>1, GotoFields
    <3>3. HoldsDeposit(r)
      BY <1>0, <2>2, <3>2 DEF HoldsDeposit
    <3> QED BY <1>5, <3>1, <3>2, <3>3
  <2> QED BY <1>2, <2>1, <2>2
<1>7. CASE LockFunds(p) \/ WriteAd(p)
  BY <1>2, <1>7 DEF LockFunds, WriteAd
<1>8. CASE CheckWhitelist(p) \/ Withdraw(p) \/ Unlock(p)
  BY <1>2, <1>3, <1>8 DEF CheckWhitelist, Withdraw, Unlock, At
<1>9. CASE DebitLocked(p) \/ RestoreAd(p)
  BY <1>4, <1>9 DEF DebitLocked, RestoreAd, At
<1>10. CASE MarkDisputed(p)
  <2>1. CASE Finish(p)
    BY <1>2, <2>1
  <2>2. CASE Start(p, "raise", "writeOrder", req[p].o, [orders[req[p].o] EXCEPT !.status = "disputed"])
    <3>1. PICK r : r = req'[p]
      OBVIOUS
    <3>2. /\ OnlyMoves(p) /\ r.pc = "writeOrder" /\ r.op = "raise"
          /\ r.doc = [orders[req[p].o] EXCEPT !.status = "disputed"]
      BY <1>0, <2>2, <3>1, StartFields
    <3>3. req[p].o \in OrderIds /\ Exists(req[p].o)
      BY <1>10 DEF MarkDisputed, At, IInv, RequestsJustified, HoldsCopies, NoOrderPCs
    <3>4. orders[req[p].o] \in OrderDoc /\ Submitted(orders[req[p].o])
      BY <1>0, <3>3 DEF TypeOK, Exists, DepositsBacked, OrdersSubmitted
    <3>5. Submitted(r.doc)
      BY <3>2, <3>4 DEF Submitted, OrderDoc
    <3>6. HoldsDeposit(r)
      BY <3>2, <3>5 DEF HoldsDeposit, Resolutions
    <3> QED BY <1>5, <3>1, <3>2, <3>6
  <2> QED BY <1>10, <2>1, <2>2 DEF MarkDisputed
<1>11. CASE ReadDisputed(p)
  <2>1. CASE Finish(p)
    BY <1>2, <2>1
  <2>2. CASE ~Finish(p)
    <3>1. PICK r : r = req'[p]
      OBVIOUS
    <3>2. req[p].pc = "readDisputed" /\ req[p].o \in OrderIds /\ Exists(req[p].o)
      BY <1>11 DEF ReadDisputed, At, IInv, RequestsJustified, HoldsCopies, NoOrderPCs
    <3>3. PICK next \in {"checkWhitelist", "creditDeposit", "unlock", "readAd"} :
            /\ req' = [req EXCEPT ![p].pc = next, ![p].doc = orders[req[p].o]]
            /\ next = "creditDeposit" => req[p].op = "resolveRelease"
      BY <1>11, <2>2 DEF ReadDisputed, SettlePC, UnwindPC
    <3>4. /\ OnlyMoves(p) /\ r.pc = next /\ r.op = req[p].op /\ r.o = req[p].o
          /\ r.d = req[p].d /\ r.doc = orders[req[p].o]
      BY <1>0, <3>1, <3>3 DEF OnlyMoves, Request
    <3>5. Submitted(r.doc)
      BY <3>2, <3>4 DEF DepositsBacked, OrdersSubmitted
    <3>6. HoldsDeposit(r)
      BY <1>0, <3>3, <3>4, <3>5 DEF HoldsDeposit
    <3> QED BY <1>5, <3>1, <3>4, <3>6
  <2> QED BY <2>1, <2>2
<1>12. CASE ReadAd(p)
  <2>1. PICK r : r = req'[p]
    OBVIOUS
  <2>2. /\ OnlyMoves(p) /\ r.pc = "restoreAd" /\ r.op = req[p].op /\ r.o = req[p].o
        /\ r.d = req[p].d /\ r.doc = req[p].doc /\ req[p].pc = "readAd"
    BY <1>0, <1>12, <2>1 DEF ReadAd, At, OnlyMoves, Request
  <2>3. HoldsDeposit(r)
    BY <1>0, <2>2, KeepsDeposit
  <2> QED BY <1>5, <2>1, <2>2, <2>3
<1> QED BY <1>6, <1>7, <1>8, <1>9, <1>10, <1>11, <1>12

(* An order document is written by a request that holds a copy with its       *)
(* deposit arrived; a new one names none.                                   *)
LEMMA DepositWrite ==
  ASSUME IInv, DepositsBacked, NEW p \in Procs, NEW o \in OrderIds, NEW doc, Submitted(doc),
         orders' = [orders EXCEPT ![o] = doc], OnlyMoves(p), NEW r, req'[p] = r, HoldsDeposit(r),
         UNCHANGED <<disputes, credits, arrived, todo>>
  PROVE  DepositsBacked'
<1>0. DepositsGrow /\ HoldsDeposit(r)' /\ Submitted(doc)'
  BY DEF DepositsGrow, HoldsDeposit, Submitted, Sells
<1>1. RequestsSubmitted' /\ CreditsAreBacked'
  BY <1>0, DepositOwnStep, CreditsStay DEF DepositsBacked
<1>2. SweepSubmitted'
  BY DEF DepositsBacked, SweepSubmitted, Submitted, Sells
<1>3. OrdersSubmitted'
  <2> SUFFICES ASSUME NEW n \in OrderIds, Exists(n)' PROVE Submitted(orders[n])'
    BY DEF OrdersSubmitted
  <2>1. orders'[n] = IF n = o THEN doc ELSE orders[n]
    BY DEF IInv, TypeOK
  <2>2. CASE n = o
    BY <1>0, <2>1, <2>2 DEF Submitted, Sells
  <2>3. CASE n # o
    BY <2>1, <2>3 DEF DepositsBacked, OrdersSubmitted, Exists, Submitted, Sells
  <2> QED BY <2>2, <2>3
<1> QED BY <1>1, <1>2, <1>3 DEF DepositsBacked

(* Create inserts, SubmitDeposit and every handler's last step replace.     *)
LEMMA DepositWrites ==
  ASSUME IInv, DepositsBacked, NEW p \in Procs, InsertOrder(p) \/ WriteMarked(p) \/ WriteOrder(p)
  PROVE  DepositsBacked'
<1>0. TypeOK /\ req \in [Procs -> Request] /\ HoldsDeposit(req[p]) /\ HoldsCopies(req[p])
  BY DEF IInv, TypeOK, DepositsBacked, RequestsSubmitted, RequestsJustified
<1>1. UNCHANGED <<disputes, credits, arrived, todo>>
  BY DEF InsertOrder, WriteMarked, WriteOrder, ledger, outside
<1>2. PICK r : r = req'[p]
  OBVIOUS
<1> USE DEF CopyPCs, PCs, CreatePCs
<1>3. CASE InsertOrder(p)
  <2>1. PICK o \in OrderIds : /\ orders' = [orders EXCEPT ![o] = req[p].doc]
                              /\ req' = [req EXCEPT ![p].pc = "debitAd", ![p].o = o]
    BY <1>3 DEF InsertOrder
  <2>2. req[p].pc = "insertOrder" /\ req[p].op \notin Resolutions
    BY <1>0, <1>3 DEF InsertOrder, At, HoldsDeposit, HoldsCopies, Resolutions
  <2>3. /\ OnlyMoves(p) /\ r.pc = "debitAd" /\ r.op = req[p].op /\ r.doc = req[p].doc
    BY <1>0, <1>2, <2>1 DEF OnlyMoves, Request
  <2>4. HoldsDeposit(r) /\ Submitted(req[p].doc)
    BY <1>0, <2>2, <2>3 DEF HoldsDeposit, HoldsCopies, Submitted
  <2> QED BY <1>1, <1>2, <2>1, <2>3, <2>4, DepositWrite
<1>4. CASE WriteMarked(p)
  <2>1. /\ orders' = [orders EXCEPT ![req[p].o] = req[p].doc]
        /\ GotoWith(p, "writeOrder", "payment_confirmed") /\ req[p].pc = "writeMarked"
    BY <1>4 DEF WriteMarked, At
  <2>2. /\ OnlyMoves(p) /\ r.pc = "writeOrder" /\ r.op = req[p].op /\ r.o = req[p].o
        /\ r.doc = [req[p].doc EXCEPT !.status = "payment_confirmed"] /\ r.d = req[p].d
    BY <1>0, <1>2, <2>1, GotoWithFields
  <2>3. req[p].o \in OrderIds /\ req[p].doc \in OrderDoc
    BY <2>1, AtCopy
  <2>4. r.doc.tx \in arrived /\ arrived \subseteq Txs /\ NoTx \notin Txs
    BY <1>0, <2>1, <2>2, <2>3, OrderFlowAssumption
    DEF OrderDoc, TypeOK, OrderFlowAssumption, HoldsDeposit
  <2>5. HoldsDeposit(r) /\ Submitted(req[p].doc)
    BY <1>0, <2>1, <2>2, <2>4 DEF HoldsDeposit, Submitted
  <2> QED BY <1>1, <1>2, <2>1, <2>2, <2>3, <2>5, DepositWrite
<1>5. CASE WriteOrder(p)
  <2>1. /\ orders' = [orders EXCEPT ![req[p].o] = req[p].doc] /\ req[p].pc = "writeOrder"
        /\ Goto(p, "openDispute") \/ Goto(p, "closeDispute") \/ Finish(p)
    BY <1>5 DEF WriteOrder, At
  <2>2. req[p].o \in OrderIds
    BY <2>1, AtCopy
  <2>3. Submitted(req[p].doc)
    BY <1>0, <2>1 DEF HoldsDeposit
  <2>4. ASSUME NEW pc \in {"openDispute", "closeDispute"}, Goto(p, pc)
        PROVE  OnlyMoves(p) /\ HoldsDeposit(r)
    <3>1. /\ OnlyMoves(p) /\ r.pc = pc /\ r.op = req[p].op /\ r.o = req[p].o
          /\ r.doc = req[p].doc /\ r.d = req[p].d
      BY <1>0, <1>2, <2>4, GotoFields
    <3> QED BY <1>0, <2>1, <3>1, KeepsDeposit
  <2>5. ASSUME Finish(p) PROVE OnlyMoves(p) /\ HoldsDeposit(r)
    <3>1. OnlyMoves(p) /\ r = Idle
      BY <1>0, <1>2, <2>5, FinishFields
    <3> QED BY <3>1, IdleHoldsNothing
  <2> QED BY <1>1, <1>2, <2>1, <2>2, <2>3, <2>4, <2>5, DepositWrite
<1> QED BY <1>3, <1>4, <1>5

(* The credit is the one the request's copy names: an arrived deposit, or    *)
(* none when a dispute releases the order.                                  *)
LEMMA DepositCredit ==
  ASSUME IInv, DepositsBacked, NEW p \in Procs, CreditDeposit(p) PROVE DepositsBacked'
<1> DEFINE o == req[p].o
           tx == req[p].doc.tx
<1>0. /\ TypeOK /\ HoldsDeposit(req[p]) /\ req[p].pc = "creditDeposit"
      /\ HoldsCopies(req[p]) /\ o \in OrderIds /\ req[p].doc \in OrderDoc
  BY AtCopy DEF IInv, DepositsBacked, RequestsSubmitted, CreditDeposit, At, CopyPCs, PCs, CreatePCs
<1>1. UNCHANGED <<orders, disputes, arrived, todo>> /\ GotoWith(p, "writeOrder", "completed")
  BY DEF CreditDeposit, outside
<1>2. PICK r : OnlyMoves(p) /\ req'[p] = r /\ HoldsDeposit(r)
  BY <1>0, <1>1, DepositGotoWith DEF CopyPCs, PCs, CreatePCs
<1>3. DepositsGrow /\ HoldsDeposit(r)'
  BY <1>1, <1>2 DEF DepositsGrow, HoldsDeposit, Submitted, Sells
<1>4. RequestsSubmitted'
  BY <1>2, <1>3, DepositOwnStep DEF DepositsBacked
<1>5. OrdersSubmitted' /\ SweepSubmitted'
  BY <1>1 DEF DepositsBacked, OrdersSubmitted, SweepSubmitted, Exists, Submitted, Sells
<1>6. \A n \in OrderIds, x \in Txs \cup {NoTx} :
        (n = o /\ x = tx) \/ credits'[n][x] = credits[n][x]
  BY <1>0 DEF CreditDeposit, TypeOK, OrderDoc
<1>7. tx \in arrived \cup {NoTx} /\ req[p].op \in {"release", "resolveRelease"}
  BY <1>0 DEF HoldsDeposit, HoldsCopies, Submitted, CopyPCs, PCs, CreatePCs
<1>8. \/ tx \in arrived
      \/ tx = NoTx /\ \E d \in DisputeIds : disputes[d] # NoDispute /\ disputes[d].order = o
  <2>1. CASE req[p].op = "release"
    BY <1>0, <1>7, <2>1 DEF HoldsDeposit
  <2>2. CASE req[p].op = "resolveRelease"
    BY <1>0, <1>7, <2>2 DEF HoldsDeposit, HoldsCopies, Resolutions
  <2> QED BY <1>7, <2>1, <2>2
<1>9. CreditsAreBacked'
  BY <1>1, <1>6, <1>8 DEF DepositsBacked, CreditsAreBacked
<1> QED BY <1>4, <1>5, <1>9 DEF DepositsBacked

(* A dispute document keeps its order when it is closed, and a new one takes  *)
(* a free place.                                                            *)
LEMMA DepositDispute ==
  ASSUME IInv, DepositsBacked, NEW p \in Procs, OpenDispute(p) \/ CloseDispute(p)
  PROVE  DepositsBacked'
<1>0. /\ TypeOK /\ HoldsDeposit(req[p]) /\ HoldsCopies(req[p])
      /\ disputes \in [DisputeIds -> DisputeDoc \cup {NoDispute}]
      /\ NoDispute \notin DisputeDoc
  BY OrderFlowAssumption
  DEF IInv, RequestsJustified, TypeOK, DepositsBacked, RequestsSubmitted, OrderFlowAssumption
<1>1. /\ UNCHANGED <<orders, credits, arrived, todo>> /\ OnlyMoves(p) /\ req'[p] = Idle
  BY <1>0, FinishFields DEF OpenDispute, CloseDispute, ledger, outside
<1>2. req[p].pc \in CopyPCs /\ (CloseDispute(p) => req[p].pc = "closeDispute")
  BY DEF OpenDispute, CloseDispute, At, CopyPCs, PCs, CreatePCs
<1>3. req[p].o \in OrderIds
  BY <1>2, AtCopy
<1>4. DepositsGrow
  <2>1. CASE OpenDispute(p)
    <3>1. PICK d \in DisputeIds :
            /\ disputes[d] = NoDispute
            /\ disputes' = [disputes EXCEPT ![d] = [order |-> req[p].o, status |-> "open",
                                                    resolution |-> ""]]
      BY <2>1 DEF OpenDispute
    <3> QED BY <1>0, <1>1, <3>1 DEF DepositsGrow
  <2>2. CASE CloseDispute(p)
    <3>1. req[p].op \in Resolutions /\ req[p].d \in DisputeIds
      BY <1>0, <1>2, <2>2 DEF HoldsCopies
    <3>2. disputes[req[p].d] # NoDispute /\ disputes[req[p].d].order = req[p].o
      BY <1>0, <3>1 DEF HoldsDeposit
    <3> DEFINE doc == [order |-> req[p].o, status |-> "resolved",
                       resolution |-> IF req[p].op = "resolveRelease"
                                      THEN "release_to_buyer" ELSE "refund_to_seller"]
    <3>3. doc.order = req[p].o /\ disputes' = [disputes EXCEPT ![req[p].d] = doc]
      BY <2>2 DEF CloseDispute
    <3>4. doc \in DisputeDoc
      BY <1>3 DEF DisputeDoc
    <3> HIDE DEF doc
    <3>5. \A d \in DisputeIds : disputes'[d] = IF d = req[p].d THEN doc ELSE disputes[d]
      BY <1>0, <3>1, <3>3
    <3> QED BY <1>0, <1>1, <3>2, <3>3, <3>4, <3>5 DEF DepositsGrow
  <2> QED BY <2>1, <2>2
<1>5. PICK r : r = Idle
  OBVIOUS
<1>6. HoldsDeposit(r)'
  BY <1>5 DEF HoldsDeposit, Idle, CreatePCs, CopyPCs, Resolutions
<1>7. RequestsSubmitted' /\ CreditsAreBacked'
  BY <1>1, <1>4, <1>5, <1>6, DepositOwnStep, CreditsStay DEF DepositsBacked
<1>8. OrdersSubmitted' /\ SweepSubmitted'
  BY <1>1 DEF DepositsBacked, OrdersSubmitted, SweepSubmitted, Exists, Submitted, Sells
<1> QED BY <1>7, <1>8 DEF DepositsBacked

(* The sweep lists order documents and unwinds from its copies.             *)
LEMMA DepositSweep ==
  ASSUME IInv, DepositsBacked, Sweep PROVE DepositsBacked'
<1>0. TypeOK /\ Sweeper \in Procs
  BY DEF IInv, Procs
<1>1. CASE SweepList
  <2>1. UNCHANGED <<orders, disputes, credits, arrived, req>>
    BY <1>1 DEF SweepList, ledger, outside
  <2>2. \A t \in todo' : \E o \in OrderIds : Exists(o) /\ t.doc = orders[o]
    <3>1. \A t \in todo' : \E n \in ListActive : t = [o |-> n, doc |-> orders[n]]
      BY <1>1 DEF SweepList
    <3>2. \A n \in ListActive : n \in OrderIds /\ Exists(n)
      BY DEF ListActive, Active
    <3> QED BY <3>1, <3>2
  <2>3. SweepSubmitted'
    BY <2>1, <2>2 DEF SweepSubmitted, DepositsBacked, OrdersSubmitted, Submitted, Sells
  <2>4. RequestsSubmitted' /\ OrdersSubmitted' /\ CreditsAreBacked'
    BY <2>1 DEF DepositsBacked, RequestsSubmitted, OrdersSubmitted, CreditsAreBacked, HoldsDeposit,
       Exists, Submitted, Sells
  <2> QED BY <2>3, <2>4 DEF DepositsBacked
<1>2. CASE SweepNext
  <2>1. UNCHANGED <<orders, disputes, credits, arrived>> /\ todo' \subseteq todo
    BY <1>2 DEF SweepNext, ledger, outside
  <2>2. PICK t \in todo : Start(Sweeper, "cancel", UnwindPC(t.doc), t.o, t.doc)
    BY <1>2 DEF SweepNext
  <2>3. PICK r : r = req'[Sweeper]
    OBVIOUS
  <2>4. OnlyMoves(Sweeper) /\ r.pc = UnwindPC(t.doc) /\ r.op = "cancel" /\ r.doc = t.doc
    BY <1>0, <2>2, <2>3, StartFields
  <2>5. Submitted(t.doc) /\ UnwindPC(t.doc) \in {"unlock", "readAd"}
    BY DEF DepositsBacked, SweepSubmitted, UnwindPC
  <2>6. HoldsDeposit(r)
    BY <2>4, <2>5 DEF HoldsDeposit, CreatePCs, Resolutions
  <2> QED BY <1>0, <2>1, <2>3, <2>4, <2>6, DepositQuiet
<1> QED BY <1>1, <1>2 DEF Sweep

(* Deposits only arrive. *)
LEMMA DepositEnvironment ==
  ASSUME IInv, DepositsBacked, Environment PROVE DepositsBacked'
<1>1. UNCHANGED <<orders, disputes, credits, req, todo>> /\ arrived \subseteq arrived'
  BY DEF Environment, AdminCredit, PostAd, MarkAddressWhitelisted, DepositArrives,
     DeadlinePasses, ledger, outside
<1>2. DepositsGrow
  BY <1>1 DEF DepositsGrow
<1>3. OrdersSubmitted' /\ SweepSubmitted'
  BY <1>1 DEF DepositsBacked, OrdersSubmitted, SweepSubmitted, Exists, Submitted, Sells
<1>4. RequestsSubmitted'
  <2> SUFFICES ASSUME NEW q \in Procs PROVE HoldsDeposit(req[q])'
    BY DEF RequestsSubmitted
  <2>1. PICK c : c = req[q] /\ c = req'[q]
    BY <1>1
  <2>2. HoldsDeposit(c)'
    BY <1>2, <2>1, HoldsDepositGrows DEF DepositsBacked, RequestsSubmitted, IInv, RequestsJustified
  <2> QED BY <2>1, <2>2 DEF HoldsDeposit
<1> QED BY <1>1, <1>2, <1>3, <1>4, CreditsStay DEF DepositsBacked

(* Steps keep every credit backed by a deposit. *)
LEMMA NextBacked == IInv /\ DepositsBacked /\ [Next]_vars => DepositsBacked'
<1> SUFFICES ASSUME IInv, DepositsBacked, [Next]_vars PROVE DepositsBacked'
  OBVIOUS
<1>1. CASE UNCHANGED vars
  BY <1>1 DEF vars, ledger, outside, DepositsBacked, OrdersSubmitted, RequestsSubmitted,
     SweepSubmitted, CreditsAreBacked, HoldsDeposit, Submitted, Exists, Sells
<1>2. ASSUME NEW w \in Workers, NewRequest(w) PROVE DepositsBacked'
  BY <1>2, DepositNew
<1>3. ASSUME NEW p \in Procs, Continue(p) PROVE DepositsBacked'
  BY <1>3, DepositContinue, DepositVerify, DepositWrites, DepositCredit, DepositDispute DEF Continue
<1>4. ASSUME NEW p \in Procs, Failure(p) PROVE DepositsBacked'
  <2>1. /\ UNCHANGED <<orders, disputes, credits, arrived>> /\ todo' \subseteq todo
        /\ \/ Finish(p)
           \/ /\ req[p].pc \in {"readAd", "restoreAd"}
              /\ GotoWith(p, "writeOrder", "cancelled")
    BY <1>4 DEF Failure, Fail, RestoreAdFails, WithdrawAnswerLost, ledger, outside
  <2>2. CASE Finish(p)
    BY <2>1, <2>2, DepositFinish
  <2>3. CASE req[p].pc \in {"readAd", "restoreAd"} /\ GotoWith(p, "writeOrder", "cancelled")
    <3>1. req[p].pc \in CopyPCs \ {"verifyDeposit"}
      BY <2>3 DEF CopyPCs, PCs, CreatePCs
    <3> QED BY <2>1, <2>3, <3>1, DepositGotoWith, DepositQuiet
  <2> QED BY <2>1, <2>2, <2>3
<1>5. CASE Sweep
  BY <1>5, DepositSweep
<1>6. CASE Environment
  BY <1>6, DepositEnvironment
<1> QED BY <1>1, <1>2, <1>3, <1>4, <1>5, <1>6 DEF Next

(* Every credit on the ledger is for a deposit Bybit has reported as         *)
(* successful, or is the entry of nothing that releasing a disputed order    *)
(* without a deposit makes: no stale copy can bring in another transaction.  *)
THEOREM CreditsStayBacked == Spec => []CreditsAreBacked
<1>1. Init => DepositsBacked
  <2> SUFFICES ASSUME Init PROVE DepositsBacked
    OBVIOUS
  <2>1. RequestsSubmitted
    BY IdleHoldsNothing DEF Init, RequestsSubmitted
  <2>2. OrdersSubmitted /\ SweepSubmitted /\ CreditsAreBacked
    BY DEF Init, OrdersSubmitted, SweepSubmitted, CreditsAreBacked, Exists
  <2> QED BY <2>1, <2>2 DEF DepositsBacked
<1>2. DepositsBacked => CreditsAreBacked
  BY DEF DepositsBacked
<1> QED BY <1>1, <1>2, NextBacked, InductiveInvariant, PTL DEF Spec
=============================================================================
