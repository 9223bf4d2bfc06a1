-------------------------- MODULE OrderFlowSingleProofs --------------------------
(***************************************************************************)
(* Proofs about the balances and the ads, which are where orders meet.     *)
(*                                                                         *)
(* Most of them are about one request at a time (Overlap = "none").  This  *)
(* restricts the environment, not the code: two requests that overlap do   *)
(* overwrite each other's ad and do spend the same balance twice.  What    *)
(* survives even then is that an ad never offers less than nothing.        *)
(***************************************************************************)
EXTENDS OrderFlowSerialProofs

-----------------------------------------------------------------------------
(* One request at a time: the ad it has read is the ad as it is.            *)

OneRequest ==
  /\ \A p, q \in Procs : req[p].pc # "idle" /\ req[q].pc # "idle" => p = q
  /\ todo # {} => \A w \in Workers : req[w].pc = "idle"

SweeperCancels ==
  /\ req[Sweeper].pc \in {"idle", "unlock", "readAd", "restoreAd", "writeOrder"}
  /\ req[Sweeper].op \in {"", "cancel"}

AdIsCurrent(r) ==
  /\ r.pc \in CreatePCs => r.ad = ads[r.a] /\ r.ad.status = "active"
  /\ r.pc = "restoreAd" => r.ad = ads[r.doc.ad]

SingleInv == OneRequest /\ SweeperCancels /\ \A p \in Procs : AdIsCurrent(req[p])

(* A new request starts when nothing else goes on, with what it has just read. *)
LEMMA Begins ==
  ASSUME Overlap = "none", IInv, NEW w \in Workers, NewRequest(w)
  PROVE  /\ Quiet /\ OnlyMoves(w)
         /\ UNCHANGED <<orders, ads, disputes, ledger, withdrawn, outside, todo, failures>>
         /\ AdIsCurrent(req'[w])
         /\ req'[w].pc \notin {"debitAd", "lockFunds", "restoreAd"}
         /\ req'[w].pc = "insertOrder" => ~Sells(req'[w].doc)
<1>0. w \in Procs /\ req \in [Procs -> Request] /\ TypeOK
  BY DEF IInv, TypeOK, Procs
<1>1. CASE \E a \in Ads, u \in Takers, amt \in Amounts, addr \in Addresses \cup {NoAddress} :
             CreateOrder(w, a, u, amt, addr)
  <2>1. PICK a \in Ads, u \in Takers, amt \in Amounts, addr \in Addresses \cup {NoAddress} :
               CreateOrder(w, a, u, amt, addr)
    BY <1>1
  <2>2. /\ OnlyMoves(w) /\ req'[w].ad = ads[a] /\ req'[w].a = a
        /\ req'[w].pc = IF a \in SellAds THEN "checkBalance" ELSE "insertOrder"
        /\ req'[w].doc.ad = a
    BY <1>0, <2>1 DEF CreateOrder, NewOrder, OnlyMoves, Idle
  <2>3. Quiet /\ ads[a].status = "active"
    BY <2>1 DEF CreateOrder, MayStart
  <2> QED BY <2>1, <2>2, <2>3 DEF CreateOrder, NewOrder, AdIsCurrent, Sells
<1>2. CASE \E a \in Ads : EditAd(w, a)
  <2>1. OnlyMoves(w) /\ req'[w].pc = "writeAd"
    BY <1>0, <1>2 DEF EditAd, OnlyMoves, Idle
  <2>2. Quiet
    BY <1>2 DEF EditAd, MayStart
  <2> QED BY <1>2, <2>1, <2>2 DEF EditAd, AdIsCurrent, CreatePCs
<1>3. CASE \E o \in OrderIds, u \in Users :
             \/ MarkPaid(w, o, u) \/ ConfirmPayment(w, o, u)
             \/ RaiseDispute(w, o, u) \/ Cancel(w, o, u)
             \/ \E tx \in Txs : SubmitDeposit(w, o, u, tx)
  <2>1. PICK o \in OrderIds, u \in Users :
             \/ MarkPaid(w, o, u) \/ ConfirmPayment(w, o, u)
             \/ RaiseDispute(w, o, u) \/ Cancel(w, o, u)
             \/ \E tx \in Txs : SubmitDeposit(w, o, u, tx)
    BY <1>3
   <2>2. PICK op, pc, doc : /\ Start(w, op, pc, o, doc)
                            /\ pc \notin CreatePCs \cup {"lockFunds", "restoreAd"}
    <3>1. CASE MarkPaid(w, o, u)
      BY <3>1 DEF MarkPaid, CreatePCs
    <3>2. CASE ConfirmPayment(w, o, u)
      BY <3>2 DEF ConfirmPayment, CreatePCs
    <3>3. CASE RaiseDispute(w, o, u)
      BY <3>3 DEF RaiseDispute, CreatePCs
    <3>4. CASE Cancel(w, o, u)
      BY <3>4 DEF Cancel, UnwindPC, CreatePCs
    <3>5. CASE \E tx \in Txs : SubmitDeposit(w, o, u, tx)
      BY <3>5 DEF SubmitDeposit, CreatePCs
    <3> QED BY <2>1, <3>1, <3>2, <3>3, <3>4, <3>5
  <2>3. /\ Quiet
        /\ UNCHANGED <<orders, ads, disputes, ledger, withdrawn, outside, todo, failures>>
    BY <2>1 DEF MarkPaid, ConfirmPayment, RaiseDispute, Cancel, SubmitDeposit, MayTouch
  <2>4. OnlyMoves(w) /\ req'[w].pc = pc
    BY <1>0, <2>2, StartFields
  <2> QED BY <2>2, <2>3, <2>4 DEF AdIsCurrent, CreatePCs
<1>4. CASE \E o \in OrderIds : Release(w, o)
  <2>1. PICK o \in OrderIds : Release(w, o)
    BY <1>4
   <2>2. PICK op, pc, doc : /\ Start(w, op, pc, o, doc)
                            /\ pc \notin CreatePCs \cup {"lockFunds", "restoreAd"}
    BY <2>1 DEF Release, SettlePC, CreatePCs
  <2>3. /\ Quiet
        /\ UNCHANGED <<orders, ads, disputes, ledger, withdrawn, outside, todo, failures>>
    BY <2>1 DEF Release, MayTouch
  <2>4. OnlyMoves(w) /\ req'[w].pc = pc
    BY <1>0, <2>2, StartFields
  <2> QED BY <2>2, <2>3, <2>4 DEF AdIsCurrent, CreatePCs
<1>5. CASE \E d \in DisputeIds, op \in Resolutions : ResolveDispute(w, d, op)
  <2>1. OnlyMoves(w) /\ req'[w].pc = "readDisputed"
    BY <1>0, <1>5 DEF ResolveDispute, OnlyMoves, Idle
  <2>2. Quiet
    BY <1>5 DEF ResolveDispute, MayTouch
  <2> QED BY <1>5, <2>1, <2>2 DEF ResolveDispute, AdIsCurrent, CreatePCs
<1> QED BY <1>1, <1>2, <1>3, <1>4, <1>5 DEF NewRequest

(* A call is made by a request that is under way, and moves nobody else.    *)
LEMMA Continues ==
  ASSUME IInv, NEW p \in Procs, Continue(p) \/ Failure(p)
  PROVE  req[p].pc # "idle" /\ OnlyMoves(p) /\ todo' \subseteq todo
<1>0. TypeOK /\ req \in [Procs -> Request]
  BY DEF IInv, TypeOK
<1>1. CASE \/ CheckBalance(p) \/ DebitAd(p) \/ LockFunds(p) \/ CheckWhitelist(p) \/ Withdraw(p)
           \/ OpenDispute(p) \/ CloseDispute(p) \/ Unlock(p) \/ WriteAd(p) \/ WriteOrder(p)
           \/ WithdrawAnswerLost(p) \/ Fail(p)
  <2>1. Finish(p) \/ \E pc : Goto(p, pc)
    BY <1>1 DEF CheckBalance, DebitAd, LockFunds, CheckWhitelist, Withdraw, OpenDispute,
       CloseDispute, Unlock, WriteAd, WriteOrder, WithdrawAnswerLost, Fail
  <2>2. OnlyMoves(p)
    BY <1>0, <2>1, FinishFields, GotoFields
  <2>3. req[p].pc # "idle" /\ todo' \subseteq todo
    BY <1>1 DEF CheckBalance, DebitAd, LockFunds, CheckWhitelist, Withdraw, OpenDispute,
       CloseDispute, Unlock, WriteAd, WriteOrder, WithdrawAnswerLost, Fail, At
  <2> QED BY <2>2, <2>3
<1>2. CASE \/ VerifyDeposit(p) \/ WriteMarked(p) \/ DebitLocked(p) \/ CreditDeposit(p)
           \/ RestoreAd(p) \/ RestoreAdFails(p)
  <2>1. Finish(p) \/ \E pc, s : GotoWith(p, pc, s)
    BY <1>2 DEF VerifyDeposit, WriteMarked, DebitLocked, CreditDeposit, RestoreAd, RestoreAdFails
  <2>2. OnlyMoves(p)
    BY <1>0, <2>1, FinishFields, GotoWithFields
  <2>3. req[p].pc # "idle" /\ todo' \subseteq todo
    BY <1>2 DEF VerifyDeposit, WriteMarked, DebitLocked, CreditDeposit, RestoreAd, RestoreAdFails, At
  <2> QED BY <2>2, <2>3
<1>3. CASE InsertOrder(p)
  BY <1>0, <1>3 DEF InsertOrder, At, OnlyMoves
<1>4. CASE MarkDisputed(p)
  BY <1>0, <1>4, StartFields, FinishFields DEF MarkDisputed, At
<1>5. CASE ReadDisputed(p)
  BY <1>0, <1>5, FinishFields DEF ReadDisputed, At, OnlyMoves
<1>6. CASE ReadAd(p)
  BY <1>0, <1>6 DEF ReadAd, At, OnlyMoves
<1> QED BY <1>1, <1>2, <1>3, <1>4, <1>5, <1>6 DEF Continue, Failure

(* The sweep lists when nothing else goes on, or lists nothing, and then has *)
(* its list to itself.                                                      *)
LEMMA Sweeps ==
  ASSUME Overlap = "none", IInv, Sweep
  PROVE  /\ UNCHANGED <<orders, ads, disputes, ledger, withdrawn, outside, failures>>
         /\ \/ req' = req /\ todo = {} /\ (todo' # {} => Quiet)
            \/ /\ todo # {} /\ todo' \subseteq todo /\ OnlyMoves(Sweeper)
               /\ req[Sweeper].pc = "idle"
               /\ req'[Sweeper].pc \in {"unlock", "readAd"} /\ req'[Sweeper].op = "cancel"
<1>1. CASE SweepList
  BY <1>1 DEF SweepList, MayTouch
<1>2. CASE SweepNext
  <2>1. PICK t \in todo : /\ todo' = todo \ {t}
                          /\ Start(Sweeper, "cancel", UnwindPC(t.doc), t.o, t.doc)
    BY <1>2 DEF SweepNext
  <2>2. OnlyMoves(Sweeper) /\ req'[Sweeper].pc = UnwindPC(t.doc) /\ req'[Sweeper].op = "cancel"
    BY <2>1, StartFields DEF IInv, Procs
  <2> QED BY <1>2, <2>1, <2>2 DEF SweepNext, UnwindPC, At
<1> QED BY <1>1, <1>2 DEF Sweep

LEMMA Outside ==
  ASSUME Environment \/ UNCHANGED vars
  PROVE  UNCHANGED <<req, todo, orders, entries, credits, withdrawn, disputes>>
  BY DEF Environment, AdminCredit, MarkAddressWhitelisted, DepositArrives, DeadlinePasses, PostAd,
     vars, ledger, outside

LEMMA NextOneRequest ==
  ASSUME Overlap = "none", IInv, OneRequest, [Next]_vars
  PROVE  OneRequest'
<1>0. Sweeper \in Procs /\ Workers \subseteq Procs /\ Sweeper \notin Workers
      /\ \A p \in Procs : p = Sweeper \/ p \in Workers
  BY OrderFlowAssumption DEF Procs, OrderFlowAssumption
<1>1. ASSUME NEW w \in Workers, NewRequest(w) PROVE OneRequest'
  <2>1. Quiet /\ OnlyMoves(w) /\ todo' = todo
    BY <1>1, Begins
  <2> QED BY <1>0, <2>1 DEF OneRequest, Quiet, OnlyMoves
<1>2. ASSUME NEW p \in Procs, Continue(p) \/ Failure(p) PROVE OneRequest'
  <2>1. req[p].pc # "idle" /\ OnlyMoves(p) /\ todo' \subseteq todo
    BY <1>2, Continues
  <2>2. \A q \in Procs \ {p} : req[q].pc = "idle" /\ req'[q].pc = "idle"
    BY <2>1 DEF OneRequest, OnlyMoves
  <2>3. todo' # {} => p \notin Workers
    BY <2>1 DEF OneRequest
  <2> QED BY <1>0, <2>2, <2>3 DEF OneRequest
<1>3. CASE Sweep
  <2>1. CASE req' = req /\ todo = {} /\ (todo' # {} => Quiet)
    BY <1>0, <2>1 DEF OneRequest, Quiet
  <2>2. CASE todo # {} /\ todo' \subseteq todo /\ OnlyMoves(Sweeper)
    BY <1>0, <2>2 DEF OneRequest, OnlyMoves
  <2> QED BY <1>3, <2>1, <2>2, Sweeps
<1>4. CASE Environment \/ UNCHANGED vars
  BY <1>4, Outside DEF OneRequest
<1> QED BY <1>1, <1>2, <1>3, <1>4 DEF Next

(* Only four steps write an ad. *)
LEMMA WhoWritesAds ==
  ASSUME Next
  PROVE  \/ ads' = ads
         \/ \E p \in Procs : DebitAd(p) \/ RestoreAd(p) \/ WriteAd(p)
         \/ \E a \in Ads : PostAd(a)
<1>1. ASSUME NEW w \in Workers, NewRequest(w) PROVE ads' = ads
  BY <1>1 DEF NewRequest, CreateOrder, EditAd, MarkPaid, ConfirmPayment, RaiseDispute, Cancel,
     SubmitDeposit, Release, ResolveDispute
<1>2. ASSUME NEW p \in Procs, Continue(p)
      PROVE  ads' = ads \/ DebitAd(p) \/ RestoreAd(p) \/ WriteAd(p)
  BY <1>2 DEF Continue, CheckBalance, InsertOrder, LockFunds, VerifyDeposit, WriteMarked,
     WriteOrder, CheckWhitelist, Withdraw, DebitLocked, CreditDeposit, MarkDisputed,
     OpenDispute, ReadDisputed, CloseDispute, Unlock, ReadAd
<1>3. ASSUME NEW p \in Procs, Failure(p) PROVE ads' = ads
  BY <1>3 DEF Failure, Fail, RestoreAdFails, WithdrawAnswerLost
<1>4. CASE Sweep
  BY <1>4 DEF Sweep, SweepList, SweepNext
<1>5. CASE Environment
  BY <1>5 DEF Environment, AdminCredit, MarkAddressWhitelisted, DepositArrives, DeadlinePasses
<1> QED BY <1>1, <1>2, <1>3, <1>4, <1>5 DEF Next

LEMMA NextSweeperCancels ==
  ASSUME Overlap = "none", IInv, SweeperCancels, [Next]_vars
  PROVE  SweeperCancels'
<1>0. Sweeper \in Procs /\ Sweeper \notin Workers /\ TypeOK /\ "cancel" \notin Resolutions
      /\ req \in [Procs -> Request]
  BY OrderFlowAssumption DEF Procs, OrderFlowAssumption, IInv, TypeOK, Resolutions
<1>1. ASSUME NEW p \in Procs, p # Sweeper, OnlyMoves(p) PROVE SweeperCancels'
  BY <1>0, <1>1 DEF SweeperCancels, OnlyMoves
<1>2. ASSUME NEW w \in Workers, NewRequest(w) PROVE SweeperCancels'
  BY <1>0, <1>1, <1>2, Begins DEF Procs
<1>3. ASSUME NEW p \in Procs, Continue(p) \/ Failure(p) PROVE SweeperCancels'
  <2>1. CASE p # Sweeper
    BY <1>1, <1>3, <2>1, Continues
  <2>2. CASE p = Sweeper
    <3>1. \/ Unlock(p) \/ ReadAd(p) \/ RestoreAd(p) \/ WriteOrder(p) \/ Fail(p) \/ RestoreAdFails(p)
      BY <1>3, <2>2 DEF SweeperCancels, Continue, Failure, At, CheckBalance, InsertOrder, DebitAd,
         LockFunds, VerifyDeposit, WriteMarked, CheckWhitelist, Withdraw, DebitLocked,
         CreditDeposit, MarkDisputed, OpenDispute, ReadDisputed, CloseDispute, WriteAd,
         WithdrawAnswerLost
    <3>2. CASE Unlock(p)
      BY <1>0, <2>2, <3>2, GotoFields DEF Unlock, SweeperCancels
    <3>3. CASE ReadAd(p)
      <4>1. req'[p].pc = "restoreAd" /\ req'[p].op = req[p].op
        BY <1>0, <3>3 DEF ReadAd, Request
      <4> QED BY <2>2, <4>1 DEF SweeperCancels
    <3>4. CASE RestoreAd(p) \/ RestoreAdFails(p)
      <4>1. GotoWith(p, "writeOrder", "cancelled")
        BY <3>4 DEF RestoreAd, RestoreAdFails
      <4>2. req'[p].pc = "writeOrder" /\ req'[p].op = req[p].op
        BY <1>0, <4>1, GotoWithFields
      <4> QED BY <2>2, <4>2 DEF SweeperCancels
    <3>5. CASE WriteOrder(p) \/ Fail(p)
      <4>1. Finish(p)
        BY <1>0, <2>2, <3>5 DEF WriteOrder, Fail, SweeperCancels, Resolutions
      <4> QED BY <1>0, <2>2, <4>1, FinishFields DEF SweeperCancels
    <3> QED BY <3>1, <3>2, <3>3, <3>4, <3>5
  <2> QED BY <2>1, <2>2
<1>4. CASE Sweep
  BY <1>4, Sweeps DEF SweeperCancels
<1>5. CASE Environment \/ UNCHANGED vars
  BY <1>5, Outside DEF SweeperCancels
<1> QED BY <1>2, <1>3, <1>4, <1>5 DEF Next

(* Only Create and restoreAdCapacity go on with a copy of an ad or towards a *)
(* lock.                                                                    *)
LEMMA OtherCalls ==
  ASSUME TypeOK, NEW p \in Procs, Continue(p) \/ Failure(p),
         ~CheckBalance(p), ~InsertOrder(p), ~DebitAd(p), ~ReadAd(p)
  PROVE  req'[p].pc \notin CreatePCs \cup {"lockFunds", "restoreAd"}
<1>0. req \in [Procs -> Request]
  BY DEF TypeOK
<1>1. CASE \/ LockFunds(p) \/ CheckWhitelist(p) \/ Withdraw(p)
           \/ OpenDispute(p) \/ CloseDispute(p) \/ Unlock(p) \/ WriteAd(p) \/ WriteOrder(p)
           \/ WithdrawAnswerLost(p) \/ Fail(p)
  <2>1. Finish(p) \/ \E pc \in {"withdraw", "debitLocked", "readAd",
                                "openDispute", "closeDispute"} : Goto(p, pc)
    BY <1>1 DEF LockFunds, CheckWhitelist, Withdraw, OpenDispute,
       CloseDispute, Unlock, WriteAd, WriteOrder, WithdrawAnswerLost, Fail
  <2> QED BY <2>1, FinishFields, GotoFields DEF CreatePCs
<1>2. CASE \/ VerifyDeposit(p) \/ WriteMarked(p) \/ DebitLocked(p) \/ CreditDeposit(p)
           \/ RestoreAd(p) \/ RestoreAdFails(p)
  <2>1. Finish(p) \/ \E pc \in {"writeMarked", "writeOrder"} : \E s : GotoWith(p, pc, s)
    BY <1>2 DEF VerifyDeposit, WriteMarked, DebitLocked, CreditDeposit, RestoreAd, RestoreAdFails
  <2> QED BY <2>1, FinishFields, GotoWithFields DEF CreatePCs
<1>3. CASE MarkDisputed(p)
  <2>1. Finish(p) \/ \E doc : Start(p, "raise", "writeOrder", req[p].o, doc)
    BY <1>3 DEF MarkDisputed
  <2>2. req'[p].pc \in {"idle", "writeOrder"}
    BY <2>1, FinishFields, StartFields
  <2> QED BY <2>2 DEF CreatePCs
<1>4. CASE ReadDisputed(p)
  <2>1. CASE Finish(p)
    BY <2>1, FinishFields DEF CreatePCs
  <2>2. CASE ~Finish(p)
    <3>1. PICK next : /\ next \in {SettlePC(orders[req[p].o]), UnwindPC(orders[req[p].o])}
                      /\ req' = [req EXCEPT ![p].pc = next, ![p].doc = orders[req[p].o]]
      BY <1>4, <2>2 DEF ReadDisputed
    <3>2. req'[p].pc = next
      BY <1>0, <3>1
    <3> QED BY <3>1, <3>2 DEF SettlePC, UnwindPC, CreatePCs
  <2> QED BY <2>1, <2>2
<1> QED BY <1>1, <1>2, <1>3, <1>4 DEF Continue, Failure

(* A copy of an ad is read in CreateOrder or ReadAd and nothing else goes on *)
(* until it is written.                                                     *)
LEMMA NextAdIsCurrent ==
  ASSUME Overlap = "none", IInv, SingleInv, [Next]_vars
  PROVE  (\A p \in Procs : AdIsCurrent(req[p]))'
<1>0. Sweeper \in Procs /\ Workers \subseteq Procs /\ TypeOK /\ req \in [Procs -> Request]
  BY DEF Procs, IInv, TypeOK
<1>1. ASSUME NEW p \in Procs, OnlyMoves(p), \A q \in Procs \ {p} : req[q].pc = "idle",
             AdIsCurrent(req[p])'
      PROVE  (\A q \in Procs : AdIsCurrent(req[q]))'
  <2>1. ASSUME NEW q \in Procs, q # p PROVE AdIsCurrent(req[q])'
    BY <1>1, <2>1 DEF OnlyMoves, AdIsCurrent, CreatePCs
  <2> QED BY <1>1, <2>1
<1>2. ASSUME NEW w \in Workers, NewRequest(w) PROVE (\A p \in Procs : AdIsCurrent(req[p]))'
  <2>1. /\ Quiet /\ OnlyMoves(w) /\ ads' = ads /\ AdIsCurrent(req'[w])
    BY <1>2, Begins
  <2>2. AdIsCurrent(req[w])'
    BY <2>1 DEF AdIsCurrent
  <2> QED BY <1>0, <1>1, <2>1, <2>2 DEF Quiet
<1>3. ASSUME NEW p \in Procs, Continue(p) \/ Failure(p)
      PROVE  (\A q \in Procs : AdIsCurrent(req[q]))'
  <2>1. req[p].pc # "idle" /\ OnlyMoves(p)
    BY <1>3, Continues
  <2>2. \A q \in Procs \ {p} : req[q].pc = "idle"
    BY <2>1 DEF SingleInv, OneRequest
  <2>3. AdIsCurrent(req[p])'
    <3>1. CASE CheckBalance(p)
      <4>1. CASE Finish(p)
        BY <1>0, <4>1, FinishFields DEF AdIsCurrent, CreatePCs
      <4>2. CASE Goto(p, "insertOrder")
        <5>1. req[p].pc = "checkBalance" /\ ads' = ads
          BY <3>1 DEF CheckBalance, At
        <5>2. req'[p].pc = "insertOrder" /\ req'[p].ad = req[p].ad /\ req'[p].a = req[p].a
          BY <1>0, <4>2, GotoFields
        <5> QED BY <5>1, <5>2 DEF SingleInv, AdIsCurrent, CreatePCs
      <4> QED BY <3>1, <4>1, <4>2 DEF CheckBalance
    <3>2. CASE InsertOrder(p)
      <4>1. /\ req[p].pc = "insertOrder" /\ ads' = ads
            /\ req'[p].pc = "debitAd" /\ req'[p].ad = req[p].ad /\ req'[p].a = req[p].a
        BY <1>0, <3>2 DEF InsertOrder, At
      <4> QED BY <4>1 DEF SingleInv, AdIsCurrent, CreatePCs
    <3>3. CASE ReadAd(p)
      <4>1. /\ ads' = ads /\ req'[p].pc = "restoreAd" /\ req'[p].ad = ads[req[p].doc.ad]
            /\ req'[p].doc = req[p].doc
        BY <1>0, <3>3 DEF ReadAd, At
      <4> QED BY <4>1 DEF AdIsCurrent, CreatePCs
    <3>4. CASE DebitAd(p)
      <4>1. Finish(p) \/ Goto(p, "lockFunds")
        BY <3>4 DEF DebitAd
      <4>2. req'[p].pc \in {"idle", "lockFunds"}
        BY <1>0, <4>1, FinishFields, GotoFields
      <4> QED BY <4>2 DEF AdIsCurrent, CreatePCs
    <3>5. CASE ~CheckBalance(p) /\ ~InsertOrder(p) /\ ~DebitAd(p) /\ ~ReadAd(p)
      <4>1. req'[p].pc \notin CreatePCs \cup {"lockFunds", "restoreAd"}
        BY <1>0, <1>3, <3>5, OtherCalls
      <4> QED BY <4>1 DEF AdIsCurrent
    <3> QED BY <3>1, <3>2, <3>3, <3>4, <3>5
  <2> QED BY <1>1, <2>1, <2>2, <2>3
<1>4. CASE Sweep
  <2>1. CASE req' = req
    BY <1>4, <2>1, Sweeps DEF SingleInv, AdIsCurrent
  <2>2. CASE todo # {} /\ OnlyMoves(Sweeper) /\ req'[Sweeper].pc \in {"unlock", "readAd"}
    <3>1. \A q \in Procs \ {Sweeper} : req[q].pc = "idle"
      BY <2>2 DEF SingleInv, OneRequest, Procs
    <3>2. AdIsCurrent(req[Sweeper])'
      BY <2>2 DEF AdIsCurrent, CreatePCs
    <3> QED BY <1>0, <1>1, <2>2, <3>1, <3>2
  <2> QED BY <1>4, <2>1, <2>2, Sweeps
<1>5. CASE Environment \/ UNCHANGED vars
  <2>1. req' = req
    BY <1>5, Outside
  <2>2. ads' = ads \/ \E a \in Ads : PostAd(a)
    BY <1>5 DEF Environment, AdminCredit, MarkAddressWhitelisted, DepositArrives, DeadlinePasses, vars
  <2>3. CASE ads' = ads
    BY <2>1, <2>3 DEF SingleInv, AdIsCurrent
  <2>4. ASSUME NEW a \in Ads, PostAd(a), NEW p \in Procs PROVE AdIsCurrent(req[p])'
    <3>1. ads[a] = NoAd /\ \A b \in Ads \ {a} : ads'[b] = ads[b]
      BY <2>4 DEF PostAd, IsPosted, IInv, TypeOK
    <3>2. HoldsCopies(req[p])
      BY DEF IInv, RequestsJustified
    <3>3. req[p].pc \in CreatePCs => req[p].a \in Ads /\ req[p].ad \in AdDoc
      BY <3>2 DEF HoldsCopies
    <3>4. req[p].pc = "restoreAd" => req[p].doc.ad \in Ads /\ req[p].ad \in AdDoc
      BY <3>2 DEF HoldsCopies, CopyPCs, CreatePCs, PCs, Known, OrderDoc
    <3>5. NoAd \notin AdDoc
      BY OrderFlowAssumption DEF OrderFlowAssumption
    <3>6. AdIsCurrent(req[p])
      BY DEF SingleInv
    <3> QED BY <2>1, <3>1, <3>3, <3>4, <3>5, <3>6 DEF AdIsCurrent
  <2> QED BY <2>2, <2>3, <2>4
<1> QED BY <1>2, <1>3, <1>4, <1>5 DEF Next

(* One request at a time holds the only copies there are, and they are       *)
(* current, failures included.                                              *)
THEOREM SingleInvariant == ASSUME Overlap = "none" PROVE Spec => [](IInv /\ SingleInv)
<1>1. Init => SingleInv
  <2> SUFFICES ASSUME Init PROVE SingleInv
    OBVIOUS
  <2>1. \A p \in Procs : req[p].pc = "idle" /\ req[p].op = ""
    BY DEF Init, Idle
  <2>2. todo = {} /\ Sweeper \in Procs
    BY DEF Init, Procs
  <2> QED BY <2>1, <2>2 DEF SingleInv, OneRequest, SweeperCancels, AdIsCurrent, CreatePCs
<1>2. IInv /\ SingleInv /\ [Next]_vars => SingleInv'
  BY NextOneRequest, NextSweeperCancels, NextAdIsCurrent DEF SingleInv
<1> QED BY <1>1, <1>2, InductiveInvariant, PTL DEF Spec

(* An ad an admin has closed stays closed: DebitAd and restoreAdCapacity     *)
(* write the status they have read, which, while nothing else goes on, is    *)
(* the one the admin set.                                                   *)
THEOREM ClosedAdsStayClosed == ASSUME Overlap = "none" PROVE Spec => ClosedAdStaysClosed
<1> DEFINE Stays == \A a \in Ads :
                     IsPosted(a) /\ ads[a].status = "closed" /\ ads'[a].status # "closed" =>
                      \E w \in Workers : At(w, "writeAd") /\ req[w].a = a
<1>1. ASSUME IInv, SingleInv, Next PROVE Stays
  <2>0. ads \in [Ads -> AdDoc \cup {NoAd}] /\ Sweeper \in Procs
    BY <1>1 DEF IInv, TypeOK, Procs
  <2>1. ASSUME NEW a \in Ads, IsPosted(a), ads[a].status = "closed", ads'[a].status # "closed"
        PROVE  \E w \in Workers : At(w, "writeAd") /\ req[w].a = a
    <3>1. ASSUME NEW p \in Procs, DebitAd(p) PROVE FALSE
      <4>1. \E x : ads' = [ads EXCEPT ![req[p].a] = x]
        BY <3>1 DEF DebitAd
      <4>2. req[p].a = a
        BY <2>0, <2>1, <4>1
      <4>3. req[p].ad = ads[req[p].a] /\ req[p].ad.status = "active"
        BY <1>1, <3>1 DEF SingleInv, AdIsCurrent, DebitAd, At, CreatePCs
      <4> QED BY <2>1, <4>2, <4>3
    <3>2. ASSUME NEW p \in Procs, RestoreAd(p) PROVE FALSE
      <4>1. \E n : ads' = [ads EXCEPT ![req[p].doc.ad] =
                 [avail |-> n,
                  status |-> IF req[p].ad.status = "paused" THEN "active" ELSE req[p].ad.status]]
        BY <3>2 DEF RestoreAd
      <4>2. req[p].doc.ad = a
        BY <2>0, <2>1, <4>1
      <4>3. req[p].ad = ads[a]
        BY <1>1, <3>2, <4>2 DEF SingleInv, AdIsCurrent, RestoreAd, At
      <4> QED BY <2>0, <2>1, <4>1, <4>2, <4>3
    <3>3. ASSUME NEW p \in Procs, WriteAd(p) PROVE \E w \in Workers : At(w, "writeAd") /\ req[w].a = a
      <4>1. req[p].a = a /\ At(p, "writeAd")
        BY <2>0, <2>1, <3>3 DEF WriteAd
      <4>2. p \in Workers
        BY <1>1, <4>1 DEF SingleInv, SweeperCancels, At, Procs
      <4> QED BY <4>1, <4>2
    <3>4. ASSUME NEW n \in Ads, PostAd(n) PROVE FALSE
      BY <2>0, <2>1, <3>4 DEF PostAd, IsPosted
    <3>5. \/ ads' = ads
          \/ \E p \in Procs : DebitAd(p) \/ RestoreAd(p) \/ WriteAd(p)
          \/ \E n \in Ads : PostAd(n)
      BY <1>1, WhoWritesAds
    <3> QED BY <2>1, <3>1, <3>2, <3>3, <3>4, <3>5
  <2> QED BY <2>1
<1>2. ASSUME UNCHANGED vars PROVE Stays
  BY <1>2 DEF vars
<1>3. IInv /\ SingleInv /\ [Next]_vars => Stays
  BY <1>1, <1>2
<1> QED BY <1>3, SingleInvariant, PTL DEF Spec, ClosedAdStaysClosed

-----------------------------------------------------------------------------
(* Whatever overlaps or fails: an ad never offers less than nothing.        *)

(* A request that will write an ad holds a copy that offers something or    *)
(* nothing.                                                                 *)
SoundCopy(r) == r.pc \in {"restoreAd", "writeAd"} => r.ad.avail >= 0

SoundAds == AdNeverOversold /\ \A p \in Procs : SoundCopy(req[p])

LEMMA NewRequestSound ==
  ASSUME EditAmounts \ {Absent} \subseteq Nat, IInv, SoundAds, NEW w \in Workers, NewRequest(w)
  PROVE  OnlyMoves(w) /\ SoundCopy(req'[w])
<1>0. w \in Procs /\ TypeOK /\ req \in [Procs -> Request]
  BY DEF IInv, TypeOK, Procs
<1>1. CASE \E a \in Ads, u \in Takers, amt \in Amounts, addr \in Addresses \cup {NoAddress} :
             CreateOrder(w, a, u, amt, addr)
  <2>1. OnlyMoves(w) /\ req'[w].pc \in {"checkBalance", "insertOrder"}
    BY <1>0, <1>1 DEF CreateOrder, OnlyMoves, Idle
  <2> QED BY <2>1 DEF SoundCopy
<1>2. CASE \E a \in Ads : EditAd(w, a)
  <2>1. PICK a \in Ads, n \in EditAmounts : EditAd(w, a) /\ \E x, s :
               /\ x = IF n = Absent THEN ads[a].avail ELSE n
               /\ req' = [req EXCEPT ![w] = [Idle EXCEPT !.op = "editAd", !.pc = "writeAd",
                                               !.ad = [avail |-> x, status |-> s], !.a = a]]
    BY <1>2 DEF EditAd
  <2>2. PICK x, ad : /\ x = IF n = Absent THEN ads[a].avail ELSE n
                     /\ ad.avail = x
                     /\ req' = [req EXCEPT ![w] = [Idle EXCEPT !.op = "editAd", !.pc = "writeAd",
                                                               !.ad = ad, !.a = a]]
    BY <2>1
  <2>3. x >= 0
    <3>1. n # Absent => n \in Nat
      OBVIOUS
    <3>2. ads[a].avail >= 0
      BY <2>1 DEF EditAd, SoundAds, AdNeverOversold
    <3> QED BY <2>2, <3>1, <3>2
  <2>4. OnlyMoves(w) /\ req'[w].ad = ad
    BY <1>0, <2>2 DEF OnlyMoves, Idle
  <2> QED BY <2>2, <2>3, <2>4 DEF SoundCopy
<1>3. CASE \E d \in DisputeIds, op \in Resolutions : ResolveDispute(w, d, op)
  <2>1. OnlyMoves(w) /\ req'[w].pc = "readDisputed"
    BY <1>0, <1>3 DEF ResolveDispute, OnlyMoves, Idle
  <2> QED BY <2>1 DEF SoundCopy
<1>4. ASSUME NEW o \in OrderIds, NEW u \in Users,
             \/ MarkPaid(w, o, u) \/ ConfirmPayment(w, o, u) \/ RaiseDispute(w, o, u)
             \/ Cancel(w, o, u) \/ Release(w, o) \/ \E tx \in Txs : SubmitDeposit(w, o, u, tx)
      PROVE  OnlyMoves(w) /\ SoundCopy(req'[w])
  <2>1. PICK op, pc, doc : Start(w, op, pc, o, doc) /\ pc \notin {"restoreAd", "writeAd"}
    <3>1. CASE MarkPaid(w, o, u) \/ ConfirmPayment(w, o, u)
      <4>1. \E op, doc : Start(w, op, "writeOrder", o, doc)
        BY <3>1 DEF MarkPaid, ConfirmPayment
      <4> QED BY <4>1
    <3>2. CASE RaiseDispute(w, o, u)
      BY <3>2 DEF RaiseDispute
    <3>3. CASE Cancel(w, o, u)
      BY <3>3 DEF Cancel, UnwindPC
    <3>4. CASE Release(w, o)
      BY <3>4 DEF Release, SettlePC
    <3>5. CASE \E tx \in Txs : SubmitDeposit(w, o, u, tx)
      BY <3>5 DEF SubmitDeposit
    <3> QED BY <1>4, <3>1, <3>2, <3>3, <3>4, <3>5
  <2>2. OnlyMoves(w) /\ req'[w].pc = pc
    BY <1>0, <2>1, StartFields
  <2> QED BY <2>1, <2>2 DEF SoundCopy
<1>5. ASSUME NEW o \in OrderIds, Release(w, o) PROVE OnlyMoves(w) /\ SoundCopy(req'[w])
  BY <1>4, <1>5 DEF Users
<1> QED BY <1>1, <1>2, <1>3, <1>4, <1>5 DEF NewRequest

LEMMA ContinueSound ==
  ASSUME IInv, SoundAds, NEW p \in Procs, Continue(p) \/ Failure(p)
  PROVE  SoundCopy(req'[p])
<1>0. TypeOK /\ req \in [Procs -> Request]
  BY DEF IInv, TypeOK
<1>1. ASSUME NEW pc \in PCs \ {"restoreAd", "writeAd"}, req'[p].pc = pc PROVE SoundCopy(req'[p])
  BY <1>1 DEF SoundCopy
<1>2. CASE \/ CheckBalance(p) \/ DebitAd(p) \/ LockFunds(p) \/ CheckWhitelist(p) \/ Withdraw(p)
           \/ OpenDispute(p) \/ CloseDispute(p) \/ Unlock(p) \/ WriteAd(p) \/ WriteOrder(p)
           \/ WithdrawAnswerLost(p) \/ Fail(p)
  <2>1. Finish(p) \/ \E pc \in PCs \ {"restoreAd", "writeAd"} : Goto(p, pc)
    BY <1>2 DEF CheckBalance, DebitAd, LockFunds, CheckWhitelist, Withdraw, OpenDispute,
       CloseDispute, Unlock, WriteAd, WriteOrder, WithdrawAnswerLost, Fail, PCs
  <2> QED BY <1>0, <1>1, <2>1, FinishFields, GotoFields DEF PCs
<1>3. CASE \/ VerifyDeposit(p) \/ WriteMarked(p) \/ DebitLocked(p) \/ CreditDeposit(p)
           \/ RestoreAd(p) \/ RestoreAdFails(p)
  <2>1. Finish(p) \/ \E pc \in PCs \ {"restoreAd", "writeAd"} : \E s : GotoWith(p, pc, s)
    BY <1>3 DEF VerifyDeposit, WriteMarked, DebitLocked, CreditDeposit, RestoreAd,
       RestoreAdFails, PCs
  <2> QED BY <1>0, <1>1, <2>1, FinishFields, GotoWithFields DEF PCs
<1>4. CASE InsertOrder(p)
  <2>1. req'[p].pc = "debitAd"
    BY <1>0, <1>4 DEF InsertOrder, Request
  <2> QED BY <2>1 DEF SoundCopy
<1>5. CASE MarkDisputed(p)
  <2>1. Finish(p) \/ \E op, o, doc : Start(p, op, "writeOrder", o, doc)
    BY <1>5 DEF MarkDisputed
  <2>2. ASSUME NEW op, NEW o, NEW doc, Start(p, op, "writeOrder", o, doc)
        PROVE  req'[p].pc = "writeOrder"
    BY <1>0, <2>2, StartFields
  <2>3. req'[p].pc \in {"idle", "writeOrder"}
    BY <1>0, <2>1, <2>2, FinishFields
  <2> QED BY <2>3 DEF SoundCopy
<1>6. CASE ReadDisputed(p)
  <2>1. \/ Finish(p)
        \/ \E pc, doc : /\ req' = [req EXCEPT ![p].pc = pc, ![p].doc = doc]
                        /\ pc \in {"checkWhitelist", "creditDeposit", "unlock", "readAd"}
    BY <1>6 DEF ReadDisputed, SettlePC, UnwindPC
  <2>2. CASE Finish(p)
    BY <1>0, <2>2, FinishFields DEF SoundCopy
  <2>3. ASSUME NEW pc, NEW doc, req' = [req EXCEPT ![p].pc = pc, ![p].doc = doc]
        PROVE  req'[p].pc = pc
    BY <1>0, <2>3 DEF Request
  <2> QED BY <2>1, <2>2, <2>3 DEF SoundCopy
<1>7. CASE ReadAd(p)
  <2>1. PICK b : b = req[p].doc.ad /\ b \in Ads /\ IsPosted(b)
    <3>1. req[p].doc \in OrderDoc
      BY <1>7, AtCopy DEF ReadAd, At, CopyPCs, PCs, CreatePCs
    <3> QED BY <1>7, <3>1 DEF ReadAd, OrderDoc
  <2>2. req'[p].ad = ads[b]
    BY <1>0, <1>7, <2>1 DEF ReadAd, Request
  <2> QED BY <2>1, <2>2 DEF SoundCopy, SoundAds, AdNeverOversold
<1> QED BY <1>2, <1>3, <1>4, <1>5, <1>6, <1>7 DEF Continue, Failure

(* What the writes of an ad leave open *)
LEMMA AdWritesSound ==
  ASSUME IInv, SoundAds, NEW p \in Procs, DebitAd(p) \/ RestoreAd(p) \/ WriteAd(p)
  PROVE  \E a \in Ads : \E ad : ad.avail >= 0 /\ ads' = [ads EXCEPT ![a] = ad]
<1>1. CASE DebitAd(p)
  <2>1. /\ req[p].a \in Ads /\ req[p].ad \in AdDoc /\ req[p].doc \in OrderDoc
        /\ req[p].doc.amount <= req[p].ad.avail
    BY <1>1 DEF DebitAd, At, IInv, RequestsJustified, HoldsCopies, CreatePCs
  <2>2. PICK v \in Int, k \in Nat : v = req[p].ad.avail /\ k = req[p].doc.amount /\ k <= v
    <3>1. req[p].ad.avail \in Int /\ req[p].doc.amount \in Nat
      BY <2>1, OrderFlowAssumption DEF AdDoc, OrderDoc, OrderFlowAssumption
    <3> QED BY <2>1, <3>1
  <2>3. PICK x : x = Rounded(v - k) /\ x >= 0
    BY <2>2, RoundedInt
  <2>4. PICK s : ads' = [ads EXCEPT ![req[p].a] = [avail |-> x, status |-> s]]
    BY <1>1, <2>2, <2>3 DEF DebitAd
  <2> QED BY <2>1, <2>3, <2>4
<1>2. CASE RestoreAd(p)
  <2>1. req[p].doc \in OrderDoc /\ req[p].ad \in AdDoc /\ req[p].ad.avail >= 0
    <3>1. req[p].pc = "restoreAd" /\ req[p].pc \in CopyPCs
      BY <1>2 DEF RestoreAd, At, CopyPCs, PCs, CreatePCs
    <3> QED BY <3>1, AtCopy DEF IInv, RequestsJustified, HoldsCopies, SoundAds, SoundCopy
  <2>2. PICK v \in Int, k \in Nat : v = req[p].ad.avail /\ k = req[p].doc.amount /\ v >= 0
    <3>1. req[p].ad.avail \in Int /\ req[p].doc.amount \in Nat
      BY <2>1, OrderFlowAssumption DEF AdDoc, OrderDoc, OrderFlowAssumption
    <3> QED BY <2>1, <3>1
  <2>3. PICK x : x = Rounded(v + k) /\ x >= 0
    BY <2>2, RoundedInt
  <2>4. PICK s : ads' = [ads EXCEPT ![req[p].doc.ad] = [avail |-> x, status |-> s]]
    BY <1>2, <2>2, <2>3 DEF RestoreAd
  <2>5. req[p].doc.ad \in Ads
    BY <2>1 DEF OrderDoc
  <2> QED BY <2>3, <2>4, <2>5
<1>3. CASE WriteAd(p)
  BY <1>3 DEF WriteAd, At, IInv, RequestsJustified, HoldsCopies, SoundAds, SoundCopy
<1> QED BY <1>1, <1>2, <1>3

LEMMA NextSound ==
  ASSUME EditAmounts \ {Absent} \subseteq Nat, IInv, SoundAds, [Next]_vars
  PROVE  SoundAds'
<1>0. ads \in [Ads -> AdDoc \cup {NoAd}] /\ Sweeper \in Procs /\ Workers \subseteq Procs
  BY DEF IInv, TypeOK, Procs
<1>1. ads' = ads \/ \E a \in Ads : \E ad : ad.avail >= 0 /\ ads' = [ads EXCEPT ![a] = ad]
  <2>1. ASSUME NEW a \in Ads, PostAd(a)
        PROVE  \E ad : ad.avail >= 0 /\ ads' = [ads EXCEPT ![a] = ad]
    <3>1. Capacity[a] >= 0
      BY OrderFlowAssumption DEF OrderFlowAssumption
    <3> QED BY <2>1, <3>1 DEF PostAd
  <2> QED BY <2>1, WhoWritesAds, AdWritesSound DEF vars
<1>2. AdNeverOversold'
  BY <1>0, <1>1 DEF SoundAds, AdNeverOversold, IsPosted
<1>3. ASSUME NEW p \in Procs, OnlyMoves(p), SoundCopy(req'[p])
      PROVE  \A q \in Procs : SoundCopy(req'[q])
  BY <1>3 DEF OnlyMoves, SoundAds
<1>4. \A q \in Procs : SoundCopy(req'[q])
  <2>1. ASSUME NEW w \in Workers, NewRequest(w) PROVE \A q \in Procs : SoundCopy(req'[q])
    BY <1>0, <1>3, <2>1, NewRequestSound
  <2>2. ASSUME NEW p \in Procs, Continue(p) \/ Failure(p)
        PROVE  \A q \in Procs : SoundCopy(req'[q])
    BY <1>3, <2>2, Continues, ContinueSound
  <2>3. CASE SweepNext
    <3>1. PICK t \in todo : Start(Sweeper, "cancel", UnwindPC(t.doc), t.o, t.doc)
      BY <2>3 DEF SweepNext
    <3>2. OnlyMoves(Sweeper) /\ req'[Sweeper].pc \in {"unlock", "readAd"}
      BY <1>0, <3>1, StartFields DEF IInv, UnwindPC
    <3> QED BY <1>0, <1>3, <3>2 DEF SoundCopy
  <2>4. CASE req' = req
    BY <2>4 DEF SoundAds
  <2> QED BY <2>1, <2>2, <2>3, <2>4, Outside DEF Next, Sweep, SweepList
<1> QED BY <1>2, <1>4 DEF SoundAds, SoundCopy

(* However requests overlap, fail and overwrite each other's ad, no ad ever   *)
(* offers less than nothing, as long as no admin types a negative amount     *)
(* (ads.Update would take it): Create and restoreAdCapacity compute what     *)
(* they write from a copy that had enough.                                   *)
THEOREM AdsNeverOversold ==
  ASSUME EditAmounts \ {Absent} \subseteq Nat PROVE Spec => []AdNeverOversold
<1>1. Init => SoundAds
  <2> SUFFICES ASSUME Init PROVE SoundAds
    OBVIOUS
  <2>1. \A a \in Ads : IsPosted(a) => ads[a].avail >= 0
    BY OrderFlowAssumption DEF Init, IsPosted, OrderFlowAssumption
  <2>2. \A p \in Procs : SoundCopy(req[p])
    BY DEF Init, Idle, SoundCopy
  <2> QED BY <2>1, <2>2 DEF SoundAds, AdNeverOversold
<1>2. IInv /\ SoundAds /\ [Next]_vars => SoundAds'
  BY NextSound
<1>3. SoundAds => AdNeverOversold
  BY DEF SoundAds
<1> QED BY <1>1, <1>2, <1>3, InductiveInvariant, PTL DEF Spec

-----------------------------------------------------------------------------
(* Rounding *)

Half(n) == Ulp(n) \div 2

LEMMA RoundedNear ==
  ASSUME NEW n \in Int
  PROVE  /\ Rounded(n) \in Int
         /\ Rounded(n) - n <= Half(n) /\ n - Rounded(n) <= Half(n)
         /\ Ulp(Rounded(n)) <= Ulp(n)
         /\ n <= Exact => Rounded(n) = n
         /\ n > Exact => Rounded(n) >= Exact
         /\ n > 2 * Exact => Rounded(n) >= 2 * Exact
         /\ n <= 2 * Exact => Rounded(n) <= 2 * Exact
<1>0. Exact \in Nat \ {0}
  BY OrderFlowAssumption DEF OrderFlowAssumption
<1>1. CASE n <= Exact
  BY <1>0, <1>1 DEF Rounded, Ulp, Half
<1>2. CASE n > Exact /\ n <= 2 * Exact
  BY <1>0, <1>2 DEF Rounded, Ulp, Half
<1>3. CASE n > 2 * Exact
  BY <1>0, <1>3 DEF Rounded, Ulp, Half
<1> QED BY <1>0, <1>1, <1>2, <1>3

LEMMA UlpGrows ==
  ASSUME NEW m \in Int, NEW n \in Int, m <= n
  PROVE  /\ Ulp(m) <= Ulp(n) /\ Half(m) <= Half(n)
         /\ Half(m) \in Nat /\ Half(m) <= 2
         /\ m <= Exact => Half(m) = 0
         /\ m <= 2 * Exact => Half(m) <= 1
  BY OrderFlowAssumption DEF OrderFlowAssumption, Ulp, Half

LEMMA RoundedGrows ==
  ASSUME NEW m \in Int, NEW n \in Int, m <= n
  PROVE  Rounded(m) <= Rounded(n)
<1>0. Exact \in Nat \ {0}
  BY OrderFlowAssumption DEF OrderFlowAssumption
<1>1. CASE n <= Exact
  <2>1. m <= Exact
    BY <1>0, <1>1
  <2>2. Rounded(m) = m /\ Rounded(n) = n
    BY <1>1, <2>1, RoundedNear
  <2> QED BY <2>2
<1>2. CASE m <= Exact /\ n > Exact
  BY <1>0, <1>2, RoundedNear
<1>3. CASE m > Exact /\ n <= 2 * Exact
  BY <1>0, <1>3 DEF Rounded, Ulp
<1>4. CASE m > Exact /\ m <= 2 * Exact /\ n > 2 * Exact
  BY <1>0, <1>4, RoundedNear
<1>5. CASE m > 2 * Exact
  BY <1>0, <1>5 DEF Rounded, Ulp
<1> QED BY <1>0, <1>1, <1>2, <1>3, <1>4, <1>5

(* The difference of two rounded sums, rounded: three errors at most.       *)
LEMMA DifferenceNear ==
  ASSUME NEW m \in Nat, NEW n \in Nat, n <= m
  PROVE  Near(Rounded(Rounded(m) - Rounded(n)), m - n, 3, m)
<1> DEFINE d == Rounded(m) - Rounded(n)
<1>1. /\ Rounded(m) \in Int /\ Rounded(m) - m <= Half(m) /\ m - Rounded(m) <= Half(m)
      /\ Ulp(Rounded(m)) <= Ulp(m)
  BY RoundedNear
<1>2. /\ Rounded(n) \in Int /\ Rounded(n) - n <= Half(n) /\ n - Rounded(n) <= Half(n)
  BY RoundedNear
<1>3. Half(n) \in Nat /\ Half(n) <= Half(m) /\ Half(m) \in Nat
  BY UlpGrows
<1>4. Rounded(n) >= 0
  <2>1. Rounded(0) = 0
    BY RoundedNear, OrderFlowAssumption DEF OrderFlowAssumption
  <2> QED BY <2>1, RoundedGrows
<1>5. d \in Int /\ d <= Rounded(m)
  BY <1>1, <1>2, <1>4
<1> HIDE DEF d
<1>6. /\ Rounded(d) \in Int /\ Rounded(d) - d <= Half(d) /\ d - Rounded(d) <= Half(d)
  BY <1>5, RoundedNear
<1>7. Half(d) \in Nat /\ Half(d) <= Half(m)
  <2>1. Half(d) \in Nat /\ Half(d) <= Half(Rounded(m))
    BY <1>1, <1>5, UlpGrows
  <2>2. Half(Rounded(m)) <= Half(m)
    BY <1>1, OrderFlowAssumption DEF Half, Ulp, OrderFlowAssumption
  <2>3. Half(Rounded(m)) \in Nat
    BY <1>1, UlpGrows
  <2> QED BY <1>3, <2>1, <2>2, <2>3
<1>8. d = Rounded(m) - Rounded(n)
  BY DEF d
<1>9. Rounded(d) - (m - n) <= 3 * Half(m) /\ (m - n) - Rounded(d) <= 3 * Half(m)
  BY <1>1, <1>2, <1>3, <1>6, <1>7, <1>8
<1>10. Rounded(d) - (m - n) \in -(3 * Half(m)) .. 3 * Half(m)
  BY <1>3, <1>6, <1>9
<1> QED BY <1>8, <1>10 DEF Near, Half

-----------------------------------------------------------------------------
(* What the ledger's entries come to *)

LocksWorth == [o \in OrderIds |-> IF Exists(o) THEN orders[o].amount * entries[o]["order_lock"] ELSE 0]
UnlocksWorth == [o \in OrderIds |-> IF Exists(o) THEN orders[o].amount * Unlocks(o) ELSE 0]
OutWorth == [o \in OrderIds |->
               IF Exists(o) THEN orders[o].amount * (Unlocks(o) + entries[o]["order_release"]) ELSE 0]
CreditsWorth == [o \in OrderIds |->
                   Sum([tx \in Txs \cup {NoTx} |-> credits[o][tx] * DepositValue(tx)], Txs \cup {NoTx})]

(* Which entries make up a direction of a bucket *)
LEMMA ReasonSets ==
  /\ {r \in Reasons : Effect(r)["locked"] = 1} = {"order_lock"}
  /\ {r \in Reasons : Effect(r)["available"] = -1} = {"order_lock"}
  /\ {r \in Reasons : Effect(r)["available"] = 1} = {"order_cancel", "order_dispute"}
  /\ {r \in Reasons : Effect(r)["locked"] = -1} = {"order_cancel", "order_dispute", "order_release"}
<1>1. /\ Effect("order_lock")["locked"] = 1 /\ Effect("order_lock")["available"] = -1
      /\ Effect("order_release")["locked"] = -1 /\ Effect("order_release")["available"] = 0
      /\ Effect("order_cancel")["locked"] = -1 /\ Effect("order_cancel")["available"] = 1
      /\ Effect("order_dispute")["locked"] = -1 /\ Effect("order_dispute")["available"] = 1
  BY DEF Effect
<1>2. \A r \in Reasons : r \in {"order_lock", "order_release", "order_cancel", "order_dispute"}
  BY DEF Reasons
<1>3. {"order_lock", "order_release", "order_cancel", "order_dispute"} \subseteq Reasons
  BY DEF Reasons
<1>4. 1 # -1 /\ 0 # 1 /\ 0 # -1
  OBVIOUS
<1>5. {r \in Reasons : Effect(r)["locked"] = 1} = {"order_lock"}
  BY <1>1, <1>2, <1>3, <1>4
<1>6. {r \in Reasons : Effect(r)["available"] = -1} = {"order_lock"}
  BY <1>1, <1>2, <1>3, <1>4
<1>7. {r \in Reasons : Effect(r)["available"] = 1} = {"order_cancel", "order_dispute"}
  BY <1>1, <1>2, <1>3, <1>4
<1>8. {r \in Reasons : Effect(r)["locked"] = -1} = {"order_cancel", "order_dispute", "order_release"}
  BY <1>1, <1>2, <1>3, <1>4
<1> QED BY <1>5, <1>6, <1>7, <1>8

LEMMA OrderIdsFinite == IsFiniteSet(OrderIds)
<1>1. MaxOrders \in Int
  BY OrderFlowAssumption DEF OrderFlowAssumption
<1> QED BY <1>1, FS_Interval DEF OrderIds

LEMMA EntryTypes ==
  ASSUME TypeOK, NEW o \in OrderIds
  PROVE  /\ \A r \in Reasons : entries[o][r] \in Nat
         /\ Unlocks(o) \in Nat
         /\ Exists(o) => orders[o].amount \in Nat \ {0} /\ orders[o] \in OrderDoc
<1>1. \A r \in Reasons : entries[o][r] \in Nat
  BY OrderFlowAssumption DEF TypeOK, OrderFlowAssumption
<1>2. Unlocks(o) \in Nat
  BY <1>1 DEF Unlocks, Reasons
<1>3. Exists(o) => orders[o].amount \in Nat \ {0} /\ orders[o] \in OrderDoc
  <2>1. Exists(o) => orders[o] \in OrderDoc
    BY DEF TypeOK, Exists
  <2> QED BY <2>1, OrderFlowAssumption DEF OrderDoc, OrderFlowAssumption
<1> QED BY <1>1, <1>2, <1>3

(* The four sums behind the two balances *)
LEMMA PostedIs ==
  ASSUME TypeOK
  PROVE  /\ Posted("locked", 1) = SumOver(LocksWorth, OrderIds)
         /\ Posted("available", -1) = SumOver(LocksWorth, OrderIds)
         /\ Posted("locked", -1) = SumOver(OutWorth, OrderIds)
         /\ Posted("available", 1) = SumOver(UnlocksWorth, OrderIds)
                                     + (funded + SumOver(CreditsWorth, OrderIds))
<1> DEFINE Few(bucket, sign) == {r \in Reasons : Effect(r)[bucket] = sign}
           F(bucket, sign) == [o \in OrderIds |->
             IF Exists(o) THEN orders[o].amount * Sum(entries[o], Few(bucket, sign)) ELSE 0]
<1>1. \A b, s : Posted(b, s) = SumOver(F(b, s), OrderIds)
                               + IF b = "available" /\ s = 1
                                 THEN funded + SumOver(CreditsWorth, OrderIds) ELSE 0
  BY DEF Posted, Sum, SumOver, CreditsWorth
<1>2. \A o \in OrderIds : /\ Sum(entries[o], Few("locked", 1)) = entries[o]["order_lock"]
                          /\ Sum(entries[o], Few("available", -1)) = entries[o]["order_lock"]
                          /\ Sum(entries[o], Few("locked", -1))
                               = Unlocks(o) + entries[o]["order_release"]
                          /\ Sum(entries[o], Few("available", 1)) = Unlocks(o)
  <2> SUFFICES ASSUME NEW o \in OrderIds
               PROVE  /\ Sum(entries[o], Few("locked", 1)) = entries[o]["order_lock"]
                      /\ Sum(entries[o], Few("available", -1)) = entries[o]["order_lock"]
                      /\ Sum(entries[o], Few("locked", -1))
                               = Unlocks(o) + entries[o]["order_release"]
                      /\ Sum(entries[o], Few("available", 1)) = Unlocks(o)
    OBVIOUS
  <2>1. \A r \in Reasons : entries[o][r] \in Int
    BY EntryTypes
  <2>2. /\ entries[o]["order_lock"] \in Int /\ entries[o]["order_release"] \in Int
        /\ entries[o]["order_cancel"] \in Int /\ entries[o]["order_dispute"] \in Int
    BY <2>1 DEF Reasons
  <2>3. SumOver(entries[o], {"order_lock"}) = entries[o]["order_lock"]
    BY <2>2, FS_Singleton, SumSingle
  <2>4. /\ SumOver(entries[o], {"order_cancel", "order_dispute"})
             = entries[o]["order_cancel"] + entries[o]["order_dispute"]
        /\ SumOver(entries[o], {"order_cancel", "order_dispute", "order_release"})
             = entries[o]["order_cancel"] + entries[o]["order_dispute"] + entries[o]["order_release"]
    <3>1. PICK f, S, T : /\ f = entries[o] /\ S = {"order_cancel", "order_dispute"}
                         /\ T = {"order_cancel", "order_dispute", "order_release"}
      OBVIOUS
    <3>2. PICK x, y, z : x = "order_cancel" /\ y = "order_dispute" /\ z = "order_release"
      OBVIOUS
    <3>3. /\ x # y /\ x # z /\ y # z
          /\ f[x] \in Int /\ f[y] \in Int /\ f[z] \in Int
          /\ \A e : e \in S <=> e \in {x, y}
          /\ \A e : e \in T <=> e \in {x, y, z}
      BY <2>2, <3>1, <3>2
    <3>4. IsFiniteSet(S) /\ SumOver(f, S) = f[x] + f[y]
      BY <3>3, SumTwo
    <3>5. SumOver(f, T) = f[x] + f[y] + f[z]
      <4>1. T = S \cup {z} /\ T \ {z} = S
        BY <3>1, <3>2
      <4>2. IsFiniteSet(T)
        BY <3>4, <4>1, FS_AddElement
      <4>3. z \in T /\ \A e \in T : f[e] \in Int
        BY <3>3
      <4>4. SumOver(f, T) = f[z] + SumOver(f, T \ {z})
        BY <4>2, <4>3, SumTake
      <4>5. SumOver(f, T) = f[z] + (f[x] + f[y])
        BY <3>4, <4>1, <4>4
      <4> QED BY <3>3, <4>5
    <3> QED BY <3>1, <3>2, <3>4, <3>5
  <2>5. \A S : Sum(entries[o], S) = SumOver(entries[o], S)
    BY DEF Sum, SumOver
  <2> QED BY <2>3, <2>4, <2>5, ReasonSets DEF Unlocks
<1>3. /\ F("locked", 1) = LocksWorth /\ F("available", -1) = LocksWorth
      /\ F("locked", -1) = OutWorth /\ F("available", 1) = UnlocksWorth
  BY <1>2 DEF LocksWorth, OutWorth, UnlocksWorth
<1>4. SumOver(LocksWorth, OrderIds) \in Int /\ SumOver(OutWorth, OrderIds) \in Int
  <2>1. \A o \in OrderIds : LocksWorth[o] \in Int /\ OutWorth[o] \in Int
    BY EntryTypes DEF LocksWorth, OutWorth, Reasons
  <2> QED BY <2>1, OrderIdsFinite, SumType
<1> HIDE DEF F
<1> QED BY <1>1, <1>3, <1>4

-----------------------------------------------------------------------------
(* The locked balance *)

(* At rest, what was locked and not taken out again is what the live sell    *)
(* orders are for.                                                          *)
LEMMA LockedAtRest ==
  ASSUME TypeOK, \A o \in OrderIds : Exists(o) => AtRest(o),
         NEW live, live = {o \in OrderIds : Exists(o) /\ Sells(orders[o]) /\ ~Settled(o)}
  PROVE  /\ SumOver(OutWorth, OrderIds) \in Nat /\ AmountOf(live) \in Nat
         /\ SumOver(LocksWorth, OrderIds) = SumOver(OutWorth, OrderIds) + AmountOf(live)
<1> DEFINE L == [o \in OrderIds |-> IF o \in live THEN orders[o].amount ELSE 0]
           A == [o \in live |-> orders[o].amount]
<1>1. \A o \in OrderIds : /\ OutWorth[o] \in Int /\ OutWorth[o] \in Nat /\ L[o] \in Int /\ L[o] \in Nat
                          /\ LocksWorth[o] = OutWorth[o] + L[o]
  <2> SUFFICES ASSUME NEW o \in OrderIds
               PROVE  /\ OutWorth[o] \in Nat /\ L[o] \in Nat
                      /\ LocksWorth[o] = OutWorth[o] + L[o]
    OBVIOUS
  <2>1. CASE ~Exists(o)
    BY <2>1 DEF OutWorth, LocksWorth
  <2>2. CASE Exists(o)
    <3>1. PICK n \in Nat : n = orders[o].amount
      BY <2>2, EntryTypes
    <3>2. /\ Account(o, 1, 0, orders[o].status, orders[o].status = "disputed")
          /\ Status(o) = orders[o].status
      BY <2>2 DEF AtRest, Status
    <3>3. /\ entries[o]["order_lock"] = IF Sells(orders[o]) THEN 1 ELSE 0
          /\ Unlocks(o) + entries[o]["order_release"] = IF Sells(orders[o]) /\ Settled(o) THEN 1 ELSE 0
      BY <3>2 DEF Account, Settled
    <3>4. LocksWorth[o] = IF Sells(orders[o]) THEN n ELSE 0
      BY <2>2, <3>1, <3>3 DEF LocksWorth
    <3>5. OutWorth[o] = IF Sells(orders[o]) /\ Settled(o) THEN n ELSE 0
      BY <2>2, <3>1, <3>3 DEF OutWorth
    <3>6. L[o] = IF Sells(orders[o]) /\ ~Settled(o) THEN n ELSE 0
      BY <2>2, <3>1
    <3> QED BY <3>1, <3>4, <3>5, <3>6
  <2> QED BY <2>1, <2>2
<1>2. live \subseteq OrderIds /\ \A o \in OrderIds \ live : L[o] = 0
  OBVIOUS
<1>3. \A o \in live : L[o] = A[o]
  OBVIOUS
<1>4. AmountOf(live) = SumOver(A, live)
  BY DEF AmountOf, Sum, SumOver
<1> HIDE DEF L, A
<1>5. SumOver(LocksWorth, OrderIds) = SumOver(OutWorth, OrderIds) + SumOver(L, OrderIds)
  BY <1>1, OrderIdsFinite, SumAdd
<1>6. SumOver(L, OrderIds) = SumOver(L, live)
  BY <1>1, <1>2, OrderIdsFinite, SumOnly
<1>7. SumOver(L, live) = SumOver(A, live)
  BY <1>2, <1>3, OrderIdsFinite, FS_Subset, SumCongruent
<1>8. SumOver(OutWorth, OrderIds) \in Nat /\ SumOver(L, OrderIds) \in Nat
  BY <1>1, OrderIdsFinite, SumType
<1> QED BY <1>4, <1>5, <1>6, <1>7, <1>8

(* The locked balance is the total of the live sell orders, up to the three  *)
(* roundings of one sum, however many orders have come and gone: every lock  *)
(* is posted, and taken out once, by the release or by the unlock.          *)
THEOREM LockedBalanceIsLiveOrders ==
  ASSUME Undisturbed
  PROVE  Spec => []LockedIsLiveOrders
<1>1. ASSUME IInv, SerialInv PROVE LockedIsLiveOrders
  <2> SUFFICES ASSUME Quiet
               PROVE  Near(Balance("locked"),
                           AmountOf({o \in OrderIds : Exists(o) /\ Sells(orders[o]) /\ ~Settled(o)}),
                           3, Posted("locked", 1))
    BY DEF LockedIsLiveOrders
  <2>1. PICK live : live = {o \in OrderIds : Exists(o) /\ Sells(orders[o]) /\ ~Settled(o)}
    OBVIOUS
  <2>2. TypeOK
    BY <1>1 DEF IInv
  <2>3. \A o \in OrderIds : Exists(o) => AtRest(o)
    <3>1. \A p \in Procs : req[p].o = 0
      BY <1>1 DEF Quiet, SerialInv, OnePerOrder, NoOrderPCs
    <3> QED BY <1>1, <3>1 DEF SerialInv, RestingOrders, OrderIds
  <2>4. /\ SumOver(OutWorth, OrderIds) \in Nat /\ AmountOf(live) \in Nat
        /\ SumOver(LocksWorth, OrderIds) = SumOver(OutWorth, OrderIds) + AmountOf(live)
    BY <2>1, <2>2, <2>3, LockedAtRest
  <2>5. PICK m \in Nat, n \in Nat : m = SumOver(LocksWorth, OrderIds) /\ n = SumOver(OutWorth, OrderIds)
    BY <2>4
  <2>6. n <= m /\ m - n = AmountOf(live)
    BY <2>4, <2>5
  <2>7. Posted("locked", 1) = m /\ Posted("locked", -1) = n
    BY <2>2, <2>5, PostedIs
  <2>8. Near(Rounded(Rounded(m) - Rounded(n)), m - n, 3, m)
    BY <2>6, DifferenceNear
  <2> QED BY <2>1, <2>6, <2>7, <2>8 DEF Balance
<1> QED BY <1>1, SerialInvariant, PTL

-----------------------------------------------------------------------------
(* The available balance *)

Raised == Posted("available", 1)
Taken  == Posted("available", -1)

EntriesNameOrders == \A o \in OrderIds, r \in Reasons : ~Exists(o) => entries[o][r] = 0

DepositsOf(o) == [tx \in Txs \cup {NoTx} |-> credits[o][tx] * DepositValue(tx)]

(* The amounts behind the ledger entries, each a natural number *)
WorthsAreNat ==
  /\ \A o \in OrderIds : /\ LocksWorth[o] \in Nat /\ UnlocksWorth[o] \in Nat
                         /\ CreditsWorth[o] \in Nat
  /\ SumOver(LocksWorth, OrderIds) \in Nat /\ SumOver(UnlocksWorth, OrderIds) \in Nat
  /\ SumOver(CreditsWorth, OrderIds) \in Nat
  /\ Taken = SumOver(LocksWorth, OrderIds)
  /\ Raised = SumOver(UnlocksWorth, OrderIds) + (funded + SumOver(CreditsWorth, OrderIds))
  /\ Taken \in Nat /\ Raised \in Nat
  /\ \A o \in OrderIds : CreditsWorth[o] = SumOver(DepositsOf(o), Txs \cup {NoTx})

LEMMA DepositTypes ==
  ASSUME TypeOK, IsFiniteSet(Txs)
  PROVE  /\ IsFiniteSet(Txs \cup {NoTx})
         /\ \A o \in OrderIds, tx \in Txs \cup {NoTx} :
              credits[o][tx] \in Nat /\ DepositValue(tx) \in Nat /\ DepositsOf(o)[tx] \in Nat
<1>1. IsFiniteSet(Txs \cup {NoTx})
  BY FS_AddElement
<1>2. ASSUME NEW o \in OrderIds, NEW tx \in Txs \cup {NoTx}
      PROVE  credits[o][tx] \in Nat /\ DepositValue(tx) \in Nat /\ DepositsOf(o)[tx] \in Nat
  <2>1. credits[o][tx] \in Nat
    BY OrderFlowAssumption DEF TypeOK, OrderFlowAssumption
  <2>2. DepositValue(tx) \in Nat
    BY OrderFlowAssumption DEF DepositValue, OrderFlowAssumption
  <2>3. DepositsOf(o)[tx] = credits[o][tx] * DepositValue(tx)
    BY DEF DepositsOf
  <2>4. credits[o][tx] * DepositValue(tx) \in Nat
    BY <2>1, <2>2
  <2> QED BY <2>1, <2>2, <2>3, <2>4
<1> QED BY <1>1, <1>2

LEMMA CreditsWorthIs ==
  \A o \in OrderIds : CreditsWorth[o] = SumOver(DepositsOf(o), Txs \cup {NoTx})
  BY DEF CreditsWorth, DepositsOf, Sum, SumOver

LEMMA WorthTypes ==
  ASSUME TypeOK, IsFiniteSet(Txs)
  PROVE  WorthsAreNat
<1>1. \A o \in OrderIds : LocksWorth[o] \in Int /\ LocksWorth[o] \in Nat
                          /\ UnlocksWorth[o] \in Int /\ UnlocksWorth[o] \in Nat
  <2> SUFFICES ASSUME NEW o \in OrderIds PROVE LocksWorth[o] \in Nat /\ UnlocksWorth[o] \in Nat
    OBVIOUS
  <2>1. entries[o]["order_lock"] \in Nat /\ Unlocks(o) \in Nat
        /\ (Exists(o) => orders[o].amount \in Nat)
    BY EntryTypes DEF Reasons
  <2> QED BY <2>1 DEF LocksWorth, UnlocksWorth
<1>2. \A o \in OrderIds : CreditsWorth[o] \in Int /\ CreditsWorth[o] \in Nat
  <2> SUFFICES ASSUME NEW o \in OrderIds PROVE CreditsWorth[o] \in Nat
    OBVIOUS
  <2>1. \A tx \in Txs \cup {NoTx} : DepositsOf(o)[tx] \in Int /\ DepositsOf(o)[tx] \in Nat
    BY DepositTypes
  <2>2. SumOver(DepositsOf(o), Txs \cup {NoTx}) \in Nat
    BY <2>1, DepositTypes, SumType
  <2> QED BY <2>2, CreditsWorthIs
<1>3. /\ SumOver(LocksWorth, OrderIds) \in Nat /\ SumOver(UnlocksWorth, OrderIds) \in Nat
      /\ SumOver(CreditsWorth, OrderIds) \in Nat
  BY <1>1, <1>2, OrderIdsFinite, SumType
<1>4. funded \in Nat
  BY OrderFlowAssumption DEF TypeOK, OrderFlowAssumption
<1> QED BY <1>1, <1>2, <1>3, <1>4, PostedIs, CreditsWorthIs DEF WorthsAreNat, Raised, Taken

LEMMA WorthTypesNext == IsFiniteSet(Txs) /\ TypeOK' => WorthsAreNat'
<1>1. CASE IsFiniteSet(Txs)
  <2>1. TypeOK => WorthsAreNat
    BY <1>1, WorthTypes
  <2>2. TypeOK' => WorthsAreNat'
    BY <2>1, PTL
  <2> QED BY <2>2
<1> QED BY <1>1

(* What is written about an order later changes neither its amount nor its ad. *)
TermsKept ==
  \A o \in OrderIds : Exists(o) => /\ orders'[o] # NoOrder
                                   /\ orders'[o].amount = orders[o].amount
                                   /\ orders'[o].ad = orders[o].ad

(* Postings other than a lock leave what was taken and only raise the rest. *)
LEMMA OtherPostings ==
  ASSUME WorthsAreNat, WorthsAreNat', TypeOK, TypeOK', IsFiniteSet(Txs), TermsKept, EntriesNameOrders,
         \A o \in OrderIds : /\ entries'[o]["order_lock"] = entries[o]["order_lock"]
                             /\ Unlocks(o) <= Unlocks(o)'
                             /\ \A tx \in Txs \cup {NoTx} : credits[o][tx] <= credits'[o][tx],
         funded <= funded'
  PROVE  Taken' = Taken /\ Raised <= Raised'
<1>1. \A o \in OrderIds : LocksWorth'[o] = LocksWorth[o] /\ UnlocksWorth[o] <= UnlocksWorth'[o]
  <2> SUFFICES ASSUME NEW o \in OrderIds
               PROVE  LocksWorth'[o] = LocksWorth[o] /\ UnlocksWorth[o] <= UnlocksWorth'[o]
    OBVIOUS
  <2>1. entries[o]["order_lock"] \in Nat /\ Unlocks(o) \in Nat
        /\ (Exists(o) => orders[o].amount \in Nat)
    BY EntryTypes DEF Reasons
  <2>2. WorthsAreNat' => UnlocksWorth'[o] \in Nat /\ LocksWorth'[o] \in Nat
    BY DEF WorthsAreNat
  <2>3. Unlocks(o)' \in Nat
    BY OrderFlowAssumption DEF TypeOK, OrderFlowAssumption, Unlocks, Reasons
  <2>4. CASE ~Exists(o)
    <3>1. entries[o]["order_lock"] = 0 /\ Unlocks(o) = 0
      BY <2>4 DEF EntriesNameOrders, Unlocks, Reasons
    <3>2. LocksWorth[o] = 0 /\ UnlocksWorth[o] = 0
      BY <2>4 DEF LocksWorth, UnlocksWorth
    <3>3. LocksWorth'[o] = 0
      <4>1. entries'[o]["order_lock"] = 0
        BY <3>1
      <4>2. orders'[o] # NoOrder => orders'[o].amount \in Int
        <5>1. orders'[o] \in OrderDoc \cup {NoOrder}
          BY DEF TypeOK
        <5>2. orders'[o] # NoOrder => orders'[o].amount \in Amounts
          BY <5>1 DEF OrderDoc
        <5>3. Amounts \subseteq Int
          BY OrderFlowAssumption DEF OrderFlowAssumption
        <5> QED BY <5>2, <5>3
      <4> QED BY <4>1, <4>2 DEF LocksWorth, Exists
    <3> QED BY <2>2, <3>2, <3>3
  <2>5. CASE Exists(o)
    <3>1. PICK n \in Nat : n = orders[o].amount
      BY <2>1, <2>5
    <3>2. orders'[o] # NoOrder /\ orders'[o].amount = n
      BY <2>5, <3>1 DEF TermsKept
    <3>3. LocksWorth[o] = n * entries[o]["order_lock"] /\ UnlocksWorth[o] = n * Unlocks(o)
      BY <2>5, <3>1 DEF LocksWorth, UnlocksWorth
    <3>4. LocksWorth'[o] = n * entries'[o]["order_lock"] /\ UnlocksWorth'[o] = n * Unlocks(o)'
      BY <3>2 DEF LocksWorth, UnlocksWorth, Exists
    <3>5. PICK x \in Nat, y \in Nat : x = Unlocks(o) /\ y = Unlocks(o)'
      BY <2>1, <2>3
    <3>6. n * x <= n * y
      BY <3>5
    <3> QED BY <3>3, <3>4, <3>5, <3>6
  <2> QED BY <2>4, <2>5
<1>2. \A o \in OrderIds : CreditsWorth[o] <= CreditsWorth'[o]
  <2> SUFFICES ASSUME NEW o \in OrderIds PROVE CreditsWorth[o] <= CreditsWorth'[o]
    OBVIOUS
  <2>1. PICK F, G : F = DepositsOf(o) /\ G = DepositsOf(o)'
    OBVIOUS
  <2>2. ASSUME NEW tx \in Txs \cup {NoTx}
        PROVE  F[tx] \in Int /\ G[tx] \in Int /\ F[tx] <= G[tx]
    <3>1. PICK x \in Nat, y \in Nat, v \in Nat :
            x = credits[o][tx] /\ y = credits'[o][tx] /\ v = DepositValue(tx)
      <4>1. credits'[o][tx] \in Nat
        BY OrderFlowAssumption DEF TypeOK, OrderFlowAssumption
      <4> QED BY <4>1, DepositTypes
    <3>2. F[tx] = x * v /\ G[tx] = y * v
      BY <2>1, <3>1 DEF DepositsOf
    <3>3. x <= y
      BY <3>1
    <3>4. x * v <= y * v /\ x * v \in Nat /\ y * v \in Nat
      BY <3>3
    <3> QED BY <3>2, <3>4
  <2>3. SumOver(F, Txs \cup {NoTx}) <= SumOver(G, Txs \cup {NoTx})
    BY <2>2, DepositTypes, SumGrows
  <2>4. CreditsWorth'[o] = SumOver(G, Txs \cup {NoTx})
    BY <2>1 DEF WorthsAreNat
  <2> QED BY <2>1, <2>3, <2>4, CreditsWorthIs
<1>3. PICK L1, L2, U1, U2, C1, C2 :
        /\ L1 = LocksWorth /\ L2 = LocksWorth' /\ U1 = UnlocksWorth /\ U2 = UnlocksWorth'
        /\ C1 = CreditsWorth /\ C2 = CreditsWorth'
  OBVIOUS
<1>4. \A o \in OrderIds : /\ L1[o] = L2[o] /\ U1[o] \in Int /\ U2[o] \in Int /\ U1[o] <= U2[o]
                          /\ C1[o] \in Int /\ C2[o] \in Int /\ C1[o] <= C2[o]
  BY <1>1, <1>2, <1>3 DEF WorthsAreNat
<1>5. /\ SumOver(L1, OrderIds) = SumOver(L2, OrderIds)
      /\ SumOver(U1, OrderIds) <= SumOver(U2, OrderIds)
      /\ SumOver(C1, OrderIds) <= SumOver(C2, OrderIds)
  BY <1>4, OrderIdsFinite, SumCongruent, SumGrows
<1>6. /\ Taken = SumOver(L1, OrderIds) /\ Taken' = SumOver(L2, OrderIds)
      /\ Raised = SumOver(U1, OrderIds) + (funded + SumOver(C1, OrderIds))
      /\ Raised' = SumOver(U2, OrderIds) + (funded' + SumOver(C2, OrderIds))
      /\ SumOver(U1, OrderIds) \in Nat /\ SumOver(U2, OrderIds) \in Nat
      /\ SumOver(C1, OrderIds) \in Nat /\ SumOver(C2, OrderIds) \in Nat
  BY <1>3 DEF WorthsAreNat
<1>7. funded \in Nat /\ funded' \in Nat
  BY OrderFlowAssumption DEF TypeOK, OrderFlowAssumption
<1> QED BY <1>5, <1>6, <1>7

(* A lock takes the order's amount and raises nothing. *)
LEMMA LockPosting ==
  ASSUME WorthsAreNat, WorthsAreNat', TypeOK, IsFiniteSet(Txs), NEW n \in OrderIds, Exists(n),
         entries' = [entries EXCEPT ![n]["order_lock"] = @ + 1],
         UNCHANGED <<orders, credits, funded>>
  PROVE  Raised' = Raised /\ Taken' = Taken + orders[n].amount
<1>0. /\ entries \in [OrderIds -> [Reasons -> 0 .. MaxEntries]]
      /\ {"order_lock", "order_cancel", "order_dispute"} \subseteq Reasons
      /\ "order_cancel" # "order_lock" /\ "order_dispute" # "order_lock"
  BY DEF TypeOK, Reasons
<1>1. /\ entries'[n]["order_lock"] = entries[n]["order_lock"] + 1
      /\ entries'[n]["order_cancel"] = entries[n]["order_cancel"]
      /\ entries'[n]["order_dispute"] = entries[n]["order_dispute"]
  BY <1>0
<1>2. \A o \in OrderIds \ {n} : entries'[o] = entries[o]
  BY <1>0
<1>3. \A o \in OrderIds : Unlocks(o)' = Unlocks(o)
  BY <1>1, <1>2 DEF Unlocks
<1>4. UnlocksWorth' = UnlocksWorth /\ CreditsWorth' = CreditsWorth
  BY <1>3 DEF UnlocksWorth, CreditsWorth, Exists
<1>5. \A o \in OrderIds \ {n} : LocksWorth'[o] = LocksWorth[o]
  BY <1>2 DEF LocksWorth, Exists
<1>6. LocksWorth'[n] - LocksWorth[n] = orders[n].amount
  <2>1. PICK k \in Nat, x \in Nat : k = orders[n].amount /\ x = entries[n]["order_lock"]
    BY EntryTypes DEF Reasons
  <2>2. LocksWorth[n] = k * x /\ LocksWorth'[n] = k * (x + 1)
    BY <1>1, <2>1 DEF LocksWorth, Exists
  <2>3. k * (x + 1) - k * x = k
    OBVIOUS
  <2> QED BY <2>1, <2>2, <2>3
<1>7. PICK F, G : F = LocksWorth /\ G = LocksWorth'
  OBVIOUS
<1>8. \A o \in OrderIds : F[o] \in Int /\ G[o] \in Int
  BY <1>7 DEF WorthsAreNat
<1>9. SumOver(G, OrderIds) = SumOver(F, OrderIds) + (G[n] - F[n])
  BY <1>5, <1>7, <1>8, OrderIdsFinite, SumChange
<1>10. Taken = SumOver(F, OrderIds) /\ Taken' = SumOver(G, OrderIds)
  BY <1>7 DEF WorthsAreNat
<1>11. Raised = SumOver(UnlocksWorth, OrderIds) + (funded + SumOver(CreditsWorth, OrderIds))
  BY DEF WorthsAreNat
<1>12. Raised' = SumOver(UnlocksWorth', OrderIds) + (funded' + SumOver(CreditsWorth', OrderIds))
  BY DEF WorthsAreNat
<1>13. Raised' = Raised
  BY <1>4, <1>11, <1>12
<1>14. Taken' = Taken + orders[n].amount
  BY <1>6, <1>7, <1>9, <1>10
<1> QED BY <1>13, <1>14

(* What the available balance may fall short by: three roundings. *)
Covered(u, t) == Rounded(u) - Rounded(t) >= -(3 * Half(u))

(* What passes the balance check may be taken. *)
LEMMA CheckedMayBeTaken ==
  ASSUME NEW u \in Nat, NEW t \in Nat, NEW k \in Nat \ {0}, k <= Rounded(Rounded(u) - Rounded(t))
  PROVE  Covered(u, t + k)
<1>0. Exact \in Nat \ {0}
  BY OrderFlowAssumption DEF OrderFlowAssumption
<1>1. /\ Rounded(u) \in Int /\ Rounded(u) - u <= Half(u)
      /\ u <= Exact => Rounded(u) = u
      /\ u <= 2 * Exact => Rounded(u) <= 2 * Exact
  BY RoundedNear
<1>2. /\ Rounded(t) \in Int /\ t - Rounded(t) <= Half(t)
      /\ t <= Exact => Rounded(t) = t
      /\ t > Exact => Rounded(t) >= Exact
      /\ t > 2 * Exact => Rounded(t) >= 2 * Exact
  BY RoundedNear
<1>3. PICK d \in Int : d = Rounded(u) - Rounded(t)
  BY <1>1, <1>2
<1>4. Rounded(d) \in Int /\ Rounded(d) - d <= Half(d) /\ (d <= Exact => Rounded(d) = d)
  BY RoundedNear
<1>5. k <= Rounded(d) /\ d > 0
  BY <1>0, <1>3, <1>4
<1>6. PICK s \in Nat : s = t + k
  OBVIOUS
<1>7. Rounded(s) \in Int /\ Rounded(s) - s <= Half(s) /\ (s <= Exact => Rounded(s) = s)
  BY RoundedNear
<1>8. /\ Half(t) \in Nat /\ Half(t) <= 2 /\ (t <= Exact => Half(t) = 0)
      /\ (t <= 2 * Exact => Half(t) <= 1)
  BY UlpGrows
<1>9. /\ Half(d) \in Nat /\ Half(d) <= 2 /\ (d <= Exact => Half(d) = 0)
      /\ (d <= 2 * Exact => Half(d) <= 1)
  BY UlpGrows
<1>10. Half(s) \in Nat /\ Half(s) <= 2
  BY UlpGrows
<1>11. /\ Half(u) \in Nat
       /\ u > Exact => Half(u) >= 1
       /\ u > 2 * Exact => Half(u) = 2
  BY <1>0 DEF Half, Ulp
<1>12. Rounded(s) <= Rounded(u) + (Half(t) + Half(d) + Half(s))
  BY <1>1, <1>2, <1>3, <1>4, <1>5, <1>6, <1>7, <1>8, <1>9, <1>10
<1>13. Rounded(t) >= 0
  <2>1. Rounded(0) = 0
    BY <1>0, RoundedNear
  <2> QED BY <2>1, RoundedGrows
<1>14. CASE u <= Exact
  <2>1. t <= Exact
    BY <1>0, <1>1, <1>2, <1>3, <1>5, <1>14
  <2>2. d = u - t
    BY <1>1, <1>2, <1>3, <1>14, <2>1
  <2>3. k <= d /\ s <= u
    BY <1>0, <1>4, <1>5, <1>6, <1>14, <2>2
  <2>4. Rounded(s) = s /\ Rounded(u) = u
    BY <1>0, <1>1, <1>7, <1>14, <2>3
  <2>5. Rounded(u) - Rounded(s) >= -(3 * Half(u))
    BY <1>11, <2>3, <2>4
  <2> QED BY <1>6, <2>5 DEF Covered
<1>15. CASE u > Exact /\ u <= 2 * Exact
  <2>1. Rounded(u) <= 2 * Exact
    BY <1>1, <1>15
  <2>2. t <= 2 * Exact
    BY <1>0, <1>1, <1>2, <1>3, <1>5, <2>1
  <2>3. CASE t <= Exact
    <3>1. d <= 2 * Exact
      BY <1>0, <1>1, <1>2, <1>3, <1>13, <2>1
    <3>2. Half(t) = 0 /\ Half(d) <= 1
      BY <1>8, <1>9, <2>3, <3>1
    <3>3. Half(t) + Half(d) + Half(s) <= 3
      BY <1>9, <1>10, <3>2
    <3> QED BY <1>1, <1>6, <1>7, <1>8, <1>9, <1>10, <1>11, <1>12, <1>15, <3>3 DEF Covered
  <2>4. CASE t > Exact
    <3>1. d <= Exact
      BY <1>0, <1>1, <1>2, <1>3, <2>1, <2>4
    <3>2. Half(d) = 0 /\ Half(t) <= 1
      BY <1>8, <1>9, <2>2, <3>1
    <3>3. Half(t) + Half(d) + Half(s) <= 3
      BY <1>8, <1>10, <3>2
    <3> QED BY <1>1, <1>6, <1>7, <1>8, <1>9, <1>10, <1>11, <1>12, <1>15, <3>3 DEF Covered
  <2> QED BY <1>0, <2>3, <2>4
<1>16. CASE u > 2 * Exact
  <2>1. Half(u) = 2 /\ Half(t) + Half(d) + Half(s) <= 6
    BY <1>8, <1>9, <1>10, <1>11, <1>16
  <2> QED BY <1>1, <1>6, <1>7, <1>8, <1>9, <1>10, <1>12, <2>1 DEF Covered
<1> QED BY <1>0, <1>14, <1>15, <1>16

(* More on the plus side is never worse. *)
LEMMA MoreIsCovered ==
  ASSUME NEW u \in Nat, NEW v \in Nat, u <= v, NEW t \in Nat
  PROVE  /\ Covered(u, t) => Covered(v, t)
         /\ Rounded(Rounded(u) - Rounded(t)) <= Rounded(Rounded(v) - Rounded(t))
         /\ Rounded(Rounded(u) - Rounded(t)) \in Int /\ Rounded(Rounded(v) - Rounded(t)) \in Int
<1>1. Rounded(u) \in Int /\ Rounded(v) \in Int /\ Rounded(t) \in Int
  BY RoundedNear
<1>2. Rounded(u) <= Rounded(v)
  BY RoundedGrows
<1>3. Half(u) <= Half(v) /\ Half(u) \in Nat /\ Half(v) \in Nat
  BY UlpGrows
<1>4. Covered(u, t) => Covered(v, t)
  BY <1>1, <1>2, <1>3 DEF Covered
<1>5. PICK x \in Int, y \in Int : x = Rounded(u) - Rounded(t) /\ y = Rounded(v) - Rounded(t)
  BY <1>1
<1>6. x <= y
  BY <1>1, <1>2, <1>5
<1>7. Rounded(x) <= Rounded(y) /\ Rounded(x) \in Int /\ Rounded(y) \in Int
  BY <1>6, RoundedGrows, RoundedNear
<1> QED BY <1>4, <1>5, <1>7

(* A create request on its way to the lock has passed the check, and nothing *)
(* has been taken since.                                                    *)
MayPay(r) ==
  /\ r.pc \in {"insertOrder", "debitAd", "lockFunds"} /\ Sells(r.doc) =>
       r.doc.amount <= Balance("available")
  /\ r.pc \in {"debitAd", "lockFunds"} => r.doc.amount = orders[r.o].amount
  /\ r.pc = "lockFunds" => Sells(r.doc)

RequestsMayPay == \A p \in Procs : MayPay(req[p])

PayInv == EntriesNameOrders /\ Covered(Raised, Taken) /\ RequestsMayPay

(* Only five steps post to the ledger. *)
LEMMA WhoPosts ==
  ASSUME Next
  PROVE  \/ UNCHANGED ledger
         \/ \E p \in Procs : LockFunds(p) \/ DebitLocked(p) \/ Unlock(p) \/ CreditDeposit(p)
         \/ \E amt \in CreditAmounts : AdminCredit(amt)
<1>1. ASSUME NEW w \in Workers, NewRequest(w) PROVE UNCHANGED ledger
  BY <1>1 DEF NewRequest, CreateOrder, EditAd, MarkPaid, ConfirmPayment, RaiseDispute, Cancel,
     SubmitDeposit, Release, ResolveDispute
<1>2. ASSUME NEW p \in Procs, Continue(p)
      PROVE  UNCHANGED ledger \/ LockFunds(p) \/ DebitLocked(p) \/ Unlock(p) \/ CreditDeposit(p)
  BY <1>2 DEF Continue, CheckBalance, InsertOrder, DebitAd, VerifyDeposit, WriteMarked,
     WriteOrder, CheckWhitelist, Withdraw, MarkDisputed,
     OpenDispute, ReadDisputed, CloseDispute, ReadAd, RestoreAd, WriteAd
<1>3. ASSUME NEW p \in Procs, Failure(p) PROVE UNCHANGED ledger
  BY <1>3 DEF Failure, Fail, RestoreAdFails, WithdrawAnswerLost
<1>4. CASE Sweep
  BY <1>4 DEF Sweep, SweepList, SweepNext
<1>5. CASE Environment
  BY <1>5 DEF Environment, MarkAddressWhitelisted, DepositArrives, DeadlinePasses, PostAd
<1> QED BY <1>1, <1>2, <1>3, <1>4, <1>5 DEF Next

(* The order a request is about is in the database. *)
LEMMA AboutAnOrder ==
  ASSUME IInv, NEW p \in Procs, req[p].pc \notin NoOrderPCs
  PROVE  req[p].o \in OrderIds /\ Exists(req[p].o)
  BY DEF IInv, RequestsJustified, HoldsCopies

(* What the five postings do to the two sides of the available balance *)
LEMMA PostingSteps ==
  ASSUME IsFiniteSet(Txs), IInv, IInv', EntriesNameOrders, TermsKept, [Next]_vars
  PROVE  /\ Taken \in Nat /\ Raised \in Nat /\ Taken' \in Nat /\ Raised' \in Nat
         /\ EntriesNameOrders'
         /\ \A p \in Procs : LockFunds(p) => /\ Raised' = Raised
                                            /\ Taken' = Taken + orders[req[p].o].amount
         /\ (\A p \in Procs : ~LockFunds(p)) => Taken' = Taken /\ Raised <= Raised'
<1>0. /\ TypeOK /\ TypeOK' /\ WorthsAreNat /\ WorthsAreNat'
      /\ entries \in [OrderIds -> [Reasons -> 0 .. MaxEntries]]
  BY WorthTypes, WorthTypesNext DEF IInv, TypeOK
<1>1. Taken \in Nat /\ Raised \in Nat /\ Taken' \in Nat /\ Raised' \in Nat
  BY <1>0 DEF WorthsAreNat
<1>2. ASSUME NEW p \in Procs, NEW r \in Reasons, req[p].pc \notin NoOrderPCs, Post(req[p].o, r)
      PROVE  /\ EntriesNameOrders'
             /\ \A o \in OrderIds :
                  /\ r # "order_lock" => entries'[o]["order_lock"] = entries[o]["order_lock"]
                  /\ Unlocks(o) <= Unlocks(o)'
  <2>1. PICK n \in OrderIds : n = req[p].o /\ Exists(n)
    BY <1>2, AboutAnOrder
  <2>2. /\ \A q \in Reasons : entries'[n][q] = IF q = r THEN entries[n][q] + 1 ELSE entries[n][q]
        /\ \A o \in OrderIds \ {n} : entries'[o] = entries[o]
    BY <1>0, <1>2, <2>1 DEF Post
  <2>3. EntriesNameOrders'
    <3>1. \A o \in OrderIds : orders'[o] = NoOrder => o # n /\ ~Exists(o)
      BY <2>1 DEF TermsKept, Exists
    <3> QED BY <2>2, <3>1 DEF EntriesNameOrders, Exists
  <2>4. \A o \in OrderIds : \A q \in Reasons : entries[o][q] \in Nat /\ entries[o][q] <= entries'[o][q]
                                              /\ entries'[o][q] \in Nat
    <3>1. \A o \in OrderIds : \A q \in Reasons : entries[o][q] \in Nat
      BY <1>0, EntryTypes
    <3> QED BY <2>2, <3>1
  <2>5. {"order_cancel", "order_dispute", "order_lock"} \subseteq Reasons
    BY DEF Reasons
  <2>6. \A o \in OrderIds : Unlocks(o) <= Unlocks(o)'
    BY <2>4, <2>5 DEF Unlocks
  <2>7. ASSUME NEW o \in OrderIds, r # "order_lock"
        PROVE  entries'[o]["order_lock"] = entries[o]["order_lock"]
    BY <2>2, <2>5, <2>7
  <2> QED BY <2>3, <2>6, <2>7
<1>3. ASSUME UNCHANGED entries
      PROVE  /\ EntriesNameOrders'
             /\ \A o \in OrderIds : /\ entries'[o]["order_lock"] = entries[o]["order_lock"]
                                    /\ Unlocks(o) <= Unlocks(o)'
  <2>1. EntriesNameOrders'
    BY <1>3 DEF EntriesNameOrders, TermsKept, Exists
  <2>2. \A o \in OrderIds : Unlocks(o) \in Nat /\ Unlocks(o)' = Unlocks(o)
    BY <1>0, <1>3, EntryTypes DEF Unlocks
  <2> QED BY <1>3, <2>1, <2>2
<1>4. /\ \A o \in OrderIds, tx \in Txs \cup {NoTx} : credits[o][tx] \in Nat
      /\ funded \in Nat /\ credits \in [OrderIds -> [Txs \cup {NoTx} -> 0 .. MaxEntries]]
  <2>1. \A o \in OrderIds, tx \in Txs \cup {NoTx} : credits[o][tx] \in Nat
    BY <1>0, DepositTypes
  <2>2. funded \in Nat
    BY <1>0, OrderFlowAssumption DEF TypeOK, OrderFlowAssumption
  <2> QED BY <1>0, <2>1, <2>2 DEF TypeOK
<1>5. ASSUME UNCHANGED ledger PROVE EntriesNameOrders' /\ Taken' = Taken /\ Raised <= Raised'
  <2>1. UNCHANGED <<entries, credits, funded>>
    BY <1>5 DEF ledger
  <2>2. \A o \in OrderIds, tx \in Txs \cup {NoTx} : credits[o][tx] <= credits'[o][tx]
    BY <1>4, <2>1
  <2>3. Taken' = Taken /\ Raised <= Raised'
    BY <1>0, <1>3, <1>4, <2>1, <2>2, OtherPostings
  <2> QED BY <1>3, <2>1, <2>3
<1>6. ASSUME NEW p \in Procs, LockFunds(p)
      PROVE  EntriesNameOrders' /\ Raised' = Raised /\ Taken' = Taken + orders[req[p].o].amount
  <2>1. /\ UNCHANGED <<orders, credits, funded>> /\ req[p].pc \notin NoOrderPCs
        /\ Post(req[p].o, "order_lock")
    BY <1>6 DEF LockFunds, At, NoOrderPCs
  <2>2. entries' = [entries EXCEPT ![req[p].o]["order_lock"] = @ + 1]
    BY <2>1 DEF Post
  <2>3. Raised' = Raised /\ Taken' = Taken + orders[req[p].o].amount
    BY <1>0, <2>1, <2>2, AboutAnOrder, LockPosting
  <2>4. EntriesNameOrders'
    BY <1>2, <2>1 DEF Reasons
  <2> QED BY <2>3, <2>4
<1>10. ASSUME NEW p \in Procs, DebitLocked(p) \/ Unlock(p)
       PROVE  EntriesNameOrders' /\ Taken' = Taken /\ Raised <= Raised'
  <2>1. UNCHANGED <<orders, credits, funded>> /\ req[p].pc \notin NoOrderPCs
    BY <1>10 DEF DebitLocked, Unlock, At, NoOrderPCs
  <2>2. PICK r \in Reasons : Post(req[p].o, r) /\ r # "order_lock"
    <3>1. DebitLocked(p) => Post(req[p].o, "order_release")
      BY DEF DebitLocked
    <3>2. Unlock(p) => Post(req[p].o, "order_cancel") \/ Post(req[p].o, "order_dispute")
      BY DEF Unlock
    <3> QED BY <1>10, <3>1, <3>2 DEF Reasons
  <2>3. /\ EntriesNameOrders'
        /\ \A o \in OrderIds : /\ entries'[o]["order_lock"] = entries[o]["order_lock"]
                               /\ Unlocks(o) <= Unlocks(o)'
    BY <1>2, <2>1, <2>2
  <2>4. \A o \in OrderIds, tx \in Txs \cup {NoTx} : credits[o][tx] <= credits'[o][tx]
    BY <1>4, <2>1
  <2>5. Taken' = Taken /\ Raised <= Raised'
    BY <1>0, <1>4, <2>1, <2>3, <2>4, OtherPostings
  <2> QED BY <2>3, <2>5
<1>7. ASSUME NEW p \in Procs, CreditDeposit(p)
      PROVE  EntriesNameOrders' /\ Taken' = Taken /\ Raised <= Raised'
  <2>1. UNCHANGED <<orders, entries, funded>> /\ req[p].pc = "creditDeposit"
        /\ credits' = [credits EXCEPT ![req[p].o][req[p].doc.tx] = @ + 1]
    BY <1>7 DEF CreditDeposit, At
  <2>2. \A o \in OrderIds, tx \in Txs \cup {NoTx} : credits[o][tx] <= credits'[o][tx]
    BY <1>4, <2>1
  <2>3. Taken' = Taken /\ Raised <= Raised'
    BY <1>0, <1>3, <1>4, <2>1, <2>2, OtherPostings
  <2> QED BY <1>3, <2>1, <2>3
<1>8. ASSUME NEW amt \in CreditAmounts, AdminCredit(amt)
      PROVE  EntriesNameOrders' /\ Taken' = Taken /\ Raised <= Raised'
  <2>1. UNCHANGED <<orders, entries, credits>> /\ funded' = funded + amt
    BY <1>8 DEF AdminCredit
  <2>2. funded <= funded'
    BY <1>4, <2>1, OrderFlowAssumption DEF OrderFlowAssumption
  <2>3. \A o \in OrderIds, tx \in Txs \cup {NoTx} : credits[o][tx] <= credits'[o][tx]
    BY <1>4, <2>1
  <2>4. Taken' = Taken /\ Raised <= Raised'
    BY <1>0, <1>3, <2>1, <2>2, <2>3, OtherPostings
  <2> QED BY <1>3, <2>1, <2>4
<1>9. ASSUME UNCHANGED vars PROVE EntriesNameOrders' /\ Taken' = Taken /\ Raised <= Raised'
  BY <1>5, <1>9 DEF vars, ledger
<1>11. EntriesNameOrders' /\ ((\A p \in Procs : ~LockFunds(p)) => Taken' = Taken /\ Raised <= Raised')
  BY <1>5, <1>6, <1>7, <1>8, <1>9, <1>10, WhoPosts
<1> QED BY <1>1, <1>6, <1>11

LEMMA AmountTypes == \A doc \in OrderDoc : doc.amount \in Nat \ {0} /\ doc.amount \in Int
<1>1. Amounts \subseteq Nat \ {0}
  BY OrderFlowAssumption DEF OrderFlowAssumption
<1>2. ASSUME NEW doc \in OrderDoc PROVE doc.amount \in Nat \ {0} /\ doc.amount \in Int
  <2>1. PICK n : n = doc.amount
    OBVIOUS
  <2>2. n \in Amounts
    BY <2>1 DEF OrderDoc
  <2>3. n \in Nat \ {0} /\ n \in Int
    BY <1>1, <2>2
  <2> QED BY <2>1, <2>3
<1> QED BY <1>2

(* Who has been checked stays so while the balance does not fall. *)
LEMMA StillMayPay ==
  ASSUME IInv, TermsKept, Balance("available") \in Int, Balance("available")' \in Int,
         Balance("available") <= Balance("available")',
         NEW p \in Procs, MayPay(req[p]), req'[p] = req[p]
  PROVE  MayPay(req[p])'
<1>1. req[p].pc \in {"debitAd", "lockFunds"} => orders'[req[p].o].amount = orders[req[p].o].amount
  BY AboutAnOrder DEF TermsKept, NoOrderPCs
<1>2. req[p].pc \in {"insertOrder", "debitAd", "lockFunds"} => req[p].doc.amount \in Int
  <2>1. req[p].pc \in {"insertOrder", "debitAd", "lockFunds"} => req[p].doc \in OrderDoc
    BY DEF IInv, RequestsJustified, HoldsCopies, CreatePCs
  <2>2. \A doc \in OrderDoc : doc.amount \in Int
    BY AmountTypes
  <2> QED BY <2>1, <2>2
<1>3. PICK x \in Int, y \in Int : x = Balance("available") /\ y = Balance("available")' /\ x <= y
  OBVIOUS
<1>4. req[p].pc \in {"insertOrder", "debitAd", "lockFunds"} /\ Sells(req[p].doc) =>
        req[p].doc.amount <= y
  BY <1>2, <1>3 DEF MayPay
<1>5. req'[p].pc \in {"insertOrder", "debitAd", "lockFunds"} /\ Sells(req'[p].doc) =>
        req'[p].doc.amount <= Balance("available")'
  BY <1>3, <1>4
<1> QED BY <1>1, <1>5 DEF MayPay, Sells

(* The four steps that take a create request on *)
LEMMA PaysOn ==
  ASSUME IInv, IInv', UNCHANGED ledger, Balance("available") \in Int, Balance("available")' \in Int,
         Balance("available") <= Balance("available")',
         NEW p \in Procs, MayPay(req[p]),
         CheckBalance(p) \/ InsertOrder(p) \/ DebitAd(p) \/ ReadAd(p)
  PROVE  MayPay(req[p])'
<1>0. /\ TypeOK /\ req \in [Procs -> Request]
      /\ orders \in [OrderIds -> OrderDoc \cup {NoOrder}]
      /\ req[p].pc \in {"checkBalance", "insertOrder", "debitAd"} => req[p].doc \in OrderDoc
  BY DEF IInv, TypeOK, RequestsJustified, HoldsCopies, CreatePCs
<1>1. \A doc \in OrderDoc : doc.amount \in Int
  BY AmountTypes
<1>2. PICK x \in Int, y \in Int : x = Balance("available") /\ y = Balance("available")' /\ x <= y
  OBVIOUS
<1>3. ASSUME NEW doc \in OrderDoc, doc = req[p].doc, req'[p].doc = doc,
             Sells(doc) => doc.amount <= x,
             req'[p].pc \in {"debitAd", "lockFunds"} => doc.amount = orders'[req'[p].o].amount,
             req'[p].pc = "lockFunds" => Sells(doc)
      PROVE  MayPay(req[p])'
  <2>1. Sells(doc) => doc.amount <= y
    BY <1>1, <1>2, <1>3
  <2> QED BY <1>2, <1>3, <2>1 DEF MayPay, Sells
<1>4. ASSUME req'[p].pc \notin {"insertOrder", "debitAd", "lockFunds"} PROVE MayPay(req[p])'
  BY <1>4 DEF MayPay
<1>5. CASE CheckBalance(p)
  <2>1. CASE Finish(p)
    BY <1>0, <1>4, <2>1, FinishFields
  <2>2. CASE ~Finish(p)
    <3>1. /\ ~(x < req[p].doc.amount) /\ Goto(p, "insertOrder") /\ req[p].pc = "checkBalance"
      BY <1>2, <1>5, <2>2 DEF CheckBalance, At
    <3>2. req'[p].pc = "insertOrder" /\ req'[p].doc = req[p].doc
      BY <1>0, <3>1, GotoFields
    <3>3. req[p].doc \in OrderDoc /\ req[p].doc.amount <= x
      BY <1>0, <1>1, <1>2, <3>1
    <3> QED BY <1>3, <3>2, <3>3
  <2> QED BY <2>1, <2>2
<1>6. CASE InsertOrder(p)
  <2>1. PICK o \in OrderIds : /\ orders' = [orders EXCEPT ![o] = req[p].doc]
                              /\ req' = [req EXCEPT ![p].pc = "debitAd", ![p].o = o]
    BY <1>6 DEF InsertOrder
  <2>2. req[p].pc = "insertOrder"
    BY <1>6 DEF InsertOrder, At
  <2>3. req'[p].pc = "debitAd" /\ req'[p].o = o /\ req'[p].doc = req[p].doc
    BY <1>0, <2>1 DEF Request
  <2>4. orders'[o] = req[p].doc
    BY <1>0, <2>1
  <2>5. Sells(req[p].doc) => req[p].doc.amount <= x
    BY <1>2, <2>2 DEF MayPay
  <2> QED BY <1>0, <1>3, <2>2, <2>3, <2>4, <2>5
<1>7. CASE DebitAd(p)
  <2>1. CASE Finish(p)
    BY <1>0, <1>4, <2>1, FinishFields
  <2>2. CASE ~Finish(p)
    <3>1. /\ Sells(req[p].doc) /\ Goto(p, "lockFunds") /\ req[p].pc = "debitAd" /\ orders' = orders
      BY <1>7, <2>2 DEF DebitAd, At
    <3>2. req'[p].pc = "lockFunds" /\ req'[p].doc = req[p].doc /\ req'[p].o = req[p].o
      BY <1>0, <3>1, GotoFields
    <3>3. /\ req[p].doc.amount <= x /\ req[p].doc.amount = orders[req[p].o].amount
      BY <1>2, <3>1 DEF MayPay
    <3> QED BY <1>0, <1>3, <3>1, <3>2, <3>3
  <2> QED BY <2>1, <2>2
<1>8. CASE ReadAd(p)
  <2>1. req'[p].pc = "restoreAd"
    BY <1>0, <1>8 DEF ReadAd, Request
  <2> QED BY <1>4, <2>1
<1> QED BY <1>5, <1>6, <1>7, <1>8

LEMMA NextPay ==
  ASSUME Overlap = "none", IsFiniteSet(Txs), IInv, IInv', SingleInv, SingleInv', PayInv,
         TermsKept, [Next]_vars
  PROVE  PayInv'
<1>0. /\ TypeOK /\ req \in [Procs -> Request] /\ Workers \subseteq Procs /\ Sweeper \in Procs
      /\ EntriesNameOrders /\ Covered(Raised, Taken) /\ RequestsMayPay
  BY DEF IInv, TypeOK, Procs, PayInv
<1>1. /\ Taken \in Nat /\ Raised \in Nat /\ Taken' \in Nat /\ Raised' \in Nat
      /\ EntriesNameOrders'
      /\ \A p \in Procs : LockFunds(p) => /\ Raised' = Raised
                                         /\ Taken' = Taken + orders[req[p].o].amount
      /\ (\A p \in Procs : ~LockFunds(p)) => Taken' = Taken /\ Raised <= Raised'
  BY <1>0, PostingSteps
<1>2. /\ Balance("available") = Rounded(Rounded(Raised) - Rounded(Taken))
      /\ Balance("available")' = Rounded(Rounded(Raised') - Rounded(Taken'))
  BY DEF Balance, Raised, Taken
<1>3. ASSUME NEW p \in Procs, LockFunds(p) PROVE PayInv'
  <2>1. req[p].pc = "lockFunds" /\ Finish(p)
    BY <1>3 DEF LockFunds, At
  <2>2. PICK k \in Nat \ {0} : k = orders[req[p].o].amount
    <3>1. req[p].o \in OrderIds /\ Exists(req[p].o)
      BY <2>1, AboutAnOrder DEF NoOrderPCs
    <3> QED BY <1>0, <3>1, EntryTypes
  <2>3. k <= Rounded(Rounded(Raised) - Rounded(Taken))
    BY <1>0, <1>2, <2>1, <2>2 DEF RequestsMayPay, MayPay
  <2>4. Covered(Raised', Taken')
    BY <1>1, <1>3, <2>2, <2>3, CheckedMayBeTaken
  <2>5. \A q \in Procs : req'[q].pc = "idle"
    <3>1. \A q \in Procs \ {p} : req[q].pc = "idle"
      BY <2>1 DEF SingleInv, OneRequest
    <3>2. OnlyMoves(p) /\ req'[p].pc = "idle"
      BY <1>0, <2>1, FinishFields DEF Idle
    <3> QED BY <3>1, <3>2 DEF OnlyMoves
  <2>6. RequestsMayPay'
    BY <2>5 DEF RequestsMayPay, MayPay
  <2>7. Covered(Raised, Taken)'
    BY <2>4 DEF Covered
  <2> QED BY <1>1, <2>6, <2>7 DEF PayInv
<1>4. CASE \A p \in Procs : ~LockFunds(p)
  <2>1. Covered(Raised', Taken')
    BY <1>0, <1>1, <1>4, MoreIsCovered
  <2>2. /\ Balance("available") \in Int /\ Balance("available")' \in Int
        /\ Balance("available") <= Balance("available")'
    BY <1>1, <1>2, <1>4, MoreIsCovered
  <2>3. ASSUME NEW p \in Procs, req'[p] = req[p] PROVE MayPay(req[p])'
    BY <1>0, <2>2, <2>3, StillMayPay DEF RequestsMayPay
  <2>4. ASSUME NEW p \in Procs, OnlyMoves(p), MayPay(req[p])' PROVE RequestsMayPay'
    BY <2>3, <2>4 DEF RequestsMayPay, OnlyMoves
  <2>5. ASSUME NEW w \in Workers, NewRequest(w) PROVE RequestsMayPay'
    <3>1. /\ OnlyMoves(w) /\ req'[w].pc \notin {"debitAd", "lockFunds"}
          /\ req'[w].pc = "insertOrder" => ~Sells(req'[w].doc)
      BY <2>5, Begins
    <3>2. MayPay(req[w])'
      BY <3>1 DEF MayPay, Sells
    <3> QED BY <1>0, <2>4, <3>1, <3>2
  <2>6. ASSUME NEW p \in Procs, Continue(p) \/ Failure(p) PROVE RequestsMayPay'
    <3>1. OnlyMoves(p)
      BY <2>6, Continues
    <3>2. CASE CheckBalance(p) \/ InsertOrder(p) \/ DebitAd(p) \/ ReadAd(p)
      <4>1. UNCHANGED ledger
        BY <3>2 DEF CheckBalance, InsertOrder, DebitAd, ReadAd
      <4>2. MayPay(req[p])'
        BY <1>0, <2>2, <3>2, <4>1, PaysOn DEF RequestsMayPay
      <4> QED BY <2>4, <3>1, <4>2
    <3>3. CASE ~(CheckBalance(p) \/ InsertOrder(p) \/ DebitAd(p) \/ ReadAd(p))
      <4>1. req'[p].pc \notin {"insertOrder", "debitAd", "lockFunds"}
        BY <1>0, <2>6, <3>3, OtherCalls DEF CreatePCs
      <4>2. MayPay(req[p])'
        BY <4>1 DEF MayPay
      <4> QED BY <2>4, <3>1, <4>2
    <3> QED BY <3>2, <3>3
  <2>7. ASSUME Sweep PROVE RequestsMayPay'
    <3>1. \/ req' = req
          \/ OnlyMoves(Sweeper) /\ req'[Sweeper].pc \in {"unlock", "readAd"}
      BY <2>7, Sweeps
    <3>2. CASE req' = req
      BY <2>3, <3>2 DEF RequestsMayPay
    <3>3. CASE OnlyMoves(Sweeper) /\ req'[Sweeper].pc \in {"unlock", "readAd"}
      <4>1. MayPay(req[Sweeper])'
        BY <3>3 DEF MayPay
      <4> QED BY <1>0, <2>4, <3>3, <4>1
    <3> QED BY <3>1, <3>2, <3>3
  <2>8. ASSUME Environment \/ UNCHANGED vars PROVE RequestsMayPay'
    <3>1. req' = req
      BY <2>8, Outside
    <3> QED BY <2>3, <3>1 DEF RequestsMayPay
  <2>9. RequestsMayPay'
    BY <2>5, <2>6, <2>7, <2>8 DEF Next
  <2>10. Covered(Raised, Taken)'
    BY <2>1 DEF Covered
  <2> QED BY <1>1, <2>9, <2>10 DEF PayInv
<1> QED BY <1>1, <1>3, <1>4

(* With one request at a time, failures included, the available balance is   *)
(* never overdrawn by more than its three roundings: what CheckBalance let   *)
(* pass is what LockFunds takes, and nothing is taken in between.            *)
THEOREM BalanceIsNotOverdrawn ==
  ASSUME Overlap = "none", IsFiniteSet(Txs)
  PROVE  Spec => []NeverOverdrawn
<1> DEFINE Terms == \A o \in OrderIds : Exists(o) =>
                      /\ orders'[o] # NoOrder
                      /\ \A f \in {"ad", "taker", "amount", "addr"} : orders'[o][f] = orders[o][f]
<1>1. Init => PayInv
  <2> SUFFICES ASSUME Init PROVE PayInv
    OBVIOUS
  <2>1. \A p \in Procs : req[p].pc = "idle"
    BY DEF Init, Idle
  <2>2. \A o \in OrderIds : /\ ~Exists(o) /\ \A r \in Reasons : entries[o][r] = 0
                            /\ \A tx \in Txs \cup {NoTx} : credits[o][tx] = 0
    BY DEF Init, Exists
  <2>3. TypeOK
    BY InitIInv DEF IInv
  <2>4. \A o \in OrderIds : LocksWorth[o] = 0
    BY <2>2 DEF LocksWorth
  <2>5. Taken = 0 /\ Taken \in Nat /\ Raised \in Nat
    <3>1. SumOver(LocksWorth, OrderIds) = 0
      BY <2>4, OrderIdsFinite, SumZero
    <3> QED BY <2>3, <3>1, WorthTypes DEF WorthsAreNat
  <2>6. Covered(Raised, Taken)
    <3>1. Rounded(0) = 0
      BY RoundedNear, OrderFlowAssumption DEF OrderFlowAssumption
    <3>2. Rounded(0) <= Rounded(Raised) /\ Rounded(Raised) \in Int
      BY <2>5, RoundedGrows, RoundedNear
    <3>3. Half(Raised) \in Nat
      BY <2>5, UlpGrows
    <3> QED BY <2>5, <3>1, <3>2, <3>3 DEF Covered
  <2> QED BY <2>1, <2>2, <2>6 DEF PayInv, EntriesNameOrders, RequestsMayPay, MayPay
<1>2. IInv /\ IInv' /\ SingleInv /\ SingleInv' /\ PayInv /\ [Next]_vars /\ [Terms]_vars => PayInv'
  <2> SUFFICES ASSUME IInv, IInv', SingleInv, SingleInv', PayInv, [Next]_vars, [Terms]_vars
               PROVE  PayInv'
    OBVIOUS
  <2>1. TermsKept
    <3>1. CASE Terms
      BY <3>1 DEF TermsKept
    <3>2. CASE UNCHANGED vars
      BY <3>2 DEF TermsKept, Exists, vars
    <3> QED BY <3>1, <3>2
  <2> QED BY <2>1, NextPay
<1>3. IInv /\ PayInv => NeverOverdrawn
  <2> SUFFICES ASSUME IInv, PayInv PROVE NeverOverdrawn
    OBVIOUS
  <2>1. PICK u \in Nat, t \in Nat : u = Raised /\ t = Taken
    BY WorthTypes DEF IInv, WorthsAreNat
  <2>2. Balance("available") = Rounded(Rounded(u) - Rounded(t))
    BY <2>1 DEF Balance, Raised, Taken
  <2>3. PICK d \in Int : d = Rounded(u) - Rounded(t)
    BY RoundedNear
  <2>4. d >= -(3 * Half(u)) /\ Half(u) \in Nat
    BY <2>1, <2>3, UlpGrows DEF PayInv, Covered
  <2>5. Exact \in Nat
    BY OrderFlowAssumption DEF OrderFlowAssumption
  <2>6. CASE d >= 0
    <3>1. Rounded(0) = 0 /\ Rounded(0) <= Rounded(d) /\ Rounded(d) \in Int
      BY <2>5, <2>6, RoundedGrows, RoundedNear
    <3> QED BY <2>2, <2>3, <3>1 DEF NeverOverdrawn
  <2>7. CASE d < 0
    <3>1. Rounded(d) = d
      BY <2>5, <2>7, RoundedNear
    <3>2. d - 0 \in -(3 * Half(u)) .. 3 * Half(u)
      BY <2>4, <2>7
    <3>3. Near(d, 0, 3, u)
      BY <3>2 DEF Near, Half
    <3>4. Balance("available") = d /\ Posted("available", 1) = u
      BY <2>1, <2>2, <2>3, <3>1 DEF Raised
    <3> QED BY <3>3, <3>4 DEF NeverOverdrawn
  <2> QED BY <2>6, <2>7
<1>4. AgreementIsFinal <=> [][Terms]_vars
  BY DEF AgreementIsFinal
<1> QED BY <1>1, <1>2, <1>3, <1>4, SingleInvariant, TermsAreFinal, PTL DEF Spec

-----------------------------------------------------------------------------
(* What the ads offer.  Rounding aside, an ad's open amount and what its     *)
(* orders took make up what it was posted with.                             *)

(* An order that has been inserted and not yet debited from its ad, or given *)
(* back to it and not yet written as cancelled                              *)
Pending(r) == r.pc = "debitAd" \/ (r.pc = "writeOrder" /\ r.doc.status = "cancelled")

Counts(o) ==
  /\ Exists(o) /\ orders[o].status # "cancelled"
  /\ \A p \in Procs : req[p].o = o => ~Pending(req[p])

TakenFrom(a) ==
  [o \in OrderIds |-> IF Counts(o) /\ orders[o].ad = a THEN orders[o].amount ELSE 0]

(* The status an ad may have when x of it is open *)
Fitting(x) == (EditStatuses \ {Absent}) \cup {IF x = 0 THEN "paused" ELSE "active"}

AdsAddUp ==
  \A a \in Ads : IsPosted(a) =>
    /\ ads[a].avail \in Nat
    /\ ads[a].avail + SumOver(TakenFrom(a), OrderIds) = Capacity[a]
    /\ ads[a].status \in Fitting(ads[a].avail)

OrdersNameAds == \A o \in OrderIds : Exists(o) => IsPosted(orders[o].ad)

(* A create request is about the ad it has read; an edit leaves the open      *)
(* amount as it is.                                                          *)
NamesItsAd(r) ==
  /\ r.pc \in CreatePCs => r.doc.ad = r.a
  /\ r.pc = "debitAd" => orders[r.o].ad = r.a /\ orders[r.o].amount = r.doc.amount
  /\ r.pc = "writeAd" => /\ IsPosted(r.a) /\ r.ad.avail = ads[r.a].avail
                         /\ r.ad.status \in (EditStatuses \ {Absent}) \cup {ads[r.a].status}

RequestsNameAds == \A p \in Procs : NamesItsAd(req[p])

CapInv == AdsAddUp /\ OrdersNameAds /\ RequestsNameAds

(* The environment the property is about *)
Exactly ==
  /\ Overlap = "none" /\ MaxFailures = 0
  /\ EditAmounts \subseteq {Absent}
  /\ \A a \in Ads : Capacity[a] <= Exact

(* Either nobody moves, or one goroutine does while the others are idle.     *)
LEMMA OneMoves ==
  ASSUME Overlap = "none", MaxFailures = 0, IInv, SingleInv, [Next]_vars
  PROVE  \/ /\ req' = req /\ orders' = orders
            /\ ads' = ads \/ \E a \in Ads : PostAd(a)
         \/ \E p \in Procs :
              /\ OnlyMoves(p) /\ \A q \in Procs \ {p} : req[q].pc = "idle"
              /\ \/ Continue(p)
                 \/ NewRequest(p) /\ p \in Workers
                 \/ /\ req[p].pc = "idle" /\ req'[p].pc \in {"unlock", "readAd"}
                    /\ UNCHANGED <<orders, ads>>
<1>0. Sweeper \in Procs /\ Workers \subseteq Procs
  BY DEF Procs
<1>1. ASSUME NEW w \in Workers, NewRequest(w)
      PROVE  w \in Procs /\ OnlyMoves(w) /\ \A q \in Procs \ {w} : req[q].pc = "idle"
  BY <1>0, <1>1, Begins DEF Quiet
<1>2. ASSUME NEW p \in Procs, Continue(p)
      PROVE  OnlyMoves(p) /\ \A q \in Procs \ {p} : req[q].pc = "idle"
  <2>1. req[p].pc # "idle" /\ OnlyMoves(p)
    BY <1>2, Continues
  <2> QED BY <2>1 DEF SingleInv, OneRequest
<1>3. ASSUME NEW p \in Procs, Failure(p) PROVE FALSE
  <2>1. failures \in 0 .. 0
    BY DEF IInv, TypeOK
  <2> QED BY <1>3, <2>1 DEF Failure, Fail, RestoreAdFails, WithdrawAnswerLost
<1>4. ASSUME Sweep
      PROVE  \/ req' = req /\ UNCHANGED <<orders, ads>>
             \/ /\ OnlyMoves(Sweeper) /\ \A q \in Procs \ {Sweeper} : req[q].pc = "idle"
                /\ req[Sweeper].pc = "idle" /\ req'[Sweeper].pc \in {"unlock", "readAd"}
                /\ UNCHANGED <<orders, ads>>
  <2>1. UNCHANGED <<orders, ads>>
        /\ \/ req' = req
           \/ /\ todo # {} /\ OnlyMoves(Sweeper)
              /\ req[Sweeper].pc = "idle" /\ req'[Sweeper].pc \in {"unlock", "readAd"}
    BY <1>4, Sweeps
  <2>2. todo # {} => \A q \in Procs \ {Sweeper} : req[q].pc = "idle"
    BY DEF SingleInv, OneRequest, Procs
  <2> QED BY <2>1, <2>2
<1>5. ASSUME Environment \/ UNCHANGED vars
      PROVE  req' = req /\ orders' = orders /\ (ads' = ads \/ \E a \in Ads : PostAd(a))
  <2>1. req' = req /\ orders' = orders
    BY <1>5, Outside
  <2>2. ads' = ads \/ \E a \in Ads : PostAd(a)
    BY <1>5 DEF Environment, AdminCredit, MarkAddressWhitelisted, DepositArrives, DeadlinePasses, vars
  <2> QED BY <2>1, <2>2
<1> QED BY <1>0, <1>1, <1>2, <1>3, <1>4, <1>5 DEF Next

(* A new request has nothing to settle with an ad yet. *)
LEMMA BeginsClean ==
  ASSUME IInv, NEW w \in Workers, NewRequest(w)
  PROVE  ~Pending(req'[w])
<1>0. w \in Procs /\ TypeOK /\ req \in [Procs -> Request]
  BY DEF IInv, TypeOK, Procs
<1>1. CASE \/ \E a \in Ads, u \in Takers, amt \in Amounts, addr \in Addresses \cup {NoAddress} :
                CreateOrder(w, a, u, amt, addr)
           \/ \E a \in Ads : EditAd(w, a)
           \/ \E d \in DisputeIds, op \in Resolutions : ResolveDispute(w, d, op)
  <2>1. ASSUME NEW a \in Ads, NEW u \in Takers, NEW amt \in Amounts,
               NEW addr \in Addresses \cup {NoAddress}, CreateOrder(w, a, u, amt, addr)
        PROVE  req'[w].pc \in {"checkBalance", "insertOrder"}
    BY <1>0, <2>1 DEF CreateOrder, Idle
  <2>2. ASSUME NEW a \in Ads, EditAd(w, a) PROVE req'[w].pc = "writeAd"
    BY <1>0, <2>2 DEF EditAd, Idle
  <2>3. ASSUME NEW d \in DisputeIds, NEW op \in Resolutions, ResolveDispute(w, d, op)
        PROVE  req'[w].pc = "readDisputed"
    BY <1>0, <2>3 DEF ResolveDispute, Idle
  <2> QED BY <1>1, <2>1, <2>2, <2>3 DEF Pending
<1>2. CASE \E o \in OrderIds, u \in Users :
             \/ MarkPaid(w, o, u) \/ ConfirmPayment(w, o, u)
             \/ RaiseDispute(w, o, u) \/ Cancel(w, o, u)
             \/ \E tx \in Txs : SubmitDeposit(w, o, u, tx)
  <2>1. PICK o \in OrderIds, u \in Users :
             \/ MarkPaid(w, o, u) \/ ConfirmPayment(w, o, u)
             \/ RaiseDispute(w, o, u) \/ Cancel(w, o, u)
             \/ \E tx \in Txs : SubmitDeposit(w, o, u, tx)
    BY <1>2
  <2>2. CASE MarkPaid(w, o, u) \/ ConfirmPayment(w, o, u)
    <3>1. PICK s, op : /\ Start(w, op, "writeOrder", o, [orders[o] EXCEPT !.status = s])
                       /\ s \in {"payment_marked", "payment_confirmed"} /\ Exists(o)
      BY <2>2 DEF MarkPaid, ConfirmPayment
    <3>2. req'[w].doc = [orders[o] EXCEPT !.status = s] /\ req'[w].pc = "writeOrder"
      BY <1>0, <3>1, StartFields
    <3>3. orders[o] \in OrderDoc
      BY <1>0, <3>1, EntryTypes
    <3>4. req'[w].doc.status = s
      BY <3>2, <3>3 DEF OrderDoc
    <3> QED BY <3>1, <3>2, <3>4 DEF Pending
  <2>3. CASE \/ RaiseDispute(w, o, u) \/ Cancel(w, o, u)
             \/ \E tx \in Txs : SubmitDeposit(w, o, u, tx)
    <3>1. PICK op, pc, doc : /\ Start(w, op, pc, o, doc)
                             /\ pc \in {"markDisputed", "unlock", "readAd", "verifyDeposit"}
      BY <2>3 DEF RaiseDispute, Cancel, SubmitDeposit, UnwindPC
    <3>2. req'[w].pc = pc
      BY <1>0, <3>1, StartFields
    <3> QED BY <3>1, <3>2 DEF Pending
  <2> QED BY <2>1, <2>2, <2>3
<1>3. CASE \E o \in OrderIds : Release(w, o)
  <2>1. PICK o \in OrderIds : Release(w, o)
    BY <1>3
  <2>2. PICK op, pc, doc : Start(w, op, pc, o, doc) /\ pc \in {"checkWhitelist", "creditDeposit"}
    BY <2>1 DEF Release, SettlePC
  <2>3. req'[w].pc = pc
    BY <1>0, <2>2, StartFields
  <2> QED BY <2>2, <2>3 DEF Pending
<1> QED BY <1>1, <1>2, <1>3 DEF NewRequest

Special(p) == \/ InsertOrder(p) \/ DebitAd(p) \/ RestoreAd(p)
              \/ WriteMarked(p) \/ WriteOrder(p) \/ WriteAd(p)

(* Of the calls of a request only six have to do with an ad or write an order. *)
LEMMA OtherCallsClean ==
  ASSUME IInv, NEW p \in Procs, Continue(p), ~Special(p)
  PROVE  /\ UNCHANGED <<orders, ads>> /\ ~Pending(req[p]) /\ ~Pending(req'[p])
         /\ req'[p].pc \notin {"debitAd", "writeAd"}
         /\ req'[p].pc \in CreatePCs => req[p].pc \in CreatePCs /\ req'[p].doc = req[p].doc
                                        /\ req'[p].a = req[p].a
<1>0. TypeOK /\ req \in [Procs -> Request]
  BY DEF IInv, TypeOK
<1>1. UNCHANGED <<orders, ads>>
  BY DEF Special, Continue, CheckBalance, LockFunds, VerifyDeposit, CheckWhitelist, Withdraw,
     DebitLocked, CreditDeposit, MarkDisputed, OpenDispute, ReadDisputed, CloseDispute, Unlock, ReadAd
<1>2. req[p].pc \notin {"debitAd", "writeOrder"}
  BY DEF Special, Continue, CheckBalance, LockFunds, VerifyDeposit, CheckWhitelist, Withdraw,
     DebitLocked, CreditDeposit, MarkDisputed, OpenDispute, ReadDisputed, CloseDispute,
     Unlock, ReadAd, At
<1>3. CASE \/ LockFunds(p) \/ CheckWhitelist(p) \/ Withdraw(p)
           \/ OpenDispute(p) \/ CloseDispute(p) \/ Unlock(p)
  <2>1. Finish(p) \/ \E pc \in {"withdraw", "debitLocked", "readAd"} : Goto(p, pc)
    BY <1>3 DEF LockFunds, CheckWhitelist, Withdraw, OpenDispute, CloseDispute, Unlock
  <2>2. req'[p].pc \in {"idle", "withdraw", "debitLocked", "readAd"}
    BY <1>0, <2>1, FinishFields, GotoFields
  <2> QED BY <1>1, <1>2, <2>2 DEF Pending, CreatePCs
<1>4. CASE VerifyDeposit(p) \/ DebitLocked(p) \/ CreditDeposit(p)
  <2>1. \/ Finish(p) \/ GotoWith(p, "writeMarked", "payment_marked")
        \/ GotoWith(p, "writeOrder", "completed")
    BY <1>4 DEF VerifyDeposit, DebitLocked, CreditDeposit
  <2>2. HoldsCopies(req[p]) /\ req[p].pc \in CopyPCs
    BY <1>4 DEF VerifyDeposit, DebitLocked, CreditDeposit, At, CopyPCs, PCs, CreatePCs,
       IInv, RequestsJustified
  <2>3. req[p].doc \in OrderDoc
    BY <2>2 DEF HoldsCopies, Known
  <2>4. /\ req'[p].pc \in {"idle", "writeMarked", "writeOrder"}
        /\ req'[p].pc = "writeOrder" => req'[p].doc.status = "completed"
    <3>1. CASE Finish(p)
      BY <1>0, <3>1, FinishFields
    <3>2. CASE GotoWith(p, "writeMarked", "payment_marked")
      <4>1. req'[p].pc = "writeMarked"
        BY <1>0, <3>2, GotoWithFields
      <4> QED BY <4>1
    <3>3. CASE GotoWith(p, "writeOrder", "completed")
      <4>1. req'[p].pc = "writeOrder" /\ req'[p].doc = [req[p].doc EXCEPT !.status = "completed"]
        BY <1>0, <3>3, GotoWithFields
      <4> QED BY <2>3, <4>1 DEF OrderDoc
    <3> QED BY <2>1, <3>1, <3>2, <3>3
  <2> QED BY <1>1, <1>2, <2>4 DEF Pending, CreatePCs
<1>5. CASE MarkDisputed(p)
  <2>1. CASE Finish(p)
    BY <1>0, <1>1, <1>2, <2>1, FinishFields DEF Pending, CreatePCs
  <2>2. CASE ~Finish(p)
    <3>1. Start(p, "raise", "writeOrder", req[p].o, [orders[req[p].o] EXCEPT !.status = "disputed"])
      BY <1>5, <2>2 DEF MarkDisputed
    <3>2. req[p].o \in OrderIds /\ Exists(req[p].o)
      BY <1>5, AboutAnOrder DEF MarkDisputed, At, NoOrderPCs
    <3>3. orders[req[p].o] \in OrderDoc
      BY <1>0, <3>2, EntryTypes
    <3>4. /\ req'[p].pc = "writeOrder"
          /\ req'[p].doc = [orders[req[p].o] EXCEPT !.status = "disputed"]
      BY <1>0, <3>1, StartFields
    <3>5. req'[p].doc.status = "disputed"
      BY <3>3, <3>4 DEF OrderDoc
    <3> QED BY <1>1, <1>2, <3>4, <3>5 DEF Pending, CreatePCs
  <2> QED BY <2>1, <2>2
<1>6. CASE ReadDisputed(p)
  <2>1. CASE Finish(p)
    BY <1>0, <1>1, <1>2, <2>1, FinishFields DEF Pending, CreatePCs
  <2>2. CASE ~Finish(p)
    <3>1. PICK next : /\ next \in {SettlePC(orders[req[p].o]), UnwindPC(orders[req[p].o])}
                      /\ req' = [req EXCEPT ![p].pc = next, ![p].doc = orders[req[p].o]]
      BY <1>6, <2>2 DEF ReadDisputed
    <3>2. req'[p].pc = next
      BY <1>0, <3>1
    <3> QED BY <1>1, <1>2, <3>1, <3>2 DEF SettlePC, UnwindPC, CreatePCs, Pending
  <2> QED BY <2>1, <2>2
<1>7. CASE ReadAd(p)
  <2>1. req'[p].pc = "restoreAd"
    BY <1>0, <1>7 DEF ReadAd, Request
  <2> QED BY <1>1, <1>2, <2>1 DEF Pending, CreatePCs
<1>8. CASE CheckBalance(p)
  <2>1. CASE Finish(p)
    BY <1>0, <1>1, <1>2, <2>1, FinishFields DEF Pending, CreatePCs
  <2>2. CASE Goto(p, "insertOrder")
    <3>1. /\ req'[p].pc = "insertOrder" /\ req'[p].doc = req[p].doc /\ req'[p].a = req[p].a
          /\ req[p].pc = "checkBalance"
      BY <1>0, <1>8, <2>2, GotoFields DEF CheckBalance, At
    <3> QED BY <1>1, <1>2, <3>1 DEF Pending, CreatePCs
  <2> QED BY <1>8, <2>1, <2>2 DEF CheckBalance
<1> QED BY <1>3, <1>4, <1>5, <1>6, <1>7, <1>8 DEF Continue, Special

-----------------------------------------------------------------------------
(* What the orders of an ad have taken *)

LEMMA TakenTypes ==
  ASSUME TypeOK, NEW a \in Ads
  PROVE  /\ \A o \in OrderIds : TakenFrom(a)[o] \in Nat /\ TakenFrom(a)[o] \in Int
         /\ SumOver(TakenFrom(a), OrderIds) \in Nat
<1>1. ASSUME NEW o \in OrderIds PROVE TakenFrom(a)[o] \in Nat /\ TakenFrom(a)[o] \in Int
  <2>1. Counts(o) => orders[o].amount \in Nat
    BY EntryTypes DEF Counts
  <2> QED BY <2>1 DEF TakenFrom
<1>2. PICK F : F = TakenFrom(a)
  OBVIOUS
<1>3. SumOver(F, OrderIds) \in Nat
  BY <1>1, <1>2, OrderIdsFinite, SumType
<1> QED BY <1>1, <1>2, <1>3

LEMMA SameTaken ==
  ASSUME TermsKept, \A o \in OrderIds : Counts(o)' <=> Counts(o), NEW a \in Ads
  PROVE  TakenFrom(a)' = TakenFrom(a)
<1>1. \A o \in OrderIds :
        Counts(o) => orders'[o].amount = orders[o].amount /\ orders'[o].ad = orders[o].ad
  BY DEF Counts, TermsKept
<1> QED BY <1>1 DEF TakenFrom

(* One order starts or stops to count. *)
LEMMA TakenChanges ==
  ASSUME TypeOK, TypeOK', UNCHANGED orders, NEW n \in OrderIds, Exists(n),
         \A o \in OrderIds \ {n} : Counts(o)' <=> Counts(o), NEW a \in Ads
  PROVE  SumOver(TakenFrom(a), OrderIds)' = SumOver(TakenFrom(a), OrderIds)
           + IF orders[n].ad # a \/ (Counts(n)' <=> Counts(n)) THEN 0
             ELSE IF Counts(n)' THEN orders[n].amount ELSE -orders[n].amount
<1>1. PICK F, G : F = TakenFrom(a) /\ G = TakenFrom(a)'
  OBVIOUS
<1>2. PICK k \in Nat : k = orders[n].amount
  BY EntryTypes
<1>3. \A o \in OrderIds : F[o] \in Int
  BY <1>1, TakenTypes
<1>4. \A o \in OrderIds \ {n} : F[o] = G[o]
  BY <1>1 DEF TakenFrom
<1>5. /\ F[n] = IF Counts(n) /\ orders[n].ad = a THEN k ELSE 0
      /\ G[n] = IF Counts(n)' /\ orders[n].ad = a THEN k ELSE 0
  BY <1>1, <1>2 DEF TakenFrom
<1>6. \A o \in OrderIds : F[o] \in Int /\ G[o] \in Int
  BY <1>3, <1>4, <1>5
<1>7. SumOver(G, OrderIds) = SumOver(F, OrderIds) + (G[n] - F[n])
  BY <1>4, <1>6, OrderIdsFinite, SumChange
<1>8. PICK x \in Int, y \in Int : x = F[n] /\ y = G[n]
  BY <1>6
<1>9. PICK t \in Int : t = SumOver(F, OrderIds)
  BY <1>3, OrderIdsFinite, SumType
<1>10. y - x = IF orders[n].ad # a \/ (Counts(n)' <=> Counts(n)) THEN 0
               ELSE IF Counts(n)' THEN k ELSE -k
  BY <1>5, <1>8
<1>11. SumOver(G, OrderIds) = t + (y - x)
  BY <1>7, <1>8, <1>9
<1>12. /\ SumOver(TakenFrom(a), OrderIds)' = SumOver(G, OrderIds)
       /\ SumOver(TakenFrom(a), OrderIds) = t
  BY <1>1, <1>9
<1> QED BY <1>2, <1>10, <1>11, <1>12

LEMMA CountsClean ==
  ASSUME UNCHANGED orders,
         \A p \in Procs : \/ req'[p] = req[p]
                          \/ ~Pending(req[p]) /\ ~Pending(req'[p])
  PROVE  \A o \in OrderIds : Counts(o)' <=> Counts(o)
<1> SUFFICES ASSUME NEW o \in OrderIds PROVE Counts(o)' <=> Counts(o)
  OBVIOUS
<1>1. (\A p \in Procs : req'[p].o = o => ~Pending(req'[p]))
        <=> (\A p \in Procs : req[p].o = o => ~Pending(req[p]))
  OBVIOUS
<1> QED BY <1>1 DEF Counts, Exists, Pending

(* When one request moves and the ads stay, it is enough that the same       *)
(* orders count.                                                            *)
LEMMA CapStep ==
  ASSUME IInv, CapInv, TermsKept, NEW p \in Procs, OnlyMoves(p),
         \A q \in Procs \ {p} : req[q].pc = "idle", UNCHANGED ads,
         \A o \in OrderIds : Counts(o)' <=> Counts(o),
         \A o \in OrderIds : Exists(o)' => Exists(o) \/ IsPosted(orders'[o].ad),
         NamesItsAd(req[p])'
  PROVE  CapInv'
<1>1. AdsAddUp'
  <2> SUFFICES ASSUME NEW a \in Ads, IsPosted(a)'
               PROVE  /\ ads'[a].avail \in Nat
                      /\ ads'[a].avail + SumOver(TakenFrom(a), OrderIds)' = Capacity[a]
                      /\ ads'[a].status \in Fitting(ads'[a].avail)
    BY DEF AdsAddUp
  <2>1. TakenFrom(a)' = TakenFrom(a)
    BY SameTaken
  <2>2. SumOver(TakenFrom(a), OrderIds)' = SumOver(TakenFrom(a), OrderIds)
    BY <2>1
  <2> QED BY <2>2 DEF CapInv, AdsAddUp, IsPosted
<1>2. OrdersNameAds'
  <2>1. \A o \in OrderIds : Exists(o) => IsPosted(orders[o].ad) /\ orders'[o].ad = orders[o].ad
    BY DEF CapInv, OrdersNameAds, TermsKept
  <2>2. \A o \in OrderIds : Exists(o)' => IsPosted(orders'[o].ad)
    BY <2>1
  <2> QED BY <2>2 DEF OrdersNameAds, IsPosted
<1>3. RequestsNameAds'
  <2>1. \A q \in Procs \ {p} : NamesItsAd(req[q])'
    BY DEF OnlyMoves, NamesItsAd, CreatePCs
  <2> QED BY <2>1 DEF RequestsNameAds
<1> QED BY <1>1, <1>2, <1>3 DEF CapInv

LEMMA CapInsertOrder ==
  ASSUME IInv, SingleInv, CapInv, OnePerOrder, TermsKept, NEW p \in Procs, OnlyMoves(p),
         \A q \in Procs \ {p} : req[q].pc = "idle", InsertOrder(p)
  PROVE  CapInv'
<1>0. /\ orders \in [OrderIds -> OrderDoc \cup {NoOrder}] /\ req \in [Procs -> Request]
  BY DEF IInv, TypeOK
<1>1. PICK n \in OrderIds : /\ ~Exists(n) /\ orders' = [orders EXCEPT ![n] = req[p].doc]
                            /\ req' = [req EXCEPT ![p].pc = "debitAd", ![p].o = n]
  BY DEF InsertOrder
<1>2. req[p].pc = "insertOrder" /\ UNCHANGED ads
  BY DEF InsertOrder, At
<1>3. /\ req'[p].pc = "debitAd" /\ req'[p].o = n /\ req'[p].doc = req[p].doc /\ req'[p].a = req[p].a
  BY <1>0, <1>1 DEF Request
<1>4. orders'[n] = req[p].doc /\ \A o \in OrderIds \ {n} : orders'[o] = orders[o]
  BY <1>0, <1>1
<1>5. req[p].o = 0 /\ 0 \notin OrderIds
  BY <1>2 DEF OnePerOrder, NoOrderPCs, OrderIds
<1>6. ASSUME NEW o \in OrderIds PROVE Counts(o)' <=> Counts(o)
  <2>1. CASE o = n
    BY <1>1, <1>3, <2>1 DEF Counts, Pending
  <2>2. CASE o # n
    <3>1. orders'[o] = orders[o]
      BY <1>4, <2>2
    <3>2. (\A q \in Procs : req'[q].o = o => ~Pending(req'[q]))
            <=> (\A q \in Procs : req[q].o = o => ~Pending(req[q]))
      BY <1>3, <1>5, <2>2 DEF OnlyMoves
    <3> QED BY <3>1, <3>2 DEF Counts, Exists
  <2> QED BY <2>1, <2>2
<1>7. req[p].a \in Ads /\ req[p].ad \in AdDoc /\ req[p].ad = ads[req[p].a] /\ req[p].doc.ad = req[p].a
  BY <1>2 DEF IInv, RequestsJustified, HoldsCopies, CreatePCs, SingleInv, AdIsCurrent, CapInv,
     RequestsNameAds, NamesItsAd
<1>8. IsPosted(req[p].doc.ad)
  BY <1>7, OrderFlowAssumption DEF IsPosted, OrderFlowAssumption
<1>9. NamesItsAd(req[p])'
  BY <1>3, <1>4, <1>7 DEF NamesItsAd
<1>10. \A o \in OrderIds : Exists(o)' => Exists(o) \/ IsPosted(orders'[o].ad)
  BY <1>4, <1>8 DEF Exists
<1> QED BY <1>2, <1>6, <1>9, <1>10, CapStep

(* A document is written by a request that is still to finish, so the order  *)
(* was live; it counts afterwards unless it is written as cancelled.         *)
LEMMA CapWrites ==
  ASSUME IInv, SerialInv, SingleInv, CapInv, TermsKept, NEW p \in Procs, OnlyMoves(p),
         \A q \in Procs \ {p} : req[q].pc = "idle", WriteMarked(p) \/ WriteOrder(p)
  PROVE  CapInv'
<1>0. /\ TypeOK /\ orders \in [OrderIds -> OrderDoc \cup {NoOrder}] /\ req \in [Procs -> Request]
      /\ NoOrder \notin OrderDoc
  BY OrderFlowAssumption DEF IInv, TypeOK, OrderFlowAssumption
<1>1. req[p].pc \in CopyPCs /\ req[p].pc \in {"writeMarked", "writeOrder"}
  BY DEF WriteMarked, WriteOrder, At, CopyPCs, PCs, CreatePCs
<1>2. PICK n \in OrderIds : n = req[p].o /\ Exists(n) /\ req[p].doc \in OrderDoc /\ n # 0
  BY <1>1, AtCopy DEF OrderIds
<1>3. orders' = [orders EXCEPT ![n] = req[p].doc] /\ UNCHANGED ads
  BY <1>2 DEF WriteMarked, WriteOrder
<1>4. orders'[n] = req[p].doc /\ \A o \in OrderIds \ {n} : orders'[o] = orders[o]
  BY <1>0, <1>3
<1>5. Fits(req[p])
  BY <1>2 DEF SerialInv, RequestsOnCourse, OnCourse
<1>6. /\ orders[n].status # "cancelled"
      /\ WriteMarked(p) => req[p].doc.status = "payment_marked"
  <2>1. CASE WriteMarked(p)
    BY <1>2, <1>5, <2>1 DEF Fits, WriteMarked, At
  <2>2. CASE WriteOrder(p)
    <3>1. Leaves(req[p].op, orders[n].status) /\ req[p].pc = "writeOrder"
      BY <1>2, <1>5, <2>2 DEF Fits, WriteOrder, At, SettlingPCs
    <3> QED BY <2>2, <3>1 DEF Leaves, IsDisputable, IsCancellable, WriteMarked, At
  <2> QED BY <2>1, <2>2
<1>7. req'[p].o \in {n, 0} /\ ~Pending(req'[p]) /\ req'[p].pc \notin CreatePCs \cup {"writeAd"}
  <2>1. CASE WriteMarked(p)
    <3>1. GotoWith(p, "writeOrder", "payment_confirmed")
      BY <2>1 DEF WriteMarked
    <3>2. /\ req'[p].pc = "writeOrder" /\ req'[p].o = n
          /\ req'[p].doc = [req[p].doc EXCEPT !.status = "payment_confirmed"]
      BY <1>0, <1>2, <3>1, GotoWithFields
    <3>3. req'[p].doc.status = "payment_confirmed"
      BY <1>2, <3>2 DEF OrderDoc
    <3> QED BY <3>2, <3>3 DEF Pending, CreatePCs
  <2>2. CASE WriteOrder(p)
    <3>1. Goto(p, "openDispute") \/ Goto(p, "closeDispute") \/ Finish(p)
      BY <2>2 DEF WriteOrder
    <3>2. req'[p].pc \in {"openDispute", "closeDispute", "idle"} /\ req'[p].o \in {n, 0}
      BY <1>0, <1>2, <3>1, GotoFields, FinishFields
    <3> QED BY <3>2 DEF Pending, CreatePCs
  <2> QED BY <2>1, <2>2
<1>8. \A q \in Procs \ {p} : ~Pending(req[q]) /\ ~Pending(req'[q]) /\ req'[q] = req[q]
  BY DEF OnlyMoves, Pending
<1>9. Pending(req[p]) <=> req[p].doc.status = "cancelled"
  BY <1>1, <1>6 DEF Pending, WriteMarked, WriteOrder, At
<1>10. ASSUME NEW o \in OrderIds PROVE Counts(o)' <=> Counts(o)
  <2>1. CASE o = n
    <3>1. Counts(o)' <=> req[p].doc.status # "cancelled"
      BY <1>0, <1>2, <1>4, <1>7, <1>8, <2>1 DEF Counts, Exists
    <3>2. Counts(o) <=> ~Pending(req[p])
      BY <1>2, <1>6, <1>8, <2>1 DEF Counts
    <3> QED BY <1>9, <3>1, <3>2
  <2>2. CASE o # n
    <3>1. orders'[o] = orders[o]
      BY <1>4, <2>2
    <3>2. (\A q \in Procs : req'[q].o = o => ~Pending(req'[q]))
            <=> (\A q \in Procs : req[q].o = o => ~Pending(req[q]))
      BY <1>2, <1>7, <1>8, <2>2
    <3> QED BY <3>1, <3>2 DEF Counts, Exists
  <2> QED BY <2>1, <2>2
<1>11. NamesItsAd(req[p])'
  BY <1>7 DEF NamesItsAd, CreatePCs
<1>12. \A o \in OrderIds : Exists(o)' => Exists(o)
  BY <1>2, <1>4 DEF Exists
<1> QED BY <1>3, <1>10, <1>11, <1>12, CapStep

(* Two steps move an amount between an ad and an order: what the one offers  *)
(* less, the other starts to count.                                         *)
LEMMA CapMove ==
  ASSUME IInv, IInv', CapInv, NEW p \in Procs, OnlyMoves(p), UNCHANGED orders,
         \A q \in Procs \ {p} : req[q].pc = "idle",
         NEW b \in Ads, IsPosted(b), NEW x \in Nat, NEW s,
         ads' = [ads EXCEPT ![b] = [avail |-> x, status |-> s]],
         s \in Fitting(x),
         NEW n \in OrderIds, Exists(n), orders[n].ad = b,
         \A o \in OrderIds \ {n} : Counts(o)' <=> Counts(o),
         \/ Counts(n) /\ ~Counts(n)' /\ x = ads[b].avail + orders[n].amount
         \/ ~Counts(n) /\ Counts(n)' /\ x = ads[b].avail - orders[n].amount,
         req'[p].pc \notin CreatePCs \cup {"writeAd"}
  PROVE  CapInv'
<1>0. /\ TypeOK /\ TypeOK' /\ ads \in [Ads -> AdDoc \cup {NoAd}] /\ NoAd \notin AdDoc
  BY OrderFlowAssumption DEF IInv, TypeOK, OrderFlowAssumption
<1>1. /\ ads'[b].avail = x /\ ads'[b].status = s
      /\ \A a \in Ads \ {b} : ads'[a] = ads[a]
  BY <1>0
<1>2. PICK k \in Nat, v \in Nat : k = orders[n].amount /\ v = ads[b].avail
  <2>1. ads[b].avail \in Nat
    BY DEF CapInv, AdsAddUp
  <2> QED BY <1>0, <2>1, EntryTypes
<1>3. ASSUME NEW a \in Ads, IsPosted(a)'
      PROVE  /\ ads'[a].avail \in Nat
             /\ ads'[a].avail + SumOver(TakenFrom(a), OrderIds)' = Capacity[a]
             /\ ads'[a].status \in Fitting(ads'[a].avail)
  <2>1. PICK t \in Nat : t = SumOver(TakenFrom(a), OrderIds)
    BY <1>0, TakenTypes
  <2>2. SumOver(TakenFrom(a), OrderIds)' = t
          + IF orders[n].ad # a \/ (Counts(n)' <=> Counts(n)) THEN 0
            ELSE IF Counts(n)' THEN k ELSE -k
    BY <1>0, <1>2, <2>1, TakenChanges
  <2>3. CASE a = b
    <3>1. v + t = Capacity[a]
      BY <1>2, <2>1, <2>3 DEF CapInv, AdsAddUp
    <3>2. CASE Counts(n) /\ ~Counts(n)' /\ x = v + k
      <4>1. SumOver(TakenFrom(a), OrderIds)' = t + -k
        BY <2>2, <2>3, <3>2
      <4>2. x + (t + -k) = v + t
        BY <3>2
      <4> QED BY <1>1, <2>3, <3>1, <4>1, <4>2
    <3>3. CASE ~Counts(n) /\ Counts(n)' /\ x = v - k
      <4>1. SumOver(TakenFrom(a), OrderIds)' = t + k
        BY <2>2, <2>3, <3>3
      <4>2. x + (t + k) = v + t
        BY <3>3
      <4> QED BY <1>1, <2>3, <3>1, <4>1, <4>2
    <3> QED BY <1>2, <3>2, <3>3
  <2>4. CASE a # b
    <3>1. SumOver(TakenFrom(a), OrderIds)' = t + 0
      BY <2>2, <2>4
    <3>2. SumOver(TakenFrom(a), OrderIds)' = t
      BY <3>1
    <3>3. ads'[a] = ads[a] /\ IsPosted(a)
      BY <1>1, <1>3, <2>4 DEF IsPosted
    <3> QED BY <2>1, <3>2, <3>3 DEF CapInv, AdsAddUp
  <2> QED BY <2>3, <2>4
<1>4. AdsAddUp'
  BY <1>3 DEF AdsAddUp
<1>5. \A a \in Ads : IsPosted(a) => IsPosted(a)'
  <2>1. ads'[b] = [avail |-> x, status |-> s] /\ s \in AdStatuses \cup (EditStatuses \ {Absent})
    BY <1>0 DEF AdStatuses, Fitting
  <2>2. ads'[b] \in AdDoc
    BY <2>1 DEF AdDoc
  <2> QED BY <1>0, <1>1, <2>2 DEF IsPosted
<1>6. OrdersNameAds'
  <2>1. ASSUME NEW o \in OrderIds, Exists(o)' PROVE ads'[orders'[o].ad] # NoAd
    <3>1. Exists(o) /\ orders'[o].ad = orders[o].ad
      BY <2>1 DEF Exists
    <3>2. IsPosted(orders[o].ad) /\ orders[o].ad \in Ads
      <4>1. orders[o] \in OrderDoc
        BY <1>0, <3>1, EntryTypes
      <4> QED BY <3>1, <4>1 DEF CapInv, OrdersNameAds, OrderDoc
    <3> QED BY <1>5, <3>1, <3>2 DEF IsPosted
  <2> QED BY <2>1 DEF OrdersNameAds, IsPosted
<1>7. RequestsNameAds'
  <2>1. \A q \in Procs : req'[q].pc \notin CreatePCs \cup {"writeAd"}
    BY DEF OnlyMoves, CreatePCs
  <2> QED BY <2>1 DEF RequestsNameAds, NamesItsAd, CreatePCs
<1> QED BY <1>4, <1>6, <1>7 DEF CapInv

(* How exact amounts leave and enter an ad *)
LEMMA ExactAmounts ==
  ASSUME Exactly, IInv, CapInv, NEW b \in Ads, IsPosted(b)
  PROVE  /\ ads[b] \in AdDoc /\ ads[b].avail \in Nat
         /\ ads[b].status \in Fitting(ads[b].avail)
         /\ \A k \in Nat : k <= ads[b].avail => Rounded(ads[b].avail - k) = ads[b].avail - k
         /\ \A n \in OrderIds : Counts(n) /\ orders[n].ad = b =>
              Rounded(ads[b].avail + orders[n].amount) = ads[b].avail + orders[n].amount
<1>0. /\ TypeOK /\ ads \in [Ads -> AdDoc \cup {NoAd}] /\ Exact \in Nat
      /\ Capacity[b] \in Nat /\ Capacity[b] <= Exact
  BY OrderFlowAssumption DEF IInv, TypeOK, OrderFlowAssumption, Exactly
<1>1. ads[b] \in AdDoc
  BY <1>0 DEF IsPosted
<1>2. PICK v \in Nat : v = ads[b].avail
  BY DEF CapInv, AdsAddUp
<1>3. PICK F, t : t \in Nat /\ F = TakenFrom(b) /\ t = SumOver(F, OrderIds)
  BY <1>0, TakenTypes
<1>4. v + t = Capacity[b] /\ v <= Exact
  <2>1. v + t = Capacity[b]
    BY <1>2, <1>3 DEF CapInv, AdsAddUp
  <2> QED BY <1>0, <1>3, <2>1
<1>5. ASSUME NEW k \in Nat, k <= v PROVE Rounded(v - k) = v - k
  BY <1>0, <1>4, <1>5, RoundedNear
<1>6. ASSUME NEW n \in OrderIds, Counts(n), orders[n].ad = b
      PROVE  Rounded(v + orders[n].amount) = v + orders[n].amount
  <2>1. PICK k \in Nat : k = orders[n].amount
    BY <1>0, <1>6, EntryTypes DEF Counts
  <2>2. F[n] = k
    BY <1>3, <1>6, <2>1 DEF TakenFrom
  <2>3. \A o \in OrderIds : F[o] \in Int /\ F[o] \in Nat
    BY <1>0, <1>3, TakenTypes
  <2>4. t = F[n] + SumOver(F, OrderIds \ {n})
    BY <1>3, <2>3, OrderIdsFinite, SumTake
  <2>5. SumOver(F, OrderIds \ {n}) \in Nat
    <3>1. IsFiniteSet(OrderIds \ {n})
      BY OrderIdsFinite, FS_Difference
    <3> QED BY <2>3, <3>1, SumType
  <2>6. v + k <= Exact
    BY <1>0, <1>4, <2>2, <2>4, <2>5
  <2>7. Rounded(v + k) = v + k
    BY <2>6, RoundedNear
  <2> QED BY <2>1, <2>7
<1>7. ads[b].status \in Fitting(ads[b].avail)
  BY DEF CapInv, AdsAddUp
<1> QED BY <1>1, <1>2, <1>5, <1>6, <1>7

LEMMA CapDebitAd ==
  ASSUME Exactly, IInv, IInv', SerialInv, SingleInv, CapInv, NEW p \in Procs, OnlyMoves(p),
         \A q \in Procs \ {p} : req[q].pc = "idle", DebitAd(p)
  PROVE  CapInv'
<1>0. TypeOK /\ NoAd \notin AdDoc
  BY OrderFlowAssumption DEF IInv, OrderFlowAssumption
<1>1. req[p].pc = "debitAd" /\ UNCHANGED orders
  BY DEF DebitAd, At
<1>2. PICK b \in Ads : /\ b = req[p].a /\ req[p].ad = ads[b] /\ IsPosted(b)
                       /\ req[p].ad.status = "active" /\ req[p].doc.amount <= ads[b].avail
  <2>1. /\ req[p].a \in Ads /\ req[p].ad \in AdDoc /\ req[p].doc.amount <= req[p].ad.avail
    BY <1>1 DEF IInv, RequestsJustified, HoldsCopies, CreatePCs
  <2>2. req[p].ad = ads[req[p].a] /\ req[p].ad.status = "active"
    BY <1>1 DEF SingleInv, AdIsCurrent, CreatePCs
  <2> QED BY <1>0, <2>1, <2>2 DEF IsPosted
<1>3. PICK n \in OrderIds : n = req[p].o /\ Exists(n) /\ n # 0
  BY <1>1, AboutAnOrder DEF NoOrderPCs, OrderIds
<1>4. orders[n].ad = b /\ orders[n].amount = req[p].doc.amount
  BY <1>1, <1>2, <1>3 DEF CapInv, RequestsNameAds, NamesItsAd
<1>5. PICK k \in Nat, v \in Nat : k = orders[n].amount /\ v = ads[b].avail /\ k <= v
  BY <1>0, <1>2, <1>3, <1>4, EntryTypes, ExactAmounts
<1>6. Rounded(req[p].ad.avail - req[p].doc.amount) = v - k
  BY <1>2, <1>4, <1>5, ExactAmounts
<1>7. PICK x, s : /\ x \in Nat /\ x = v - k /\ s = IF x <= 0 THEN "paused" ELSE "active"
                  /\ ads' = [ads EXCEPT ![b] = [avail |-> x, status |-> s]]
  <2>1. v - k \in Nat
    BY <1>5
  <2> QED BY <1>2, <1>6, <2>1 DEF DebitAd
<1>8. s \in Fitting(x)
  BY <1>7 DEF Fitting
<1>9. req'[p].pc \in {"idle", "lockFunds"}
  <2>1. Finish(p) \/ Goto(p, "lockFunds")
    BY DEF DebitAd
  <2> QED BY <1>0, <2>1, FinishFields, GotoFields
<1>10. orders[n].status = "awaiting_payment"
  BY <1>1, <1>3 DEF SerialInv, RequestsOnCourse, OnCourse, Fits
<1>11. ~Counts(n)
  BY <1>1, <1>3 DEF Counts, Pending
<1>12. \A q \in Procs : ~Pending(req'[q])
  BY <1>9 DEF OnlyMoves, Pending
<1>13. Counts(n)'
  BY <1>1, <1>3, <1>10, <1>12 DEF Counts, Exists
<1>14. \A o \in OrderIds \ {n} : Counts(o)' <=> Counts(o)
  <2> SUFFICES ASSUME NEW o \in OrderIds \ {n} PROVE Counts(o)' <=> Counts(o)
    OBVIOUS
  <2>1. \A q \in Procs : req[q].o = o => ~Pending(req[q])
    BY <1>3 DEF Pending
  <2> QED BY <1>1, <1>12, <2>1 DEF Counts, Exists
<1>15. req'[p].pc \notin CreatePCs \cup {"writeAd"}
  BY <1>9 DEF CreatePCs
<1>16. x = ads[b].avail - orders[n].amount
  BY <1>5, <1>7
<1> QED BY <1>1, <1>2, <1>3, <1>4, <1>7, <1>8, <1>11, <1>13, <1>14, <1>15, <1>16, CapMove

LEMMA CapRestoreAd ==
  ASSUME Exactly, IInv, IInv', SerialInv, SingleInv, CapInv, NEW p \in Procs, OnlyMoves(p),
         \A q \in Procs \ {p} : req[q].pc = "idle", RestoreAd(p)
  PROVE  CapInv'
<1>0. TypeOK /\ NoAd \notin AdDoc
  BY OrderFlowAssumption DEF IInv, OrderFlowAssumption
<1>1. req[p].pc = "restoreAd" /\ UNCHANGED orders
  BY DEF RestoreAd, At
<1>2. req[p].pc \in CopyPCs /\ req[p].pc \in SettlingPCs
  BY <1>1 DEF CopyPCs, PCs, CreatePCs, SettlingPCs
<1>3. PICK n \in OrderIds : /\ n = req[p].o /\ Exists(n) /\ n # 0 /\ req[p].doc \in OrderDoc
                            /\ SameTerms(req[p].doc, orders[n])
  BY <1>2, AtCopy DEF OrderIds, Known
<1>4. PICK b \in Ads : b = req[p].doc.ad /\ b = orders[n].ad /\ IsPosted(b)
  BY <1>3 DEF SameTerms, OrderDoc, CapInv, OrdersNameAds
<1>5. req[p].ad = ads[b]
  BY <1>1, <1>4 DEF SingleInv, AdIsCurrent
<1>6. orders[n].status # "cancelled"
  <2>1. Leaves(req[p].op, orders[n].status)
    BY <1>2, <1>3 DEF SerialInv, RequestsOnCourse, OnCourse, Fits
  <2> QED BY <2>1 DEF Leaves, IsDisputable, IsCancellable
<1>7. \A q \in Procs : ~Pending(req[q])
  BY <1>1 DEF Pending
<1>8. Counts(n)
  BY <1>3, <1>6, <1>7 DEF Counts
<1>9. PICK k \in Nat \ {0}, v \in Nat : k = orders[n].amount /\ v = ads[b].avail
  BY <1>0, <1>3, <1>4, EntryTypes, ExactAmounts
<1>10. Rounded(req[p].ad.avail + req[p].doc.amount) = v + k
  <2>1. req[p].doc.amount = k /\ req[p].ad.avail = v
    BY <1>3, <1>5, <1>9 DEF SameTerms
  <2> QED BY <1>4, <1>8, <1>9, <2>1, ExactAmounts
<1>11. PICK x, s : /\ x \in Nat /\ x = v + k
                   /\ s = IF ads[b].status = "paused" THEN "active" ELSE ads[b].status
                   /\ ads' = [ads EXCEPT ![b] = [avail |-> x, status |-> s]]
  <2>1. v + k \in Nat
    BY <1>9
  <2> QED BY <1>4, <1>5, <1>10, <2>1 DEF RestoreAd
<1>12. s \in Fitting(x)
  <2>1. ads[b].status \in (EditStatuses \ {Absent}) \cup {"paused", "active"}
    BY <1>4, ExactAmounts DEF Fitting
  <2>2. x # 0
    BY <1>9, <1>11
  <2> QED BY <1>11, <2>1, <2>2 DEF Fitting
<1>13. GotoWith(p, "writeOrder", "cancelled")
  BY DEF RestoreAd
<1>14. /\ req'[p].pc = "writeOrder" /\ req'[p].o = n
       /\ req'[p].doc = [req[p].doc EXCEPT !.status = "cancelled"]
  BY <1>0, <1>3, <1>13, GotoWithFields
<1>15. req'[p].doc.status = "cancelled"
  BY <1>3, <1>14 DEF OrderDoc
<1>16. ~Counts(n)'
  BY <1>14, <1>15 DEF Counts, Pending
<1>17. \A o \in OrderIds \ {n} : Counts(o)' <=> Counts(o)
  <2> SUFFICES ASSUME NEW o \in OrderIds \ {n} PROVE Counts(o)' <=> Counts(o)
    OBVIOUS
  <2>1. \A q \in Procs : req'[q].o = o => ~Pending(req'[q])
    BY <1>7, <1>14 DEF OnlyMoves
  <2> QED BY <1>1, <1>7, <2>1 DEF Counts, Exists
<1>18. req'[p].pc \notin CreatePCs \cup {"writeAd"}
  BY <1>14 DEF CreatePCs
<1>19. x = ads[b].avail + orders[n].amount
  BY <1>9, <1>11
<1> QED BY <1>1, <1>3, <1>4, <1>8, <1>11, <1>12, <1>16, <1>17, <1>18, <1>19, CapMove

(* An admin's edit writes the ad back as it was, but for its status. *)
LEMMA CapWriteAd ==
  ASSUME Exactly, IInv, SingleInv, CapInv, NEW p \in Procs, OnlyMoves(p),
         \A q \in Procs \ {p} : req[q].pc = "idle", WriteAd(p)
  PROVE  CapInv'
<1>0. /\ TypeOK /\ ads \in [Ads -> AdDoc \cup {NoAd}] /\ NoAd \notin AdDoc
  BY OrderFlowAssumption DEF IInv, TypeOK, OrderFlowAssumption
<1>1. /\ req[p].pc = "writeAd" /\ UNCHANGED orders /\ Finish(p)
      /\ ads' = [ads EXCEPT ![req[p].a] = req[p].ad]
  BY DEF WriteAd, At
<1>2. PICK b \in Ads : /\ b = req[p].a /\ IsPosted(b) /\ req[p].ad \in AdDoc
                       /\ req[p].ad.avail = ads[b].avail
                       /\ req[p].ad.status \in (EditStatuses \ {Absent}) \cup {ads[b].status}
  BY <1>1 DEF IInv, RequestsJustified, HoldsCopies, CapInv, RequestsNameAds, NamesItsAd
<1>3. /\ ads'[b] = req[p].ad /\ \A a \in Ads \ {b} : ads'[a] = ads[a]
  BY <1>0, <1>1, <1>2
<1>4. \A q \in Procs : req'[q].pc = "idle"
  <2>1. OnlyMoves(p) /\ req'[p].pc = "idle"
    BY <1>0, <1>1, FinishFields
  <2> QED BY <2>1 DEF OnlyMoves
<1>5. \A q \in Procs : ~Pending(req[q]) /\ ~Pending(req'[q])
  BY <1>1, <1>4 DEF Pending
<1>6. \A o \in OrderIds : Counts(o)' <=> Counts(o)
  BY <1>1, <1>5, CountsClean
<1>7. TermsKept
  BY <1>1 DEF TermsKept, Exists
<1>8. AdsAddUp'
  <2> SUFFICES ASSUME NEW a \in Ads, IsPosted(a)'
               PROVE  /\ ads'[a].avail \in Nat
                      /\ ads'[a].avail + SumOver(TakenFrom(a), OrderIds)' = Capacity[a]
                      /\ ads'[a].status \in Fitting(ads'[a].avail)
    BY DEF AdsAddUp
  <2>1. TakenFrom(a)' = TakenFrom(a)
    BY <1>6, <1>7, SameTaken
  <2>2. SumOver(TakenFrom(a), OrderIds)' = SumOver(TakenFrom(a), OrderIds)
    BY <2>1
  <2>3. /\ IsPosted(a) /\ ads'[a].avail = ads[a].avail
        /\ ads'[a].status \in (EditStatuses \ {Absent}) \cup {ads[a].status}
    BY <1>2, <1>3 DEF IsPosted
  <2> QED BY <2>2, <2>3 DEF CapInv, AdsAddUp, Fitting
<1>9. OrdersNameAds'
  <2>1. \A a \in Ads : IsPosted(a) => IsPosted(a)'
    BY <1>0, <1>2, <1>3 DEF IsPosted
  <2>2. \A o \in OrderIds : Exists(o) => orders[o].ad \in Ads
    BY <1>0, EntryTypes DEF OrderDoc
  <2>3. ASSUME NEW o \in OrderIds, Exists(o)' PROVE ads'[orders'[o].ad] # NoAd
    BY <1>1, <2>1, <2>2, <2>3 DEF CapInv, OrdersNameAds, Exists, IsPosted
  <2> QED BY <2>3 DEF OrdersNameAds, IsPosted
<1>10. RequestsNameAds'
  BY <1>4 DEF RequestsNameAds, NamesItsAd, CreatePCs
<1> QED BY <1>8, <1>9, <1>10 DEF CapInv

(* A new ad offers all it is posted with. *)
LEMMA CapPostAd ==
  ASSUME IInv, SingleInv, CapInv, UNCHANGED <<req, orders>>, NEW b \in Ads, PostAd(b)
  PROVE  CapInv'
<1>0. /\ TypeOK /\ ads \in [Ads -> AdDoc \cup {NoAd}] /\ NoAd \notin AdDoc
      /\ Capacity[b] \in Nat \ {0}
  BY OrderFlowAssumption DEF IInv, TypeOK, OrderFlowAssumption
<1>1. /\ ~IsPosted(b) /\ ads'[b] = [avail |-> Capacity[b], status |-> "active"]
      /\ \A a \in Ads \ {b} : ads'[a] = ads[a]
  BY <1>0 DEF PostAd
<1>2. \A o \in OrderIds : Counts(o)' <=> Counts(o)
  BY CountsClean
<1>3. TermsKept
  BY DEF TermsKept, Exists
<1>4. \A a \in Ads : TakenFrom(a)' = TakenFrom(a)
  BY <1>2, <1>3, SameTaken
<1>5. SumOver(TakenFrom(b), OrderIds) = 0
  <2>1. \A o \in OrderIds : TakenFrom(b)[o] = 0
    BY <1>1 DEF TakenFrom, Counts, CapInv, OrdersNameAds
  <2> QED BY <2>1, OrderIdsFinite, SumZero
<1>6. AdsAddUp'
  <2> SUFFICES ASSUME NEW a \in Ads, IsPosted(a)'
               PROVE  /\ ads'[a].avail \in Nat
                      /\ ads'[a].avail + SumOver(TakenFrom(a), OrderIds)' = Capacity[a]
                      /\ ads'[a].status \in Fitting(ads'[a].avail)
    BY DEF AdsAddUp
  <2>1. TakenFrom(a)' = TakenFrom(a)
    BY <1>4
  <2>2. SumOver(TakenFrom(a), OrderIds)' = SumOver(TakenFrom(a), OrderIds)
    BY <2>1
  <2>3. CASE a = b
    <3>1. ads'[a].avail = Capacity[b] /\ ads'[a].status = "active"
      BY <1>1, <2>3
    <3>2. Capacity[b] + 0 = Capacity[b] /\ Capacity[b] # 0
      BY <1>0
    <3>3. ads'[a].avail \in Nat /\ ads'[a].status \in Fitting(ads'[a].avail)
      BY <1>0, <2>3, <3>1 DEF Fitting
    <3> QED BY <1>5, <2>2, <2>3, <3>1, <3>2, <3>3
  <2>4. CASE a # b
    <3>1. IsPosted(a) /\ ads'[a] = ads[a]
      BY <1>1, <2>4 DEF IsPosted
    <3> QED BY <2>2, <3>1 DEF CapInv, AdsAddUp
  <2> QED BY <2>3, <2>4
<1>7. OrdersNameAds'
  <2>1. \A a \in Ads : IsPosted(a) => IsPosted(a)'
    BY <1>0, <1>1 DEF IsPosted
  <2>2. \A o \in OrderIds : Exists(o) => orders[o].ad \in Ads
    BY <1>0, EntryTypes DEF OrderDoc
  <2>3. ASSUME NEW o \in OrderIds, Exists(o)' PROVE ads'[orders'[o].ad] # NoAd
    BY <2>1, <2>2, <2>3 DEF CapInv, OrdersNameAds, Exists, IsPosted
  <2> QED BY <2>3 DEF OrdersNameAds, IsPosted
<1>8. ASSUME NEW q \in Procs PROVE NamesItsAd(req[q])'
  <2>1. NamesItsAd(req[q])
    BY DEF CapInv, RequestsNameAds
  <2>2. req[q].pc = "writeAd" => req[q].a \in Ads /\ req[q].a # b
    BY <1>1, <2>1 DEF NamesItsAd, IInv, RequestsJustified, HoldsCopies
  <2> QED BY <1>1, <2>1, <2>2 DEF NamesItsAd, IsPosted, CreatePCs
<1>9. RequestsNameAds'
  BY <1>8 DEF RequestsNameAds
<1> QED BY <1>6, <1>7, <1>9 DEF CapInv

(* A new request is about the ad it has just read. *)
LEMMA CapNewRequest ==
  ASSUME Exactly, IInv, NEW w \in Workers, NewRequest(w)
  PROVE  NamesItsAd(req[w])'
<1>0. w \in Procs /\ TypeOK /\ req \in [Procs -> Request] /\ UNCHANGED ads
  BY Begins DEF Exactly, IInv, TypeOK, Procs
<1>1. ASSUME NEW a \in Ads, NEW u \in Takers, NEW amt \in Amounts,
             NEW addr \in Addresses \cup {NoAddress}, CreateOrder(w, a, u, amt, addr)
      PROVE  NamesItsAd(req[w])'
  <2>1. /\ req'[w].pc \in {"checkBalance", "insertOrder"} /\ req'[w].a = a
        /\ req'[w].doc.ad = a
    BY <1>0, <1>1 DEF CreateOrder, NewOrder, Idle
  <2> QED BY <2>1 DEF NamesItsAd
<1>2. ASSUME NEW a \in Ads, EditAd(w, a) PROVE NamesItsAd(req[w])'
  <2>1. PICK s, st, ad :
          /\ s \in EditStatuses /\ st = IF s = Absent THEN ads[a].status ELSE s
          /\ ad = [avail |-> ads[a].avail, status |-> st]
          /\ req' = [req EXCEPT ![w] = [Idle EXCEPT !.op = "editAd", !.pc = "writeAd",
                                                    !.ad = ad, !.a = a]]
    BY <1>2 DEF EditAd, Exactly
  <2>2. req'[w].pc = "writeAd" /\ req'[w].a = a /\ req'[w].ad = ad
    BY <1>0, <2>1 DEF Idle
  <2>3. IsPosted(a) /\ ad.avail = ads[a].avail /\ ad.status = st
    BY <1>2, <2>1 DEF EditAd
  <2> QED BY <1>0, <2>1, <2>2, <2>3 DEF NamesItsAd, IsPosted, CreatePCs
<1>3. ASSUME req'[w].pc \notin CreatePCs \cup {"writeAd"} PROVE NamesItsAd(req[w])'
  BY <1>3 DEF NamesItsAd, CreatePCs
<1>4. CASE \E o \in OrderIds, u \in Users :
             \/ MarkPaid(w, o, u) \/ ConfirmPayment(w, o, u)
             \/ RaiseDispute(w, o, u) \/ Cancel(w, o, u)
             \/ \E tx \in Txs : SubmitDeposit(w, o, u, tx)
  <2>1. PICK op, pc, o, doc : /\ Start(w, op, pc, o, doc)
                              /\ pc \in {"writeOrder", "markDisputed", "unlock", "readAd",
                                         "verifyDeposit"}
    BY <1>4 DEF MarkPaid, ConfirmPayment, RaiseDispute, Cancel, SubmitDeposit, UnwindPC
  <2>2. req'[w].pc = pc
    BY <1>0, <2>1, StartFields
  <2> QED BY <1>3, <2>1, <2>2 DEF CreatePCs
<1>5. CASE \E o \in OrderIds : Release(w, o)
  <2>1. PICK op, pc, o, doc : Start(w, op, pc, o, doc) /\ pc \in {"checkWhitelist", "creditDeposit"}
    BY <1>5 DEF Release, SettlePC
  <2>2. req'[w].pc = pc
    BY <1>0, <2>1, StartFields
  <2> QED BY <1>3, <2>1, <2>2 DEF CreatePCs
<1>6. CASE \E d \in DisputeIds, op \in Resolutions : ResolveDispute(w, d, op)
  <2>1. req'[w].pc = "readDisputed"
    BY <1>0, <1>6 DEF ResolveDispute, Idle
  <2> QED BY <1>3, <2>1 DEF CreatePCs
<1> QED BY <1>1, <1>2, <1>4, <1>5, <1>6 DEF NewRequest

LEMMA NextCap ==
  ASSUME Exactly, IInv, IInv', SerialInv, SingleInv, CapInv, TermsKept, [Next]_vars
  PROVE  CapInv'
<1>0. Overlap = "none" /\ MaxFailures = 0 /\ Procs = Workers \cup {Sweeper}
  BY DEF Exactly, Procs
<1>1. CASE req' = req /\ orders' = orders /\ (ads' = ads \/ \E a \in Ads : PostAd(a))
  <2>1. CASE ads' = ads
    <3>1. \A o \in OrderIds : Counts(o)' <=> Counts(o)
      BY <1>1, CountsClean
    <3>2. \A a \in Ads : TakenFrom(a)' = TakenFrom(a)
      BY <3>1, SameTaken
    <3>3. AdsAddUp'
      <4> SUFFICES ASSUME NEW a \in Ads, IsPosted(a)'
                   PROVE  /\ ads'[a].avail \in Nat
                          /\ ads'[a].avail + SumOver(TakenFrom(a), OrderIds)' = Capacity[a]
                          /\ ads'[a].status \in Fitting(ads'[a].avail)
        BY DEF AdsAddUp
      <4>1. TakenFrom(a)' = TakenFrom(a)
        BY <3>2
      <4>2. SumOver(TakenFrom(a), OrderIds)' = SumOver(TakenFrom(a), OrderIds)
        BY <4>1
      <4> QED BY <2>1, <4>2 DEF CapInv, AdsAddUp, IsPosted
    <3>4. OrdersNameAds' /\ RequestsNameAds'
      BY <1>1, <2>1 DEF CapInv, OrdersNameAds, RequestsNameAds, NamesItsAd, Exists, IsPosted, CreatePCs
    <3> QED BY <3>3, <3>4 DEF CapInv
  <2>2. CASE \E a \in Ads : PostAd(a)
    BY <1>1, <2>2, CapPostAd
  <2> QED BY <1>1, <2>1, <2>2
<1>2. ASSUME NEW p \in Procs, OnlyMoves(p), \A q \in Procs \ {p} : req[q].pc = "idle",
             \/ Continue(p)
             \/ NewRequest(p) /\ p \in Workers
             \/ /\ req[p].pc = "idle" /\ req'[p].pc \in {"unlock", "readAd"}
                /\ UNCHANGED <<orders, ads>>
      PROVE  CapInv'
  <2>1. ASSUME UNCHANGED <<orders, ads>>, ~Pending(req[p]), ~Pending(req'[p]), NamesItsAd(req[p])'
        PROVE  CapInv'
    <3>1. \A o \in OrderIds : Counts(o)' <=> Counts(o)
      BY <1>2, <2>1, CountsClean DEF OnlyMoves
    <3>2. \A o \in OrderIds : Exists(o)' => Exists(o)
      BY <2>1 DEF Exists
    <3> QED BY <1>2, <2>1, <3>1, <3>2, CapStep
  <2>2. CASE NewRequest(p) /\ p \in Workers
    <3>1. UNCHANGED <<orders, ads>> /\ req[p].pc = "idle"
      BY <1>0, <1>2, <2>2, Begins DEF Quiet
    <3>2. ~Pending(req'[p]) /\ NamesItsAd(req[p])'
      BY <2>2, BeginsClean, CapNewRequest
    <3> QED BY <2>1, <3>1, <3>2 DEF Pending
  <2>3. CASE req[p].pc = "idle" /\ req'[p].pc \in {"unlock", "readAd"} /\ UNCHANGED <<orders, ads>>
    BY <2>1, <2>3 DEF Pending, NamesItsAd, CreatePCs
  <2>4. CASE Continue(p) /\ ~Special(p)
    <3>1. /\ UNCHANGED <<orders, ads>> /\ ~Pending(req[p]) /\ ~Pending(req'[p])
          /\ req'[p].pc \notin {"debitAd", "writeAd"}
          /\ req'[p].pc \in CreatePCs => req[p].pc \in CreatePCs /\ req'[p].doc = req[p].doc
                                         /\ req'[p].a = req[p].a
      BY <2>4, OtherCallsClean
    <3>2. NamesItsAd(req[p])'
      <4>1. NamesItsAd(req[p])
        BY DEF CapInv, RequestsNameAds
      <4>2. req'[p].pc \in CreatePCs => req'[p].doc.ad = req'[p].a
        BY <3>1, <4>1 DEF NamesItsAd
      <4> QED BY <3>1, <4>2 DEF NamesItsAd
    <3> QED BY <2>1, <3>1, <3>2
  <2>5. CASE Special(p)
    <3>1. OnePerOrder
      BY DEF SerialInv
    <3> QED BY <1>2, <2>5, <3>1, CapInsertOrder, CapDebitAd, CapRestoreAd, CapWrites, CapWriteAd
            DEF Special
  <2> QED BY <1>2, <2>2, <2>3, <2>4, <2>5
<1> QED BY <1>0, <1>1, <1>2, OneMoves

(* While amounts are exact and one request goes on at a time, an ad's open   *)
(* amount and what its uncancelled orders took always add up to what it was  *)
(* posted with, and unless an admin set its status, it is paused exactly     *)
(* when nothing is open: every order is debited once (DebitAd) and every     *)
(* cancelled one given back once (restoreAdCapacity).                        *)
THEOREM AdCapacityAddsUp == ASSUME Exactly PROVE Spec => []AdCapacityConserved
<1> DEFINE Terms == \A o \in OrderIds : Exists(o) =>
                      /\ orders'[o] # NoOrder
                      /\ \A f \in {"ad", "taker", "amount", "addr"} : orders'[o][f] = orders[o][f]
<1>1. Init => CapInv
  <2> SUFFICES ASSUME Init PROVE CapInv
    OBVIOUS
  <2>1. \A p \in Procs : req[p].pc = "idle"
    BY DEF Init, Idle
  <2>2. \A o \in OrderIds : ~Exists(o)
    BY DEF Init, Exists
  <2>3. ASSUME NEW a \in Ads, IsPosted(a)
        PROVE  /\ ads[a].avail \in Nat
               /\ ads[a].avail + SumOver(TakenFrom(a), OrderIds) = Capacity[a]
               /\ ads[a].status \in Fitting(ads[a].avail)
    <3>1. \A o \in OrderIds : TakenFrom(a)[o] = 0
      BY <2>2 DEF TakenFrom, Counts
    <3>2. SumOver(TakenFrom(a), OrderIds) = 0
      BY <3>1, OrderIdsFinite, SumZero
    <3>3. ads[a].avail = Capacity[a] /\ ads[a].status = "active"
      BY <2>3 DEF Init, IsPosted
    <3>4. Capacity[a] \in Nat \ {0}
      BY OrderFlowAssumption DEF OrderFlowAssumption
    <3>5. Capacity[a] + 0 = Capacity[a] /\ Capacity[a] # 0
      BY <3>4
    <3>6. ads[a].avail \in Nat /\ ads[a].status \in Fitting(ads[a].avail)
      BY <3>3, <3>4 DEF Fitting
    <3> QED BY <3>2, <3>3, <3>5, <3>6
  <2> QED BY <2>1, <2>2, <2>3 DEF CapInv, AdsAddUp, OrdersNameAds, RequestsNameAds, NamesItsAd, CreatePCs
<1>2. IInv /\ IInv' /\ SingleInv /\ SerialInv /\ CapInv /\ [Next]_vars /\ [Terms]_vars => CapInv'
  <2> SUFFICES ASSUME IInv, IInv', SingleInv, SerialInv, CapInv, [Next]_vars, [Terms]_vars
               PROVE  CapInv'
    OBVIOUS
  <2>1. TermsKept
    <3>1. CASE Terms
      BY <3>1 DEF TermsKept
    <3>2. CASE UNCHANGED vars
      BY <3>2 DEF TermsKept, Exists, vars
    <3> QED BY <3>1, <3>2
  <2> QED BY <2>1, NextCap
<1>3. IInv /\ CapInv => AdCapacityConserved
  <2> SUFFICES ASSUME IInv, CapInv, Quiet, NEW a \in Ads, IsPosted(a),
                      NEW of, of = {o \in OrderIds : Exists(o) /\ orders[o].ad = a},
                      NEW back, back = {o \in of : Status(o) = "cancelled"}
               PROVE  /\ Near(ads[a].avail + AmountOf(of \ back), Capacity[a],
                              Cardinality(of) + Cardinality(back), Capacity[a])
                      /\ ads[a].status \in Fitting(ads[a].avail)
    BY DEF AdCapacityConserved, Fitting
  <2>1. /\ ads[a].avail + SumOver(TakenFrom(a), OrderIds) = Capacity[a]
        /\ ads[a].status \in Fitting(ads[a].avail)
    BY DEF CapInv, AdsAddUp
  <2>2. PICK F, A : F = TakenFrom(a) /\ A = [o \in of \ back |-> orders[o].amount]
    OBVIOUS
  <2>3. \A o \in OrderIds : Counts(o) <=> Exists(o) /\ orders[o].status # "cancelled"
    BY DEF Counts, Quiet, Pending
  <2>4. of \ back \subseteq OrderIds /\ back \subseteq OrderIds /\ of \subseteq OrderIds
    OBVIOUS
  <2>5. \A o \in of \ back : F[o] = A[o]
    <3>1. \A o \in of \ back : Counts(o) /\ orders[o].ad = a
      BY <2>3 DEF Status
    <3> QED BY <2>2, <2>4, <3>1 DEF TakenFrom
  <2>6. \A o \in OrderIds \ (of \ back) : F[o] = 0
    <3>1. \A o \in OrderIds \ (of \ back) : ~(Counts(o) /\ orders[o].ad = a)
      BY <2>3 DEF Status
    <3> QED BY <2>2, <3>1 DEF TakenFrom
  <2>7. \A o \in OrderIds : F[o] \in Int
    BY <2>2, TakenTypes DEF IInv
  <2>8. SumOver(F, OrderIds) = SumOver(F, of \ back)
    BY <2>4, <2>6, <2>7, OrderIdsFinite, SumOnly
  <2>9. SumOver(F, of \ back) = SumOver(A, of \ back)
    BY <2>4, <2>5, OrderIdsFinite, FS_Subset, SumCongruent
  <2>10. AmountOf(of \ back) = SumOver(A, of \ back)
    BY <2>2 DEF AmountOf, Sum, SumOver
  <2>11. ads[a].avail + AmountOf(of \ back) = Capacity[a]
    BY <2>1, <2>2, <2>8, <2>9, <2>10
  <2>12. PICK x \in Nat, y \in Nat : x = Cardinality(of) /\ y = Cardinality(back)
    BY <2>4, OrderIdsFinite, FS_Subset, FS_CardinalityType
  <2>13. PICK c \in Nat : c = Capacity[a] /\ c <= Exact
    BY OrderFlowAssumption DEF OrderFlowAssumption, Exactly
  <2>14. Ulp(c) \div 2 = 0
    BY <2>13 DEF Ulp
  <2>15. Near(c, c, x + y, c)
    <3>1. c - c = 0 /\ (x + y) * 0 = 0 /\ 0 \in -0 .. 0
      BY <2>13, <2>12
    <3> QED BY <2>14, <3>1 DEF Near
  <2> QED BY <2>1, <2>11, <2>12, <2>13, <2>15
<1>4. AgreementIsFinal <=> [][Terms]_vars
  BY DEF AgreementIsFinal
<1>5. Overlap = "none" /\ Undisturbed
  BY DEF Exactly, Undisturbed
<1>6. Spec => [](IInv /\ SingleInv)
  BY <1>5, SingleInvariant
<1>7. Spec => [](IInv /\ SerialInv)
  BY <1>5, SerialInvariant
<1> QED BY <1>1, <1>2, <1>3, <1>4, <1>6, <1>7, TermsAreFinal, PTL DEF Spec
=============================================================================
