------------------------------ MODULE OrderFlow ------------------------------
(***************************************************************************)
(* The order service of the exchange at the grain of its database and      *)
(* Bybit calls.  Every HTTP request is a goroutine that reads a document,  *)
(* checks it, and later writes the WHOLE document back (ReplaceOne); every *)
(* call is one action here, so requests interleave between any two calls.  *)
(* A request that has read a document keeps its own copy of it in          *)
(* req[p].doc or req[p].ad, which may be stale when it is written back.    *)
(*                                                                         *)
(* One merchant (an admin account) owns every ad and trades one asset;     *)
(* amounts stand for asset amounts that pass the ad's fiat limits.  They   *)
(* are float64 in the code: here integers of which those above Exact are   *)
(* not all representable, so that sums and differences get rounded.        *)
(***************************************************************************)
EXTENDS Integers, FiniteSets, FiniteSetsExt

CONSTANTS
  Workers,        \* request goroutines that may be in flight together
  Sweeper,        \* the expiry goroutine of cmd/api
  Takers,         \* verified users who trade against the merchant's ads
  Merchant,       \* the admin account that owns the ads
  Ads,            \* the posted ads
  SellAds,        \* the ads with side "sell"; the others have side "buy"
  PostedAds,      \* the ads that are there from the start
  Capacity,       \* [Ads -> Nat]: the AvailableAmount each ad is posted with
  Amounts,        \* order sizes a taker may ask for
  Exact,          \* every amount up to this one is representable
  Addresses,      \* what is typed as a payout address, by takers and by admins
  Trimmed,        \* what normalizeAddress makes of each of them
  Txs,            \* deposit transactions a taker may send to Bybit
  DepositAmount,  \* [Txs -> Nat]: what Bybit credits for each of them
  CreditAmounts,  \* the sizes of an admin funding entry
  EditAmounts,    \* the AvailableAmount an edit of an ad may carry, or Absent
  EditStatuses,   \* the status an edit of an ad may carry, or Absent
  Absent,         \* a field that an edit leaves out
  NoOrder, NoAd, NoDispute, NoAddress, NoTx,
  Overlap,        \* which requests may be in flight together (see MayTouch)
  ListLimit,      \* the page size of ListActive (100 in the code)
  MaxOrders,      \* bound: orders ever created
  MaxDisputes,    \* bound: dispute documents ever created
  MaxEntries,     \* bound: ledger entries of one kind for one order, payouts
  MaxFunded,      \* bound: total admin funding
  MaxFailures     \* bound: requests that fail between two calls

OrderIds   == 1 .. MaxOrders       \* in creation order: the greatest is newest
DisputeIds == 1 .. MaxDisputes
Procs      == Workers \cup {Sweeper}
Users      == Takers \cup {Merchant}

OrderStatuses == {"created", "awaiting_payment", "payment_marked",
                  "payment_confirmed", "released", "completed",
                  "cancelled", "disputed"}

ValidTransitions == {<<"created", "awaiting_payment">>,
                     <<"awaiting_payment", "payment_marked">>,
                     <<"payment_marked", "payment_confirmed">>,
                     <<"payment_confirmed", "released">>,
                     <<"released", "completed">>}

CanTransition(from, to) == <<from, to>> \in ValidTransitions

(* mutant: a completed order can be cancelled too *)
IsCancellableOnceDone(s) == s \in {"created", "awaiting_payment", "completed"}

IsCancellable(s) == s \in {"created", "awaiting_payment"}
(* mutant: a dispute can be raised on an order already in dispute *)
IsDisputableAgain(s) ==
  s \in {"awaiting_payment", "payment_marked", "payment_confirmed", "disputed"}

IsDisputable(s)  == s \in {"awaiting_payment", "payment_marked", "payment_confirmed"}

AdStatuses == {"active", "paused", "closed"}

(* float64 arithmetic: the nearest representable amount, ties going to the  *)
(* even significand.  Amounts stay below 4 * Exact, negative ones (edits,   *)
(* differences of sums) above -Exact.                                       *)
Ulp(n) == IF n <= Exact THEN 1 ELSE IF n <= 2 * Exact THEN 2 ELSE 4
Rounded(n) ==
  LET u == Ulp(n)
      q == n \div u
      r == n % u
  IN  IF 2 * r < u \/ (2 * r = u /\ q % 2 = 0) THEN q * u ELSE (q + 1) * u

OrderDoc == [ad : Ads, taker : Takers, amount : Amounts, status : OrderStatuses,
             addr : Addresses \cup {NoAddress}, tx : Txs \cup {NoTx}]

AdDoc == [avail : Int, status : AdStatuses \cup (EditStatuses \ {Absent})]

DisputeDoc == [order : OrderIds, status : {"open", "resolved"},
               resolution : {"", "release_to_buyer", "refund_to_seller"}]

(* Ledger entries that carry an order id.  Both entries of a lock or unlock *)
(* pair are inserted by one CreateTx, so a pair counts as one posting.      *)
Reasons == {"order_lock", "order_cancel", "order_dispute", "order_release"}

(* mutant: a release is taken from the available balance *)
EffectOnAvailable(r) ==
  CASE r \in {"order_lock", "order_cancel", "order_dispute"} ->
         LET sign == IF r = "order_lock" THEN 1 ELSE -1
         IN  [available |-> -sign, locked |-> sign]
    [] OTHER -> [available |-> -1, locked |-> 0]

(* What one posting adds to the merchant's available and locked balance.    *)
Effect(r) ==
  CASE r = "order_lock"    -> [available |-> -1, locked |->  1]
    [] r = "order_release" -> [available |->  0, locked |-> -1]
    [] OTHER               -> [available |->  1, locked |-> -1]

Ops == {"", "create", "markPaid", "confirmPayment", "submitDeposit", "release",
        "raise", "resolveRelease", "resolveRefund", "cancel", "editAd"}

Resolutions == {"resolveRelease", "resolveRefund"}

PCs == {"idle", "checkBalance", "insertOrder", "debitAd", "lockFunds",
        "verifyDeposit", "writeMarked", "writeOrder", "readDisputed",
        "checkWhitelist", "withdraw", "debitLocked", "creditDeposit",
        "markDisputed", "openDispute", "closeDispute", "unlock", "readAd",
        "restoreAd", "writeAd"}

Request == [pc : PCs, op : Ops, o : OrderIds \cup {0}, doc : OrderDoc \cup {NoOrder},
            ad : AdDoc \cup {NoAd}, a : Ads \cup {NoAd}, d : DisputeIds \cup {0}]

Idle == [pc |-> "idle", op |-> "", o |-> 0, doc |-> NoOrder,
         ad |-> NoAd, a |-> NoAd, d |-> 0]

ASSUME OrderFlowAssumption ==
  /\ SellAds \subseteq Ads
  /\ PostedAds \subseteq Ads /\ Capacity \in [Ads -> Nat \ {0}]
  /\ Exact \in Nat \ {0}
  /\ Amounts \subseteq Nat \ {0}
  /\ CreditAmounts \subseteq Nat \ {0}
  /\ EditAmounts \subseteq Int \cup {Absent}
  /\ DepositAmount \in [Txs -> Nat]
  /\ NoOrder \notin OrderDoc /\ NoAd \notin AdDoc /\ NoAd \notin Ads
  /\ NoDispute \notin DisputeDoc
  /\ NoAddress \notin Addresses /\ NoTx \notin Txs
  /\ Sweeper \notin Workers /\ Merchant \notin Takers
  /\ Overlap \in {"none", "otherOrders", "anyOrder"}
  /\ {ListLimit, MaxOrders, MaxDisputes, MaxEntries, MaxFunded, MaxFailures} \subseteq Nat

VARIABLES
  orders,     \* collection "orders": [OrderIds -> OrderDoc or NoOrder]
  ads,        \* collection "ads": [Ads -> AdDoc or NoAd]
  disputes,   \* collection "disputes"
  entries,    \* ledger postings per order and reason (append-only counts)
  credits,    \* deposit_credited entries per order and deposit transaction
  funded,     \* the sum of the admin_funding entries
  withdrawn,  \* Bybit: withdrawals made for each order
  arrived,    \* Bybit: deposits it reports as successful
  whitelist,  \* addresses recorded as whitelisted, as they are stored
  overdue,    \* orders whose payment deadline has passed
  req,        \* what each goroutine is doing
  todo,       \* the sweep's listed orders it has not come to yet
  failures    \* how many requests have failed so far

ledger == <<entries, credits, funded>>
outside == <<arrived, whitelist, overdue>>
vars == <<orders, ads, disputes, ledger, withdrawn, outside, req, todo, failures>>

-----------------------------------------------------------------------------
(* Reading the state *)

Exists(o) == orders[o] # NoOrder
IsPosted(a) == ads[a] # NoAd
Sells(doc) == doc.ad \in SellAds
Buyer(doc)  == IF Sells(doc) THEN doc.taker ELSE Merchant
Seller(doc) == IF Sells(doc) THEN Merchant ELSE doc.taker

IsWhitelisted(addr) == Trimmed[addr] \in whitelist

(* The sum of f[x] for x in S *)
Sum(f, S) == MapThenSumSet(LAMBDA x : f[x], S)

DepositValue(tx) == IF tx = NoTx THEN 0 ELSE DepositAmount[tx]

(* LedgerRepo.BalancesByUser: MongoDB sums the merchant's entries in a       *)
(* bucket per direction, the code subtracts; each result is rounded.        *)
Posted(bucket, sign) ==
  LET reasons  == {r \in Reasons : Effect(r)[bucket] = sign}
      posted   == [o \in OrderIds |->
                     IF Exists(o) THEN orders[o].amount * Sum(entries[o], reasons) ELSE 0]
      credited == [o \in OrderIds |->
                     Sum([tx \in Txs \cup {NoTx} |-> credits[o][tx] * DepositValue(tx)],
                         Txs \cup {NoTx})]
  IN  Sum(posted, OrderIds)
      + IF bucket = "available" /\ sign = 1
        THEN funded + Sum(credited, OrderIds) ELSE 0

Balance(bucket) == Rounded(Rounded(Posted(bucket, 1)) - Rounded(Posted(bucket, -1)))

(* OrderRepo.ListActive: everything except completed and cancelled, newest  *)
(* first, cut off at the page size.                                         *)
Active(o) == Exists(o) /\ orders[o].status \notin {"completed", "cancelled"}
ListActive ==
  {o \in OrderIds : /\ Active(o)
                    /\ Cardinality({n \in OrderIds : n > o /\ Active(n)}) < ListLimit}

(* Goroutines may overlap freely in the code ("anyOrder"); the two other    *)
(* settings restrict the environment, to say what holds when requests about *)
(* one order never overlap, or when there is one request at a time.         *)
Quiet == todo = {} /\ \A p \in Procs : req[p].pc = "idle"
Busy(o) == \/ \E p \in Procs : req[p].o = o
           \/ \E t \in todo : t.o = o
MayTouch(o) == \/ Overlap = "anyOrder"
               \/ Overlap = "otherOrders" /\ ~Busy(o)
               \/ Overlap = "none" /\ Quiet
MayStart == Overlap # "none" \/ Quiet

(* How a request moves on *)
Start(p, op, pc, o, doc) ==
  req' = [req EXCEPT ![p] = [Idle EXCEPT !.op = op, !.pc = pc, !.o = o, !.doc = doc]]
Goto(p, pc) == req' = [req EXCEPT ![p].pc = pc]
GotoWith(p, pc, status) == req' = [req EXCEPT ![p].pc = pc, ![p].doc.status = status]
Finish(p) == req' = [req EXCEPT ![p] = Idle]
At(p, pc) == req[p].pc = pc

(* Where completeRelease and unwindCancelledOrder split by the order's side *)
SettlePC(doc) == IF Sells(doc) THEN "checkWhitelist" ELSE "creditDeposit"
(* mutant: unwinding forgets that a sell order holds something *)
UnwindWithoutUnlock(doc) == "readAd"

UnwindPC(doc) == IF Sells(doc) THEN "unlock" ELSE "readAd"

-----------------------------------------------------------------------------
(* Service.Create *)

(* mutant: the status is left at its zero value *)
NewOrderUnset(a, u, amt, addr) ==
  [ad |-> a, taker |-> u, amount |-> amt, status |-> "", addr |-> addr, tx |-> NoTx]

NewOrder(a, u, amt, addr) ==
  [ad |-> a, taker |-> u, amount |-> amt, status |-> "awaiting_payment",
   addr |-> addr, tx |-> NoTx]

(* mutant: the amount is not compared with what the ad still offers *)
CreateOrderUnchecked(w, a, u, amt, addr) ==
  /\ At(w, "idle") /\ MayStart
  /\ IsPosted(a) /\ ads[a].status = "active"
  /\ a \notin SellAds <=> addr = NoAddress
  /\ req' = [req EXCEPT ![w] =
               [Idle EXCEPT !.op = "create", !.doc = NewOrder(a, u, amt, addr),
                            !.ad = ads[a], !.a = a,
                            !.pc = IF a \in SellAds THEN "checkBalance" ELSE "insertOrder"]]
  /\ UNCHANGED <<orders, ads, disputes, ledger, withdrawn, outside, todo, failures>>

CreateOrder(w, a, u, amt, addr) ==
  /\ At(w, "idle") /\ MayStart
  /\ IsPosted(a) /\ ads[a].status = "active"
  /\ amt <= ads[a].avail
  /\ a \notin SellAds <=> addr = NoAddress
  /\ req' = [req EXCEPT ![w] =
               [Idle EXCEPT !.op = "create", !.doc = NewOrder(a, u, amt, addr),
                            !.ad = ads[a], !.a = a,
                            !.pc = IF a \in SellAds THEN "checkBalance" ELSE "insertOrder"]]
  /\ UNCHANGED <<orders, ads, disputes, ledger, withdrawn, outside, todo, failures>>

(* mutant: what is locked for other orders counts as available *)
CheckTotalBalance(w) ==
  /\ At(w, "checkBalance")
  /\ IF Balance("available") + Balance("locked") < req[w].doc.amount
     THEN Finish(w) ELSE Goto(w, "insertOrder")
  /\ UNCHANGED <<orders, ads, disputes, ledger, withdrawn, outside, todo, failures>>

CheckBalance(w) ==
  /\ At(w, "checkBalance")
  /\ IF Balance("available") < req[w].doc.amount THEN Finish(w) ELSE Goto(w, "insertOrder")
  /\ UNCHANGED <<orders, ads, disputes, ledger, withdrawn, outside, todo, failures>>

InsertOrder(w) ==
  /\ At(w, "insertOrder")
  /\ \E o \in OrderIds :
       /\ ~Exists(o) /\ \A n \in OrderIds : n < o => Exists(n)
       /\ orders' = [orders EXCEPT ![o] = req[w].doc]
       /\ req' = [req EXCEPT ![w].pc = "debitAd", ![w].o = o]
  /\ UNCHANGED <<ads, disputes, ledger, withdrawn, outside, todo, failures>>

(* mutant: an early return when the ad is used up *)
DebitAdReturnsEarly(w) ==
  /\ At(w, "debitAd")
  /\ LET left == Rounded(req[w].ad.avail - req[w].doc.amount)
     IN  /\ ads' = [ads EXCEPT ![req[w].a] =
                      [avail |-> left,
                       status |-> IF left <= 0 THEN "paused" ELSE req[w].ad.status]]
         /\ IF Sells(req[w].doc) /\ left > 0 THEN Goto(w, "lockFunds") ELSE Finish(w)
  /\ UNCHANGED <<orders, disputes, ledger, withdrawn, outside, todo, failures>>

(* mutant: the amount is taken from what the ad offers by now, unchecked *)
DebitAdInPlace(w) ==
  /\ At(w, "debitAd")
  /\ LET left == Rounded(ads[req[w].a].avail - req[w].doc.amount)
     IN  ads' = [ads EXCEPT ![req[w].a] =
                   [avail |-> left,
                    status |-> IF left <= 0 THEN "paused" ELSE ads[req[w].a].status]]
  /\ IF Sells(req[w].doc) THEN Goto(w, "lockFunds") ELSE Finish(w)
  /\ UNCHANGED <<orders, disputes, ledger, withdrawn, outside, todo, failures>>

(* The ad as Create read it, less the order's amount, replaces the document. *)
DebitAd(w) ==
  /\ At(w, "debitAd")
  /\ LET left == Rounded(req[w].ad.avail - req[w].doc.amount)
     IN  ads' = [ads EXCEPT ![req[w].a] =
                   [avail |-> left,
                    status |-> IF left <= 0 THEN "paused" ELSE req[w].ad.status]]
  /\ IF Sells(req[w].doc) THEN Goto(w, "lockFunds") ELSE Finish(w)
  /\ UNCHANGED <<orders, disputes, ledger, withdrawn, outside, todo, failures>>

Post(o, r) ==
  /\ entries[o][r] < MaxEntries
  /\ entries' = [entries EXCEPT ![o][r] = @ + 1]

LockFunds(w) ==
  /\ At(w, "lockFunds")
  /\ Post(req[w].o, "order_lock")
  /\ Finish(w)
  /\ UNCHANGED <<orders, ads, disputes, credits, funded, withdrawn, outside, todo, failures>>

-----------------------------------------------------------------------------
(* Service.MarkPaid, ConfirmPayment and SubmitDeposit *)

(* mutant: the status is not checked *)
MarkPaidUnchecked(w, o, u) ==
  /\ At(w, "idle") /\ Exists(o) /\ MayTouch(o)
  /\ Sells(orders[o]) /\ u = Buyer(orders[o])
  /\ Start(w, "markPaid", "writeOrder", o, [orders[o] EXCEPT !.status = "payment_marked"])
  /\ UNCHANGED <<orders, ads, disputes, ledger, withdrawn, outside, todo, failures>>

MarkPaid(w, o, u) ==
  /\ At(w, "idle") /\ Exists(o) /\ MayTouch(o)
  /\ Sells(orders[o]) /\ u = Buyer(orders[o])
  /\ CanTransition(orders[o].status, "payment_marked")
  /\ Start(w, "markPaid", "writeOrder", o, [orders[o] EXCEPT !.status = "payment_marked"])
  /\ UNCHANGED <<orders, ads, disputes, ledger, withdrawn, outside, todo, failures>>

ConfirmPayment(w, o, u) ==
  /\ At(w, "idle") /\ Exists(o) /\ MayTouch(o)
  /\ Sells(orders[o]) /\ u = Seller(orders[o])
  /\ CanTransition(orders[o].status, "payment_confirmed")
  /\ Start(w, "confirmPayment", "writeOrder", o,
           [orders[o] EXCEPT !.status = "payment_confirmed"])
  /\ UNCHANGED <<orders, ads, disputes, ledger, withdrawn, outside, todo, failures>>

SubmitDeposit(w, o, u, tx) ==
  /\ At(w, "idle") /\ Exists(o) /\ MayTouch(o)
  /\ ~Sells(orders[o]) /\ u = Seller(orders[o])
  /\ orders[o].status = "awaiting_payment"
  /\ Start(w, "submitDeposit", "verifyDeposit", o, [orders[o] EXCEPT !.tx = tx])
  /\ UNCHANGED <<orders, ads, disputes, ledger, withdrawn, outside, todo, failures>>

(* mutant: Bybit's answer is not looked at *)
VerifyDepositIgnored(w) ==
  /\ At(w, "verifyDeposit")
  /\ GotoWith(w, "writeMarked", "payment_marked")
  /\ UNCHANGED <<orders, ads, disputes, ledger, withdrawn, outside, todo, failures>>

VerifyDeposit(w) ==
  /\ At(w, "verifyDeposit")
  /\ IF req[w].doc.tx \in arrived THEN GotoWith(w, "writeMarked", "payment_marked")
                                  ELSE Finish(w)
  /\ UNCHANGED <<orders, ads, disputes, ledger, withdrawn, outside, todo, failures>>

WriteMarked(w) ==
  /\ At(w, "writeMarked")
  /\ orders' = [orders EXCEPT ![req[w].o] = req[w].doc]
  /\ GotoWith(w, "writeOrder", "payment_confirmed")
  /\ UNCHANGED <<ads, disputes, ledger, withdrawn, outside, todo, failures>>

(* mutant: the payout address is left out of the document *)
WriteOrderForgets(p) ==
  /\ At(p, "writeOrder")
  /\ orders' = [orders EXCEPT ![req[p].o] = [req[p].doc EXCEPT !.addr = NoAddress]]
  /\ \/ req[p].op = "raise" /\ Goto(p, "openDispute")
     \/ req[p].op \in Resolutions /\ Goto(p, "closeDispute")
     \/ req[p].op \notin {"raise"} \cup Resolutions /\ Finish(p)
  /\ UNCHANGED <<ads, disputes, ledger, withdrawn, outside, todo, failures>>

(* OrderRepo.Update as the last order write of every handler: the whole     *)
(* document is replaced by the request's copy.                              *)
WriteOrder(p) ==
  /\ At(p, "writeOrder")
  /\ orders' = [orders EXCEPT ![req[p].o] = req[p].doc]
  /\ \/ req[p].op = "raise" /\ Goto(p, "openDispute")
     \/ req[p].op \in Resolutions /\ Goto(p, "closeDispute")
     \/ req[p].op \notin {"raise"} \cup Resolutions /\ Finish(p)
  /\ UNCHANGED <<ads, disputes, ledger, withdrawn, outside, todo, failures>>

-----------------------------------------------------------------------------
(* Service.Release and completeRelease *)

Release(w, o) ==
  /\ At(w, "idle") /\ Exists(o) /\ MayTouch(o)
  /\ CanTransition(orders[o].status, "released")
  /\ Start(w, "release", SettlePC(orders[o]), o, orders[o])
  /\ UNCHANGED <<orders, ads, disputes, ledger, withdrawn, outside, todo, failures>>

(* mutant: the answer of IsWhitelisted is not looked at *)
WhitelistIgnored(w) ==
  /\ At(w, "checkWhitelist")
  /\ Goto(w, "withdraw")
  /\ UNCHANGED <<orders, ads, disputes, ledger, withdrawn, outside, todo, failures>>

(* mutant: the ledger is debited before Bybit is asked, or without asking it *)
DebitBeforeWithdraw(w) ==
  /\ At(w, "checkWhitelist")
  /\ IF IsWhitelisted(req[w].doc.addr) THEN Goto(w, "debitLocked") ELSE Finish(w)
  /\ UNCHANGED <<orders, ads, disputes, ledger, withdrawn, outside, todo, failures>>

(* The whitelist stores and compares trimmed addresses; Bybit is sent the    *)
(* address as the taker typed it.                                           *)
CheckWhitelist(w) ==
  /\ At(w, "checkWhitelist")
  /\ IF IsWhitelisted(req[w].doc.addr) THEN Goto(w, "withdraw") ELSE Finish(w)
  /\ UNCHANGED <<orders, ads, disputes, ledger, withdrawn, outside, todo, failures>>

PayOut(o) ==
  /\ withdrawn[o] < MaxEntries
  /\ withdrawn' = [withdrawn EXCEPT ![o] = @ + 1]

(* mutant: the order is completed without debiting the ledger *)
WithdrawWithoutDebit(w) ==
  /\ At(w, "withdraw")
  /\ PayOut(req[w].o)
  /\ GotoWith(w, "writeOrder", "completed")
  /\ UNCHANGED <<orders, ads, disputes, ledger, outside, todo, failures>>

Withdraw(w) ==
  /\ At(w, "withdraw")
  /\ PayOut(req[w].o)
  /\ Goto(w, "debitLocked")
  /\ UNCHANGED <<orders, ads, disputes, ledger, outside, todo, failures>>

(* Bybit accepts the withdrawal but its answer is lost or later than the    *)
(* client's 8 seconds: the handler sees an error and stops.                 *)
WithdrawAnswerLost(w) ==
  /\ At(w, "withdraw") /\ failures < MaxFailures
  /\ PayOut(req[w].o)
  /\ Finish(w)
  /\ failures' = failures + 1
  /\ UNCHANGED <<orders, ads, disputes, ledger, outside, todo>>

DebitLocked(w) ==
  /\ At(w, "debitLocked")
  /\ Post(req[w].o, "order_release")
  /\ GotoWith(w, "writeOrder", "completed")
  /\ UNCHANGED <<orders, ads, disputes, credits, funded, withdrawn, outside, todo, failures>>

CreditDeposit(w) ==
  /\ At(w, "creditDeposit")
  /\ credits[req[w].o][req[w].doc.tx] < MaxEntries
  /\ credits' = [credits EXCEPT ![req[w].o][req[w].doc.tx] = @ + 1]
  /\ GotoWith(w, "writeOrder", "completed")
  /\ UNCHANGED <<orders, ads, disputes, entries, funded, withdrawn, outside, todo, failures>>

-----------------------------------------------------------------------------
(* dispute.Service.Raise and Resolve *)

RaiseDispute(w, o, u) ==
  /\ At(w, "idle") /\ Exists(o) /\ MayTouch(o)
  /\ u \in {Buyer(orders[o]), Seller(orders[o])}
  /\ Start(w, "raise", "markDisputed", o, NoOrder)
  /\ UNCHANGED <<orders, ads, disputes, ledger, withdrawn, outside, todo, failures>>

MarkDisputed(w) ==
  /\ At(w, "markDisputed")
  /\ LET order == orders[req[w].o]
     IN  IF IsDisputable(order.status)
         THEN Start(w, "raise", "writeOrder", req[w].o, [order EXCEPT !.status = "disputed"])
         ELSE Finish(w)
  /\ UNCHANGED <<orders, ads, disputes, ledger, withdrawn, outside, todo, failures>>

OpenDispute(w) ==
  /\ At(w, "openDispute")
  /\ \E d \in DisputeIds :
       /\ disputes[d] = NoDispute /\ \A n \in DisputeIds : n < d => disputes[n] # NoDispute
       /\ disputes' = [disputes EXCEPT ![d] = [order |-> req[w].o, status |-> "open",
                                               resolution |-> ""]]
  /\ Finish(w)
  /\ UNCHANGED <<orders, ads, ledger, withdrawn, outside, todo, failures>>

(* mutant: the dispute is closed before the order is settled *)
ResolveClosesFirst(w, d, op) ==
  /\ At(w, "idle")
  /\ disputes[d] # NoDispute /\ disputes[d].status = "open"
  /\ MayTouch(disputes[d].order)
  /\ req' = [req EXCEPT ![w] = [Idle EXCEPT !.op = op, !.pc = "closeDispute",
                                            !.o = disputes[d].order, !.d = d]]
  /\ UNCHANGED <<orders, ads, disputes, ledger, withdrawn, outside, todo, failures>>

ResolveDispute(w, d, op) ==
  /\ At(w, "idle")
  /\ disputes[d] # NoDispute /\ disputes[d].status = "open"
  /\ MayTouch(disputes[d].order)
  /\ req' = [req EXCEPT ![w] = [Idle EXCEPT !.op = op, !.pc = "readDisputed",
                                            !.o = disputes[d].order, !.d = d]]
  /\ UNCHANGED <<orders, ads, disputes, ledger, withdrawn, outside, todo, failures>>

ReadDisputed(w) ==
  /\ At(w, "readDisputed")
  /\ LET order == orders[req[w].o]
         next  == IF req[w].op = "resolveRelease" THEN SettlePC(order)
                  ELSE UnwindPC(order)
     IN  IF order.status = "disputed"
         THEN req' = [req EXCEPT ![w].pc = next, ![w].doc = order]
         ELSE Finish(w)
  /\ UNCHANGED <<orders, ads, disputes, ledger, withdrawn, outside, todo, failures>>

CloseDispute(w) ==
  /\ At(w, "closeDispute")
  /\ disputes' = [disputes EXCEPT ![req[w].d] =
                    [order |-> req[w].o, status |-> "resolved",
                     resolution |-> IF req[w].op = "resolveRelease"
                                    THEN "release_to_buyer" ELSE "refund_to_seller"]]
  /\ Finish(w)
  /\ UNCHANGED <<orders, ads, ledger, withdrawn, outside, todo, failures>>

-----------------------------------------------------------------------------
(* Cancel, the expiry sweep, and the unwinding they share with a refund *)

Cancel(w, o, u) ==
  /\ At(w, "idle") /\ Exists(o) /\ MayTouch(o)
  /\ u \in {Buyer(orders[o]), Seller(orders[o])}
  /\ IsCancellable(orders[o].status)
  /\ Start(w, "cancel", UnwindPC(orders[o]), o, orders[o])
  /\ UNCHANGED <<orders, ads, disputes, ledger, withdrawn, outside, todo, failures>>

(* mutant: the sweep looks for orders in "created", a status none ever has *)
SweepListCreated ==
  /\ At(Sweeper, "idle") /\ todo = {}
  /\ todo' = {[o |-> o, doc |-> orders[o]] :
                o \in {n \in ListActive : orders[n].status = "created" /\ n \in overdue}}
  /\ \A t \in todo' : MayTouch(t.o)
  /\ UNCHANGED <<orders, ads, disputes, ledger, withdrawn, outside, req, failures>>

(* ExpireStale lists once and keeps the listed copies; those it skips leave *)
(* no trace, so only the ones it will unwind are remembered.                *)
SweepList ==
  /\ At(Sweeper, "idle") /\ todo = {}
  /\ todo' = {[o |-> o, doc |-> orders[o]] :
                o \in {n \in ListActive : IsCancellable(orders[n].status) /\ n \in overdue}}
  /\ \A t \in todo' : MayTouch(t.o)
  /\ UNCHANGED <<orders, ads, disputes, ledger, withdrawn, outside, req, failures>>

SweepNext ==
  /\ At(Sweeper, "idle")
  /\ \E t \in todo :
       /\ \A n \in todo : n.o <= t.o
       /\ todo' = todo \ {t}
       /\ Start(Sweeper, "cancel", UnwindPC(t.doc), t.o, t.doc)
  /\ UNCHANGED <<orders, ads, disputes, ledger, withdrawn, outside, failures>>

Unlock(p) ==
  /\ At(p, "unlock")
  /\ Post(req[p].o, IF req[p].op = "cancel" THEN "order_cancel" ELSE "order_dispute")
  /\ Goto(p, "readAd")
  /\ UNCHANGED <<orders, ads, disputes, credits, funded, withdrawn, outside, todo, failures>>

ReadAd(p) ==
  /\ At(p, "readAd") /\ IsPosted(req[p].doc.ad)
  /\ req' = [req EXCEPT ![p].pc = "restoreAd", ![p].ad = ads[req[p].doc.ad]]
  /\ UNCHANGED <<orders, ads, disputes, ledger, withdrawn, outside, todo, failures>>

(* mutant: an ad that was used up stays paused *)
RestoreAdStaysPaused(p) ==
  /\ At(p, "restoreAd")
  /\ ads' = [ads EXCEPT ![req[p].doc.ad] = [req[p].ad EXCEPT !.avail = Rounded(@ + req[p].doc.amount)]]
  /\ GotoWith(p, "writeOrder", "cancelled")
  /\ UNCHANGED <<orders, disputes, ledger, withdrawn, outside, todo, failures>>

(* mutant: any ad is active again once it has something to offer *)
RestoreAdReopens(p) ==
  /\ At(p, "restoreAd")
  /\ ads' = [ads EXCEPT ![req[p].doc.ad] =
               [avail |-> Rounded(req[p].ad.avail + req[p].doc.amount), status |-> "active"]]
  /\ GotoWith(p, "writeOrder", "cancelled")
  /\ UNCHANGED <<orders, disputes, ledger, withdrawn, outside, todo, failures>>

RestoreAd(p) ==
  /\ At(p, "restoreAd")
  /\ ads' = [ads EXCEPT ![req[p].doc.ad] =
               [avail  |-> Rounded(req[p].ad.avail + req[p].doc.amount),
                status |-> IF req[p].ad.status = "paused" THEN "active" ELSE req[p].ad.status]]
  /\ GotoWith(p, "writeOrder", "cancelled")
  /\ UNCHANGED <<orders, disputes, ledger, withdrawn, outside, todo, failures>>

(* restoreAdCapacity swallows its errors: the order is cancelled all the same. *)
RestoreAdFails(p) ==
  /\ req[p].pc \in {"readAd", "restoreAd"} /\ failures < MaxFailures
  /\ GotoWith(p, "writeOrder", "cancelled")
  /\ failures' = failures + 1
  /\ UNCHANGED <<orders, ads, disputes, ledger, withdrawn, outside, todo>>

-----------------------------------------------------------------------------
(* Admin and the outside world *)

AdminCredit(amt) ==
  /\ funded + amt <= MaxFunded
  /\ funded' = funded + amt
  /\ UNCHANGED <<orders, ads, disputes, entries, credits, withdrawn, outside, req, todo, failures>>

MarkAddressWhitelisted(addr) ==
  /\ whitelist' = whitelist \cup {Trimmed[addr]}
  /\ UNCHANGED <<orders, ads, disputes, ledger, withdrawn, arrived, overdue, req, todo, failures>>

(* ads.Service.Create, by an admin *)
PostAd(a) ==
  /\ ~IsPosted(a)
  /\ ads' = [ads EXCEPT ![a] = [avail |-> Capacity[a], status |-> "active"]]
  /\ UNCHANGED <<orders, disputes, ledger, withdrawn, outside, req, todo, failures>>

(* ads.Service.Update: the fields that are there are patched into the copy  *)
(* read, unchecked.  An edit with neither of these two changes a rate, a    *)
(* limit or the terms, and writes the copy back all the same.               *)
EditAd(w, a) ==
  /\ At(w, "idle") /\ MayStart /\ IsPosted(a)
  /\ \E n \in EditAmounts, s \in EditStatuses :
       LET ad == [avail  |-> IF n = Absent THEN ads[a].avail ELSE n,
                  status |-> IF s = Absent THEN ads[a].status ELSE s]
       IN  req' = [req EXCEPT ![w] = [Idle EXCEPT !.op = "editAd", !.pc = "writeAd",
                                                  !.ad = ad, !.a = a]]
  /\ UNCHANGED <<orders, ads, disputes, ledger, withdrawn, outside, todo, failures>>

WriteAd(w) ==
  /\ At(w, "writeAd")
  /\ ads' = [ads EXCEPT ![req[w].a] = req[w].ad]
  /\ Finish(w)
  /\ UNCHANGED <<orders, disputes, ledger, withdrawn, outside, todo, failures>>

DepositArrives(tx) ==
  /\ arrived' = arrived \cup {tx}
  /\ UNCHANGED <<orders, ads, disputes, ledger, withdrawn, whitelist, overdue, req, todo, failures>>

(* The deadline matters only while the order can still be cancelled. *)
DeadlinePasses(o) ==
  /\ Exists(o) /\ IsCancellable(orders[o].status) /\ o \notin overdue
  /\ overdue' = overdue \cup {o}
  /\ UNCHANGED <<orders, ads, disputes, ledger, withdrawn, arrived, whitelist, req, todo, failures>>

(* A call returns an error, or the process stops, and the request does      *)
(* nothing more.  An error aborts the whole sweep.                          *)
Fail(p) ==
  /\ ~At(p, "idle") /\ failures < MaxFailures
  /\ Finish(p)
  /\ todo' = IF p = Sweeper THEN {} ELSE todo
  /\ failures' = failures + 1
  /\ UNCHANGED <<orders, ads, disputes, ledger, withdrawn, outside>>

-----------------------------------------------------------------------------
Init ==
  /\ orders = [o \in OrderIds |-> NoOrder]
  /\ ads = [a \in Ads |-> IF a \in PostedAds THEN [avail |-> Capacity[a], status |-> "active"]
                          ELSE NoAd]
  /\ disputes = [d \in DisputeIds |-> NoDispute]
  /\ entries = [o \in OrderIds |-> [r \in Reasons |-> 0]]
  /\ credits = [o \in OrderIds |-> [tx \in Txs \cup {NoTx} |-> 0]]
  /\ funded = 0
  /\ withdrawn = [o \in OrderIds |-> 0]
  /\ arrived = {} /\ whitelist = {} /\ overdue = {}
  /\ req = [p \in Procs |-> Idle]
  /\ todo = {}
  /\ failures = 0

NewRequest(w) ==
  \/ \E a \in Ads, u \in Takers, amt \in Amounts, addr \in Addresses \cup {NoAddress} :
       CreateOrder(w, a, u, amt, addr)
  \/ \E a \in Ads : EditAd(w, a)
  \/ \E o \in OrderIds, u \in Users :
       \/ MarkPaid(w, o, u) \/ ConfirmPayment(w, o, u)
       \/ RaiseDispute(w, o, u) \/ Cancel(w, o, u)
       \/ \E tx \in Txs : SubmitDeposit(w, o, u, tx)
  \/ \E o \in OrderIds : Release(w, o)
  \/ \E d \in DisputeIds, op \in Resolutions : ResolveDispute(w, d, op)

(* The next call of a request under way *)
Continue(p) ==
  \/ CheckBalance(p) \/ InsertOrder(p) \/ DebitAd(p) \/ LockFunds(p)
  \/ VerifyDeposit(p) \/ WriteMarked(p) \/ WriteOrder(p)
  \/ CheckWhitelist(p) \/ Withdraw(p) \/ DebitLocked(p) \/ CreditDeposit(p)
  \/ MarkDisputed(p) \/ OpenDispute(p) \/ ReadDisputed(p) \/ CloseDispute(p)
  \/ Unlock(p) \/ ReadAd(p) \/ RestoreAd(p) \/ WriteAd(p)

Sweep == SweepList \/ SweepNext

Failure(p) == Fail(p) \/ RestoreAdFails(p) \/ WithdrawAnswerLost(p)

Environment ==
  \/ \E amt \in CreditAmounts : AdminCredit(amt)
  \/ \E a \in Ads : PostAd(a)
  \/ \E addr \in Addresses : MarkAddressWhitelisted(addr)
  \/ \E tx \in Txs : DepositArrives(tx)
  \/ \E o \in OrderIds : DeadlinePasses(o)

Next == \/ \E w \in Workers : NewRequest(w)
        \/ \E p \in Procs : Continue(p) \/ Failure(p)
        \/ Sweep
        \/ Environment

Spec == Init /\ [][Next]_vars

(* The sweeper's timer keeps firing and the calls it makes return. *)
FairSpec == Spec /\ WF_vars(Continue(Sweeper)) /\ WF_vars(SweepNext) /\ WF_vars(SweepList)

-----------------------------------------------------------------------------
TypeOK ==
  /\ orders \in [OrderIds -> OrderDoc \cup {NoOrder}]
  /\ ads \in [Ads -> AdDoc \cup {NoAd}]
  /\ disputes \in [DisputeIds -> DisputeDoc \cup {NoDispute}]
  /\ entries \in [OrderIds -> [Reasons -> 0 .. MaxEntries]]
  /\ credits \in [OrderIds -> [Txs \cup {NoTx} -> 0 .. MaxEntries]]
  /\ funded \in 0 .. MaxFunded
  /\ withdrawn \in [OrderIds -> 0 .. MaxEntries]
  /\ arrived \subseteq Txs /\ overdue \subseteq OrderIds
  /\ whitelist \subseteq {Trimmed[a] : a \in Addresses}
  /\ req \in [Procs -> Request]
  /\ todo \subseteq [o : OrderIds, doc : OrderDoc]
  /\ failures \in 0 .. MaxFailures
=============================================================================
