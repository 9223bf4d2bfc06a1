# Formal models of the exchange backend

TLA+ models of the exchange backend in `src/`, checked with TLC on small
instances, and proved with TLAPS for every instance, as far as safety goes. Line numbers
refer to the files under `src/`.

- [The system](#the-system): components, state, operations, interactions, hazards
- [Modules](#modules): which module models what, and how to read it
- [Runs](#runs): what each configuration checks, its bounds, fairness
- [Proofs](#proofs): what is proved and along which argument
- [Where code and comments disagree](#where-code-and-comments-disagree)
- [Not modelled](#not-modelled) and [Plan](#plan)

## The system

A single Go process serves HTTP and WebSockets, keeps everything in MongoDB
and pays out through Bybit's API. One merchant (an admin account) posts ads;
verified users ("takers") open orders against them. The only
database transaction is around the two ledger entries of a lock or unlock; there is
no version check and no lock around an order. Each request is
a goroutine that reads a document, checks it, and later writes the *whole*
document back (`ReplaceOne`), from a copy it may have read long before. What
happens between two calls is the subject of most of this project.

| component | state | operations | talks to |
|---|---|---|---|
| Orders (`usecase/orders`) | collection `orders` | Create, MarkPaid, SubmitDeposit, ConfirmPayment, Release, Cancel, MarkDisputed, ReleaseFromDispute, RefundFromDispute | ads, ledger, whitelist, Bybit |
| Expiry sweeper (`cmd/api/main.go`) | the list it is working through | ExpireStale, every minute | orders |
| Ledger (`usecase/wallet`, `wallet_repo.go`) | collection `ledger_entries`, append-only; balances are sums | CreateTx, Create, AdminCredit, BalancesByUser | – |
| Disputes (`usecase/dispute`) | collection `disputes` | Raise, Resolve | orders |
| Ads (`usecase/ads`) | collection `ads`: status, open amount | Create, Update; debited and restored by orders | – |
| Payout whitelist | collection `whitelisted_addresses` | MarkAddressWhitelisted, IsWhitelisted | – |
| Deposit addresses (`deposit_address_repo.go`) | collection `deposit_addresses` | SetDepositAddress (Upsert), DepositInstructions (GetByAsset) | orders |
| Bybit client | none of its own | VerifyDeposit, Withdraw, prices, balances | Bybit |
| Accounts (`usecase/auth`) | `users`, `password_resets`, `email_verifications`; JWTs are not stored | Register, Login, Refresh, UpdateProfile, password reset, email verification | mailer |
| KYC (`usecase/kyc`) | `kyc_submissions` and a field of the user | Submit, Review | users |
| User administration | a field of the user | SetDisabled | users |
| Access middleware | none: believes the JWT | RequireAuth, RequireAdmin | – |
| Chat hub (`infra/ws`, `chat_handler.go`) | rooms, admin connections, a channel per connection, an RWMutex | Register, Unregister, Broadcast, BroadcastAdmins, two goroutines per connection | `order_messages` |
| Handlers, router, configuration, mailer, uploads, payment methods | – | parsing, wiring, output | – |

### What is hard about it

- **Stale copies.** A handler that read an order (ad, user) before another one
  wrote it will overwrite that write. The sweep works from copies as old as its
  list.
- **Half-done requests.** Create, completeRelease, unwindCancelledOrder, Resolve,
  Raise, ResetPassword, Review each make two to five calls; any of them can fail,
  or the process can stop, after some have taken effect.
- **Lost answers.** Bybit can accept a withdrawal whose answer does not arrive
  within the client's 8 seconds.
- **Checks separated from effects.** Balance, ad capacity, order status and token
  use are checked before and written after other calls.
- **Limits.** The sweep sees one page of 100 orders; a chat connection buffers 16
  messages.
- **Upserts.** MongoDB looks for a match and then inserts; two first upserts of one
  asset can both find nothing.
- **Two channels to one client.** Chat history comes over HTTP, new messages over the
  WebSocket: what is sent between the two is easily lost.
- **Floats.** Amounts are `float64`; balances are sums of them and an ad's open amount
  is decremented and compared with zero.
- **Locking in the hub.** A broadcast holds the read lock while it sends on
  channels another goroutine wants to close.

`PROJECT.json` lists these at their lines, under `hazards`, each with the properties
that would catch it in a run. Where the code does go wrong, or goes wrong as soon as
requests overlap or fail, no property can hold: there the note says so.

### What makes each component correct

- *Orders, ledger, Bybit:* an order is called completed or cancelled only when the
  ledger says so; crypto leaves only to whitelisted addresses; the ledger never
  claims a payout Bybit did not make; each order is settled once; the agreed terms
  never change; overdue orders do get cancelled.
- *Ads:* what is open plus what orders took is what was posted, up to the roundings;
  an ad never offers less than nothing; closed stays closed.
- *Deposits:* a credited deposit has reached Bybit; an address an admin enters replaces
  the asset's previous one, which the code does not achieve.
- *Disputes:* one open dispute exactly for each disputed order; a resolved one was
  carried out.
- *Accounts, KYC:* no role, verification, KYC status or password that nobody was
  entitled to give; tokens do what they say once; disabling a user in the end takes
  all access away.
- *Chat:* no send on a closed channel, no message in the wrong room, out of a
  sender's order or twice, no gap behind a history fetched inside the room; slow peers
  hold nobody up and leak nothing.

## Modules

| module | what it is |
|---|---|
| `OrderFlow` | orders, sweeper, ledger, disputes, ads, whitelist and Bybit, one action per database or Bybit call |
| `Settlement` | the abstract promise about one order's crypto |
| `OrderFlowProperties` | the properties of `OrderFlow`, its inductive invariant, and the mapping onto `Settlement` |
| `OrderFlowProofs` | proofs of its safety whatever overlaps and fails |
| `OrderFlowBackingProofs` | proofs of what stands behind debits and credits |
| `OrderFlowSerialProofs` | proofs about orders whose requests do not overlap, and of the refinement |
| `OrderFlowSingleProofs` | proofs about the balances and the ads |
| `SumLemmas` | sums over finite sets, which the balances and ads are made of |
| `MCOrderFlow` | constants and symmetry for TLC |
| `Accounts`, `AccountsProperties`, `AccountsProofs`, `MCAccounts` | accounts, KYC, user administration, access middleware, and proofs of their safety |
| `ChatHub`, `ChatHubProofs`, `MCChatHub` | the hub, the two goroutines of each connection, and the fetch of the history; proofs of its safety |
| `DepositAddresses`, `DepositAddressesProofs`, `MCDepositAddresses` | the registry of deposit addresses, and why an entry cannot replace another |

### OrderFlow

`req[p]` is what goroutine `p` is doing: the next call (`pc`), the operation, and
its copies of an order (`doc`) and of an ad (`ad`). An operation is a starting
action named like the service method (`MarkPaid`, `Release`, ...), whose guard is
the method's checks up to its first effect, followed by one action for each further
call, named for what it does (`CheckWhitelist`, `Withdraw`, `DebitLocked`,
`WriteOrder`). The first action reads and checks in one step because nothing the
method does before its next call is visible to others.

| operation | path of `pc` |
|---|---|
| Create | `checkBalance` (sell) → `insertOrder` → `debitAd` → `lockFunds` (sell) |
| MarkPaid, ConfirmPayment | `writeOrder` |
| SubmitDeposit | `verifyDeposit` → `writeMarked` → `writeOrder` |
| Release | sell: `checkWhitelist` → `withdraw` → `debitLocked` → `writeOrder`; buy: `creditDeposit` → `writeOrder` |
| Raise | `markDisputed` → `writeOrder` → `openDispute` |
| Resolve | `readDisputed` → as Release, or as Cancel → `writeOrder` → `closeDispute` |
| Cancel, each swept order | sell: `unlock` → `readAd` → `restoreAd` → `writeOrder` |
| ads.Create | one action (`PostAd`) |
| ads.Update | `writeAd` |

Abstractions:

- Ledger entries are counted per order and reason (`entries`), deposit credits per
  order and transaction (`credits`), admin funding as a sum (`funded`); `Balance`
  adds them up as `BalancesByUser` does. The two entries of a lock or unlock go in
  with one transaction (`CreateTx`) and count as one posting.
- There is one merchant and one asset. Rates, limits and payment details only decide
  whether an order is accepted and for how much, which is the choice of an amount from
  `Amounts`. Notifications are left out.
- Amounts are floats. They are integers here of which those above `Exact` are not all
  representable: `Ulp` is their spacing, `Rounded` the nearest one, ties to even. MongoDB
  sums each direction of a bucket and the code subtracts, so `Balance` rounds three times;
  an ad's open amount is rounded at every order and every cancellation. With `Exact` out of
  reach, arithmetic is exact.
- `Trimmed` is what `normalizeAddress` makes of a typed address; an order keeps the address
  as it was typed, and so does Bybit's request.
- `ads.Update` patches any subset of the fields and checks neither the amount nor the
  status: `EditAmounts` may hold any integers, negative ones included, and `EditStatuses` any
  texts; `Absent` is a field the patch leaves out. Rounding matters above `Exact` only, so a
  negative amount is stored as typed.
- An order id is its place in creation order, so "newest first" in `ListActive` is
  "greatest id first".
- A deadline that passes is the event `DeadlinePasses`. A deposit becoming
  successful at Bybit is `DepositArrives`; it stays so. `DepositAmount` is what
  Bybit reports for a transaction; a buy order released from a dispute without any
  deposit credits `NoTx`, which is worth nothing.
- `Fail(p)`: a call returns an error, or the goroutine is lost, before the call
  takes effect; an error in the sweep abandons the rest of its list.
  `WithdrawAnswerLost`: the call took effect and the answer did not arrive.
  `RestoreAdFails`: `restoreAdCapacity` swallows its errors.

`Overlap` is a restriction on the *environment*, for stating what holds under it.
The code enforces none. `"anyOrder"`: requests overlap freely. `"otherOrders"`: no
request starts on an order that another one is busy with. `"none"`: one request at a
time.

### Settlement and the refinement

`Settlement` knows one order's side, the phase of its crypto (placed, held, paying,
released, returned, credited, dropped) and how often it was paid out. `PhaseOf`
reads the phase off the ledger and Bybit, not off the order's status, so
`ImplementsSettlement` says that the *postings* follow the promise, whatever the
documents say. Each order is an instance of its own (`Promise(o)`).

### Accounts

Same construction: `req[w]` with a copy of a user document. A password is named by
the reset token that set it, a JWT is its owner, role and kind, an email address is
the user. `sending` counts the goroutines that mail a verification token after the
request was answered. `listed`, `approvals` and `resetWrites` are history variables:
no action reads them.

### ChatHub

A connection's reader goroutine is `pc[c]`, its writer `writer[c]`, its channel
`send[c]`. The RWMutex is two predicates: `MayLock` (nobody is inside a broadcast)
and `MayRLock` (no Lock call is waiting). A broadcast is a step that takes the
lock and the room's members, one step per member, and a step that lets go. A
connection is used once; a reconnecting peer is another one.

`FetchHistory` is the peer's `GET .../messages`, at any time before or after it connects.
`caughtUp` remembers the clients that fetched while they were in their room and `missed`
the messages a full channel dropped: history variables, for `NothingMissed` to say that
nothing else makes a gap.

### DepositAddresses

`docs` is the collection. `SetDepositAddress` is the check of the input up to Upsert's
`ReplaceOne`, which MongoDB answers in two steps: it looks for a document of the asset, and if
it finds one it refuses the call (`Refused`), because the replacement carries a fresh `_id`; if it
finds none (`NoMatch`), it inserts (`Upsert`). The call may fail at any point before or after the
insertion (`UpsertFails`). `Addresses(asset)` is what `DepositInstructions` may tell a taker, since
`FindOne` promises no order. `EntryReplaces` is what the comments say of an entry.

### Mutants

An operator whose comment begins with "mutant:" is a plausible bug in the
definition that follows it (a dropped check, a swapped order of calls, a missing
reset). No specification uses it. For every property of every passing run,
`PROJECT.json` names the mutant that, put in the definition's place, makes TLC find
that property violated: so each property is known to depend on the code.

## Runs

`tlc -config X.cfg M`, with the module `PROJECT.json` gives for the run. Deadlock is
not checked anywhere: with every counter bounded, and nobody obliged to send a
request, the system may rest for good. That nobody waits for ever where somebody
should not is stated by the liveness properties.

| run | states | what it shows |
|---|---|---|
| `Races` | 1,300,000 | Two requests and the sweep on one sell order, any overlap, one failure or lost answer anywhere: `IInv`; completed and cancelled are backed by the ledger; debits never exceed Bybit's withdrawals, even when releases race and both pay; payouts only to whitelisted addresses; resolved disputes carried out; nothing agreed is changed by a stale write |
| `Expiry` | 240,000 | Two buy orders, page of two, any overlap, one failure, an admin who types a negative amount and an unknown status into an ad: an overdue order does not stay cancellable; credited deposits have arrived; types |
| `SeparateOrders` | 650,000 | Two requests and the sweep, no failure, overlapping only on different orders: settled exactly once, with the deposit the order names; the status machine is respected, disputes match orders, `Settlement` is implemented; creates that race for the only unit of the buy ad do not take it below zero; credited deposits have arrived or come from a dispute |
| `OneAtATime` | 1,100,000 | One request at a time, two order sizes, amounts that get rounded, ads being posted and closed: locked balance, available balance and ad capacity agree with the orders up to the roundings; closed ads stay closed |
| `TokenRaces` | 1,100,000 | Two users, two overlapping requests, a reset and a verification token: passwords and verifications belong to whom the token was issued, and a reset token is marked used only after a password was written |
| `AccountRaces` | 800,000 | One user and an admin, two overlapping requests, a restart with another allowlist: role and KYC status go back to the list or an approval; a disabled user runs out of tokens |
| `AccountsSerial` | 640,000 | One user and an admin, one request at a time, one of them failing between two calls: what a spent token did stays done; KYC status agrees with a submission |
| `ChatRoom` | 590,000 | Trader and merchant in one room, buffers that fill, both fetching the history at any time: safety of the channels, writers end, only a full buffer makes a gap behind a history fetched in the room |
| `ChatAlerts` | 100,000 | Traders in two rooms and an admin console: isolation of rooms, notifications, a stuck console, broadcasts end |
| `StaleStatus` | – | `SettledIsFinal` is violated: see below |
| `ExpiryStarved` | – | `OverdueIsCancelled` is violated: see below |
| `DepositAddresses` | – | `EntryReplaces` is violated: see below |

### Bounds

`MaxOrders`, `MaxDisputes`, `MaxFunded`, `MaxSignedIn`, `MaxResets`, `MaxVerifies`, `MaxSubs`,
`MaxRestarts`, `MaxFailures` and `MaxMessages` limit how often something is created or goes wrong;
`MaxEntries` limits entries of one kind for one order and withdrawals for it. `MaxDisputes` is 0
in `Expiry`: there a dispute gets as far as the order's document, which is all that the sweep sees of it.
`MaxEntries` is 2 wherever a property counts entries, so that the second one, which
would be the mistake, can happen; the passing runs that say "at most one" never reach
it. Two goroutines besides the sweep are enough for every overlap of a check with
an effect, because each property relates at most two requests about one document;
a third party is present as the sweep. One failure lets every request stop at every
place once, and the retry of what failed still runs. In `Races` one order suffices, since all
its properties are about one order and orders meet only in the ad and the balance, which
`OneAtATime` and `SeparateOrders` cover with two orders. The page size is 100 in the code;
`ListLimit` 2 with two orders is "page large enough", 1 with two orders is "page too small".
In `OneAtATime`, `Exact` = 16 with orders of 9 and 16 from ads of 26, so that what is left
of an ad (26 - 9 = 17) and some sums are not representable and get rounded; funding of 18
admits one order or two, depending on their sizes. The other runs set `Exact` to 100, out of reach.
In `SeparateOrders` the buy ad has one unit (`ContestedCapacity`): two creates that both find it
open would take it to -1, did each not write back its own copy. The sell ad has two, so that two
orders can be live. `Expiry` edits the ad with the amount -1 (`NegativeAmount`) and the status
"frozen", and nobody else names either. `PostedAds` are the ads there from the start; an ad outside it is posted during the run.
`Fetchers` are the clients that fetch the history, none in `ChatAlerts`, which has more
connections instead. In `DepositAddresses` an admin may type two addresses, one of them
with blanks around it as well, blanks only, or nothing. The theorems below hold for every
value of these constants.
Chat buffers hold one message, so that two fill them. `AccountRaces` and
`AccountsSerial` have a single user, reviewed and disabled by an admin who is not in
`Users` (`StaffOnDuty`), so that the user under review need not be an admin as well;
mixing up users is what `TokenRaces` covers. There `MaxSignedIn` = 1 lets only one of the
two hold tokens when a login starts; tokens expire at any moment, so every sequence of
sign-ins remains, and a handler that was signed in when it started runs on while the other
user acts.

Symmetry is used for goroutines and users only in runs without liveness
properties; no property or definition names a particular one of them.

### Fairness

- `OrderFlow!FairSpec`: the sweep's timer keeps firing, and the calls the sweep makes
  return, with an answer or an error (`startExpirySweeper` loops for the life of the
  process and goes on after an error; that MongoDB answers is an assumption, as no timeout
  is configured for it). Nothing is assumed of requests.
- `Accounts!FairSpec`: JWTs expire, and the calls of a request under way return.
- `ChatHub!FairSpec`: a reader goroutine that can run does run, which includes
  getting the mutex when it is free; of a writer only that its socket call returns once this end has
  closed the socket (`conn.Close` makes pending writes fail). A writer whose
  peer does not read may hang for ever before that.

## Proofs

Eight modules hold proofs; `tlapm M.tla` checks module `M`. Every safety invariant and
action property that a passing run checks is stated by a theorem; where a theorem has a hypothesis, it
is one of these, and each restricts the *environment*, for the reason given under
[where code and comments disagree](#where-code-and-comments-disagree): requests that overlap or
fail do break the property. As for the rest of `Exactly`: an edit of the open amount is
meant to change the capacity, and beyond exact amounts the proof ends, not the property.
Likewise, an admin who types a negative amount gets a negative ad (`AdsNeverOversold`).

| hypothesis | meaning | theorems |
|---|---|---|
| none | anything overlaps, fails, is lost | all of `OrderFlowProofs`, `OrderFlowBackingProofs`, `ChatHubProofs`, `TypeCorrect` of `DepositAddressesProofs`; most of `AccountsProofs` |
| `Undisturbed` of `OrderFlowSerialProofs` | `Overlap # "anyOrder"` and `MaxFailures = 0`: requests about one order do not overlap and do not fail; those about other orders overlap as they like | `OrderFlowSerialProofs`, `LockedBalanceIsLiveOrders` |
| `Overlap = "none"` | one request at a time, which may fail | `BalanceIsNotOverdrawn`, `ClosedAdsStayClosed` |
| `IsFiniteSet(Txs)` | there are finitely many transactions, for their sum to exist | `BalanceIsNotOverdrawn` |
| `Exactly` | one request at a time, none fails, admins edit anything but the open amount, capacities are at most `Exact` | `AdCapacityAddsUp` |
| `EditAmounts \ {Absent} \subseteq Nat` | no admin types a negative amount; anything overlaps, fails, is lost | `AdsNeverOversold` |
| `OneRequest` of `DepositAddressesProofs` | admins enter addresses one at a time; calls may fail | `FirstAddressStands` |
| `~Overlapping` | requests to the account service do not overlap | the last three of `AccountsProofs` |

What is proved for fewer cases than a passing run checks is `AdCapacityConserved`: see
[below](#only-model-checked).

### OrderFlowProofs

For every number of goroutines, orders, ads, disputes, addresses, transactions and
failures, every grain of rounding (`Exact`) and every setting of `Overlap`:

| theorem | statement |
|---|---|
| `InductiveInvariant` | `Spec => []IInv` |
| `TypeCorrect` | `Spec => []TypeOK`, with any integers and texts typed into ads |
| `CompletedOrdersAreSettled` | `Spec => []CompletedIsSettled` |
| `CancelledOrdersAreUnlocked` | `Spec => []CancelledIsUnlocked` |
| `PayoutsStayWhitelisted` | `Spec => []PayoutsAreWhitelisted` |
| `ResolvedDisputesAreSettled` | `Spec => []ResolvedDisputeIsSettled` |
| `TermsAreFinal` | `Spec => AgreementIsFinal` |

They rest on `OrderFlowAssumption` only: the kinds of the constants, positive
amounts, and that the "no such thing" values are not things.

**The invariant.** `CompletedIsSettled` is not inductive: a write of a stale copy
could carry "completed" into the database. `IInv` therefore says the same of every
copy: those in `orders` (`OrdersJustified`), those that requests hold
(`HoldsCopies`) and those in the sweep's list (`SweepJustified`). `Known(o, doc)`
says that a copy has the order's terms and that its status is backed by the
ledger. `HasDone` says what a request that has come as far as a given `pc` has
already had recorded: at `debitLocked` there is a withdrawal, at `restoreAd` of a sell
order an unlock, at `withdraw` a whitelisted address.

**Why it is stable.** Postings, withdrawals and whitelist entries are only ever
added and an order's terms never change (`Grows`). Every clause about a copy is
of the form "this much has been recorded", so it only becomes truer
(`FactsGrow`, `CopiesGrow`). That is what makes the argument work with any
overlap: a step has to re-establish the clauses of its own request and no others
(`OwnStep`, `QuietStep`), and there is one lemma per action. An action that writes a
document takes it from a justified copy (`WriteDocs`).

`TermsAreFinal` follows from the same invariant as an action property: the only
writes are of copies with the same terms, and an id is given out once.

Rounding enters in one place only: what an order leaves of an ad stays an integer
(`RoundedInt`). That it is no less than zero is `AdsNeverOversold`, below.

### OrderFlowBackingProofs

Two properties that hold whatever overlaps or fails and need more than `IInv` says:

| theorem | statement |
|---|---|
| `DebitsStayPaidOut` | `Spec => []DebitsArePaidOut` |
| `CreditsStayBacked` | `Spec => []CreditsAreBacked` |

`DebitsArePaidOut` compares two numbers. Between a withdrawal and its debit
there are requests that owe the ledger an entry, any number of them, since releases race:
`PayoutsCoverDebits` says that the debits posted *plus* the requests at `debitLocked`
are at most the withdrawals. A withdrawal adds a request to that set, a debit takes one out, a
failure takes one out as well, and a lost answer only adds to the withdrawals.

For `CreditsAreBacked`, `DepositsBacked` follows the transaction that a document or a copy
names: it has arrived or there is none (`Submitted`), except in the copy that is on its way to
`VerifyDeposit`; and a buy order whose status is past `payment_marked` without a dispute names
one. A stale copy is no worse: arrived deposits stay so.

### OrderFlowSerialProofs

With `Undisturbed`, for any number of orders being handled side by side:

| theorem | statement |
|---|---|
| `SerialInvariant` | `Spec => [](IInv /\ SerialInv)` |
| `OrdersSettleOnce` | `Spec => []SettledExactlyOnce` |
| `DisputesMatchOrders` | `Spec => []DisputeMatchesOrder` |
| `StatusOnlyMovesForward` | `Spec => StatusMovesForward` |
| `SettlementIsImplemented` | `Spec => ImplementsSettlement` |

**The invariant.** The properties speak of orders no request is about. In between, a request
is ahead of its order's document by what it has just done, and how far is a function of the point it
has reached. `Account(o, held, ahead, s, opened)` is the state of all the books of order `o`:
locked `held` times, `ahead` withdrawals ahead of the ledger, settled as an order of status `s`
is, with one open dispute or none. `RestingOrders` says it of an order at rest, for the status in its
document, and `RequestsOnCourse` of an order some request is about, for the place of that
request (`Held`, `Ahead`, `BookedAs`, `Opened`). `Fits` relates the request's copy to the document:
the status is one the operation leaves, the transaction is the document's. All of that is stable
because at most one request or sweep entry is about an order (`OnePerOrder`), which is what
`Undisturbed` buys, and because the sweep's copies are still current (`SweepIsCurrent`).

**The refinement.** `PhaseOf` reads ledger and withdrawals, which `Account` fixes, so
each action is shown to be, for its own order, the step of `Settlement` it stands for (`InsertOrder` places,
`LockFunds` holds, `Withdraw` pays, `DebitLocked` releases, `Unlock` returns, `CreditDeposit`
credits, the write of a cancelled buy order drops) or a stutter, and a stutter for all others
(`Kept(n)`).

### OrderFlowSingleProofs

What orders share: the two balances and the ads.

| theorem | hypotheses | statement |
|---|---|---|
| `SingleInvariant` | `Overlap = "none"` | `Spec => [](IInv /\ SingleInv)` |
| `ClosedAdsStayClosed` | `Overlap = "none"` | `Spec => ClosedAdStaysClosed` |
| `LockedBalanceIsLiveOrders` | `Undisturbed` | `Spec => []LockedIsLiveOrders` |
| `BalanceIsNotOverdrawn` | `Overlap = "none"`, `IsFiniteSet(Txs)` | `Spec => []NeverOverdrawn` |
| `AdCapacityAddsUp` | `Exactly` | `Spec => []AdCapacityConserved` |
| `AdsNeverOversold` | `EditAmounts \ {Absent} \subseteq Nat` | `Spec => []AdNeverOversold` |

`SingleInv`: at most one goroutine is busy, and the ad that a create or a cancellation has
read is the ad as it is (`AdIsCurrent`), open at a create. So what is written back keeps a closed ad
closed.

*Rounding.* `RoundedNear`, `RoundedGrows` and `DifferenceNear` say what `Rounded` does in
general: it moves a number by half a spacing at most, keeps the order of numbers, and the rounded
difference of two rounded sums is within three half spacings of the exact one.

*Locked balance.* `SerialInv` says how often each order at rest was locked, unlocked and
released, so the exact sums differ by the total of the live sell orders; the roundings are
the lemma's. The bound does not grow with the number of entries, because the code
sums anew for every balance.

*Available balance.* `Covered` says that what was raised covers what was taken, up to three half
spacings, and `MayPay` that a create on its way to `LockFunds` passed `CheckBalance` and that nothing was taken
since. Taking an amount that the *rounded* balance admits leaves the sums covered
(`CheckedMayBeTaken`), and raising more later keeps them so (`MoreIsCovered`): this is why the
slack does not add up over many orders. Failures only leave a lock out.

*Ads.* `CapInv`: an ad's open amount plus the amounts of the orders that count is its
capacity. An order counts unless it is cancelled, except between the two writes of one request:
it does not yet before `DebitAd`, and no longer after the ad was restored (`Counts`).

*Never oversold.* With overlap, creates and cancellations lose each other's changes, but what
is written is computed from a copy: one that was not negative (`SoundCopy`), and from which an
order takes no more than it holds, as `CreateOrder` compared the two. Rounding keeps the
difference from falling below zero, and an edit writes what was typed or what was there.

### SumLemmas

`MapThenSumSet` of the community modules is a recursive function on the subsets of a set,
defined by CHOOSE. That such a function exists (`SumExists`) and that it does not matter
in which order it takes the elements (`SumTake`) is shown by minimal counterexample: were there a subset for
which it fails, there would be a smallest one (`SmallestSubset`). From these come the
lemmas the proofs use: the sum of natural numbers is one (`SumType`), it depends on the summands only
(`SumCongruent`), zeros do not matter (`SumOnly`), sums add (`SumAdd`) and grow
(`SumGrows`), and a change of one summand changes the sum by as much (`SumChange`).

### DepositAddressesProofs

For every number of assets, texts, entries and failures, from `DepositAddressesAssumption`, which
here is a hypothesis of the theorems:

| theorem | hypothesis | statement |
|---|---|---|
| `TypeCorrect` | | `Spec => []TypeOK` |
| `FirstAddressStands` | `OneRequest` | `Spec => [][FirstStands]_vars` |

`FirstAddressStands` is the general form of what the run `DepositAddresses` shows in one trace:
once an asset has an address, no step changes what its takers are told. A request that
is about to insert has found no document of its asset (`InsertsFirst`), which stays true because no
other request can insert in the meantime, and no step touches a document that is there.

### ChatHubProofs

For every number of connections, rooms and messages and every buffer size, from
`ChatHubAssumption`:

| theorem | statement |
|---|---|
| `InductiveInvariant` | `Spec => []IInv` |
| `TypeCorrect` | `Spec => []TypeOK`; with it, no channel holds more than its capacity |
| `ClosedChannelsStaySilent` | `Spec => []NoSendAfterClose` |
| `DeliveriesAreSound` | `Spec => []DeliveryIsSound` |
| `CaughtUpClientsMissNothing` | `Spec => []NothingMissed` |

`NoSendAfterClose` is about targets, rooms and closed channels; what ties them together is
where each reader is. The invariant says that whom a broadcast has yet to come to is
registered and that the broadcaster is inside the lock (`TargetsAreMembers`), that members are
between Register and Unregister, each in its own room (`MembersAreConnected`), and that a
closed channel's connection has left (`ClosedHaveLeft`). The one step in which the lock matters
is Unregister: it waits until nobody broadcasts, so no broadcast has any target left.

`DeliveryIsSound` rests on `DeliveryInv`: a reader hands on the message it stored itself, one at a
time (`HandsOnItsOwn`); a broadcast's targets are in the sender's room and a notification's are admins
(`TargetsFit`); and as long as a broadcast has not come to a connection, all that this connection
has of the same sender is older (`NotYetSent`). So a sender's messages cannot overtake each other,
whatever the other readers do, and none arrives twice. `NothingMissed` follows one message
owed to one client through the steps of its broadcast: delivered, on its way, or dropped by a
full channel. It needs one fact more, that who is caught up has been in the room
(`CaughtUpHaveJoined`), and that a connection is used once.

### AccountsProofs

For every number of users, requests, tokens, submissions, failures and restarts:

| theorem | hypothesis | statement |
|---|---|---|
| `InductiveInvariant` | | `Spec => []IInv` |
| `TypeCorrect` | | `Spec => []TypeOK` |
| `AdminsAreListed` | | `Spec => []AdminIsListed` |
| `VerifiedKycWasApproved` | | `Spec => []KycIsBacked` |
| `VerifiedEmailWasAsked` | | `Spec => []EmailIsBacked` |
| `PasswordsAreOwn` | | `Spec => []PasswordIsOwn` |
| `UsedTokensTookEffect` | | `Spec => []UsedTokenTookEffect` |
| `SpentTokensStickSerially` | `~Overlapping` | `Spec => []SpentTokensStick` |
| `ResetTokensAreSingleUse` | `~Overlapping` | `Spec => []ResetTokenIsSingleUse` |
| `KycMatchesSubmissions` | `~Overlapping` | `Spec => []KycMatchesASubmission` |

The first seven have the shape of `OrderFlowProofs`: what backs a role, a
KYC status, a verification or a password (a place on the allowlist, an approval, a token
issued for the user) is never withdrawn (`Grows`), so `Backed` holds of every user document and of every
stale copy a request may write back. `Fits` says what a request holds: a backed copy of its own
user, and a token or submission of the same user.

The last three are about what a stale copy *can* destroy, so they need requests that do not
overlap. `SInv` adds that the only request under way holds a copy that is current in
what it does not change (`Serial`), that a reset token has written once exactly if it is used
or about to be marked (`WritesAreCounted`), and that a KYC status disagrees with the
submissions only while a request is about to write it (`KycAgrees`). The last two are about runs
in which no request was cut short, as the properties themselves say.

### Only model-checked

- Liveness, which is out of the prover's reach: `OverdueIsCancelled`, `DisabledLosesAccess`,
  `BroadcastFinishes`, `NoWriterLeaks`.
- `AdCapacityConserved` where amounts get rounded (`OneAtATime`). The theorem is for capacities up to
  `Exact`. Above it the open amount is rounded at every order, and the errors stay; whether they
  can carry the amount across a power of two, where the spacing doubles, depends on how many
  orders come and go, so no bound that holds of one step is inductive.
- That the properties under a hypothesis hold in no more than that: the table of the
  next section says what TLC finds without it.

## Where code and comments disagree

Three disagreements have runs:

- `StaleStatus`. `domain/order.go:23` defines "the allowed forward transitions" and lets none
  lead out of completed or cancelled. In the run MarkPaid has read an order that awaits payment;
  Cancel unlocks its amount, gives it back to the ad and writes cancelled; then MarkPaid
  writes its copy and the cancelled order is `payment_marked` (`order_repo.go:97` replaces
  the document whatever its status is).
- `ExpiryStarved`. `service.go:581` promises to cancel "every still-cancellable
  order" that is overdue. With a full page of newer active orders the
  older overdue one is never listed.
- `DepositAddresses`. `deposit_address_repo.go:49` says that an "admin correcting an address ...
  replaces it", and `domain/order.go:194` that Upsert replaces "whatever was set before it". In the
  run an admin enters an address for an asset, then another one: the replacement has a fresh `_id`
  (`:56`), which MongoDB refuses for the document it found, and takers are still sent to the first. Nor
  is there "only ever one live address per asset" when two first entries overlap: both find
  nothing and both insert, which violates `EntryReplaces` as well.

The conditions of the passing runs are there because without them the properties
fail. To see it, change a constant in a `.cfg`:

| change | TLC then finds violated | because |
|---|---|---|
| `SeparateOrders`: `Overlap = "anyOrder"` | `SettledExactlyOnce` | two releases of one order pass the status check (`service.go:458`) and both withdraw |
| `SeparateOrders`: `MaxFailures = 1` | `SettledExactlyOnce` | Create stops between inserting the order and posting the lock; a later cancel unlocks what was never locked. Likewise, a withdrawal whose answer is lost is repeated |
| `SeparateOrders`: `MaxFailures = 1` | `DisputeMatchesOrder` | Raise stops before it inserts the dispute; the order stays disputed with nothing to resolve |
| `OneAtATime`: two workers, `Overlap = "otherOrders"` | `NeverOverdrawn` | two creates pass the balance check (`service.go:160`) before either posts its lock |
| `AccountsSerial`: two requests, `Overlapping = TRUE` | `ResetTokenIsSingleUse` | the token is checked at `auth/service.go:291` and marked at `:306` |

Others are visible in the definitions:

- `wallet_whitelist_repo.go:42` describes `normalizeAddress` as "trim + lowercase"; it
  trims. `Trimmed` does the same.
- `bybit/client.go:221` says that "matching a specific deposit to a specific order relies on
  VerifyDeposit(txID)". `SubmitDeposit` asks only whether Bybit knows the transaction as
  successful: the same one can be submitted for several orders and is credited for each.
  `CreditsAreBacked` is what does hold.
- `domain/wallet.go:51` calls amounts "always positive". A buy order disputed before any
  deposit and released credits an amount of zero (`NoTx` in `credits`).

## Not modelled

- Payment methods: a repository without a route. Uploads, mailer, keep-alive: output
  whose result nobody waits for.
- Parsing of requests, DTOs, cookies, CORS, paging of listings: the handlers appear as the
  guards of the actions they start.
- Prices, rates, fiat limits, KYC and profile contents, message bodies, JWT and
  password cryptography: data no property distinguishes.
- A failure in the sweep that never goes away, and a server crash in the chat: a stored message
  that was not broadcast before a crash is in the history only.
- Accounts behind chat connections: a connection outlives its token (`chat_handler.go:92`).
- MongoDB and Bybit themselves: a call is one atomic step, except an upsert; a MongoDB write
  whose answer is lost is not distinguished from a failure after it, except in
  `DepositAddresses`, where an entry may fail with its document inserted.

## Plan

Written: `OrderFlow` and its properties, `Settlement`, `Accounts`, `ChatHub`,
`DepositAddresses`, and proofs of every safety property the passing runs check. Left:

1. Weaker hypotheses. `ResolvedDisputeIsSettled` shows that much survives overlap; which part
   of `SettledExactlyOnce` does (an order that nobody has released twice was paid once) is worth stating.
   `LockedIsLiveOrders` with failures: the locked balance plus the locks never posted.
2. `AdCapacityConserved` in the rounding range, with a bound on the number of orders small
   enough that the spacing cannot change.
3. The hazards without a property, where something weaker does hold: that a deposit is
   credited for no more orders than it was submitted for, that a reset token sets no more passwords
   than there were requests with it.
4. Accounts behind chat connections.
