--------------------------- MODULE DepositAddresses ---------------------------
(***************************************************************************)
(* The registry of deposit addresses.  An admin types in, per asset, the   *)
(* address takers must send to; a taker of a buy order is told whatever    *)
(* document of the order's asset MongoDB finds first.  Upsert is a         *)
(* ReplaceOne by asset: MongoDB looks for a match, then replaces it or     *)
(* inserts, and nothing makes the two one step (no index makes the asset   *)
(* unique).  The replacement always carries a new _id, so for an asset     *)
(* that has a document MongoDB refuses it.                                 *)
(***************************************************************************)
EXTENDS Naturals, FiniteSets

CONSTANTS
  Workers,     \* request goroutines that may be in flight together
  Assets,
  Texts,       \* what an admin may type as an address
  Trimmed,     \* [Texts -> stored addresses]: what normalizeAddress makes of it
  Empty,       \* the empty text
  None,
  MaxFailures  \* bound: calls that fail or whose answer is lost

Stored == {Trimmed[t] : t \in Texts}

DepositAddressesAssumption ==
  /\ Trimmed[Empty] = Empty /\ None \notin Texts \cup Assets
  /\ MaxFailures \in Nat

VARIABLES
  docs,      \* collection "deposit_addresses"
  req,       \* what each request is doing: its next step and the entry it is about
  failures

vars == <<docs, req, failures>>

Idle == [pc |-> "idle", asset |-> None, text |-> None]
Entry == [pc : {"upsert", "insert"}, asset : Assets, text : Texts]
Document == [id : Nat, asset : Assets, addr : Stored]

-----------------------------------------------------------------------------
(* What GetByAsset may return: FindOne returns any document that matches. *)
Found(asset) == {d \in docs : d.asset = asset}

(* What DepositInstructions may tell the takers of the asset *)
Addresses(asset) == {d.addr : d \in Found(asset)}

Ends(w) == req' = [req EXCEPT ![w] = Idle]

(* The check of the input, up to the call of Upsert *)
SetDepositAddress(w, asset, text) ==
  /\ req[w] = Idle /\ text # Empty
  /\ req' = [req EXCEPT ![w] = [pc |-> "upsert", asset |-> asset, text |-> text]]
  /\ UNCHANGED <<docs, failures>>

(* ReplaceOne finds no document of the asset: it will insert one. *)
NoMatch(w) ==
  /\ req[w].pc = "upsert" /\ Found(req[w].asset) = {}
  /\ req' = [req EXCEPT ![w].pc = "insert"]
  /\ UNCHANGED <<docs, failures>>

(* ReplaceOne finds one: its _id may not change, so the call is refused. *)
Refused(w) ==
  /\ req[w].pc = "upsert" /\ Found(req[w].asset) # {}
  /\ Ends(w)
  /\ UNCHANGED <<docs, failures>>

InsertDocument(w) ==
  docs' = docs \cup {[id |-> Cardinality(docs) + 1, asset |-> req[w].asset,
                      addr |-> Trimmed[req[w].text]]}

Upsert(w) ==
  /\ req[w].pc = "insert"
  /\ InsertDocument(w)
  /\ Ends(w)
  /\ UNCHANGED failures

(* The call fails, before or after MongoDB has inserted the document. *)
UpsertFails(w) ==
  /\ req[w] # Idle /\ failures < MaxFailures
  /\ UNCHANGED docs \/ (req[w].pc = "insert" /\ InsertDocument(w))
  /\ Ends(w)
  /\ failures' = failures + 1

-----------------------------------------------------------------------------
Init ==
  /\ docs = {}
  /\ req = [w \in Workers |-> Idle]
  /\ failures = 0

Next ==
  \E w \in Workers :
    \/ \E asset \in Assets, text \in Texts : SetDepositAddress(w, asset, text)
    \/ NoMatch(w) \/ Refused(w) \/ Upsert(w) \/ UpsertFails(w)

Spec == Init /\ [][Next]_vars

TypeOK ==
  /\ docs \subseteq Document
  /\ req \in [Workers -> Entry \cup {Idle}]
  /\ failures \in 0 .. MaxFailures

-----------------------------------------------------------------------------
(* What deposit_address_repo.go:49-51 and domain/order.go:194-196 say of     *)
(* Upsert: the entry replaces whatever was set before it for the asset, and  *)
(* there is one live address per asset at a time.  So when a request ends,   *)
(* and not because a call failed, its address is the asset's only one.       *)
EntryReplaces ==
  [][\A w \in Workers, asset \in Assets :
       req[w].asset = asset /\ req'[w] = Idle /\ UNCHANGED failures
         => Addresses(asset)' = {Trimmed[req[w].text]}]_vars
=============================================================================
