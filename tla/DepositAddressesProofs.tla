------------------------ MODULE DepositAddressesProofs ------------------------
(***************************************************************************)
(* Proofs about the registry of deposit addresses: its types, and why an   *)
(* entry cannot replace another one.  A document is inserted only after    *)
(* none was found, so with one request at a time there never is a second   *)
(* one, and what is there is never touched.                                *)
(***************************************************************************)
EXTENDS DepositAddresses, FiniteSetTheorems, TLAPS

(* At most one admin request at a time *)
OneRequest == \A v, w \in Workers : v = w

IInv == TypeOK /\ IsFiniteSet(docs)

(* A request that is about to insert has found no document of its asset.     *)
InsertsFirst == \A w \in Workers : req[w].pc = "insert" => Found(req[w].asset) = {}

(* The addresses of an asset that has one.                                   *)
FirstStands ==
  \A asset \in Assets : Addresses(asset) # {} => Addresses(asset)' = Addresses(asset)

(* A request that is not idle holds an entry.                                *)
LEMMA RequestTypes ==
  ASSUME TypeOK, NEW w \in Workers
  PROVE  /\ req[w].pc # "idle" <=> req[w] # Idle
         /\ req[w] # Idle => req[w] \in Entry
  BY DEF TypeOK, Idle, Entry

(* Inserting a document keeps the collection finite and well formed.         *)
LEMMA InsertTypes ==
  ASSUME IInv, NEW w \in Workers, req[w].pc = "insert", InsertDocument(w)
  PROVE  docs' \subseteq Document /\ IsFiniteSet(docs')
<1> DEFINE doc == [id |-> Cardinality(docs) + 1, asset |-> req[w].asset,
                   addr |-> Trimmed[req[w].text]]
<1>1. docs' = docs \cup {doc}
  BY DEF InsertDocument
<1>2. Cardinality(docs) + 1 \in Nat
  BY FS_CardinalityType DEF IInv
<1>3. req[w].asset \in Assets /\ Trimmed[req[w].text] \in Stored
  BY RequestTypes DEF IInv, Entry, Stored
<1>4. doc \in Document
  BY <1>2, <1>3 DEF Document
<1>5. IsFiniteSet(docs')
  BY <1>1, FS_AddElement DEF IInv
<1> QED BY <1>1, <1>4, <1>5 DEF IInv, TypeOK

(* A request ends, its document inserted or not.                             *)
LEMMA EndStep ==
  ASSUME IInv, NEW w \in Workers, Ends(w), failures' \in 0 .. MaxFailures,
         UNCHANGED docs \/ (req[w].pc = "insert" /\ InsertDocument(w))
  PROVE  IInv'
<1>1. docs' \subseteq Document /\ IsFiniteSet(docs')
  BY InsertTypes DEF IInv, TypeOK
<1>2. req' \in [Workers -> Entry \cup {Idle}]
  BY DEF Ends, IInv, TypeOK
<1> QED BY <1>1, <1>2 DEF IInv, TypeOK

-----------------------------------------------------------------------------
(* The registry starts empty.                                                *)
LEMMA InitIInv == ASSUME DepositAddressesAssumption PROVE Init => IInv
<1>1. Init => TypeOK
  BY DepositAddressesAssumption DEF Init, TypeOK, DepositAddressesAssumption
<1>2. Init => IsFiniteSet(docs)
  BY FS_EmptySet DEF Init
<1> QED BY <1>1, <1>2 DEF IInv

(* Every operation preserves the types.                                      *)
LEMMA NextIInv == ASSUME DepositAddressesAssumption PROVE IInv /\ [Next]_vars => IInv'
<1> SUFFICES ASSUME IInv, [Next]_vars PROVE IInv'
  OBVIOUS
<1>1. ASSUME NEW w \in Workers, NEW asset \in Assets, NEW text \in Texts,
             SetDepositAddress(w, asset, text)
      PROVE  IInv'
  <2>1. req' \in [Workers -> Entry \cup {Idle}]
    BY <1>1 DEF SetDepositAddress, Entry, IInv, TypeOK
  <2> QED BY <1>1, <2>1 DEF SetDepositAddress, IInv, TypeOK
<1>2. ASSUME NEW w \in Workers, NoMatch(w) PROVE IInv'
  <2>1. req[w] \in Entry
    BY <1>2, RequestTypes DEF NoMatch, IInv
  <2>2. [req[w] EXCEPT !.pc = "insert"] \in Entry
    BY <2>1 DEF Entry
  <2>3. req' \in [Workers -> Entry \cup {Idle}]
    BY <1>2, <2>2 DEF NoMatch, IInv, TypeOK
  <2> QED BY <1>2, <2>3 DEF NoMatch, IInv, TypeOK
<1>3. ASSUME NEW w \in Workers, Refused(w) PROVE IInv'
  BY <1>3, EndStep DEF Refused, IInv, TypeOK
<1>4. ASSUME NEW w \in Workers, Upsert(w) PROVE IInv'
  BY <1>4, EndStep DEF Upsert, IInv, TypeOK
<1>5. ASSUME NEW w \in Workers, UpsertFails(w) PROVE IInv'
  <2>1. failures' \in 0 .. MaxFailures
    BY <1>5, DepositAddressesAssumption
       DEF UpsertFails, IInv, TypeOK, DepositAddressesAssumption
  <2> QED BY <1>5, <2>1, EndStep DEF UpsertFails
<1>6. CASE UNCHANGED vars
  BY <1>6 DEF vars, IInv, TypeOK
<1> QED BY <1>1, <1>2, <1>3, <1>4, <1>5, <1>6 DEF Next

(* The variables keep their types, for any number of admins, assets, texts   *)
(* and failures.                                                             *)
THEOREM TypeCorrect ==
  ASSUME DepositAddressesAssumption PROVE Spec => []TypeOK
<1>1. Init => IInv
  BY InitIInv
<1>2. IInv /\ [Next]_vars => IInv'
  BY NextIInv
<1>3. IInv => TypeOK
  BY DEF IInv
<1> QED BY <1>1, <1>2, <1>3, PTL DEF Spec

-----------------------------------------------------------------------------
(* With one request at a time, none can insert between another one's look    *)
(* for a match and its insertion.                                            *)
LEMMA NextInsertsFirst ==
  ASSUME OneRequest, TypeOK, InsertsFirst, [Next]_vars
  PROVE  InsertsFirst'
<1>1. CASE UNCHANGED vars
  BY <1>1 DEF vars, InsertsFirst, Found
<1>2. ASSUME NEW w \in Workers, \/ \E asset \in Assets, text \in Texts :
                                      SetDepositAddress(w, asset, text)
                                \/ NoMatch(w) \/ Refused(w) \/ Upsert(w) \/ UpsertFails(w)
      PROVE  InsertsFirst'
  <2> SUFFICES ASSUME req'[w].pc = "insert" PROVE Found(req[w].asset)' = {}
    BY DEF OneRequest, InsertsFirst
  <2>1. ~ Ends(w)
    BY DEF Ends, Idle, TypeOK
  <2>2. ASSUME NEW asset \in Assets, NEW text \in Texts, SetDepositAddress(w, asset, text)
        PROVE  FALSE
    BY <2>2 DEF SetDepositAddress, TypeOK
  <2>3. NoMatch(w)
    BY <1>2, <2>1, <2>2 DEF Refused, Upsert, UpsertFails
  <2>4. req[w] \in Entry
    BY <2>3, RequestTypes DEF NoMatch
  <2>5. req'[w].asset = req[w].asset
    BY <2>3, <2>4 DEF NoMatch, TypeOK, Entry
  <2> QED BY <2>3, <2>5 DEF NoMatch, Found
<1> QED BY <1>1, <1>2 DEF Next

(* A document is inserted only for an asset that has none.                   *)
LEMMA NextFirstStands ==
  ASSUME TypeOK, InsertsFirst, [Next]_vars
  PROVE  FirstStands
<1> SUFFICES ASSUME NEW asset \in Assets, Found(asset) # {}
             PROVE  Addresses(asset)' = Addresses(asset)
  BY DEF FirstStands, Addresses
<1>1. CASE UNCHANGED docs
  BY <1>1 DEF Addresses, Found
<1>2. ASSUME NEW w \in Workers, req[w].pc = "insert", InsertDocument(w)
      PROVE  Found(asset)' = Found(asset)
  <2>1. req[w].asset # asset
    BY <1>2 DEF InsertsFirst
  <2> QED BY <1>2, <2>1 DEF InsertDocument, Found
<1>3. UNCHANGED docs \/ \E w \in Workers : req[w].pc = "insert" /\ InsertDocument(w)
  BY DEF Next, vars, SetDepositAddress, NoMatch, Refused, Upsert, UpsertFails
<1> QED BY <1>1, <1>2, <1>3 DEF Addresses

(* If admins enter addresses one at a time, the first address of an asset    *)
(* stands for ever: whatever is entered later, by whomever and however often *)
(* it is repeated, takers are told the first.  It is the opposite of         *)
(* EntryReplaces, which the comments on Upsert promise.                      *)
THEOREM FirstAddressStands ==
  ASSUME DepositAddressesAssumption, OneRequest
  PROVE  Spec => [][FirstStands]_vars
<1>1. Init => InsertsFirst
  BY DEF Init, InsertsFirst, Idle
<1>2. TypeOK /\ InsertsFirst /\ [Next]_vars => InsertsFirst' /\ FirstStands
  BY NextInsertsFirst, NextFirstStands
<1>3. Spec => []TypeOK
  BY TypeCorrect
<1> QED BY <1>1, <1>2, <1>3, PTL DEF Spec
=============================================================================
