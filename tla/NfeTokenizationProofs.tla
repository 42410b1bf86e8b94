----------------------- MODULE NfeTokenizationProofs ------------------------
(***************************************************************************)
(* Proofs about NfeTokenization for every set of keys, hashes and wallets. *)
(***************************************************************************)
EXTENDS NfeTokenization, TLAPS

\* What OneTitlePerDocument needs to be inductive: the hashes of registered
\* invoices stay in the index that tokenize_nfe consults.
HashesIndexed == \A k \in Key : nfe[k] # Unknown => nfe[k].xml_hash \in xmlHashes

\* What ListedLeavesBySale needs: a listing is never taken back.
ListedIsPastActive ==
    \A k \in listed : nfe[k].status \in {"ListedForSale", "SoldToPool", "Settled"}

NfeInv ==
    /\ NfeTypeOK
    /\ HashesIndexed
    /\ ListedIsPastActive
    /\ OneTitlePerDocument
    /\ SettledIsBurned

\* A registered invoice is told from an unknown key by its status alone.
LEMMA KnownByStatus ==
    ASSUME NfeTypeOK, NEW k \in Key
    PROVE  /\ nfe[k] = Unknown <=> nfe[k].status = "Unknown"
           /\ nfe[k] # Unknown =>
                nfe[k] \in [status : NfeStatus, owner : Address, xml_hash : Hash]
  BY DEF NfeTypeOK, Unknown, NfeStatus

\* The inductive invariant holds initially.
LEMMA NfeInitInv == NfeInit => NfeInv
  BY NfeAssumption DEF NfeInit, NfeInv, NfeTypeOK, HashesIndexed, ListedIsPastActive,
     OneTitlePerDocument, SettledIsBurned, Unknown, Address

\* Registering an invoice preserves the invariant.
LEMMA TokenizeInv ==
    ASSUME NfeInv, NEW k \in Key, NEW h \in Hash, NEW a \in Address, tokenize_nfe(k, h, a)
    PROVE  NfeInv'
  <1> DEFINE new == [status |-> "Active", owner |-> a, xml_hash |-> h]
  <1>1. /\ nfe' = [nfe EXCEPT ![k] = new]
        /\ nft' = [nft EXCEPT ![k] = a]
        /\ xmlHashes' = xmlHashes \cup {h}
        /\ listed' = listed
        /\ h \notin xmlHashes /\ nfe[k] = Unknown
    BY DEF tokenize_nfe, not_tokenized
  <1>2. new # Unknown /\ new.status # "Settled" /\ new.xml_hash = h
    BY DEF Unknown
  <1>3. NfeTypeOK /\ nfe'[k] = new /\ \A j \in Key : j # k => nfe'[j] = nfe[j]
    BY <1>1 DEF NfeInv, NfeTypeOK
  <1>4. NfeTypeOK'
    BY <1>1 DEF NfeInv, NfeTypeOK, NfeStatus
  <1>5. HashesIndexed'
    BY <1>1, <1>2, <1>3 DEF NfeInv, HashesIndexed
  <1>6. ListedIsPastActive'
    <2>1. k \notin listed
      BY <1>1 DEF NfeInv, ListedIsPastActive, Unknown
    <2> QED
      BY <2>1, <1>1, <1>3 DEF NfeInv, ListedIsPastActive, NfeTypeOK
  <1>7. OneTitlePerDocument'
    <2>1. \A j \in Key : j # k /\ nfe'[j] # Unknown => nfe'[j].xml_hash # h
      BY <1>1, <1>3 DEF NfeInv, HashesIndexed
    <2>2. \A k1, k2 \in Key : nfe'[k1] # Unknown /\ nfe'[k2] # Unknown
             /\ nfe'[k1].xml_hash = nfe'[k2].xml_hash => k1 = k2
      BY <2>1, <1>2, <1>3 DEF NfeInv, OneTitlePerDocument
    <2>3. \A j \in Key : nfe'[j] = Unknown => nft'[j] = NoOne
      BY <1>1, <1>2, <1>3 DEF NfeInv, OneTitlePerDocument, NfeTypeOK
    <2> QED
      BY <2>2, <2>3 DEF OneTitlePerDocument
  <1>8. SettledIsBurned'
    BY <1>1, <1>2, <1>3 DEF NfeInv, SettledIsBurned, NfeTypeOK
  <1> QED
    BY <1>4, <1>5, <1>6, <1>7, <1>8 DEF NfeInv

\* A step that only changes the status or the owner of a registered invoice,
\* and perhaps moves or burns its NFT, preserves the invariant as long as it
\* keeps listings past Active and leaves no NFT with a settled invoice.
LEMMA UpdateInv ==
    ASSUME NfeInv, NEW k \in Key, NEW s \in NfeStatus, NEW o \in Address,
           NEW holder \in Address \cup {NoOne},
           nfe[k] # Unknown,
           nfe' = [nfe EXCEPT ![k] = [status |-> s, owner |-> o, xml_hash |-> nfe[k].xml_hash]],
           nft' = [nft EXCEPT ![k] = holder],
           xmlHashes' = xmlHashes,
           listed' = listed \/ listed' = listed \cup {k},
           k \in listed' => s \in {"ListedForSale", "SoldToPool", "Settled"},
           s = "Settled" => holder = NoOne
    PROVE  NfeInv'
  <1> DEFINE new == [status |-> s, owner |-> o, xml_hash |-> nfe[k].xml_hash]
  <1>1. /\ new # Unknown /\ new.xml_hash = nfe[k].xml_hash /\ new.status = s
        /\ new \in [status : NfeStatus, owner : Address, xml_hash : Hash]
    BY KnownByStatus DEF NfeInv, Unknown, NfeStatus
  <1>2. nfe'[k] = new /\ \A j \in Key : j # k => nfe'[j] = nfe[j]
    BY DEF NfeInv, NfeTypeOK
  <1>3. nft'[k] = holder /\ \A j \in Key : j # k => nft'[j] = nft[j]
    BY DEF NfeInv, NfeTypeOK
  <1>4. NfeTypeOK'
    <2>1. nfe' \in [Key -> [status : NfeStatus, owner : Address, xml_hash : Hash] \cup {Unknown}]
      BY <1>1 DEF NfeInv, NfeTypeOK
    <2>2. nft' \in [Key -> Address \cup {NoOne}]
      BY DEF NfeInv, NfeTypeOK
    <2> QED
      BY <2>1, <2>2 DEF NfeInv, NfeTypeOK
  <1>5. HashesIndexed'
    BY <1>1, <1>2 DEF NfeInv, HashesIndexed
  <1>6. ListedIsPastActive'
    <2>1. ASSUME NEW j \in listed' PROVE nfe'[j].status \in {"ListedForSale", "SoldToPool", "Settled"}
      <3>1. j \in Key
        BY DEF NfeInv, NfeTypeOK
      <3> QED
        BY <1>1, <1>2, <3>1 DEF NfeInv, ListedIsPastActive
    <2> QED
      BY <2>1 DEF ListedIsPastActive
  <1>7. OneTitlePerDocument'
    <2>1. \A k1, k2 \in Key : nfe'[k1] # Unknown /\ nfe'[k2] # Unknown
             /\ nfe'[k1].xml_hash = nfe'[k2].xml_hash => k1 = k2
      BY <1>1, <1>2 DEF NfeInv, OneTitlePerDocument
    <2>2. \A j \in Key : nfe'[j] = Unknown => nft'[j] = NoOne
      BY <1>1, <1>2, <1>3 DEF NfeInv, OneTitlePerDocument
    <2> QED
      BY <2>1, <2>2 DEF OneTitlePerDocument
  <1>8. SettledIsBurned'
    BY <1>1, <1>2, <1>3 DEF NfeInv, SettledIsBurned
  <1> QED
    BY <1>4, <1>5, <1>6, <1>7, <1>8 DEF NfeInv

\* Moving or burning an NFT outside the register preserves the invariant.
LEMMA HolderInv ==
    ASSUME NfeInv, NEW k \in Key, NEW holder \in Address \cup {NoOne},
           nft[k] \in Address,
           nft' = [nft EXCEPT ![k] = holder],
           UNCHANGED <<nfe, xmlHashes, listed>>
    PROVE  NfeInv'
  <1>1. nft' \in [Key -> Address \cup {NoOne}] /\ \A j \in Key : j # k => nft'[j] = nft[j]
    BY DEF NfeInv, NfeTypeOK
  <1>2. nft[k] # NoOne
    BY NfeAssumption DEF Address
  <1>3. nfe[k] # Unknown /\ nfe[k].status # "Settled"
    BY <1>2 DEF NfeInv, OneTitlePerDocument, SettledIsBurned
  <1> QED
    BY <1>1, <1>3 DEF NfeInv, NfeTypeOK, HashesIndexed, ListedIsPastActive,
       OneTitlePerDocument, SettledIsBurned

\* The record an EXCEPT on one field builds.
LEMMA FieldUpdate ==
    ASSUME NfeTypeOK, NEW k \in Key, nfe[k] # Unknown
    PROVE  /\ nfe[k].status \in NfeStatus /\ nfe[k].owner \in Address
           /\ \A s \in NfeStatus :
                 [nfe EXCEPT ![k].status = s] =
                 [nfe EXCEPT ![k] = [status |-> s, owner |-> nfe[k].owner, xml_hash |-> nfe[k].xml_hash]]
           /\ \A o \in Address :
                 [nfe EXCEPT ![k].owner = o] =
                 [nfe EXCEPT ![k] = [status |-> nfe[k].status, owner |-> o, xml_hash |-> nfe[k].xml_hash]]
  BY KnownByStatus DEF NfeTypeOK

\* Every step of the contract preserves the invariant.
LEMMA NfeStepInv == NfeInv /\ [NfeNext]_nfeVars => NfeInv'
  <1> SUFFICES ASSUME NfeInv, [NfeNext]_nfeVars PROVE NfeInv'
    OBVIOUS
  <1>0. NfeTypeOK
    BY DEF NfeInv
  <1>1. ASSUME NEW k \in Key, nfe[k].status \in NfeStatus
        PROVE  nfe[k] # Unknown
    BY <1>1 DEF Unknown, NfeStatus
  <1>2. ASSUME NEW k \in Key PROVE nft = [nft EXCEPT ![k] = nft[k]] /\ nft[k] \in Address \cup {NoOne}
    BY <1>0 DEF NfeTypeOK
  <1>3. CASE UNCHANGED nfeVars
    BY <1>3 DEF nfeVars, NfeInv, NfeTypeOK, HashesIndexed, ListedIsPastActive,
       OneTitlePerDocument, SettledIsBurned
  <1>4. ASSUME NEW k \in Key, NEW a \in Address, NEW h \in Hash, tokenize_nfe(k, h, a)
        PROVE  NfeInv'
    BY <1>4, TokenizeInv
  <1>5. ASSUME NEW k \in Key, NEW a \in Address, list_invoice_for_sale(a, k)
        PROVE  NfeInv'
    <2>1. nfe[k] # Unknown /\ "ListedForSale" \in NfeStatus
      BY <1>1, <1>5 DEF list_invoice_for_sale, NfeStatus
    <2>2. nfe' = [nfe EXCEPT ![k] = [status |-> "ListedForSale", owner |-> nfe[k].owner,
                                     xml_hash |-> nfe[k].xml_hash]]
      BY <1>0, <1>5, <2>1, FieldUpdate DEF list_invoice_for_sale
    <2>3. /\ nft' = [nft EXCEPT ![k] = nft[k]] /\ nft[k] \in Address \cup {NoOne}
          /\ xmlHashes' = xmlHashes /\ listed' = listed \cup {k}
      BY <1>2, <1>5 DEF list_invoice_for_sale
    <2>4. nfe[k].owner \in Address
      BY <1>0, <2>1, FieldUpdate
    <2> QED
      BY <2>1, <2>2, <2>3, <2>4, UpdateInv
  <1>6. ASSUME NEW k \in Key, mark_as_sold(k)
        PROVE  NfeInv'
    <2>1. nfe[k] # Unknown /\ "SoldToPool" \in NfeStatus
      BY <1>1, <1>6 DEF mark_as_sold, NfeStatus
    <2>2. nfe' = [nfe EXCEPT ![k] = [status |-> "SoldToPool", owner |-> nfe[k].owner,
                                     xml_hash |-> nfe[k].xml_hash]]
      BY <1>0, <1>6, <2>1, FieldUpdate DEF mark_as_sold
    <2>3. /\ nft' = [nft EXCEPT ![k] = nft[k]] /\ nft[k] \in Address \cup {NoOne}
          /\ xmlHashes' = xmlHashes /\ listed' = listed
      BY <1>2, <1>6 DEF mark_as_sold
    <2>4. nfe[k].owner \in Address
      BY <1>0, <2>1, FieldUpdate
    <2> QED
      BY <2>1, <2>2, <2>3, <2>4, UpdateInv
  <1>7. ASSUME NEW k \in Key, NEW a \in Address, NEW to \in Address, transfer_ownership(k, to, {a})
        PROVE  NfeInv'
    <2>1. nfe[k] # Unknown /\ k \notin listed
      BY <1>1, <1>7 DEF transfer_ownership, NfeStatus, NfeInv, ListedIsPastActive
    <2>2. nfe' = [nfe EXCEPT ![k] = [status |-> nfe[k].status, owner |-> to,
                                     xml_hash |-> nfe[k].xml_hash]]
      BY <1>0, <1>7, <2>1, FieldUpdate DEF transfer_ownership
    <2>3. nft' = [nft EXCEPT ![k] = to] /\ nfe[k].status = "Active" /\ UNCHANGED <<xmlHashes, listed>>
      BY <1>7 DEF transfer_ownership, base_transfer
    <2> QED
      BY <1>0, <2>1, <2>2, <2>3, FieldUpdate, UpdateInv
  <1>8. ASSUME NEW k \in Key, NEW a \in Address, settle_nfe(k, {a, Platform})
        PROVE  NfeInv'
    <2>1. nfe[k] # Unknown /\ "Settled" \in NfeStatus
      BY <1>1, <1>8 DEF settle_nfe, may_settle, NfeStatus
    <2>2. nfe' = [nfe EXCEPT ![k] = [status |-> "Settled", owner |-> nfe[k].owner,
                                     xml_hash |-> nfe[k].xml_hash]]
      BY <1>0, <1>8, <2>1, FieldUpdate DEF settle_nfe
    <2>3. nft' = [nft EXCEPT ![k] = NoOne] /\ UNCHANGED <<xmlHashes, listed>>
      BY <1>8 DEF settle_nfe, base_burn
    <2> QED
      BY <1>0, <2>1, <2>2, <2>3, FieldUpdate, UpdateInv
  <1>9. ASSUME NEW k \in Key, NEW a \in Address, NEW to \in Address, transfer(a, to, k)
        PROVE  NfeInv'
    BY <1>9, HolderInv DEF transfer, base_transfer
  <1>10. ASSUME NEW k \in Key, NEW a \in Address, burn(a, k)
         PROVE  NfeInv'
    BY <1>10, HolderInv DEF burn, base_burn
  <1> QED
    BY <1>3, <1>4, <1>5, <1>6, <1>7, <1>8, <1>9, <1>10 DEF NfeNext

\* Type correctness of the register, for every number of invoices.
THEOREM NfeTypeCorrect == NfeSpec => []NfeTypeOK
  <1>1. NfeInv => NfeTypeOK
    BY DEF NfeInv
  <1> QED
    BY <1>1, NfeInitInv, NfeStepInv, PTL DEF NfeSpec

\* No document is ever tokenized under two keys.
THEOREM DocumentBacksOneTitle == NfeSpec => []OneTitlePerDocument
  <1>1. NfeInv => OneTitlePerDocument
    BY DEF NfeInv
  <1> QED
    BY <1>1, NfeInitInv, NfeStepInv, PTL DEF NfeSpec

\* A settled invoice has no NFT left.
THEOREM SettlementBurns == NfeSpec => []SettledIsBurned
  <1>1. NfeInv => SettledIsBurned
    BY DEF NfeInv
  <1> QED
    BY <1>1, NfeInitInv, NfeStepInv, PTL DEF NfeSpec

\* A listed invoice leaves its listing only by the sale, with its owner fixed,
\* and a settled one never changes.
THEOREM ListingIsOneWay == NfeSpec => ListedLeavesBySale
  <1> DEFINE Forward == \A k \in Key :
          /\ nfe[k].status = "ListedForSale" =>
                nfe'[k].status \in {"ListedForSale", "SoldToPool"}
          /\ k \in listed => nfe'[k].owner = nfe[k].owner
          /\ nfe[k].status = "Settled" => nfe'[k] = nfe[k]
  <1>1. NfeInv /\ [NfeNext]_nfeVars => [Forward]_nfeVars
    <2> SUFFICES ASSUME NfeInv, NfeNext, NEW j \in Key
                 PROVE  /\ nfe[j].status = "ListedForSale" =>
                              nfe'[j].status \in {"ListedForSale", "SoldToPool"}
                        /\ j \in listed => nfe'[j].owner = nfe[j].owner
                        /\ nfe[j].status = "Settled" => nfe'[j] = nfe[j]
      OBVIOUS
    <2>0. NfeTypeOK /\ (j \in listed => nfe[j].status \in {"ListedForSale", "SoldToPool", "Settled"})
      BY DEF NfeInv, ListedIsPastActive
    <2>1. ASSUME NEW k \in Key, NEW a \in Address, NEW h \in Hash, tokenize_nfe(k, h, a)
          PROVE  k # j => nfe'[j] = nfe[j] 
      BY <2>0, <2>1 DEF tokenize_nfe, NfeTypeOK
    <2>2. ASSUME NEW k \in Key, NEW a \in Address, NEW h \in Hash, tokenize_nfe(k, h, a)
          PROVE  nfe[k].status = "Unknown"
      BY <2>2 DEF tokenize_nfe, not_tokenized, Unknown
    <2>3. ASSUME NEW k \in Key, NEW a \in Address, list_invoice_for_sale(a, k)
          PROVE  /\ k # j => nfe'[j] = nfe[j]
                 /\ nfe[k].status = "Active"
      BY <2>0, <2>3 DEF list_invoice_for_sale, NfeTypeOK
    <2>4. ASSUME NEW k \in Key, mark_as_sold(k)
          PROVE  /\ k # j => nfe'[j] = nfe[j]
                 /\ nfe[k].status = "ListedForSale" /\ nfe'[k].status = "SoldToPool"
                 /\ nfe'[k].owner = nfe[k].owner
      <3>1. nfe[k] # Unknown
        BY <2>4 DEF mark_as_sold, Unknown
      <3> QED
        BY <2>0, <2>4, <3>1, KnownByStatus DEF mark_as_sold, NfeTypeOK
    <2>5. ASSUME NEW k \in Key, NEW a \in Address, NEW to \in Address, transfer_ownership(k, to, {a})
          PROVE  /\ k # j => nfe'[j] = nfe[j]
                 /\ nfe[k].status = "Active"
      BY <2>0, <2>5 DEF transfer_ownership, NfeTypeOK
    <2>6. ASSUME NEW k \in Key, NEW a \in Address, settle_nfe(k, {a, Platform})
          PROVE  /\ k # j => nfe'[j] = nfe[j]
                 /\ nfe[k].status \in {"Active", "SoldToPool"}
                 /\ nfe'[k].owner = nfe[k].owner
      <3>1. nfe[k] # Unknown /\ nfe[k].status \in {"Active", "SoldToPool"}
        BY <2>6 DEF settle_nfe, may_settle, Unknown
      <3> QED
        BY <2>0, <2>6, <3>1, KnownByStatus DEF settle_nfe, NfeTypeOK
    <2>7. ASSUME NEW k \in Key, NEW a \in Address,
                 (\E to \in Address : transfer(a, to, k)) \/ burn(a, k)
          PROVE  nfe' = nfe
      BY <2>7 DEF transfer, burn
    <2> QED
      BY <2>0, <2>1, <2>2, <2>3, <2>4, <2>5, <2>6, <2>7 DEF NfeNext
  <1> QED
    BY <1>1, NfeInitInv, NfeStepInv, PTL DEF NfeSpec, ListedLeavesBySale
=============================================================================
