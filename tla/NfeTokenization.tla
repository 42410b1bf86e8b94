-------------------------- MODULE NfeTokenization ---------------------------
(***************************************************************************)
(* The Soroban contract contracts/nfe_tokenization: the register of        *)
(* tokenized invoices and the NFT minted for each.  An invoice is known by *)
(* its key, the id of the receivable; token ids are sequential and never   *)
(* reused, so the NFT of an invoice is named by the same key.  The NFT     *)
(* itself is the OpenZeppelin base token: its holder may burn it or hand   *)
(* it over through an approved spender without the register being told.    *)
(***************************************************************************)
EXTENDS Naturals, FiniteSets

CONSTANTS Key,        \* receivable ids
          Hash,       \* xml hashes
          Wallet,     \* accounts other than the platform
          Platform,   \* DataKey::Platform
          NoOne       \* holder of an NFT that is not minted or is burned

ASSUME NfeAssumption ==
    /\ Platform \notin Wallet
    /\ NoOne \notin Wallet \cup {Platform}

Address == Wallet \cup {Platform}

\* NfeStatus without the two statuses no function ever assigns.
NfeStatus == {"Active", "ListedForSale", "SoldToPool", "Settled"}

VARIABLES nfe,       \* DataKey::Nfe: key -> status, owner, xml_hash
          xmlHashes, \* DataKey::XmlHashToToken
          listed,    \* DataKey::SaleListing
          nft        \* holder of the NFT of each key

nfeVars == <<nfe, xmlHashes, listed, nft>>

Unknown == [status |-> "Unknown", owner |-> NoOne, xml_hash |-> "none"]

NfeInit ==
    /\ nfe = [k \in Key |-> Unknown]
    /\ xmlHashes = {}
    /\ listed = {}
    /\ nft = [k \in Key |-> NoOne]

----------------------------------------------------------------------------
(* The base token.  Both calls need the authorization of the holder.       *)

base_transfer(from, to, k) ==
    /\ nft[k] = from
    /\ nft' = [nft EXCEPT ![k] = to]

base_burn(from, k) ==
    /\ nft[k] = from
    /\ nft' = [nft EXCEPT ![k] = NoOne]

----------------------------------------------------------------------------
\* Faulty variant: only the key is looked up.
not_tokenized_key(k, h) == nfe[k] = Unknown

\* The two AlreadyExists checks.
not_tokenized(k, h) == h \notin xmlHashes /\ nfe[k] = Unknown

tokenize_nfe(k, h, owner) ==
    /\ not_tokenized(k, h)
    /\ nft' = [nft EXCEPT ![k] = owner]
    /\ nfe' = [nfe EXCEPT ![k] = [status |-> "Active", owner |-> owner, xml_hash |-> h]]
    /\ xmlHashes' = xmlHashes \cup {h}
    /\ UNCHANGED listed

\* The offer's amounts only reach the listing; a valid offer is assumed.
list_invoice_for_sale(owner, k) ==
    /\ nfe[k].status = "Active"
    /\ nfe[k].owner = owner
    /\ nfe' = [nfe EXCEPT ![k].status = "ListedForSale"]
    /\ listed' = listed \cup {k}
    /\ UNCHANGED <<xmlHashes, nft>>

\* Faulty variant: a symbol that is not one of NfeStatus is stored.
mark_as_sold_misspelt(k) ==
    /\ nfe[k].status = "ListedForSale"
    /\ nfe' = [nfe EXCEPT ![k].status = "Sold"]
    /\ UNCHANGED <<xmlHashes, listed, nft>>

mark_as_sold(k) ==
    /\ nfe[k].status = "ListedForSale"
    /\ nfe' = [nfe EXCEPT ![k].status = "SoldToPool"]
    /\ UNCHANGED <<xmlHashes, listed, nft>>

\* signers: whose authorization the transaction carries
transfer_ownership(k, new_owner, signers) ==
    /\ nfe[k].status = "Active"
    /\ nfe[k].owner \in signers
    /\ base_transfer(nfe[k].owner, new_owner, k)
    /\ nfe' = [nfe EXCEPT ![k].owner = new_owner]
    /\ UNCHANGED <<xmlHashes, listed>>

\* Faulty variant: a listed invoice may be settled too.
may_settle_listed(k) == nfe[k].status \in {"Active", "ListedForSale", "SoldToPool"}

may_settle(k) == nfe[k].status \in {"Active", "SoldToPool"}

\* Faulty variant: the invoice is marked settled and its NFT left alive.
settle_without_burn(k, signers) ==
    /\ Platform \in signers
    /\ may_settle(k)
    /\ nfe' = [nfe EXCEPT ![k].status = "Settled"]
    /\ UNCHANGED <<xmlHashes, listed, nft>>

\* The burn needs the recorded owner's authorization beside the platform's.
settle_nfe(k, signers) ==
    /\ Platform \in signers
    /\ may_settle(k)
    /\ nfe[k].owner \in signers
    /\ base_burn(nfe[k].owner, k)
    /\ nfe' = [nfe EXCEPT ![k].status = "Settled"]
    /\ UNCHANGED <<xmlHashes, listed>>

\* NonFungibleToken::transfer, overridden: the platform and the holder sign.
transfer(from, to, k) ==
    /\ from \in Address
    /\ base_transfer(from, to, k)
    /\ UNCHANGED <<nfe, xmlHashes, listed>>

\* burn, inherited
burn(from, k) ==
    /\ from \in Address
    /\ base_burn(from, k)
    /\ UNCHANGED <<nfe, xmlHashes, listed>>

NfeNext ==
    \E k \in Key, a \in Address :
        \/ \E h \in Hash : tokenize_nfe(k, h, a)
        \/ list_invoice_for_sale(a, k)
        \/ mark_as_sold(k)
        \/ \E to \in Address : transfer_ownership(k, to, {a})
        \/ settle_nfe(k, {a, Platform})
        \/ \E to \in Address : transfer(a, to, k)
        \/ burn(a, k)

NfeSpec == NfeInit /\ [][NfeNext]_nfeVars

----------------------------------------------------------------------------
\* The register and the holders keep their shape.
NfeTypeOK ==
    /\ nfe \in [Key -> [status : NfeStatus, owner : Address, xml_hash : Hash] \cup {Unknown}]
    /\ xmlHashes \subseteq Hash
    /\ listed \subseteq Key
    /\ nft \in [Key -> Address \cup {NoOne}]

\* An invoice document backs at most one key for ever, also after the NFT was
\* settled or burned, and no NFT exists for a key that is not registered.
OneTitlePerDocument ==
    /\ \A k1, k2 \in Key :
          nfe[k1] # Unknown /\ nfe[k2] # Unknown /\ nfe[k1].xml_hash = nfe[k2].xml_hash
              => k1 = k2
    /\ \A k \in Key : nfe[k] = Unknown => nft[k] = NoOne

\* A settled invoice has no NFT left that could be assigned again, whatever
\* its holder did with the NFT outside the register.
SettledIsBurned == \A k \in Key : nfe[k].status = "Settled" => nft[k] = NoOne

\* The lifecycle only moves forward.  In particular an invoice that was listed
\* has one way out, the sale to the pool: it cannot be unlisted, handed over or
\* settled before mark_as_sold, and from the listing on its owner is fixed.
ListedLeavesBySale ==
    [][\A k \in Key :
          /\ nfe[k].status = "ListedForSale" =>
                nfe'[k].status \in {"ListedForSale", "SoldToPool"}
          /\ k \in listed => nfe'[k].owner = nfe[k].owner
          /\ nfe[k].status = "Settled" => nfe'[k] = nfe[k]]_nfeVars
=============================================================================
