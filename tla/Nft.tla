---------------------------------- MODULE Nft ----------------------------------
(***************************************************************************)
(* Reward NFTs of the Shade contract (shade/src/components/nft.rs):          *)
(* merchants create collections, with or without a supply limit, and mint    *)
(* NFTs for recipients, one or several in a call; owners pass them on and    *)
(* burn them; the recipient of an NFT, whoever owns it by then, claims the   *)
(* reward that comes with it once.                                          *)
(***************************************************************************)
EXTENDS Merchants, Lists, SequencesExt

CONSTANTS
    Collectors,      \* the wallets NFTs are minted for and passed to
    Supplies,        \* what create_nft_collection may be called with; 0 is no limit
    Royalties,       \* and the royalties, in basis points
    MaxCollections,  \* bound: collections created
    MaxNfts          \* bound: NFTs minted

ASSUME NftAssumption ==
    /\ Collectors \subseteq Holder
    /\ Supplies \cup Royalties \subseteq Nat
    /\ {MaxCollections, MaxNfts} \subseteq Nat

VARIABLES
    collections,  \* DataKey::NftCollection and CollectionNfts
    nfts,         \* DataKey::Nft
    userNfts,     \* DataKey::UserNfts
    nftClaimed    \* DataKey::NftClaimed, as pairs of NFT and claimer

nftVars == <<collections, nfts, userNfts, nftClaimed>>

NftCollection == [merchant : Seller, max_supply : Nat, minted : Nat, active : BOOLEAN,
                  nfts : Seq(Nat \ {0})]

NftRecord == [collection_id : Nat \ {0}, owner : Collectors, status : {"Active", "Burned"},
              recipient : Collectors]

NftTypeOK ==
    /\ collections \in Seq(NftCollection)
    /\ nfts \in Seq(NftRecord)
    /\ userNfts \in [Collectors -> Seq(Nat \ {0})]
    /\ nftClaimed \subseteq (Nat \ {0}) \X Collectors

NftInit ==
    /\ collections = << >>
    /\ nfts = << >>
    /\ userNfts = [p \in Collectors |-> << >>]
    /\ nftClaimed = {}

-----------------------------------------------------------------------------
(* The merchant's side. *)

CreateNftCollection(m, supply, bps) ==
    /\ Len(collections) < MaxCollections
    /\ ~paused
    /\ bps <= 10000
    /\ IsMerchant(m)
    /\ merchants[m].active
    /\ collections' = Append(collections,
            [merchant |-> m, max_supply |-> supply, minted |-> 0, active |-> TRUE,
             nfts |-> << >>])
    /\ UNCHANGED <<platformVars, merchantVars, nfts, userNfts, nftClaimed>>

DeactivateNftCollection(c) ==
    /\ ~paused
    /\ collections' = [collections EXCEPT ![c].active = FALSE]
    /\ UNCHANGED <<platformVars, merchantVars, nfts, userNfts, nftClaimed>>

MayMint_FirstOnly(collection, n) ==  \* fault: a batch is let in by its first NFT
    /\ collection.active
    /\ collection.max_supply > 0 => collection.minted < collection.max_supply

\* The checks of n NFTs minted one after the other.
MayMint(collection, n) ==
    /\ collection.active
    /\ collection.max_supply > 0 => collection.minted + n <= collection.max_supply

Minted(c, p) == [collection_id |-> c, owner |-> p, status |-> "Active", recipient |-> p]

\* The NFTs minted for the wallets of the sequence ps, numbered on from the last one.
Mint(c, ps) ==
    LET ids    == [i \in DOMAIN ps |-> Len(nfts) + i]
        his(p) == Sifted(ids, {Len(nfts) + i : i \in {j \in DOMAIN ps : ps[j] = p}})
    IN  /\ Len(nfts) + Len(ps) <= MaxNfts
        /\ ~paused
        /\ MayMint(collections[c], Len(ps))
        /\ nfts' = nfts \o [i \in DOMAIN ps |-> Minted(c, ps[i])]
        /\ collections' = [collections EXCEPT ![c].minted = @ + Len(ps),
                                              ![c].nfts = @ \o ids]
        /\ userNfts' = [p \in Collectors |-> userNfts[p] \o his(p)]
        /\ UNCHANGED <<platformVars, merchantVars, nftClaimed>>

MintNft(c, p) == Mint(c, <<p>>)

\* One NFT that may not be minted undoes the whole batch.
BatchMintNfts(c, p, q) == Mint(c, <<p, q>>)

-----------------------------------------------------------------------------
(* The owners' side. *)

IsActive(i) == nfts[i].status = "Active"

WithoutNft_First(list, i) ==  \* fault: the oldest NFT goes, whichever it is
    Tail(list)

WithoutNft(list, i) == Sifted(list, Range(list) \ {i})

\* Called by the owner.  It may name itself.
TransferNft(i, p) ==
    LET owner   == nfts[i].owner
        removed == [userNfts EXCEPT ![owner] = WithoutNft(@, i)]
    IN  /\ ~paused
        /\ IsActive(i)
        /\ nfts' = [nfts EXCEPT ![i].owner = p]
        /\ userNfts' = [removed EXCEPT ![p] = Append(@, i)]
        /\ UNCHANGED <<platformVars, merchantVars, collections, nftClaimed>>

\* The NFT stays in its owner's list and counts against the supply for ever.
BurnNft(i) ==
    /\ ~paused
    /\ IsActive(i)
    /\ nfts' = [nfts EXCEPT ![i].status = "Burned"]
    /\ UNCHANGED <<platformVars, merchantVars, collections, userNfts, nftClaimed>>

MayClaim_Owner(i, p) == nfts[i].owner = p  \* fault: the owner claims, not the recipient

MayClaim(i, p) == nfts[i].recipient = p

ClaimNftReward(i, p) ==
    /\ ~paused
    /\ <<i, p>> \notin nftClaimed
    /\ MayClaim(i, p)
    /\ IsActive(i)
    /\ nftClaimed' = nftClaimed \cup {<<i, p>>}
    /\ UNCHANGED <<platformVars, merchantVars, collections, nfts, userNfts>>

-----------------------------------------------------------------------------
NftNext ==
    \/ \E m \in Seller, supply \in Supplies, bps \in Royalties :
        CreateNftCollection(m, supply, bps)
    \/ \E c \in DOMAIN collections :
        \/ DeactivateNftCollection(c)
        \/ \E p \in Collectors : MintNft(c, p)
        \/ \E p \in Collectors, q \in Collectors : BatchMintNfts(c, p, q)
    \/ \E i \in DOMAIN nfts :
        \/ BurnNft(i)
        \/ \E p \in Collectors : TransferNft(i, p) \/ ClaimNftReward(i, p)

-----------------------------------------------------------------------------
(* Properties. *)

\* No mix of single and batch mints exceeds a collection's supply, and the collection's
\* count and list are those of its NFTs, burnt ones included.
SupplyKept ==
    \A c \in DOMAIN collections :
        LET collection == collections[c]
        IN  /\ collection.max_supply > 0 => collection.minted <= collection.max_supply
            /\ collection.minted = Len(collection.nfts)
            /\ IsInjective(collection.nfts)
            /\ Range(collection.nfts) = {i \in DOMAIN nfts : nfts[i].collection_id = c}

\* A wallet's list is what it owns, each NFT once, after any chain of transfers, to
\* oneself and back to an earlier owner included.
OwnersListed ==
    \A p \in Collectors :
        /\ IsInjective(userNfts[p])
        /\ Range(userNfts[p]) = {i \in DOMAIN nfts : nfts[i].owner = p}

\* An NFT's reward is claimed once at most, through any number of owners, although what
\* is remembered is who claimed and not that the reward is gone.
OneRewardEach ==
    \A claim \in nftClaimed, other \in nftClaimed : claim[1] = other[1] => claim = other
=============================================================================
