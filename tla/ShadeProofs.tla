----------------------------- MODULE ShadeProofs -----------------------------
(***************************************************************************)
(* Theorems about the Shade contract as one system, for every value of the  *)
(* constants.  Each has an inductive invariant over the variables of one    *)
(* component; the steps of the others are shown to leave those alone.  The   *)
(* properties about money rest on one invariant of the whole contract and on *)
(* what each entry point moves.                                             *)
(***************************************************************************)
EXTENDS Shade, InvoiceProofs, SequenceTheorems

-----------------------------------------------------------------------------
(* Records kept by number. *)

\* Writing a record leaves the others.
LEMMA Written ==
  ASSUME NEW S, NEW s \in Seq(S), NEW k \in DOMAIN s, NEW x \in S
  PROVE  LET t == [s EXCEPT ![k] = x]
         IN  /\ t \in Seq(S)
             /\ Len(t) = Len(s)
             /\ DOMAIN t = DOMAIN s
             /\ t[k] = x
             /\ \A j \in DOMAIN s \ {k} : t[j] = s[j]
  OBVIOUS

\* A new record takes the next number.
LEMMA Added ==
  ASSUME NEW S, NEW s \in Seq(S), NEW x \in S
  PROVE  LET t == Append(s, x)
             n == Len(s) + 1
         IN  /\ t \in Seq(S)
             /\ Len(t) = n
             /\ DOMAIN s = 1 .. Len(s)
             /\ DOMAIN t = DOMAIN s \cup {n}
             /\ n \in Nat \ DOMAIN s
             /\ t[n] = x
             /\ \A j \in DOMAIN s : t[j] = s[j]
  OBVIOUS

\* List t is s with the n entries of f after it.
Lengthened(S, s, n, f, t) ==
    /\ t \in Seq(S)
    /\ Len(s) \in Nat
    /\ Len(t) = Len(s) + n
    /\ DOMAIN t = 1 .. Len(s) + n
    /\ DOMAIN s = 1 .. Len(s)
    /\ \A i \in 1 .. Len(s) : t[i] = s[i]
    /\ \A i \in 1 .. n : t[Len(s) + i] = f[i]

\* Records added together take the next numbers.
LEMMA Joined ==
  ASSUME NEW S, NEW s \in Seq(S), NEW n \in Nat, NEW f \in [1 .. n -> S]
  PROVE  Lengthened(S, s, n, f, s \o f)
<1> DEFINE t == s \o f
<1>1. f \in Seq(S) /\ Len(f) = n /\ Len(s) \in Nat /\ DOMAIN s = 1 .. Len(s)
  OBVIOUS
<1>2. /\ t \in Seq(S)
      /\ Len(t) = Len(s) + n
      /\ \A i \in 1 .. Len(s) + n : t[i] = IF i <= Len(s) THEN s[i] ELSE f[i - Len(s)]
  BY <1>1, ConcatProperties
<1> HIDE DEF t
<1>3. DOMAIN t = 1 .. Len(s) + n
  BY <1>2
<1>4. \A i \in 1 .. Len(s) : t[i] = s[i]
  BY <1>1, <1>2
<1>5. ASSUME NEW i \in 1 .. n
      PROVE  t[Len(s) + i] = f[i]
  <2>1. Len(s) + i \in 1 .. Len(s) + n /\ ~(Len(s) + i <= Len(s))
    BY <1>1
  <2>2. (Len(s) + i) - Len(s) = i
    BY <1>1
  <2> QED BY <1>2, <2>1, <2>2
<1> QED BY <1>1, <1>2, <1>3, <1>4, <1>5 DEF t, Lengthened

\* Two lists with nothing in common and nothing twice, one after the other.
LEMMA ListsJoined ==
  ASSUME NEW S, NEW s \in Seq(S), NEW r \in Seq(S), IsInjective(s), IsInjective(r),
         Range(s) \cap Range(r) = {}
  PROVE  /\ s \o r \in Seq(S)
         /\ IsInjective(s \o r)
         /\ Range(s \o r) = Range(s) \cup Range(r)
<1> DEFINE n == Len(r)
           m == Len(s)
           t == s \o r
<1>1. n \in Nat /\ m \in Nat /\ r \in [1 .. n -> S] /\ DOMAIN r = 1 .. n
  OBVIOUS
<1>2. /\ t \in Seq(S)
      /\ DOMAIN t = 1 .. m + n
      /\ DOMAIN s = 1 .. m
      /\ \A i \in 1 .. m : t[i] = s[i]
      /\ \A i \in 1 .. n : t[m + i] = r[i]
  BY <1>1, Joined DEF Lengthened
<1> HIDE DEF n, m, t
<1>3. \A i \in 1 .. m : t[i] \in Range(s) /\ t[i] \notin Range(r)
  BY <1>2 DEF Range
<1>4. ASSUME NEW i \in (1 .. m + n) \ (1 .. m)
      PROVE  i - m \in 1 .. n /\ t[i] = r[i - m] /\ t[i] \in Range(r)
  <2>1. i - m \in 1 .. n /\ i = m + (i - m)
    BY <1>1
  <2> QED BY <1>1, <1>2, <2>1 DEF Range
<1>5. IsInjective(t)
  <2> SUFFICES ASSUME NEW i \in DOMAIN t, NEW j \in DOMAIN t, t[i] = t[j]
               PROVE  i = j
    BY DEF IsInjective
  <2>1. CASE i \in 1 .. m /\ j \in 1 .. m
    BY <1>2, <2>1 DEF IsInjective
  <2>2. CASE i \notin 1 .. m /\ j \notin 1 .. m
    <3>1. i - m \in DOMAIN r /\ j - m \in DOMAIN r /\ r[i - m] = r[j - m]
      BY <1>1, <1>2, <1>4, <2>2
    <3>2. i - m = j - m
      BY <3>1 DEF IsInjective
    <3> QED BY <1>1, <1>2, <3>2
  <2>3. CASE i \in 1 .. m /\ j \notin 1 .. m
    BY <1>2, <1>3, <1>4, <2>3
  <2>4. CASE i \notin 1 .. m /\ j \in 1 .. m
    BY <1>2, <1>3, <1>4, <2>4
  <2> QED BY <2>1, <2>2, <2>3, <2>4
<1>6. ASSUME NEW x \in Range(s)
      PROVE  x \in Range(t)
  <2>1. PICK i \in 1 .. m : x = s[i]
    BY <1>2, <1>6 DEF Range
  <2>2. i \in DOMAIN t /\ t[i] = x
    BY <1>1, <1>2, <2>1
  <2> QED BY <2>2 DEF Range
<1>7. ASSUME NEW x \in Range(r)
      PROVE  x \in Range(t)
  <2>1. PICK i \in 1 .. n : x = r[i]
    BY <1>1, <1>7 DEF Range
  <2>2. m + i \in DOMAIN t /\ t[m + i] = x
    BY <1>1, <1>2, <2>1
  <2> QED BY <2>2 DEF Range
<1>8. ASSUME NEW x \in Range(t)
      PROVE  x \in Range(s) \cup Range(r)
  <2>1. PICK i \in 1 .. m + n : x = t[i]
    BY <1>2, <1>8 DEF Range
  <2> QED BY <1>3, <1>4, <2>1
<1> QED BY <1>2, <1>5, <1>6, <1>7, <1>8 DEF t

\* The lists of what each of some wallets has, nothing twice.
Owned(W, lists, mine) ==
    /\ lists \in [W -> Seq(Nat \ {0})]
    /\ \A p \in W : IsInjective(lists[p]) /\ Range(lists[p]) = mine[p]

\* What the owner's list loses and the new owner's gains when i is passed on, also to
\* the owner itself.
Passed(lists, i, from, to) ==
    LET removed == [lists EXCEPT ![from] = Sifted(@, Range(@) \ {i})]
    IN  [removed EXCEPT ![to] = Append(@, i)]

\* Afterwards it is the new owner that has it, and nobody else.
LEMMA PassedOn ==
  ASSUME NEW W, NEW mine, NEW lists, Owned(W, lists, mine), NEW i \in Nat \ {0},
         NEW from \in W, NEW to \in W, \A p \in W \ {from} : i \notin mine[p]
  PROVE  Owned(W, Passed(lists, i, from, to),
               [p \in W |-> IF p = to THEN mine[p] \cup {i} ELSE mine[p] \ {i}])
<1> DEFINE fewer == Sifted(lists[from], Range(lists[from]) \ {i})
           removed == [lists EXCEPT ![from] = fewer]
           longer == Append(removed[to], i)
           next == [removed EXCEPT ![to] = longer]
<1>1. /\ lists \in [W -> Seq(Nat \ {0})]
      /\ \A p \in W : IsInjective(lists[p]) /\ Range(lists[p]) = mine[p]
  BY DEF Owned
<1>2. /\ fewer \in Seq(Nat \ {0})
      /\ Range(fewer) = mine[from] \ {i}
      /\ IsInjective(fewer)
  BY <1>1, SiftedFacts
<1>3. Passed(lists, i, from, to) = next
  BY Zenon DEF Passed
<1> HIDE DEF fewer
<1>4. \A p \in W : /\ removed[p] \in Seq(Nat \ {0})
                   /\ Range(removed[p]) = mine[p] \ {i}
                   /\ IsInjective(removed[p])
  BY <1>1, <1>2
<1>5. removed \in [W -> Seq(Nat \ {0})]
  BY <1>1, <1>2
<1> HIDE DEF removed
<1>6. /\ longer \in Seq(Nat \ {0})
      /\ Range(longer) = mine[to] \cup {i}
      /\ IsInjective(longer)
  <2>1. /\ removed[to] \in Seq(Nat \ {0})
        /\ Range(removed[to]) = mine[to] \ {i}
        /\ IsInjective(removed[to])
    BY <1>4
  <2> DEFINE list == removed[to]
  <2> HIDE DEF list
  <2>2. /\ Append(list, i) \in Seq(Nat \ {0})
        /\ Range(Append(list, i)) = Range(list) \cup {i}
        /\ IsInjective(list) /\ i \notin Range(list) => IsInjective(Append(list, i))
    BY <2>1, Pushed DEF list
  <2> QED BY <2>1, <2>2 DEF list
<1> HIDE DEF longer
<1>7. next \in [W -> Seq(Nat \ {0})]
  BY <1>5, <1>6
<1>8. \A p \in W : /\ IsInjective(next[p])
                   /\ Range(next[p]) = IF p = to THEN mine[p] \cup {i} ELSE mine[p] \ {i}
  BY <1>4, <1>5, <1>6
<1> HIDE DEF next
<1> QED BY <1>3, <1>7, <1>8 DEF Owned

-----------------------------------------------------------------------------
(* Every step belongs to one component. *)

\* What a component keeps changes by its own entry points only.
LEMMA StepOwners ==
  ASSUME [ShadeNext]_shadeVars
  PROVE  /\ EventsNext \/ UNCHANGED eventVars
         /\ SubscriptionNext \/ UNCHANGED <<subs, plans, charges>>
         /\ BackerRewardsNext \/ UNCHANGED campaigns
         /\ NftNext \/ UNCHANGED nftVars
  BY DEF ShadeNext, shadeVars, eventVars, subscriptionVars, nftVars

-----------------------------------------------------------------------------
(* Reward NFTs. *)

NftsTyped ==
    /\ collections \in Seq(NftCollection)
    /\ nfts \in Seq(NftRecord)
    /\ \A i \in DOMAIN nfts : nfts[i].collection_id \in DOMAIN collections

\* Whoever has claimed the reward of an NFT is its recipient, which never changes.
ClaimedByRecipients ==
    \A claim \in nftClaimed :
        claim[1] \in DOMAIN nfts /\ claim = <<claim[1], nfts[claim[1]].recipient>>

NftInv == NftsTyped /\ SupplyKept /\ ClaimedByRecipients

\* The two mints as one: one wallet, or two, called ps.
LEMMA MintCases ==
  ASSUME NEW c \in DOMAIN collections, NEW p \in Collectors, NEW q \in Collectors,
         MintNft(c, p) \/ BatchMintNfts(c, p, q)
  PROVE  \E n \in Nat : \E ps \in [1 .. n -> Collectors] : Len(ps) = n /\ Mint(c, ps)
<1>1. CASE MintNft(c, p)
  <2>1. <<p>> \in [1 .. 1 -> Collectors] /\ Len(<<p>>) = 1
    OBVIOUS
  <2> QED BY <1>1, <2>1 DEF MintNft
<1>2. CASE BatchMintNfts(c, p, q)
  <2>1. <<p, q>> \in [1 .. 2 -> Collectors] /\ Len(<<p, q>>) = 2
    OBVIOUS
  <2> QED BY <1>2, <2>1 DEF BatchMintNfts
<1> QED BY <1>1, <1>2

\* A mint appends its NFTs, all of one collection.
LEMMA MintNfts ==
  ASSUME NftInv, NEW c \in DOMAIN collections, NEW n \in Nat,
         NEW ps \in [1 .. n -> Collectors], Len(ps) = n, Mint(c, ps)
  PROVE  /\ nfts' \in Seq(NftRecord)
         /\ Len(nfts) \in Nat
         /\ DOMAIN nfts = 1 .. Len(nfts)
         /\ DOMAIN nfts' = 1 .. Len(nfts) + n
         /\ \A i \in DOMAIN nfts : nfts'[i] = nfts[i]
         /\ \A j \in DOMAIN nfts' \ DOMAIN nfts : nfts'[j].collection_id = c
<1> DEFINE new == [i \in DOMAIN ps |-> Minted(c, ps[i])]
<1>1. DOMAIN ps = 1 .. n /\ c \in Nat \ {0}
  BY DEF NftInv, NftsTyped
<1>2. new \in [1 .. n -> NftRecord]
  BY <1>1 DEF Minted, NftRecord
<1>3. nfts' = nfts \o new /\ nfts \in Seq(NftRecord)
  BY DEF Mint, NftInv, NftsTyped
<1>4. \A i \in 1 .. n : new[i].collection_id = c
  BY <1>1 DEF Minted
<1> DEFINE old == nfts
<1> HIDE DEF new, old
<1>5. old \in Seq(NftRecord) /\ nfts = old
  BY <1>3 DEF old
<1>6. /\ old \o new \in Seq(NftRecord)
      /\ Len(old) \in Nat
      /\ DOMAIN (old \o new) = 1 .. Len(old) + n
      /\ DOMAIN old = 1 .. Len(old)
      /\ \A i \in 1 .. Len(old) : (old \o new)[i] = old[i]
      /\ \A i \in 1 .. n : (old \o new)[Len(old) + i] = new[i]
  BY <1>2, <1>5, Joined DEF Lengthened
<1>7. /\ nfts' \in Seq(NftRecord)
      /\ Len(nfts) \in Nat
      /\ DOMAIN nfts = 1 .. Len(nfts)
      /\ DOMAIN nfts' = 1 .. Len(nfts) + n
      /\ \A i \in DOMAIN nfts : nfts'[i] = nfts[i]
      /\ \A i \in 1 .. n : nfts'[Len(nfts) + i] = new[i]
  BY <1>6, <1>5, <1>3
<1>8. ASSUME NEW i \in DOMAIN nfts' \ DOMAIN nfts
      PROVE  nfts'[i].collection_id = c
  <2>1. i - Len(nfts) \in 1 .. n /\ i = Len(nfts) + (i - Len(nfts))
    BY <1>7
  <2>2. nfts'[i] = new[i - Len(nfts)]
    BY <1>7, <2>1
  <2> QED BY <1>4, <2>1, <2>2
<1> QED BY <1>7, <1>8

\* What a mint writes into its collection.
LEMMA MintCollection ==
  ASSUME NftInv, NEW c \in DOMAIN collections, NEW n \in Nat,
         NEW ps \in [1 .. n -> Collectors], Len(ps) = n, Mint(c, ps)
  PROVE  /\ collections' \in Seq(NftCollection)
         /\ DOMAIN collections' = DOMAIN collections
         /\ \A d \in DOMAIN collections \ {c} : collections'[d] = collections[d]
         /\ collections'[c].max_supply = collections[c].max_supply
         /\ collections[c].max_supply > 0 =>
                collections'[c].minted <= collections[c].max_supply
         /\ collections'[c].minted = Len(collections'[c].nfts)
         /\ IsInjective(collections'[c].nfts)
         /\ Range(collections'[c].nfts) =
                Range(collections[c].nfts) \cup (Len(nfts) + 1 .. Len(nfts) + n)
<1> DEFINE ids == [i \in DOMAIN ps |-> Len(nfts) + i]
           was == collections[c]
           list == was.nfts
           is == [was EXCEPT !.minted = was.minted + n, !.nfts = list \o ids]
<1>1. DOMAIN ps = 1 .. n /\ Len(nfts) \in Nat /\ DOMAIN nfts = 1 .. Len(nfts)
  BY DEF NftInv, NftsTyped
<1>2. was \in NftCollection /\ list \in Seq(Nat \ {0}) /\ was.minted \in Nat
  <2>1. was \in NftCollection
    BY DEF NftInv, NftsTyped
  <2> HIDE DEF was
  <2> QED BY <2>1 DEF NftCollection
<1>3. ids \in [1 .. n -> Nat \ {0}] /\ \A i \in 1 .. n : ids[i] = Len(nfts) + i
  BY <1>1
<1>4. /\ was.minted = Len(list)
      /\ IsInjective(list)
      /\ Range(list) = {i \in DOMAIN nfts : nfts[i].collection_id = c}
  BY DEF NftInv, SupplyKept
<1>5. collections' = [collections EXCEPT ![c] = is]
  BY Zenon DEF Mint
<1>6. MayMint(was, n)
  BY DEF Mint
<1> HIDE DEF ids, list, was
<1>7. /\ list \o ids \in Seq(Nat \ {0})
      /\ Len(list) \in Nat
      /\ Len(list \o ids) = Len(list) + n
      /\ DOMAIN (list \o ids) = 1 .. Len(list) + n
      /\ DOMAIN list = 1 .. Len(list)
      /\ \A i \in 1 .. Len(list) : (list \o ids)[i] = list[i]
      /\ \A i \in 1 .. n : (list \o ids)[Len(list) + i] = ids[i]
  BY <1>2, <1>3, Joined DEF Lengthened
<1>8. was.minted + n \in Nat
  BY <1>2
<1> DEFINE joined == list \o ids
           more == was.minted + n
<1>9. is = [was EXCEPT !.minted = more, !.nfts = joined]
  OBVIOUS
<1>10. more \in Nat /\ joined \in Seq(Nat \ {0})
  BY <1>7, <1>8
<1> HIDE DEF is, joined, more
<1>11. /\ is \in NftCollection
       /\ is.max_supply = was.max_supply
       /\ is.minted = more
       /\ is.nfts = joined
  BY <1>2, <1>9, <1>10 DEF NftCollection
<1>12. /\ is \in NftCollection
      /\ is.max_supply = was.max_supply
      /\ is.minted = was.minted + n
      /\ is.nfts = list \o ids
  BY <1>11 DEF joined, more
<1>13. /\ collections' \in Seq(NftCollection)
       /\ DOMAIN collections' = DOMAIN collections
       /\ collections'[c] = is
       /\ \A d \in DOMAIN collections \ {c} : collections'[d] = collections[d]
  BY <1>5, <1>12, Written DEF NftInv, NftsTyped
<1>14. was.max_supply > 0 => is.minted <= was.max_supply
  BY <1>6, <1>12 DEF MayMint
<1>15. is.minted = Len(is.nfts)
  BY <1>4, <1>7, <1>12
<1>16. \A i \in DOMAIN list : list[i] \in 1 .. Len(nfts)
  BY <1>1, <1>4 DEF Range
<1> USE DEF joined
<1>17. \A i \in 1 .. Len(list) : joined[i] = list[i] /\ joined[i] \in 1 .. Len(nfts)
  BY <1>7, <1>16
<1>18. \A i \in 1 .. n : joined[Len(list) + i] = Len(nfts) + i
  BY <1>3, <1>7
<1>19. \A i \in (1 .. Len(list) + n) \ (1 .. Len(list)) :
            joined[i] = Len(nfts) + (i - Len(list))
  <2>1. TAKE i \in (1 .. Len(list) + n) \ (1 .. Len(list))
  <2>2. i - Len(list) \in 1 .. n /\ i = Len(list) + (i - Len(list))
    BY <1>7
  <2> QED BY <1>18, <2>2
<1>20. DOMAIN joined = 1 .. Len(list) + n
  BY <1>7
<1> HIDE DEF joined
<1>21. IsInjective(joined)
  <2> SUFFICES ASSUME NEW i \in DOMAIN joined, NEW j \in DOMAIN joined, joined[i] = joined[j]
               PROVE  i = j
    BY DEF IsInjective
  <2>1. CASE i \in 1 .. Len(list) /\ j \in 1 .. Len(list)
    BY <1>4, <1>7, <1>17, <2>1 DEF IsInjective
  <2>2. CASE i \in 1 .. Len(list) /\ j \notin 1 .. Len(list)
    BY <1>1, <1>7, <1>17, <1>19, <1>20, <2>2
  <2>3. CASE i \notin 1 .. Len(list) /\ j \in 1 .. Len(list)
    BY <1>1, <1>7, <1>17, <1>19, <1>20, <2>3
  <2>4. CASE i \notin 1 .. Len(list) /\ j \notin 1 .. Len(list)
    BY <1>1, <1>7, <1>19, <1>20, <2>4
  <2> QED BY <2>1, <2>2, <2>3, <2>4
<1>22. Range(joined) = Range(list) \cup (Len(nfts) + 1 .. Len(nfts) + n)
  <2>1. ASSUME NEW x \in Range(joined)
        PROVE  x \in Range(list) \cup (Len(nfts) + 1 .. Len(nfts) + n)
    <3>1. PICK i \in DOMAIN joined : x = joined[i]
      BY <2>1 DEF Range
    <3>2. CASE i \in 1 .. Len(list)
      BY <1>7, <1>17, <3>1, <3>2 DEF Range
    <3>3. CASE i \notin 1 .. Len(list)
      BY <1>1, <1>7, <1>19, <1>20, <3>1, <3>3
    <3> QED BY <3>2, <3>3
  <2>2. ASSUME NEW x \in Range(list)
        PROVE  x \in Range(joined)
    <3>1. PICK i \in DOMAIN list : x = list[i]
      BY <2>2 DEF Range
    <3>2. i \in DOMAIN joined /\ joined[i] = x
      BY <1>7, <1>17, <1>20, <3>1
    <3> QED BY <3>2 DEF Range
  <2>3. ASSUME NEW x \in Len(nfts) + 1 .. Len(nfts) + n
        PROVE  x \in Range(joined)
    <3>1. x - Len(nfts) \in 1 .. n
      BY <1>1
    <3>2. joined[Len(list) + (x - Len(nfts))] = x
      BY <1>1, <1>18, <3>1
    <3>3. Len(list) + (x - Len(nfts)) \in DOMAIN joined
      BY <1>7, <1>20, <3>1
    <3> QED BY <3>2, <3>3 DEF Range
  <2> QED BY <2>1, <2>2, <2>3
<1>23. is.nfts = joined
  BY <1>12 DEF joined
<1> QED BY <1>13, <1>14, <1>15, <1>21, <1>22, <1>23, <1>12 DEF was, list

\* A mint, of one or several NFTs, keeps the collections in order.
LEMMA MintKeeps ==
  ASSUME NftInv, NEW c \in DOMAIN collections, NEW n \in Nat,
         NEW ps \in [1 .. n -> Collectors], Len(ps) = n, Mint(c, ps)
  PROVE  NftInv'
<1>1. /\ nfts' \in Seq(NftRecord)
      /\ Len(nfts) \in Nat
      /\ DOMAIN nfts = 1 .. Len(nfts)
      /\ DOMAIN nfts' = 1 .. Len(nfts) + n
      /\ \A i \in DOMAIN nfts : nfts'[i] = nfts[i]
      /\ \A i \in DOMAIN nfts' \ DOMAIN nfts : nfts'[i].collection_id = c
  BY MintNfts
<1>2. /\ collections' \in Seq(NftCollection)
      /\ DOMAIN collections' = DOMAIN collections
      /\ \A d \in DOMAIN collections \ {c} : collections'[d] = collections[d]
      /\ collections'[c].max_supply = collections[c].max_supply
      /\ collections[c].max_supply > 0 =>
                collections'[c].minted <= collections[c].max_supply
      /\ collections'[c].minted = Len(collections'[c].nfts)
      /\ IsInjective(collections'[c].nfts)
      /\ Range(collections'[c].nfts) =
                Range(collections[c].nfts) \cup (Len(nfts) + 1 .. Len(nfts) + n)
  BY MintCollection
<1>3. NftsTyped'
  BY <1>1, <1>2 DEF NftInv, NftsTyped
<1>4. ASSUME NEW d \in DOMAIN collections
      PROVE  Range(collections'[d].nfts) = {i \in DOMAIN nfts' : nfts'[i].collection_id = d}
  <2>1. Range(collections[d].nfts) = {i \in DOMAIN nfts : nfts[i].collection_id = d}
    BY DEF NftInv, SupplyKept
  <2>2. DOMAIN nfts' = DOMAIN nfts \cup (Len(nfts) + 1 .. Len(nfts) + n)
    BY <1>1
  <2>3. \A i \in Len(nfts) + 1 .. Len(nfts) + n : i \notin DOMAIN nfts
    BY <1>1
  <2>4. {i \in DOMAIN nfts' : nfts'[i].collection_id = d} =
            {i \in DOMAIN nfts : nfts[i].collection_id = d}
            \cup {i \in Len(nfts) + 1 .. Len(nfts) + n : c = d}
    BY <1>1, <2>2, <2>3
  <2>5. CASE c = d
    BY <1>2, <2>1, <2>4, <2>5
  <2>6. CASE c # d
    BY <1>2, <2>1, <2>4, <2>6
  <2> QED BY <2>5, <2>6
<1>5. ASSUME NEW d \in DOMAIN collections
      PROVE  /\ collections'[d].max_supply > 0 =>
                    collections'[d].minted <= collections'[d].max_supply
             /\ collections'[d].minted = Len(collections'[d].nfts)
             /\ IsInjective(collections'[d].nfts)
  <2>1. CASE d = c
    BY <1>2, <2>1
  <2>2. CASE d # c
    BY <1>2, <2>2 DEF NftInv, SupplyKept
  <2> QED BY <2>1, <2>2
<1>6. SupplyKept'
  BY <1>2, <1>4, <1>5 DEF SupplyKept
<1>7. nftClaimed' = nftClaimed
  BY DEF Mint
<1>8. \A claim \in nftClaimed :
            claim[1] \in DOMAIN nfts /\ claim = <<claim[1], nfts[claim[1]].recipient>>
  BY DEF NftInv, ClaimedByRecipients
<1>9. DOMAIN nfts \subseteq DOMAIN nfts'
  BY <1>1
<1>10. ClaimedByRecipients'
  BY <1>1, <1>7, <1>8, <1>9 DEF ClaimedByRecipients
<1> QED BY <1>3, <1>6, <1>10 DEF NftInv

\* A step that rewrites one NFT, but neither its collection nor its recipient.
LEMMA NftRewritten ==
  ASSUME NftInv, NEW i \in DOMAIN nfts, NEW q \in NftRecord,
         nfts' = [nfts EXCEPT ![i] = q],
         q.collection_id = nfts[i].collection_id, q.recipient = nfts[i].recipient,
         UNCHANGED <<collections, nftClaimed>>
  PROVE  NftInv'
<1>1. /\ nfts' \in Seq(NftRecord)
      /\ DOMAIN nfts' = DOMAIN nfts
      /\ \A j \in DOMAIN nfts : /\ nfts'[j].collection_id = nfts[j].collection_id
                               /\ nfts'[j].recipient = nfts[j].recipient
  BY Written DEF NftInv, NftsTyped
<1>2. NftsTyped'
  BY <1>1 DEF NftInv, NftsTyped
<1>3. \A d : {j \in DOMAIN nfts' : nfts'[j].collection_id = d} =
            {j \in DOMAIN nfts : nfts[j].collection_id = d}
  BY <1>1
<1>4. SupplyKept'
  BY <1>3 DEF NftInv, SupplyKept
<1>5. ClaimedByRecipients'
  BY <1>1 DEF NftInv, ClaimedByRecipients
<1> QED BY <1>2, <1>4, <1>5 DEF NftInv

\* A new collection is in order.
LEMMA CreateCollectionKeeps ==
  ASSUME NftInv, NEW m \in Seller, NEW supply \in Supplies, NEW bps \in Royalties,
         CreateNftCollection(m, supply, bps)
  PROVE  NftInv'
<1> DEFINE new == [merchant |-> m, max_supply |-> supply, minted |-> 0, active |-> TRUE,
                   nfts |-> << >>]
           d == Len(collections) + 1
<1>1. new \in NftCollection
  BY NftAssumption DEF NftCollection
<1>2. collections' = Append(collections, new) /\ UNCHANGED <<nfts, nftClaimed>>
  BY DEF CreateNftCollection
<1>3. /\ new.max_supply = supply
      /\ new.minted = 0
      /\ new.nfts = << >>
  OBVIOUS
<1>4. /\ IsInjective(new.nfts)
      /\ Range(new.nfts) = {}
      /\ Len(new.nfts) = 0
  BY <1>3 DEF IsInjective, Range
<1> HIDE DEF new
<1>5. /\ collections' \in Seq(NftCollection)
      /\ DOMAIN collections' = DOMAIN collections \cup {d}
      /\ d \notin DOMAIN collections
      /\ collections'[d] = new
      /\ \A e \in DOMAIN collections : collections'[e] = collections[e]
  BY <1>1, <1>2, Added DEF NftInv, NftsTyped
<1> HIDE DEF d
<1>6. NftsTyped'
  BY <1>2, <1>5 DEF NftInv, NftsTyped
<1>7. {i \in DOMAIN nfts : nfts[i].collection_id = d} = {}
  BY <1>5 DEF NftInv, NftsTyped
<1>8. SupplyKept'
  <2> SUFFICES ASSUME NEW e \in DOMAIN collections \cup {d}
               PROVE  /\ collections'[e].max_supply > 0 =>
                            collections'[e].minted <= collections'[e].max_supply
                      /\ collections'[e].minted = Len(collections'[e].nfts)
                      /\ IsInjective(collections'[e].nfts)
                      /\ Range(collections'[e].nfts) =
                            {i \in DOMAIN nfts : nfts[i].collection_id = e}
    BY <1>2, <1>5 DEF SupplyKept
  <2>1. CASE e = d
    BY <1>3, <1>4, <1>5, <1>7, <2>1, NftAssumption
  <2>2. CASE e # d
    BY <1>5, <2>2 DEF NftInv, SupplyKept
  <2> QED BY <2>1, <2>2
<1>9. ClaimedByRecipients'
  BY <1>2 DEF NftInv, ClaimedByRecipients
<1> QED BY <1>6, <1>8, <1>9 DEF NftInv

\* Deactivating a collection changes nothing that counts.
LEMMA DeactivateCollectionKeeps ==
  ASSUME NftInv, NEW c \in DOMAIN collections, DeactivateNftCollection(c)
  PROVE  NftInv'
<1> DEFINE is == [collections[c] EXCEPT !.active = FALSE]
<1>1. collections' = [collections EXCEPT ![c] = is] /\ UNCHANGED <<nfts, nftClaimed>>
  BY DEF DeactivateNftCollection
<1>2. collections[c] \in NftCollection
  BY DEF NftInv, NftsTyped
<1>3. /\ is \in NftCollection
      /\ is.max_supply = collections[c].max_supply
      /\ is.minted = collections[c].minted
      /\ is.nfts = collections[c].nfts
  BY <1>2 DEF NftCollection
<1> HIDE DEF is
<1>4. /\ collections' \in Seq(NftCollection)
      /\ DOMAIN collections' = DOMAIN collections
      /\ \A d \in DOMAIN collections :
            /\ collections'[d].max_supply = collections[d].max_supply
            /\ collections'[d].minted = collections[d].minted
            /\ collections'[d].nfts = collections[d].nfts
  BY <1>1, <1>3, Written DEF NftInv, NftsTyped
<1>5. NftsTyped'
  BY <1>1, <1>4 DEF NftInv, NftsTyped
<1>6. SupplyKept'
  BY <1>1, <1>4 DEF NftInv, SupplyKept
<1>7. ClaimedByRecipients'
  BY <1>1 DEF NftInv, ClaimedByRecipients
<1> QED BY <1>5, <1>6, <1>7 DEF NftInv

\* A transfer keeps the collections in order.
LEMMA TransferKeeps ==
  ASSUME NftInv, NEW i \in DOMAIN nfts, NEW p \in Collectors, TransferNft(i, p)
  PROVE  NftInv'
<1>1. nfts[i] \in NftRecord
  BY DEF NftInv, NftsTyped
<1>2. /\ [nfts[i] EXCEPT !.owner = p] \in NftRecord
      /\ [nfts[i] EXCEPT !.owner = p].collection_id = nfts[i].collection_id
      /\ [nfts[i] EXCEPT !.owner = p].recipient = nfts[i].recipient
  BY <1>1 DEF NftRecord
<1>3. /\ nfts' = [nfts EXCEPT ![i] = [nfts[i] EXCEPT !.owner = p]]
      /\ UNCHANGED <<collections, nftClaimed>>
  BY DEF TransferNft
<1> QED BY <1>2, <1>3, NftRewritten

\* So does a burn: the NFT stays in its collection.
LEMMA BurnKeeps ==
  ASSUME NftInv, NEW i \in DOMAIN nfts, BurnNft(i)
  PROVE  NftInv'
<1>1. nfts[i] \in NftRecord
  BY DEF NftInv, NftsTyped
<1>2. /\ [nfts[i] EXCEPT !.status = "Burned"] \in NftRecord
      /\ [nfts[i] EXCEPT !.status = "Burned"].collection_id = nfts[i].collection_id
      /\ [nfts[i] EXCEPT !.status = "Burned"].recipient = nfts[i].recipient
  BY <1>1 DEF NftRecord
<1>3. /\ nfts' = [nfts EXCEPT ![i] = [nfts[i] EXCEPT !.status = "Burned"]]
      /\ UNCHANGED <<collections, nftClaimed>>
  BY DEF BurnNft
<1> QED BY <1>2, <1>3, NftRewritten

\* Only the recipient an NFT was minted for claims, and it never changes.
LEMMA ClaimKeeps ==
  ASSUME NftInv, NEW i \in DOMAIN nfts, NEW p \in Collectors, ClaimNftReward(i, p)
  PROVE  NftInv'
<1>1. /\ UNCHANGED <<collections, nfts>>
      /\ nftClaimed' = nftClaimed \cup {<<i, p>>}
      /\ p = nfts[i].recipient
  BY DEF ClaimNftReward, MayClaim
<1>2. NftsTyped'
  BY <1>1 DEF NftInv, NftsTyped
<1>3. SupplyKept'
  BY <1>1 DEF NftInv, SupplyKept
<1>4. ClaimedByRecipients'
  BY <1>1 DEF NftInv, ClaimedByRecipients
<1> QED BY <1>2, <1>3, <1>4 DEF NftInv

\* There are no NFTs at the start.
LEMMA NftInvInit == ShadeInit => NftInv
<1> SUFFICES ASSUME ShadeInit PROVE NftInv
  OBVIOUS
<1>1. collections = << >> /\ nfts = << >> /\ nftClaimed = {}
  BY DEF ShadeInit, NftInit
<1> QED BY <1>1 DEF NftInv, NftsTyped, SupplyKept, ClaimedByRecipients

\* Every step of the contract keeps the NFTs in order.
LEMMA NftInvStep ==
  ASSUME NftInv, [ShadeNext]_shadeVars
  PROVE  NftInv'
<1>1. CASE UNCHANGED nftVars
  BY <1>1 DEF NftInv, NftsTyped, SupplyKept, ClaimedByRecipients, nftVars
<1>2. CASE NftNext
  <2>1. ASSUME NEW m \in Seller, NEW supply \in Supplies, NEW bps \in Royalties,
               CreateNftCollection(m, supply, bps)
        PROVE  NftInv'
    BY <2>1, CreateCollectionKeeps
  <2>2. ASSUME NEW c \in DOMAIN collections, DeactivateNftCollection(c)
        PROVE  NftInv'
    BY <2>2, DeactivateCollectionKeeps
  <2>3. ASSUME NEW c \in DOMAIN collections, NEW p \in Collectors, NEW q \in Collectors,
               MintNft(c, p) \/ BatchMintNfts(c, p, q)
        PROVE  NftInv'
    BY <2>3, MintCases, MintKeeps
  <2>4. ASSUME NEW i \in DOMAIN nfts, BurnNft(i)
        PROVE  NftInv'
    BY <2>4, BurnKeeps
  <2>5. ASSUME NEW i \in DOMAIN nfts, NEW p \in Collectors, TransferNft(i, p)
        PROVE  NftInv'
    BY <2>5, TransferKeeps
  <2>6. ASSUME NEW i \in DOMAIN nfts, NEW p \in Collectors, ClaimNftReward(i, p)
        PROVE  NftInv'
    BY <2>6, ClaimKeeps
  <2> QED BY <1>2, <2>1, <2>2, <2>3, <2>4, <2>5, <2>6 DEF NftNext
<1> QED BY <1>1, <1>2, StepOwners

\* No mix of single and batch mints exceeds a collection's supply, and the collection's
\* count and list are those of its NFTs (mint_nft, batch_mint_nfts).
THEOREM SupplyKeptHolds == ShadeSpec => []SupplyKept
<1>1. NftInv => SupplyKept
  BY DEF NftInv
<1> QED BY <1>1, NftInvInit, NftInvStep, PTL DEF ShadeSpec

\* The reward of an NFT is claimed once at most, however often it changes hands
\* (claim_nft_reward, transfer_nft).
THEOREM OneRewardEachHolds == ShadeSpec => []OneRewardEach
<1>1. NftInv => OneRewardEach
  BY DEF NftInv, ClaimedByRecipients, OneRewardEach
<1> QED BY <1>1, NftInvInit, NftInvStep, PTL DEF ShadeSpec

\* The NFTs of each wallet.
NftsOf(list) == [p \in Collectors |-> {i \in DOMAIN list : list[i].owner = p}]

\* With the lists, what is recorded of the NFTs is complete.
OwnersInv == NftInv /\ Owned(Collectors, userNfts, NftsOf(nfts))

\* Each wallet that an NFT is minted for finds it at the end of its list.
LEMMA MintListed ==
  ASSUME OwnersInv, NEW c \in DOMAIN collections, NEW n \in Nat,
         NEW ps \in [1 .. n -> Collectors], Len(ps) = n, Mint(c, ps)
  PROVE  Owned(Collectors, userNfts, NftsOf(nfts))'
<1> DEFINE m == Len(nfts)
           ids == [i \in DOMAIN ps |-> m + i]
           his(p) == Sifted(ids, {m + i : i \in {j \in DOMAIN ps : ps[j] = p}})
           new == [i \in DOMAIN ps |-> Minted(c, ps[i])]
<1>1. DOMAIN ps = 1 .. n /\ c \in Nat \ {0} /\ m \in Nat /\ nfts \in Seq(NftRecord)
  BY DEF OwnersInv, NftInv, NftsTyped
<1>2. nfts' = nfts \o new /\ userNfts' = [p \in Collectors |-> userNfts[p] \o his(p)]
  BY DEF Mint
<1>3. new \in [1 .. n -> NftRecord] /\ \A i \in 1 .. n : new[i].owner = ps[i]
  BY <1>1 DEF Minted, NftRecord
<1>4. /\ ids \in Seq(Nat \ {0})
      /\ IsInjective(ids)
      /\ Range(ids) = m + 1 .. m + n
  <2>1. /\ ids \in [1 .. n -> Nat \ {0}]
        /\ ids \in Seq(Nat \ {0})
        /\ DOMAIN ids = 1 .. n
        /\ \A i \in 1 .. n : ids[i] = m + i
    BY <1>1
  <2> HIDE DEF ids, m
  <2>2. IsInjective(ids)
    BY <1>1, <2>1 DEF IsInjective
  <2>3. \A i \in m + 1 .. m + n : i - m \in 1 .. n /\ i = m + (i - m)
    BY <1>1
  <2>4. \A i \in 1 .. n : m + i \in m + 1 .. m + n
    BY <1>1
  <2> QED BY <2>1, <2>2, <2>3, <2>4 DEF Range
<1> HIDE DEF new, ids
<1>5. /\ nfts' \in Seq(NftRecord)
      /\ DOMAIN nfts = 1 .. m
      /\ DOMAIN nfts' = 1 .. m + n
      /\ \A i \in 1 .. m : nfts'[i] = nfts[i]
      /\ \A i \in 1 .. n : nfts'[m + i] = new[i]
  <2> DEFINE old == nfts
  <2>1. old \in Seq(NftRecord) /\ nfts = old
    BY <1>1
  <2> HIDE DEF old
  <2>2. /\ old \o new \in Seq(NftRecord)
        /\ DOMAIN (old \o new) = 1 .. Len(old) + n
        /\ DOMAIN old = 1 .. Len(old)
        /\ \A i \in 1 .. Len(old) : (old \o new)[i] = old[i]
        /\ \A i \in 1 .. n : (old \o new)[Len(old) + i] = new[i]
    <3>1. new \in [1 .. n -> NftRecord]
      BY <1>3
    <3>2. Lengthened(NftRecord, old, n, new, old \o new)
      BY <2>1, <3>1, Joined
    <3> QED BY <3>2 DEF Lengthened
  <2> QED BY <1>2, <2>1, <2>2
<1> HIDE DEF m
<1>6. ASSUME NEW p \in Collectors
      PROVE  /\ userNfts'[p] \in Seq(Nat \ {0})
             /\ IsInjective(userNfts'[p])
             /\ Range(userNfts'[p]) = {i \in DOMAIN nfts' : nfts'[i].owner = p}
  <2> DEFINE list == userNfts[p]
             more == his(p)
             S == {m + i : i \in {j \in DOMAIN ps : ps[j] = p}}
  <2>1. /\ list \in Seq(Nat \ {0})
        /\ IsInjective(list)
        /\ Range(list) = {i \in DOMAIN nfts : nfts[i].owner = p}
    BY DEF OwnersInv, Owned, NftsOf
  <2>2. /\ Sifted(ids, S) \in Seq(Nat \ {0})
        /\ Range(Sifted(ids, S)) = Range(ids) \cap S
        /\ IsInjective(ids) => IsInjective(Sifted(ids, S))
    <3> HIDE DEF S
    <3> QED BY <1>4, SiftedFacts
  <2>3. /\ more \in Seq(Nat \ {0})
        /\ Range(more) = (m + 1 .. m + n) \cap S
        /\ IsInjective(more)
    BY <1>4, <2>2
  <2>4. userNfts'[p] = list \o more
    BY <1>2
  <2>5. \A i \in S : i - m \in 1 .. n /\ i = m + (i - m) /\ ps[i - m] = p
    BY <1>1
  <2>6. \A j \in 1 .. n : ps[j] = p => m + j \in S
    BY <1>1
  <2> HIDE DEF list, more, S
  <2>7. Range(list) \subseteq 1 .. m
    BY <1>5, <2>1
  <2>8. Range(list) \cap Range(more) = {}
    BY <1>1, <2>3, <2>7
  <2>9. /\ list \o more \in Seq(Nat \ {0})
        /\ IsInjective(list \o more)
        /\ Range(list \o more) = Range(list) \cup Range(more)
    BY <2>1, <2>3, <2>8, ListsJoined
  <2>10. ASSUME NEW i \in DOMAIN nfts'
         PROVE  nfts'[i].owner = p <=> i \in Range(list) \cup Range(more)
    <3>1. CASE i \in 1 .. m
      BY <1>1, <1>5, <2>1, <2>3, <3>1
    <3>2. CASE i \notin 1 .. m
      <4>1. i - m \in 1 .. n /\ i = m + (i - m) /\ i \in m + 1 .. m + n
        BY <1>1, <1>5, <3>2
      <4>2. nfts'[i].owner = ps[i - m]
        BY <1>3, <1>5, <4>1
      <4>3. i \in S <=> ps[i - m] = p
        BY <2>5, <2>6, <4>1
      <4> QED BY <2>3, <2>7, <3>2, <4>1, <4>2, <4>3
    <3> QED BY <3>1, <3>2
  <2>11. Range(list) \cup Range(more) \subseteq DOMAIN nfts'
    BY <1>1, <1>5, <2>3, <2>7
  <2> QED BY <2>4, <2>9, <2>10, <2>11
<1>7. userNfts' \in [Collectors -> Seq(Nat \ {0})]
  <2>1. DOMAIN userNfts' = Collectors /\ userNfts' = [p \in Collectors |-> userNfts'[p]]
    BY <1>2
  <2> QED BY <1>6, <2>1
<1> QED BY <1>6, <1>7 DEF Owned, NftsOf

\* A transfer takes the NFT from the one list that has it.
LEMMA TransferListed ==
  ASSUME OwnersInv, NEW i \in DOMAIN nfts, NEW p \in Collectors, TransferNft(i, p)
  PROVE  Owned(Collectors, userNfts, NftsOf(nfts))'
<1> DEFINE from == nfts[i].owner
           was == nfts[i]
           is == [was EXCEPT !.owner = p]
<1>1. was \in NftRecord /\ i \in Nat \ {0} /\ nfts \in Seq(NftRecord)
  BY DEF OwnersInv, NftInv, NftsTyped
<1>2. from \in Collectors /\ is \in NftRecord /\ is.owner = p
  BY <1>1 DEF NftRecord
<1>3. nfts' = [nfts EXCEPT ![i] = is] /\ userNfts' = Passed(userNfts, i, from, p)
  BY Zenon DEF TransferNft, WithoutNft, Passed
<1> DEFINE mine == NftsOf(nfts)
<1>4. Owned(Collectors, userNfts, mine) /\ \A q \in Collectors \ {from} : i \notin mine[q]
  BY DEF OwnersInv, NftsOf
<1> HIDE DEF mine, is, from
<1>5. Owned(Collectors, userNfts',
            [q \in Collectors |-> IF q = p THEN mine[q] \cup {i} ELSE mine[q] \ {i}])
  BY <1>1, <1>2, <1>3, <1>4, PassedOn
<1>6. /\ DOMAIN nfts' = DOMAIN nfts
      /\ nfts'[i] = is
      /\ \A j \in DOMAIN nfts \ {i} : nfts'[j] = nfts[j]
  BY <1>1, <1>2, <1>3, Written
<1>7. [q \in Collectors |-> IF q = p THEN mine[q] \cup {i} ELSE mine[q] \ {i}] = NftsOf(nfts')
  <2>1. ASSUME NEW q \in Collectors
        PROVE  (IF q = p THEN mine[q] \cup {i} ELSE mine[q] \ {i}) =
                    {j \in DOMAIN nfts' : nfts'[j].owner = q}
    BY <1>2, <1>6 DEF mine, NftsOf
  <2> QED BY <2>1 DEF NftsOf
<1>8. Owned(Collectors, userNfts', NftsOf(nfts'))
  BY <1>5, <1>7
<1> QED BY <1>8

\* A step that neither mints nor transfers changes no list and no owner.
LEMMA OwnersUntouched ==
  ASSUME OwnersInv, UNCHANGED userNfts, DOMAIN nfts' = DOMAIN nfts,
         \A i \in DOMAIN nfts : nfts'[i].owner = nfts[i].owner
  PROVE  Owned(Collectors, userNfts, NftsOf(nfts))'
<1>1. NftsOf(nfts') = NftsOf(nfts)
  BY DEF NftsOf
<1>2. Owned(Collectors, userNfts', NftsOf(nfts'))
  BY <1>1 DEF OwnersInv
<1> QED BY <1>2

\* Every step of the contract keeps the lists in order.
LEMMA OwnersInvStep ==
  ASSUME OwnersInv, [ShadeNext]_shadeVars
  PROVE  OwnersInv'
<1>1. NftInv'
  BY NftInvStep DEF OwnersInv
<1>2. CASE UNCHANGED nftVars
  BY <1>1, <1>2, OwnersUntouched DEF OwnersInv, nftVars
<1>3. CASE NftNext
  <2>1. ASSUME UNCHANGED <<nfts, userNfts>>
        PROVE  OwnersInv'
    BY <1>1, <2>1, OwnersUntouched DEF OwnersInv
  <2>2. ASSUME NEW m \in Seller, NEW supply \in Supplies, NEW bps \in Royalties,
               CreateNftCollection(m, supply, bps)
        PROVE  UNCHANGED <<nfts, userNfts>>
    BY <2>2 DEF CreateNftCollection
  <2>3. ASSUME NEW c \in DOMAIN collections, DeactivateNftCollection(c)
        PROVE  UNCHANGED <<nfts, userNfts>>
    BY <2>3 DEF DeactivateNftCollection
  <2>4. ASSUME NEW c \in DOMAIN collections, NEW p \in Collectors, NEW q \in Collectors,
               MintNft(c, p) \/ BatchMintNfts(c, p, q)
        PROVE  OwnersInv'
    BY <1>1, <2>4, MintCases, MintListed DEF OwnersInv
  <2>5. ASSUME NEW i \in DOMAIN nfts, BurnNft(i)
        PROVE  OwnersInv'
    <3> DEFINE is == [nfts[i] EXCEPT !.status = "Burned"]
    <3>1. nfts' = [nfts EXCEPT ![i] = is] /\ UNCHANGED userNfts
      BY <2>5 DEF BurnNft
    <3>2. nfts \in Seq(NftRecord) /\ nfts[i] \in NftRecord
      BY DEF OwnersInv, NftInv, NftsTyped
    <3>3. is \in NftRecord /\ is.owner = nfts[i].owner
      BY <3>2 DEF NftRecord
    <3> HIDE DEF is
    <3>4. DOMAIN nfts' = DOMAIN nfts /\ \A j \in DOMAIN nfts : nfts'[j].owner = nfts[j].owner
      BY <3>1, <3>2, <3>3, Written
    <3> QED BY <1>1, <3>1, <3>4, OwnersUntouched DEF OwnersInv
  <2>6. ASSUME NEW i \in DOMAIN nfts, NEW p \in Collectors, TransferNft(i, p)
        PROVE  OwnersInv'
    BY <1>1, <2>6, TransferListed DEF OwnersInv
  <2>7. ASSUME NEW i \in DOMAIN nfts, NEW p \in Collectors, ClaimNftReward(i, p)
        PROVE  UNCHANGED <<nfts, userNfts>>
    BY <2>7 DEF ClaimNftReward
  <2> QED BY <1>3, <2>1, <2>2, <2>3, <2>4, <2>5, <2>6, <2>7 DEF NftNext
<1> QED BY <1>2, <1>3, StepOwners

\* There are no NFTs in any list at the start.
LEMMA OwnersInvInit == ShadeInit => OwnersInv
<1> SUFFICES ASSUME ShadeInit PROVE OwnersInv
  OBVIOUS
<1>1. nfts = << >> /\ userNfts = [p \in Collectors |-> << >>]
  BY DEF ShadeInit, NftInit
<1>2. QED BY <1>1, NftInvInit DEF OwnersInv, Owned, NftsOf, IsInjective, Range

\* A wallet's list is what it owns, each NFT once, after any chain of mints and
\* transfers (mint_nft, batch_mint_nfts, transfer_nft, burn_nft).
THEOREM OwnersListedHolds == ShadeSpec => []OwnersListed
<1>1. OwnersInv => OwnersListed
  BY DEF OwnersInv, Owned, NftsOf, OwnersListed
<1>2. QED BY OwnersInvInit, <1>1, OwnersInvStep, PTL DEF ShadeSpec

-----------------------------------------------------------------------------
(* The clock. *)

\* The clock shows a natural number, whatever the contract does.
LEMMA ClockStep ==
  ASSUME now \in Nat, [ShadeNext]_shadeVars
  PROVE  now' \in Nat
<1>1. CASE UNCHANGED shadeVars
  BY <1>1 DEF shadeVars, platformVars, configVars
<1>2. CASE PlatformNext
  <2>1. now' = now \/ Tick
    BY <1>2 DEF PlatformNext, InitializePlatform, AcceptAdminTransfer, ProposeAdminTransfer,
       SetPaused, RemoveAcceptedToken, AddAcceptedToken, SetFee, ProposeFee, ExecuteFee,
       OraclePriceMoves, SetTokenOracle, SetPlatformAccount
  <2> QED BY <2>1 DEF Tick
<1>3. CASE MerchantsNext
  <2>1. ASSUME AccountStep
        PROVE  now' = now
    BY <2>1 DEF AccountStep, platformVars, configVars
  <2>2. ASSUME NEW m, RegisterMerchant(m)
        PROVE  now' = now
    BY <2>2 DEF RegisterMerchant, platformVars, configVars
  <2>3. ASSUME NEW m, NEW x, SetMerchantStatus(m, x)
        PROVE  now' = now
    BY <2>3 DEF SetMerchantStatus, platformVars, configVars
  <2>4. ASSUME NEW m, NEW x, SetMerchantKey(m, x)
        PROVE  now' = now
    BY <2>4 DEF SetMerchantKey, platformVars, configVars
  <2>5. ASSUME NEW m, NEW x, SetMerchantAccount(m, x)
        PROVE  now' = now
    BY <2>5 DEF SetMerchantAccount, platformVars, configVars
  <2>6. ASSUME NEW m, NEW x, SetMerchantAcceptedTokens(m, x)
        PROVE  now' = now
    BY <2>6 DEF SetMerchantAcceptedTokens, platformVars, configVars
  <2>7. ASSUME NEW m, NEW x, RemoveMerchantAcceptedToken(m, x)
        PROVE  now' = now
    BY <2>7 DEF RemoveMerchantAcceptedToken, platformVars, configVars
  <2>8. ASSUME NEW m, NEW x, RestrictMerchantAccount(m, x)
        PROVE  now' = now
    BY <2>8 DEF RestrictMerchantAccount, platformVars, configVars
  <2> QED BY <1>3, <2>1, <2>2, <2>3, <2>4, <2>5, <2>6, <2>7, <2>8, <1>2 DEF MerchantsNext
<1>4. CASE InvoiceNext
  <2>1. ASSUME NEW q, Store(q)
        PROVE  now' = now
    BY <2>1 DEF Store, platformVars, configVars
  <2>2. ASSUME NEW i, NEW q, Revise(i, q)
        PROVE  now' = now
    BY <2>2 DEF Revise, platformVars, configVars
  <2>3. ASSUME NEW w, Install(w)
        PROVE  now' = now
    BY <2>3 DEF Install, platformVars, configVars
  <2>4. ASSUME NEW i, NEW q, NEW x, PayBack(i, q, x)
        PROVE  now' = now
    BY <2>4 DEF PayBack, platformVars, configVars
  <2> QED BY <1>4, <2>1, <2>2, <2>3, <2>4 DEF InvoiceNext, Creation,
     CreateInvoice, CreateInvoiceDraft, CreateFiatInvoice,
     CreateInvoiceSigned, PayInvoicesBatch, FinalizeInvoice, VoidInvoice, AmendInvoice,
     PayInvoice, PayInvoicePartial, RefundInvoice, RefundInvoicePartial, ClaimRefund
<1>5. CASE EventsNext
  <2>1. ASSUME NEW m, NEW x, CreateEvent(m, x)
        PROVE  now' = now
    BY <2>1 DEF CreateEvent, platformVars, configVars
  <2>2. ASSUME NEW e, NEW x, ConfigureDynamicPricing(e, x)
        PROVE  now' = now
    BY <2>2 DEF ConfigureDynamicPricing, platformVars, configVars
  <2>3. ASSUME NEW e, CancelEventAndBatchRefund(e)
        PROVE  now' = now
    BY <2>3 DEF CancelEventAndBatchRefund, platformVars, configVars
  <2>4. ASSUME NEW e, NEW p, PurchaseTicket(e, p)
        PROVE  now' = now
    BY <2>4 DEF PurchaseTicket, platformVars, configVars
  <2>5. ASSUME NEW e, NEW p, NEW n, NEW t, NEW to, PurchaseTicketsBulk(e, p, n, t, to)
        PROVE  now' = now
    BY <2>5 DEF PurchaseTicketsBulk, platformVars, configVars
  <2>6. ASSUME NEW i, NEW p, NEW x, ResellTicket(i, p, x)
        PROVE  now' = now
    BY <2>6 DEF ResellTicket, platformVars, configVars
  <2> QED BY <1>5, <2>1, <2>2, <2>3, <2>4, <2>5, <2>6 DEF EventsNext
<1>6. CASE SubscriptionNext
  <2>1. ASSUME NEW m, NEW t, NEW x, NEW y, CreateSubscriptionPlan(m, t, x, y)
        PROVE  now' = now
    BY <2>1 DEF CreateSubscriptionPlan, platformVars, configVars
  <2>2. ASSUME NEW p, DeactivatePlan(p)
        PROVE  now' = now
    BY <2>2 DEF DeactivatePlan, platformVars, configVars
  <2>3. ASSUME NEW c, NEW p, Subscribe(c, p)
        PROVE  now' = now
    BY <2>3 DEF Subscribe, platformVars, configVars
  <2>4. ASSUME NEW s, CancelSubscription(s)
        PROVE  now' = now
    BY <2>4 DEF CancelSubscription, platformVars, configVars
  <2>5. ASSUME NEW s, ChargeSubscription(s)
        PROVE  now' = now
    BY <2>5 DEF ChargeSubscription, platformVars, configVars
  <2>6. ASSUME NEW c, NEW t, NEW x, ApproveShade(c, t, x)
        PROVE  now' = now
    BY <2>6 DEF ApproveShade, platformVars, configVars
  <2> QED BY <1>6, <2>1, <2>2, <2>3, <2>4, <2>5, <2>6 DEF SubscriptionNext
<1>7. CASE BackerRewardsNext
  <2>1. ASSUME NEW m, NEW t, NEW x, CreateBackerCampaign(m, t, x)
        PROVE  now' = now
    BY <2>1 DEF CreateBackerCampaign, platformVars, configVars
  <2>2. ASSUME NEW c, NEW x, SetBackerRewardTiers(c, x)
        PROVE  now' = now
    BY <2>2 DEF SetBackerRewardTiers, platformVars, configVars
  <2>3. ASSUME NEW c, NEW b, NEW x, PledgeToCampaign(c, b, x)
        PROVE  now' = now
    BY <2>3 DEF PledgeToCampaign, platformVars, configVars
  <2>4. ASSUME NEW c, NEW b, NEW k, SelectBackerRewardTier(c, b, k)
        PROVE  now' = now
    BY <2>4 DEF SelectBackerRewardTier, platformVars, configVars
  <2>5. ASSUME NEW c, NEW b, NEW k, ClaimBackerPerk(c, b, k)
        PROVE  now' = now
    BY <2>5 DEF ClaimBackerPerk, platformVars, configVars
  <2>6. ASSUME NEW c, NEW b, FulfillBackerReward(c, b)
        PROVE  now' = now
    BY <2>6 DEF FulfillBackerReward, platformVars, configVars
  <2> QED BY <1>7, <2>1, <2>2, <2>3, <2>4, <2>5, <2>6 DEF BackerRewardsNext
<1>8. CASE NftNext
  <2>1. ASSUME NEW m, NEW x, NEW y, CreateNftCollection(m, x, y)
        PROVE  now' = now
    BY <2>1 DEF CreateNftCollection, platformVars, configVars
  <2>2. ASSUME NEW c, DeactivateNftCollection(c)
        PROVE  now' = now
    BY <2>2 DEF DeactivateNftCollection, platformVars, configVars
  <2>3. ASSUME NEW c, NEW x, Mint(c, x)
        PROVE  now' = now
    BY <2>3 DEF Mint, platformVars, configVars
  <2>4. ASSUME NEW i, BurnNft(i)
        PROVE  now' = now
    BY <2>4 DEF BurnNft, platformVars, configVars
  <2>5. ASSUME NEW i, NEW p, TransferNft(i, p)
        PROVE  now' = now
    BY <2>5 DEF TransferNft, platformVars, configVars
  <2>6. ASSUME NEW i, NEW p, ClaimNftReward(i, p)
        PROVE  now' = now
    BY <2>6 DEF ClaimNftReward, platformVars, configVars
  <2> QED BY <1>8, <2>1, <2>2, <2>3, <2>4, <2>5, <2>6 DEF NftNext, MintNft, BatchMintNfts
<1> QED BY <1>1, <1>3, <1>4, <1>5, <1>6, <1>7, <1>8 DEF ShadeNext, Next

-----------------------------------------------------------------------------
(* Subscriptions. *)

SubsTyped ==
    /\ now \in Nat
    /\ plans \in Seq(SubscriptionPlan)
    /\ subs \in Seq(SubscriptionRecord)
    /\ charges \in Seq(Seq(Nat))
    /\ Len(charges) = Len(subs)
    /\ \A s \in DOMAIN subs : subs[s].plan_id \in DOMAIN plans

SubsInv == SubsTyped /\ ChargedOncePerInterval

\* What one subscription's record and its charges say to each other.
Apart(times, interval, last) ==
    /\ \A k \in 1 .. Len(times) - 1 : times[k + 1] - times[k] >= interval
    /\ last = IF times = << >> THEN None ELSE times[Len(times)]

\* The property, one subscription at a time.
LEMMA ApartHolds ==
  ChargedOncePerInterval <=>
    \A s \in DOMAIN subs :
        Apart(charges[s], plans[subs[s].plan_id].interval, subs[s].last_charged)
  BY DEF ChargedOncePerInterval, Apart

\* A charge made when it is due keeps the charges apart.
LEMMA ChargeApart ==
  ASSUME NEW times \in Seq(Nat), NEW interval \in Nat, NEW last, NEW time \in Nat,
         Apart(times, interval, last), last # None => time >= last + interval
  PROVE  Apart(Append(times, time), interval, time)
<1> DEFINE more == Append(times, time)
           n == Len(times)
<1>1. /\ more \in Seq(Nat)
      /\ n \in Nat
      /\ Len(more) = n + 1
      /\ more[n + 1] = time
      /\ \A k \in 1 .. n : more[k] = times[k]
      /\ \A k \in 1 .. n : times[k] \in Nat
  OBVIOUS
<1>2. times # << >> => n \in 1 .. n
  OBVIOUS
<1> HIDE DEF more
<1>3. more # << >> /\ more[Len(more)] = time
  BY <1>1
<1>4. ASSUME NEW k \in 1 .. Len(more) - 1
      PROVE  more[k + 1] - more[k] >= interval
  <2>1. CASE k = n
    <3>1. times # << >> /\ last = times[n] /\ last \in Nat
      BY <1>1, <1>4, <2>1 DEF Apart
    <3>2. last # None
      BY <3>1, PlatformAssumption
    <3> QED BY <1>1, <2>1, <3>1, <3>2
  <2>2. CASE k # n
    <3>1. k \in 1 .. n - 1 /\ k + 1 \in 1 .. n /\ k \in 1 .. n
      BY <1>1, <1>4, <2>2
    <3>2. times[k + 1] - times[k] >= interval
      BY <3>1 DEF Apart
    <3> QED BY <1>1, <3>1, <3>2
  <2> QED BY <2>1, <2>2
<1> QED BY <1>3, <1>4 DEF Apart, more

\* A new plan changes no charge.
LEMMA CreatePlanKeeps ==
  ASSUME SubsInv, NEW m \in Seller, NEW t \in Tokens, NEW amt \in PlanAmounts,
         NEW interval \in PlanIntervals, CreateSubscriptionPlan(m, t, amt, interval),
         now' \in Nat
  PROVE  SubsInv'
<1> DEFINE new == [merchant |-> m, token |-> t, amount |-> amt, interval |-> interval,
                   active |-> TRUE]
<1>1. amt > 0 /\ interval > 0
  BY DEF CreateSubscriptionPlan
<1>2. new \in SubscriptionPlan
  BY <1>1, ShadeSubscriptionAssumption DEF SubscriptionPlan
<1>3. plans' = Append(plans, new) /\ UNCHANGED <<subs, charges>>
  BY DEF CreateSubscriptionPlan
<1> HIDE DEF new
<1>4. /\ plans' \in Seq(SubscriptionPlan)
      /\ DOMAIN plans \subseteq DOMAIN plans'
      /\ \A k \in DOMAIN plans : plans'[k] = plans[k]
  BY <1>2, <1>3, Added DEF SubsInv, SubsTyped
<1>5. SubsTyped'
  BY <1>3, <1>4 DEF SubsInv, SubsTyped
<1>6. \A s \in DOMAIN subs : plans'[subs[s].plan_id] = plans[subs[s].plan_id]
  BY <1>4 DEF SubsInv, SubsTyped
<1>7. ChargedOncePerInterval'
  BY <1>3, <1>6 DEF SubsInv, ChargedOncePerInterval
<1> QED BY <1>5, <1>7 DEF SubsInv

\* Deactivating a plan keeps its interval.
LEMMA DeactivatePlanKeeps ==
  ASSUME SubsInv, NEW k \in DOMAIN plans, DeactivatePlan(k), now' \in Nat
  PROVE  SubsInv'
<1> DEFINE is == [plans[k] EXCEPT !.active = FALSE]
<1>1. plans' = [plans EXCEPT ![k] = is] /\ UNCHANGED <<subs, charges>>
  BY DEF DeactivatePlan
<1>2. plans[k] \in SubscriptionPlan
  BY DEF SubsInv, SubsTyped
<1>3. is \in SubscriptionPlan /\ is.interval = plans[k].interval
  BY <1>2 DEF SubscriptionPlan
<1> HIDE DEF is
<1>4. /\ plans' \in Seq(SubscriptionPlan)
      /\ DOMAIN plans' = DOMAIN plans
      /\ \A j \in DOMAIN plans : plans'[j].interval = plans[j].interval
  BY <1>1, <1>3, Written DEF SubsInv, SubsTyped
<1>5. SubsTyped'
  BY <1>1, <1>4 DEF SubsInv, SubsTyped
<1>6. \A s \in DOMAIN subs :
            plans'[subs[s].plan_id].interval = plans[subs[s].plan_id].interval
  BY <1>4 DEF SubsInv, SubsTyped
<1>7. ChargedOncePerInterval'
  BY <1>1, <1>6 DEF SubsInv, ChargedOncePerInterval
<1> QED BY <1>5, <1>7 DEF SubsInv

\* A new subscription was never charged.
LEMMA SubscribeKeeps ==
  ASSUME SubsInv, NEW c \in Customers, NEW k \in DOMAIN plans, Subscribe(c, k),
         now' \in Nat
  PROVE  SubsInv'
<1> DEFINE new == [plan_id |-> k, customer |-> c, status |-> "Active", last_charged |-> None]
           n == Len(subs) + 1
<1>1. /\ subs' = Append(subs, new)
      /\ charges' = Append(charges, << >>)
      /\ UNCHANGED plans
  BY DEF Subscribe
<1>2. k \in Nat
  BY DEF SubsInv, SubsTyped
<1>3. new \in SubscriptionRecord
  BY <1>2 DEF SubscriptionRecord
<1>4. new.plan_id = k /\ new.last_charged = None
  OBVIOUS
<1> HIDE DEF new
<1>5. /\ subs' \in Seq(SubscriptionRecord)
      /\ Len(subs') = n
      /\ DOMAIN subs' = DOMAIN subs \cup {n}
      /\ subs'[n] = new
      /\ \A s \in DOMAIN subs : subs'[s] = subs[s]
  BY <1>1, <1>3, Added DEF SubsInv, SubsTyped
<1>6. << >> \in Seq(Nat)
  OBVIOUS
<1>7. /\ charges' \in Seq(Seq(Nat))
      /\ Len(charges') = n
      /\ charges'[n] = << >>
      /\ \A s \in DOMAIN subs : charges'[s] = charges[s]
  BY <1>1, <1>6, Added DEF SubsInv, SubsTyped
<1> HIDE DEF n
<1>8. SubsTyped'
  BY <1>1, <1>4, <1>5, <1>7 DEF SubsInv, SubsTyped
<1>9. \A s \in DOMAIN subs' :
            Apart(charges'[s], plans'[subs'[s].plan_id].interval, subs'[s].last_charged)
  <2> SUFFICES ASSUME NEW s \in DOMAIN subs \cup {n}
               PROVE  Apart(charges'[s], plans'[subs'[s].plan_id].interval,
                            subs'[s].last_charged)
    BY <1>5
  <2>1. CASE s = n
    <3>1. charges'[s] = << >> /\ subs'[s].last_charged = None
      BY <1>4, <1>5, <1>7, <2>1
    <3> QED BY <3>1 DEF Apart
  <2>2. CASE s # n
    <3>1. Apart(charges[s], plans[subs[s].plan_id].interval, subs[s].last_charged)
      BY <2>2, ApartHolds DEF SubsInv
    <3> QED BY <1>1, <1>5, <1>7, <2>2, <3>1
  <2> QED BY <2>1, <2>2
<1>10. ChargedOncePerInterval'
  BY <1>9 DEF ChargedOncePerInterval, Apart
<1> QED BY <1>8, <1>10 DEF SubsInv

\* A step that rewrites one subscription and adds, or not, a charge to it.
LEMMA SubscriptionRewritten ==
  ASSUME SubsInv, NEW s \in DOMAIN subs, NEW q \in SubscriptionRecord, NEW times \in Seq(Nat),
         subs' = [subs EXCEPT ![s] = q], charges' = [charges EXCEPT ![s] = times],
         plans' = plans, now' \in Nat, q.plan_id = subs[s].plan_id,
         Apart(times, plans[subs[s].plan_id].interval, q.last_charged)
  PROVE  SubsInv'
<1>1. /\ subs' \in Seq(SubscriptionRecord)
      /\ Len(subs') = Len(subs)
      /\ DOMAIN subs' = DOMAIN subs
      /\ subs'[s] = q
      /\ \A j \in DOMAIN subs \ {s} : subs'[j] = subs[j]
  BY Written DEF SubsInv, SubsTyped
<1>2. DOMAIN charges = DOMAIN subs
  BY DEF SubsInv, SubsTyped
<1>3. /\ charges' \in Seq(Seq(Nat))
      /\ Len(charges') = Len(charges)
      /\ charges'[s] = times
      /\ \A j \in DOMAIN subs \ {s} : charges'[j] = charges[j]
  BY <1>2, Written DEF SubsInv, SubsTyped
<1>4. SubsTyped'
  BY <1>1, <1>3 DEF SubsInv, SubsTyped
<1>5. ASSUME NEW j \in DOMAIN subs
      PROVE  Apart(charges'[j], plans'[subs'[j].plan_id].interval, subs'[j].last_charged)
  <2>1. CASE j = s
    BY <1>1, <1>3, <2>1
  <2>2. CASE j # s
    <3>1. Apart(charges[j], plans[subs[j].plan_id].interval, subs[j].last_charged)
      BY ApartHolds DEF SubsInv
    <3> QED BY <1>1, <1>3, <2>2, <3>1
  <2> QED BY <2>1, <2>2
<1>6. ChargedOncePerInterval'
  BY <1>1, <1>5 DEF ChargedOncePerInterval, Apart
<1> QED BY <1>4, <1>6 DEF SubsInv

\* A cancel changes no charge.
LEMMA CancelSubscriptionKeeps ==
  ASSUME SubsInv, NEW s \in DOMAIN subs, CancelSubscription(s), now' \in Nat
  PROVE  SubsInv'
<1> DEFINE q == [subs[s] EXCEPT !.status = "Cancelled"]
<1>1. subs' = [subs EXCEPT ![s] = q] /\ UNCHANGED <<plans, charges>>
  BY DEF CancelSubscription
<1>2. subs[s] \in SubscriptionRecord
  BY DEF SubsInv, SubsTyped
<1>3. /\ q \in SubscriptionRecord
      /\ q.plan_id = subs[s].plan_id
      /\ q.last_charged = subs[s].last_charged
  BY <1>2 DEF SubscriptionRecord
<1> HIDE DEF q
<1>4. /\ charges[s] \in Seq(Nat)
      /\ charges = [charges EXCEPT ![s] = charges[s]]
  BY DEF SubsInv, SubsTyped
<1>5. Apart(charges[s], plans[subs[s].plan_id].interval, q.last_charged)
  BY <1>3, ApartHolds DEF SubsInv
<1> QED BY <1>1, <1>3, <1>4, <1>5, SubscriptionRewritten

\* A charge keeps the charges apart.
LEMMA ChargeKeeps ==
  ASSUME SubsInv, NEW s \in DOMAIN subs, ChargeSubscription(s), now' \in Nat
  PROVE  SubsInv'
<1> DEFINE q == [subs[s] EXCEPT !.last_charged = now]
           interval == plans[subs[s].plan_id].interval
<1>1. /\ subs' = [subs EXCEPT ![s] = q]
      /\ charges' = [charges EXCEPT ![s] = Append(charges[s], now)]
      /\ UNCHANGED plans
      /\ Due(subs[s])
  BY DEF ChargeSubscription
<1>2. subs[s] \in SubscriptionRecord /\ now \in Nat
  BY DEF SubsInv, SubsTyped
<1>3. /\ q \in SubscriptionRecord
      /\ q.plan_id = subs[s].plan_id
      /\ q.last_charged = now
  BY <1>2 DEF SubscriptionRecord
<1>4. charges[s] \in Seq(Nat) /\ plans[subs[s].plan_id] \in SubscriptionPlan
  BY DEF SubsInv, SubsTyped
<1>5. interval \in Nat
  BY <1>4 DEF SubscriptionPlan
<1>6. Apart(charges[s], interval, subs[s].last_charged)
  BY ApartHolds DEF SubsInv
<1>7. subs[s].last_charged # None => now >= subs[s].last_charged + interval
  BY <1>1 DEF Due
<1> HIDE DEF q, interval
<1>8. Apart(Append(charges[s], now), interval, now)
  BY <1>2, <1>4, <1>5, <1>6, <1>7, ChargeApart
<1>9. Append(charges[s], now) \in Seq(Nat)
  BY <1>2, <1>4
<1> QED BY <1>1, <1>3, <1>8, <1>9, SubscriptionRewritten DEF interval

\* There are no subscriptions at the start.
LEMMA SubsInvInit == ShadeInit => SubsInv
<1> SUFFICES ASSUME ShadeInit PROVE SubsInv
  OBVIOUS
<1>1. now = 0 /\ plans = << >> /\ subs = << >> /\ charges = << >>
  BY DEF ShadeInit, Init, MerchantsInit, PlatformInit, SubscriptionInit
<1> QED BY <1>1 DEF SubsInv, SubsTyped, ChargedOncePerInterval

\* Every step of the contract keeps the charges apart.
LEMMA SubsInvStep ==
  ASSUME SubsInv, [ShadeNext]_shadeVars
  PROVE  SubsInv'
<1>1. now' \in Nat
  BY ClockStep DEF SubsInv, SubsTyped
<1>2. CASE UNCHANGED <<subs, plans, charges>>
  BY <1>1, <1>2 DEF SubsInv, SubsTyped, ChargedOncePerInterval
<1>3. CASE SubscriptionNext
  <2>1. ASSUME NEW m \in Seller, NEW t \in Tokens, NEW amt \in PlanAmounts,
               NEW interval \in PlanIntervals, CreateSubscriptionPlan(m, t, amt, interval)
        PROVE  SubsInv'
    BY <1>1, <2>1, CreatePlanKeeps
  <2>2. ASSUME NEW k \in DOMAIN plans, DeactivatePlan(k)
        PROVE  SubsInv'
    BY <1>1, <2>2, DeactivatePlanKeeps
  <2>3. ASSUME NEW k \in DOMAIN plans, NEW c \in Customers, Subscribe(c, k)
        PROVE  SubsInv'
    BY <1>1, <2>3, SubscribeKeeps
  <2>4. ASSUME NEW s \in DOMAIN subs, CancelSubscription(s)
        PROVE  SubsInv'
    BY <1>1, <2>4, CancelSubscriptionKeeps
  <2>5. ASSUME NEW s \in DOMAIN subs, ChargeSubscription(s)
        PROVE  SubsInv'
    BY <1>1, <2>5, ChargeKeeps
  <2>6. ASSUME NEW c, NEW t, NEW amt, ApproveShade(c, t, amt)
        PROVE  UNCHANGED <<subs, plans, charges>>
    BY <2>6 DEF ApproveShade
  <2> QED BY <1>2, <1>3, <2>1, <2>2, <2>3, <2>4, <2>5, <2>6 DEF SubscriptionNext
<1> QED BY <1>2, <1>3, StepOwners

\* Charges of a subscription lie a full interval apart, whoever triggers them
\* (charge_subscription).
THEOREM ChargedOncePerIntervalHolds == ShadeSpec => []ChargedOncePerInterval
<1>1. SubsInv => ChargedOncePerInterval
  BY DEF SubsInv
<1> QED BY <1>1, SubsInvInit, SubsInvStep, PTL DEF ShadeSpec

-----------------------------------------------------------------------------
(* Events and tickets. *)

EventsTyped ==
    /\ events \in Seq(Event)
    /\ tickets \in Seq(Ticket)
    /\ bulk \in Seq(Nat)
    /\ Len(bulk) = Len(events)
    /\ \A i \in DOMAIN tickets : tickets[i].event_id \in DOMAIN events

EventsInv == EventsTyped /\ NeverOversold

\* What the record of one event, the seats it sold in bulk and its tickets say to
\* each other.
Booked(event, seats, mine) ==
    /\ event.sold <= event.capacity
    /\ event.sold = Len(event.tickets) + seats
    /\ IsInjective(event.tickets)
    /\ Range(event.tickets) = mine

\* The property, one event at a time.
LEMMA BookedHolds ==
  NeverOversold <=> \A e \in DOMAIN events : Booked(events[e], bulk[e], TicketsOf(e))
  BY DEF NeverOversold, Booked

\* A step that rewrites one event, its seats sold in bulk and its own tickets only.
LEMMA EventRewritten ==
  ASSUME EventsInv, NEW e \in DOMAIN events, NEW q \in Event, NEW n \in Nat,
         events' = [events EXCEPT ![e] = q], bulk' = [bulk EXCEPT ![e] = n],
         tickets' \in Seq(Ticket),
         \A i \in DOMAIN tickets' : tickets'[i].event_id \in DOMAIN events,
         \A d \in DOMAIN events \ {e} :
            {i \in DOMAIN tickets' : tickets'[i].event_id = d} = TicketsOf(d),
         Booked(q, n, {i \in DOMAIN tickets' : tickets'[i].event_id = e})
  PROVE  EventsInv'
<1>1. /\ events' \in Seq(Event)
      /\ Len(events') = Len(events)
      /\ DOMAIN events' = DOMAIN events
      /\ events'[e] = q
      /\ \A d \in DOMAIN events \ {e} : events'[d] = events[d]
  BY Written DEF EventsInv, EventsTyped
<1>2. DOMAIN bulk = DOMAIN events
  BY DEF EventsInv, EventsTyped
<1>3. /\ bulk' \in Seq(Nat)
      /\ Len(bulk') = Len(bulk)
      /\ bulk'[e] = n
      /\ \A d \in DOMAIN events \ {e} : bulk'[d] = bulk[d]
  BY <1>2, Written DEF EventsInv, EventsTyped
<1>4. EventsTyped'
  BY <1>1, <1>3 DEF EventsInv, EventsTyped
<1>5. ASSUME NEW d \in DOMAIN events
      PROVE  Booked(events'[d], bulk'[d], {i \in DOMAIN tickets' : tickets'[i].event_id = d})
  <2>1. CASE d = e
    BY <1>1, <1>3, <2>1
  <2>2. CASE d # e
    <3>1. Booked(events[d], bulk[d], TicketsOf(d))
      BY BookedHolds DEF EventsInv
    <3> QED BY <1>1, <1>3, <2>2, <3>1
  <2> QED BY <2>1, <2>2
<1>6. NeverOversold'
  BY <1>1, <1>5 DEF NeverOversold, Booked, TicketsOf
<1> QED BY <1>4, <1>6 DEF EventsInv

\* A step that rewrites one event, but neither its seats nor any ticket's event.
LEMMA EventTouched ==
  ASSUME EventsInv, NEW e \in DOMAIN events, NEW q \in Event,
         events' = [events EXCEPT ![e] = q], UNCHANGED <<bulk, tickets>>,
         q.sold = events[e].sold, q.capacity = events[e].capacity,
         q.tickets = events[e].tickets
  PROVE  EventsInv'
<1>1. bulk[e] \in Nat /\ bulk' = [bulk EXCEPT ![e] = bulk[e]]
  BY DEF EventsInv, EventsTyped
<1>2. /\ tickets' \in Seq(Ticket)
      /\ \A i \in DOMAIN tickets' : tickets'[i].event_id \in DOMAIN events
      /\ \A d : {i \in DOMAIN tickets' : tickets'[i].event_id = d} = TicketsOf(d)
  BY DEF EventsInv, EventsTyped, TicketsOf
<1>3. Booked(events[e], bulk[e], TicketsOf(e))
  BY BookedHolds DEF EventsInv
<1>4. Booked(q, bulk[e], {i \in DOMAIN tickets' : tickets'[i].event_id = e})
  BY <1>2, <1>3 DEF Booked
<1> QED BY <1>1, <1>2, <1>4, EventRewritten

\* A new event has sold nothing.
LEMMA CreateEventKeeps ==
  ASSUME EventsInv, NEW m \in Seller, NEW show \in Shows, CreateEvent(m, show)
  PROVE  EventsInv'
<1> DEFINE new == [merchant |-> m, price |-> show.price, token |-> show.token,
                   capacity |-> show.capacity, sold |-> 0, event_date |-> show.event_date,
                   royalty_bps |-> show.royalty_bps, early_bird_end |-> None,
                   discount_bps |-> 0, markup_bps |-> 0, cancelled |-> FALSE,
                   refunds_processed |-> FALSE, tickets |-> << >>]
           n == Len(events) + 1
<1>1. /\ events' = Append(events, new)
      /\ bulk' = Append(bulk, 0)
      /\ UNCHANGED tickets
      /\ show.price > 0 /\ show.capacity > 0 /\ show.royalty_bps <= 10000
  BY DEF CreateEvent
<1>2. /\ show.price \in Int /\ show.token \in Tokens
      /\ show.capacity \in Nat /\ show.royalty_bps \in Nat /\ show.event_date \in Nat
  BY EventsAssumption
<1>3. show.price \in Nat /\ show.royalty_bps \in 0 .. 10000
  <2>1. show.price > 0 /\ show.price \in Int
    BY <1>1, <1>2
  <2>2. show.royalty_bps <= 10000 /\ show.royalty_bps \in Nat
    BY <1>1, <1>2
  <2>3. show.price \in Nat
    BY <2>1
  <2>4. PICK bps : bps = show.royalty_bps
    OBVIOUS
  <2>5. bps <= 10000 /\ bps \in Nat
    BY <2>2, <2>4
  <2>6. bps \in 0 .. 10000
    BY ONLY <2>5
  <2> QED BY ONLY <2>3, <2>4, <2>6
<1>4. << >> \in Seq(Nat)
  OBVIOUS
<1>5. new \in Event
  <2>1. /\ show.price \in Nat /\ show.token \in Tokens /\ show.capacity \in Nat
        /\ show.event_date \in Nat /\ show.royalty_bps \in BasisPoints
    BY <1>2, <1>3 DEF BasisPoints
  <2>2. 0 \in Nat /\ 0 \in BasisPoints /\ FALSE \in BOOLEAN /\ None \in Nat \cup {None}
    BY DEF BasisPoints
  <2> QED BY ONLY m \in Seller, <1>4, <2>1, <2>2 DEF Event, new
<1>6. /\ new.sold = 0
      /\ new.capacity = show.capacity
      /\ new.tickets = << >>
  OBVIOUS
<1> HIDE DEF new
<1>7. Booked(new, 0, {})
  BY <1>2, <1>6 DEF Booked, IsInjective, Range
<1>8. /\ events' \in Seq(Event)
      /\ Len(events') = n
      /\ DOMAIN events' = DOMAIN events \cup {n}
      /\ n \notin DOMAIN events
      /\ events'[n] = new
      /\ \A e \in DOMAIN events : events'[e] = events[e]
  BY <1>1, <1>5, Added DEF EventsInv, EventsTyped
<1>9. /\ bulk' \in Seq(Nat)
      /\ Len(bulk') = n
      /\ bulk'[n] = 0
      /\ \A e \in DOMAIN events : bulk'[e] = bulk[e]
  BY <1>1, Added DEF EventsInv, EventsTyped
<1> HIDE DEF n
<1>10. EventsTyped'
  BY <1>1, <1>8, <1>9 DEF EventsInv, EventsTyped
<1>11. ASSUME NEW e \in DOMAIN events \cup {n}
       PROVE  Booked(events'[e], bulk'[e], {i \in DOMAIN tickets' : tickets'[i].event_id = e})
  <2>1. CASE e = n
    <3>1. {i \in DOMAIN tickets' : tickets'[i].event_id = n} = {}
      BY <1>1, <1>8 DEF EventsInv, EventsTyped
    <3> QED BY <1>7, <1>8, <1>9, <2>1, <3>1
  <2>2. CASE e # n
    <3>1. Booked(events[e], bulk[e], TicketsOf(e))
      BY <2>2, BookedHolds DEF EventsInv
    <3>2. {i \in DOMAIN tickets' : tickets'[i].event_id = e} = TicketsOf(e)
      BY <1>1 DEF TicketsOf
    <3> QED BY <1>8, <1>9, <2>2, <3>1, <3>2
  <2> QED BY <2>1, <2>2
<1>12. NeverOversold'
  BY <1>8, <1>11 DEF NeverOversold, Booked, TicketsOf
<1> QED BY <1>10, <1>12 DEF EventsInv

\* Prices change no seat.
LEMMA ConfigurePricingKeeps ==
  ASSUME EventsInv, NEW e \in DOMAIN events, NEW d \in Pricings, ConfigureDynamicPricing(e, d)
  PROVE  EventsInv'
<1> DEFINE until == d.early_bird_end
           less == d.discount_bps
           more == d.markup_bps
           event == events[e]
           q == [event EXCEPT !.early_bird_end = until, !.discount_bps = less,
                              !.markup_bps = more]
<1>1. /\ events' = [events EXCEPT ![e] = q]
      /\ UNCHANGED <<bulk, tickets>>
  BY DEF ConfigureDynamicPricing
<1>2. less <= 10000 /\ more <= 10000
  BY DEF ConfigureDynamicPricing
<1>3. until \in Nat \cup {None} /\ less \in Nat /\ more \in Nat
  BY EventsAssumption
<1>4. event \in Event
  BY DEF EventsInv, EventsTyped
<1> HIDE DEF until, less, more
<1>5. less \in BasisPoints
  BY <1>2, <1>3 DEF BasisPoints
<1>6. more \in BasisPoints
  BY <1>2, <1>3 DEF BasisPoints
<1>7. q = [event EXCEPT !.early_bird_end = until, !.discount_bps = less,
                        !.markup_bps = more]
  OBVIOUS
<1> HIDE DEF event, q
<1>8. /\ q \in Event
      /\ q.sold = event.sold
      /\ q.capacity = event.capacity
      /\ q.tickets = event.tickets
  BY <1>3, <1>4, <1>5, <1>6, <1>7 DEF Event
<1> QED BY <1>1, <1>8, EventTouched DEF event

\* A cancellation changes no seat.
LEMMA CancelEventKeeps ==
  ASSUME EventsInv, NEW e \in DOMAIN events, CancelEventAndBatchRefund(e)
  PROVE  EventsInv'
<1> DEFINE event == events[e]
           q == [event EXCEPT !.cancelled = TRUE, !.refunds_processed = TRUE]
<1>1. /\ events' = [events EXCEPT ![e] = q]
      /\ UNCHANGED <<bulk, tickets>>
  BY DEF CancelEventAndBatchRefund
<1>2. event \in Event
  BY DEF EventsInv, EventsTyped
<1>3. q = [event EXCEPT !.cancelled = TRUE, !.refunds_processed = TRUE]
  OBVIOUS
<1> HIDE DEF event, q
<1>4. /\ q \in Event
      /\ q.sold = event.sold
      /\ q.capacity = event.capacity
      /\ q.tickets = event.tickets
  BY <1>2, <1>3 DEF Event
<1> QED BY <1>1, <1>4, EventTouched DEF event

\* A bulk sale takes seats and writes no ticket.
LEMMA BulkPurchaseKeeps ==
  ASSUME EventsInv, NEW e \in DOMAIN events, NEW buyer, NEW n \in Quantities, NEW t, NEW to,
         PurchaseTicketsBulk(e, buyer, n, t, to)
  PROVE  EventsInv'
<1> DEFINE event == events[e]
           sold == event.sold
           was == bulk[e]
           q == [event EXCEPT !.sold = sold + n]
<1>1. /\ events' = [events EXCEPT ![e] = q]
      /\ bulk' = [bulk EXCEPT ![e] = was + n]
      /\ UNCHANGED tickets
      /\ SeatsLeft(event, n)
  BY DEF PurchaseTicketsBulk
<1>2. event \in Event /\ was \in Nat /\ n \in Nat
  BY EventsAssumption DEF EventsInv, EventsTyped
<1>3. /\ tickets' \in Seq(Ticket)
      /\ \A i \in DOMAIN tickets' : tickets'[i].event_id \in DOMAIN events
      /\ \A d : {i \in DOMAIN tickets' : tickets'[i].event_id = d} = TicketsOf(d)
  BY <1>1 DEF EventsInv, EventsTyped, TicketsOf
<1>4. Booked(event, was, TicketsOf(e))
  BY BookedHolds DEF EventsInv
<1>5. sold + n <= event.capacity
  BY <1>1 DEF SeatsLeft
<1> DEFINE seats == Len(event.tickets)
<1>6. q = [event EXCEPT !.sold = sold + n]
  OBVIOUS
<1> HIDE DEF event, was, q
<1>7. sold \in Nat /\ seats \in Nat
  BY <1>2 DEF Event
<1>8. sold = seats + was
  BY <1>4 DEF Booked
<1> HIDE DEF sold, seats
<1>9. sold + n \in Nat /\ was + n \in Nat /\ sold + n = seats + (was + n)
  BY <1>2, <1>7, <1>8
<1>10. /\ q \in Event
      /\ q.sold = sold + n
      /\ q.capacity = event.capacity
      /\ q.tickets = event.tickets
  BY <1>2, <1>6, <1>9 DEF Event
<1>11. Booked(q, was + n, TicketsOf(e))
  BY <1>4, <1>5, <1>9, <1>10 DEF Booked, seats
<1> QED BY <1>1, <1>3, <1>9, <1>10, <1>11, EventRewritten

\* Products of numbers.
LEMMA Products ==
  ASSUME NEW x \in Nat, NEW y \in Nat, NEW d \in Nat, NEW e \in Nat, e <= d
  PROVE  /\ x * d \in Nat /\ y * e \in Nat /\ y * d \in Nat
         /\ y * e <= y * d
         /\ (x + y) * d = x * d + y * d
<1>1. x * d \in Nat /\ y * e \in Nat /\ y * d \in Nat
  OBVIOUS
<1>2. d - e \in Nat /\ y * (d - e) \in Nat /\ y * (d - e) = y * d - y * e
  OBVIOUS
<1>3. y * e <= y * d
  <2> DEFINE gap == y * (d - e)
             low == y * e
             high == y * d
  <2>1. gap \in Nat /\ low \in Nat /\ high \in Nat /\ gap = high - low
    BY <1>1, <1>2
  <2> HIDE DEF gap, low, high
  <2>2. low <= high
    BY <2>1
  <2> QED BY <2>2 DEF low, high
<1>4. (x + y) * d = x * d + y * d
  OBVIOUS
<1> QED BY <1>1, <1>3, <1>4

\* A share of a price in basis points is a number, the price at most.
LEMMA BpsOfType ==
  ASSUME NEW value \in Nat, NEW bps \in BasisPoints
  PROVE  BpsOf(value, bps) \in Nat /\ BpsOf(value, bps) <= value
<1> DEFINE product == value * bps
           whole == value * 10000
<1>1. bps \in Nat /\ bps <= 10000 /\ 10000 \in Nat
  BY DEF BasisPoints
<1>2. product \in Nat /\ product <= whole
  BY <1>1, Products
<1>3. whole = 10000 * value
  OBVIOUS
<1> HIDE DEF product, whole
<1>4. product \div 10000 \in Nat /\ product \div 10000 <= value
  BY <1>2, <1>3
<1> QED BY <1>4 DEF BpsOf, product

\* A price is a natural number, early, late or neither.
LEMMA CurrentPriceType ==
  ASSUME NEW event \in Event
  PROVE  CurrentPrice(event) \in Nat
<1> DEFINE full == event.price
           less == event.discount_bps
           more == event.markup_bps
<1>1. full \in Nat /\ less \in BasisPoints /\ more \in BasisPoints
  BY DEF Event
<1>2. \/ CurrentPrice(event) = full
      \/ CurrentPrice(event) = full - BpsOf(full, less)
      \/ CurrentPrice(event) = full + BpsOf(full, more)
  BY Zenon DEF CurrentPrice
<1> HIDE DEF full, less, more
<1>3. BpsOf(full, less) \in Nat /\ BpsOf(full, less) <= full
  BY <1>1, BpsOfType
<1>4. BpsOf(full, more) \in Nat
  BY <1>1, BpsOfType
<1> QED BY <1>1, <1>2, <1>3, <1>4

\* A ticket takes one seat and enters its event's list.
LEMMA PurchaseKeeps ==
  ASSUME EventsInv, NEW e \in DOMAIN events, NEW buyer \in Buyers, PurchaseTicket(e, buyer)
  PROVE  EventsInv'
<1> DEFINE event == events[e]
           list == event.tickets
           sold == event.sold
           i == Len(tickets) + 1
           amt == CurrentPrice(event)
           new == [event_id |-> e, owner |-> buyer, purchase_price |-> amt]
           q == [event EXCEPT !.tickets = Append(list, i), !.sold = sold + 1]
<1>1. /\ events' = [events EXCEPT ![e] = q]
      /\ tickets' = Append(tickets, new)
      /\ UNCHANGED bulk
      /\ SeatsLeft(event, 1)
  BY Zenon DEF PurchaseTicket
<1>2. event \in Event /\ e \in Nat /\ bulk[e] \in Nat /\ bulk = [bulk EXCEPT ![e] = bulk[e]]
  BY DEF EventsInv, EventsTyped
<1>3. amt \in Nat
  BY <1>2, CurrentPriceType
<1>4. Booked(event, bulk[e], TicketsOf(e))
  BY BookedHolds DEF EventsInv
<1>5. sold + 1 <= event.capacity
  BY <1>1 DEF SeatsLeft
<1>6. q = [event EXCEPT !.tickets = Append(list, i), !.sold = sold + 1]
  OBVIOUS
<1> HIDE DEF event, amt, q
<1>7. sold \in Nat /\ list \in Seq(Nat)
  BY <1>2 DEF Event
<1>8. new \in Ticket /\ new.event_id = e
  BY <1>2, <1>3 DEF Ticket
<1> HIDE DEF new
<1>9. /\ tickets' \in Seq(Ticket)
      /\ DOMAIN tickets' = DOMAIN tickets \cup {i}
      /\ i \in Nat \ DOMAIN tickets
      /\ tickets'[i] = new
      /\ \A j \in DOMAIN tickets : tickets'[j] = tickets[j]
  BY <1>1, <1>8, Added DEF EventsInv, EventsTyped
<1> HIDE DEF i
<1>10. sold = Len(list) + bulk[e] /\ IsInjective(list) /\ Range(list) = TicketsOf(e)
  BY <1>4 DEF Booked
<1> DEFINE longer == Append(list, i)
<1> HIDE DEF list, sold
<1>11. /\ longer \in Seq(Nat)
       /\ Len(longer) = Len(list) + 1
       /\ Len(list) \in Nat
       /\ DOMAIN longer = DOMAIN list \cup {Len(list) + 1}
       /\ longer[Len(list) + 1] = i
       /\ \A j \in DOMAIN list : longer[j] = list[j]
  BY <1>7, <1>9, Added
<1>12. q = [event EXCEPT !.tickets = longer, !.sold = sold + 1] /\ sold + 1 \in Nat
  BY <1>6, <1>7
<1> HIDE DEF longer
<1>13. /\ q \in Event
       /\ q.sold = sold + 1
       /\ q.capacity = event.capacity
       /\ q.tickets = longer
  BY <1>2, <1>11, <1>12 DEF Event
<1>14. \A j \in DOMAIN list : list[j] # i
  BY <1>9, <1>10 DEF Range, TicketsOf
<1>15. IsInjective(longer)
  BY <1>10, <1>11, <1>14 DEF IsInjective
<1>16. Range(longer) = TicketsOf(e) \cup {i}
  BY <1>10, <1>11 DEF Range
<1>17. {j \in DOMAIN tickets' : tickets'[j].event_id = e} = TicketsOf(e) \cup {i}
  BY <1>8, <1>9 DEF TicketsOf
<1>18. \A d \in DOMAIN events \ {e} :
            {j \in DOMAIN tickets' : tickets'[j].event_id = d} = TicketsOf(d)
  BY <1>8, <1>9 DEF TicketsOf
<1>19. \A j \in DOMAIN tickets' : tickets'[j].event_id \in DOMAIN events
  BY <1>8, <1>9 DEF EventsInv, EventsTyped
<1>20. q.sold = Len(q.tickets) + bulk[e]
  BY <1>2, <1>7, <1>10, <1>11, <1>13
<1>21. Booked(q, bulk[e], {j \in DOMAIN tickets' : tickets'[j].event_id = e})
  BY <1>5, <1>13, <1>15, <1>16, <1>17, <1>20 DEF Booked
<1>22. bulk' = [bulk EXCEPT ![e] = bulk[e]]
  BY <1>1, <1>2
<1> QED BY <1>1, <1>2, <1>9, <1>13, <1>18, <1>19, <1>21, <1>22, EventRewritten

\* A resale changes no seat.
LEMMA ResellKeeps ==
  ASSUME EventsInv, NEW i \in DOMAIN tickets, NEW buyer \in Buyers, NEW asked,
         ResellTicket(i, buyer, asked)
  PROVE  EventsInv'
<1> DEFINE ticket == tickets[i]
           sold == [ticket EXCEPT !.owner = buyer]
<1>1. tickets' = [tickets EXCEPT ![i] = sold] /\ UNCHANGED <<events, bulk>>
  BY Zenon DEF ResellTicket
<1>2. ticket \in Ticket
  BY DEF EventsInv, EventsTyped
<1>3. sold \in Ticket /\ sold.event_id = ticket.event_id
  BY <1>2 DEF Ticket
<1> HIDE DEF sold
<1>4. /\ tickets' \in Seq(Ticket)
      /\ DOMAIN tickets' = DOMAIN tickets
      /\ \A j \in DOMAIN tickets : tickets'[j].event_id = tickets[j].event_id
  BY <1>1, <1>3, Written DEF EventsInv, EventsTyped
<1>5. EventsTyped'
  BY <1>1, <1>4 DEF EventsInv, EventsTyped
<1>6. \A e : {j \in DOMAIN tickets' : tickets'[j].event_id = e} = TicketsOf(e)
  BY <1>4 DEF TicketsOf
<1>7. \A e \in DOMAIN events :
            Booked(events[e], bulk[e], {j \in DOMAIN tickets' : tickets'[j].event_id = e})
  BY <1>6, BookedHolds DEF EventsInv
<1>8. NeverOversold'
  BY <1>1, <1>7 DEF NeverOversold, Booked, TicketsOf
<1> QED BY <1>5, <1>8 DEF EventsInv

\* There are no events at the start.
LEMMA EventsInvInit == ShadeInit => EventsInv
<1> SUFFICES ASSUME ShadeInit PROVE EventsInv
  OBVIOUS
<1>1. events = << >> /\ tickets = << >> /\ bulk = << >>
  BY DEF ShadeInit, EventsInit
<1> QED BY <1>1 DEF EventsInv, EventsTyped, NeverOversold

\* Every step of the contract keeps the seats in order.
LEMMA EventsInvStep ==
  ASSUME EventsInv, [ShadeNext]_shadeVars
  PROVE  EventsInv'
<1>1. CASE UNCHANGED eventVars
  BY <1>1 DEF EventsInv, EventsTyped, NeverOversold, TicketsOf, eventVars
<1>2. CASE EventsNext
  <2>1. ASSUME NEW m \in Seller, NEW show \in Shows, CreateEvent(m, show)
        PROVE  EventsInv'
    BY <2>1, CreateEventKeeps
  <2>2. ASSUME NEW e \in DOMAIN events, NEW d \in Pricings, ConfigureDynamicPricing(e, d)
        PROVE  EventsInv'
    BY <2>2, ConfigurePricingKeeps
  <2>3. ASSUME NEW e \in DOMAIN events, CancelEventAndBatchRefund(e)
        PROVE  EventsInv'
    BY <2>3, CancelEventKeeps
  <2>4. ASSUME NEW e \in DOMAIN events, NEW buyer \in Buyers, PurchaseTicket(e, buyer)
        PROVE  EventsInv'
    BY <2>4, PurchaseKeeps
  <2>5. ASSUME NEW e \in DOMAIN events, NEW buyer \in Buyers, NEW n \in Quantities,
               NEW t \in Tokens, NEW to \in Routes, PurchaseTicketsBulk(e, buyer, n, t, to)
        PROVE  EventsInv'
    BY <2>5, BulkPurchaseKeeps
  <2>6. ASSUME NEW i \in DOMAIN tickets, NEW buyer \in Buyers, NEW asked \in Resales,
               ResellTicket(i, buyer, asked)
        PROVE  EventsInv'
    BY <2>6, ResellKeeps
  <2> QED BY <1>2, <2>1, <2>2, <2>3, <2>4, <2>5, <2>6 DEF EventsNext
<1> QED BY <1>1, <1>2, StepOwners

\* No mix of single and bulk sales oversells an event, and its count of sold seats is
\* that of its tickets and of the seats sold in bulk (purchase_ticket,
\* purchase_tickets_bulk).
THEOREM NeverOversoldHolds == ShadeSpec => []NeverOversold
<1>1. EventsInv => NeverOversold
  BY DEF EventsInv
<1> QED BY <1>1, EventsInvInit, EventsInvStep, PTL DEF ShadeSpec

\* The tickets of each wallet.
HeldBy(list) == [p \in Buyers |-> {i \in DOMAIN list : list[i].owner = p}]

\* With the lists, what is recorded of the tickets is complete.
HoldersInv == EventsInv /\ Owned(Buyers, userTickets, HeldBy(tickets))

\* A new ticket enters its buyer's list.
LEMMA PurchaseListed ==
  ASSUME HoldersInv, NEW e \in DOMAIN events, NEW buyer \in Buyers, PurchaseTicket(e, buyer)
  PROVE  Owned(Buyers, userTickets, HeldBy(tickets))'
<1> DEFINE i == Len(tickets) + 1
           amt == CurrentPrice(events[e])
           new == [event_id |-> e, owner |-> buyer, purchase_price |-> amt]
           list == userTickets[buyer]
           longer == Append(list, i)
<1>1. tickets' = Append(tickets, new) /\ userTickets' = [userTickets EXCEPT ![buyer] = longer]
  BY Zenon DEF PurchaseTicket
<1>2. tickets \in Seq(Ticket) /\ e \in Nat /\ events[e] \in Event
  BY DEF HoldersInv, EventsInv, EventsTyped
<1>3. amt \in Nat
  BY <1>2, CurrentPriceType
<1> HIDE DEF amt
<1>4. new \in Ticket /\ new.owner = buyer
  BY <1>2, <1>3 DEF Ticket
<1> HIDE DEF new
<1>5. /\ DOMAIN tickets' = DOMAIN tickets \cup {i}
      /\ i \in Nat \ DOMAIN tickets
      /\ tickets'[i] = new
      /\ \A j \in DOMAIN tickets : tickets'[j] = tickets[j]
  BY <1>1, <1>2, <1>4, Added
<1>6. i \in Nat \ {0}
  BY <1>2
<1> HIDE DEF i
<1>7. /\ userTickets \in [Buyers -> Seq(Nat \ {0})]
      /\ \A p \in Buyers : /\ IsInjective(userTickets[p])
                           /\ Range(userTickets[p]) = {j \in DOMAIN tickets : tickets[j].owner = p}
  BY DEF HoldersInv, Owned, HeldBy
<1>8. /\ longer \in Seq(Nat \ {0})
      /\ Range(longer) = Range(list) \cup {i}
      /\ IsInjective(longer)
  <2>1. /\ list \in Seq(Nat \ {0})
        /\ IsInjective(list)
        /\ i \notin Range(list)
    BY <1>5, <1>7
  <2> HIDE DEF list
  <2> QED BY <1>6, <2>1, Pushed
<1> HIDE DEF longer
<1>9. ASSUME NEW p \in Buyers
      PROVE  /\ IsInjective(userTickets'[p])
             /\ Range(userTickets'[p]) = {j \in DOMAIN tickets' : tickets'[j].owner = p}
  <2>1. CASE p = buyer
    BY <1>1, <1>4, <1>5, <1>7, <1>8, <2>1
  <2>2. CASE p # buyer
    BY <1>1, <1>4, <1>5, <1>7, <2>2
  <2> QED BY <2>1, <2>2
<1>10. userTickets' \in [Buyers -> Seq(Nat \ {0})]
  BY <1>1, <1>7, <1>8
<1> QED BY <1>9, <1>10 DEF Owned, HeldBy

\* A resale takes the ticket from the one list that has it.
LEMMA ResaleListed ==
  ASSUME HoldersInv, NEW i \in DOMAIN tickets, NEW buyer \in Buyers, NEW asked,
         ResellTicket(i, buyer, asked)
  PROVE  Owned(Buyers, userTickets, HeldBy(tickets))'
<1> DEFINE from == tickets[i].owner
           was == tickets[i]
           is == [was EXCEPT !.owner = buyer]
<1>1. was \in Ticket /\ i \in Nat \ {0} /\ tickets \in Seq(Ticket)
  BY DEF HoldersInv, EventsInv, EventsTyped
<1>2. from \in Buyers /\ is \in Ticket /\ is.owner = buyer
  BY <1>1 DEF Ticket
<1>3. /\ tickets' = [tickets EXCEPT ![i] = is]
      /\ userTickets' = Passed(userTickets, i, from, buyer)
  BY Zenon DEF ResellTicket, WithoutTicket, Passed
<1> DEFINE mine == HeldBy(tickets)
<1>4. Owned(Buyers, userTickets, mine) /\ \A p \in Buyers \ {from} : i \notin mine[p]
  BY DEF HoldersInv, HeldBy
<1> HIDE DEF mine, is, from
<1>5. Owned(Buyers, userTickets',
            [p \in Buyers |-> IF p = buyer THEN mine[p] \cup {i} ELSE mine[p] \ {i}])
  BY <1>1, <1>2, <1>3, <1>4, PassedOn
<1>6. /\ DOMAIN tickets' = DOMAIN tickets
      /\ tickets'[i] = is
      /\ \A j \in DOMAIN tickets \ {i} : tickets'[j] = tickets[j]
  BY <1>1, <1>2, <1>3, Written
<1>7. [p \in Buyers |-> IF p = buyer THEN mine[p] \cup {i} ELSE mine[p] \ {i}] = HeldBy(tickets')
  <2>1. ASSUME NEW p \in Buyers
        PROVE  (IF p = buyer THEN mine[p] \cup {i} ELSE mine[p] \ {i}) =
                    {j \in DOMAIN tickets' : tickets'[j].owner = p}
    BY <1>2, <1>6 DEF mine, HeldBy
  <2> QED BY <2>1 DEF HeldBy
<1>8. Owned(Buyers, userTickets', HeldBy(tickets'))
  BY <1>5, <1>7
<1> QED BY <1>8

\* Every step of the contract keeps the lists in order.
LEMMA HoldersInvStep ==
  ASSUME HoldersInv, [ShadeNext]_shadeVars
  PROVE  HoldersInv'
<1>1. EventsInv'
  BY EventsInvStep DEF HoldersInv
<1>2. ASSUME UNCHANGED <<tickets, userTickets>>
      PROVE  HoldersInv'
  BY <1>1, <1>2 DEF HoldersInv, HeldBy, Owned
<1>3. CASE UNCHANGED eventVars
  BY <1>2, <1>3 DEF eventVars
<1>4. CASE EventsNext
  <2>1. ASSUME NEW m \in Seller, NEW show \in Shows, CreateEvent(m, show)
        PROVE  UNCHANGED <<tickets, userTickets>>
    BY <2>1 DEF CreateEvent
  <2>2. ASSUME NEW e \in DOMAIN events, NEW d \in Pricings, ConfigureDynamicPricing(e, d)
        PROVE  UNCHANGED <<tickets, userTickets>>
    BY <2>2 DEF ConfigureDynamicPricing
  <2>3. ASSUME NEW e \in DOMAIN events, CancelEventAndBatchRefund(e)
        PROVE  UNCHANGED <<tickets, userTickets>>
    BY <2>3 DEF CancelEventAndBatchRefund
  <2>4. ASSUME NEW e \in DOMAIN events, NEW buyer \in Buyers, PurchaseTicket(e, buyer)
        PROVE  HoldersInv'
    BY <1>1, <2>4, PurchaseListed DEF HoldersInv
  <2>5. ASSUME NEW e \in DOMAIN events, NEW buyer \in Buyers, NEW n \in Quantities,
               NEW t \in Tokens, NEW to \in Routes, PurchaseTicketsBulk(e, buyer, n, t, to)
        PROVE  UNCHANGED <<tickets, userTickets>>
    BY <2>5 DEF PurchaseTicketsBulk
  <2>6. ASSUME NEW i \in DOMAIN tickets, NEW buyer \in Buyers, NEW asked \in Resales,
               ResellTicket(i, buyer, asked)
        PROVE  HoldersInv'
    BY <1>1, <2>6, ResaleListed DEF HoldersInv
  <2> QED BY <1>2, <1>4, <2>1, <2>2, <2>3, <2>4, <2>5, <2>6 DEF EventsNext
<1> QED BY <1>3, <1>4, StepOwners

\* There are no tickets at the start.
LEMMA HoldersInvInit == ShadeInit => HoldersInv
<1> SUFFICES ASSUME ShadeInit PROVE HoldersInv
  OBVIOUS
<1>1. tickets = << >> /\ userTickets = [p \in Buyers |-> << >>]
  BY DEF ShadeInit, EventsInit
<1> QED BY <1>1, EventsInvInit DEF HoldersInv, Owned, HeldBy, IsInjective, Range

\* A wallet's list of tickets is what it owns, each ticket once, after any chain of
\* sales and resales (purchase_ticket, resell_ticket, remove_user_ticket).
THEOREM HoldersListedHolds == ShadeSpec => []HoldersListed
<1>1. HoldersInv => HoldersListed
  BY DEF HoldersInv, Owned, HeldBy, HoldersListed
<1> QED BY <1>1, HoldersInvInit, HoldersInvStep, PTL DEF ShadeSpec

-----------------------------------------------------------------------------
(* Backer campaigns. *)

CampaignsInv == BackerRewardsTypeOK /\ CountsAgree

\* The counts of one campaign are those of its selections.
Seated(selected, count) ==
    /\ selected \in [Backers -> Rewards \cup {None}]
    /\ count \in [Rewards -> Nat]
    /\ \A k \in Rewards : count[k] = Cardinality({b \in Backers : selected[b] = k})

\* The counts of a campaign, from the invariant.
LEMMA SeatedHolds ==
  ASSUME CampaignsInv, NEW c \in DOMAIN campaigns
  PROVE  Seated(campaigns[c].selected, campaigns[c].count)
<1> DEFINE campaign == campaigns[c]
<1>1. campaign \in BackerCampaign
  BY DEF CampaignsInv, BackerRewardsTypeOK
<1>2. \A k \in Rewards : campaign.count[k] = Cardinality({b \in Backers : campaign.selected[b] = k})
  BY DEF CampaignsInv, CountsAgree, InTier
<1> HIDE DEF campaign
<1>3. /\ campaign.selected \in [Backers -> Rewards \cup {None}]
      /\ campaign.count \in [Rewards -> Nat]
  BY <1>1 DEF BackerCampaign
<1>4. Seated(campaign.selected, campaign.count)
  BY <1>2, <1>3 DEF Seated
<1> QED BY <1>4 DEF campaign

\* A backer who moves takes a seat from the tier it leaves to the tier it enters.
LEMMA ReseatedSeats ==
  ASSUME NEW selected, NEW count, Seated(selected, count), NEW b \in Backers, NEW k \in Rewards
  PROVE  Seated([selected EXCEPT ![b] = k], Reseated(count, selected[b], k))
<1> DEFINE from == selected[b]
           now2 == [selected EXCEPT ![b] = k]
           In(j) == {x \in Backers : selected[x] = j}
           After(j) == {x \in Backers : now2[x] = j}
<1>1. /\ selected \in [Backers -> Rewards \cup {None}]
      /\ count \in [Rewards -> Nat]
      /\ \A j \in Rewards : count[j] = Cardinality(In(j))
  BY DEF Seated
<1>2. now2 \in [Backers -> Rewards \cup {None}]
  BY <1>1
<1>3. \A j \in Rewards : IsFiniteSet(In(j))
  BY BackerRewardsAssumption, FS_Subset
<1>4. ASSUME NEW j \in Rewards
      PROVE  /\ Reseated(count, from, k)[j] \in Nat
             /\ Reseated(count, from, k)[j] = Cardinality(After(j))
  <2>0. count[j] \in Nat /\ IsFiniteSet(In(j)) /\ count[j] = Cardinality(In(j))
    BY <1>1, <1>3
  <2>1. CASE j = k /\ from # k
    <3>1. After(j) = In(j) \cup {b} /\ b \notin In(j)
      BY <1>1, <2>1
    <3>2. Cardinality(After(j)) = count[j] + 1
      BY <2>0, <3>1, FS_AddElement
    <3>3. Reseated(count, from, k)[j] = count[j] + 1
      BY <2>1 DEF Reseated
    <3> QED BY <2>0, <3>2, <3>3
  <2>2. CASE j = from /\ from # k
    <3>1. After(j) = In(j) \ {b} /\ b \in In(j)
      BY <1>1, <2>2
    <3>2. Cardinality(After(j)) = count[j] - 1
      BY <2>0, <3>1, FS_RemoveElement, SMTT(30)
    <3>3. count[j] # 0
      BY <2>0, <3>1, FS_EmptySet
    <3>4. count[j] > 0
      BY <2>0, <3>3
    <3>5. Reseated(count, from, k)[j] = count[j] - 1
      BY <2>2, <3>4 DEF Reseated
    <3> QED BY <2>0, <3>2, <3>4, <3>5
  <2>3. CASE from = k \/ (j # k /\ j # from)
    <3>1. After(j) = In(j)
      BY <1>1, <2>3
    <3>2. Reseated(count, from, k)[j] = count[j]
      BY <2>3 DEF Reseated
    <3> QED BY <2>0, <3>1, <3>2
  <2> QED BY <2>1, <2>2, <2>3
<1>5. Reseated(count, from, k) \in [Rewards -> Nat]
  BY <1>4 DEF Reseated
<1> QED BY <1>2, <1>4, <1>5 DEF Seated

\* A step that rewrites one campaign.
LEMMA CampaignRewritten ==
  ASSUME CampaignsInv, NEW c \in DOMAIN campaigns, NEW q \in BackerCampaign,
         campaigns' = [campaigns EXCEPT ![c] = q], Seated(q.selected, q.count)
  PROVE  CampaignsInv'
<1>1. /\ campaigns' \in Seq(BackerCampaign)
      /\ DOMAIN campaigns' = DOMAIN campaigns
      /\ campaigns'[c] = q
      /\ \A d \in DOMAIN campaigns \ {c} : campaigns'[d] = campaigns[d]
  BY Written DEF CampaignsInv, BackerRewardsTypeOK
<1>2. ASSUME NEW d \in DOMAIN campaigns
      PROVE  Seated(campaigns'[d].selected, campaigns'[d].count)
  <2>1. CASE d = c
    BY <1>1, <2>1
  <2>2. CASE d # c
    BY <1>1, <2>2, SeatedHolds
  <2> QED BY <2>1, <2>2
<1>3. CountsAgree'
  BY <1>1, <1>2 DEF CountsAgree, Seated, InTier
<1> QED BY <1>1, <1>3 DEF CampaignsInv, BackerRewardsTypeOK

\* What every step but a selection does.
SelectionsStay ==
    \A c \in DOMAIN campaigns : campaigns'[c].selected = campaigns[c].selected

\* A step that leaves selections and counts alone.
LEMMA CampaignTouched ==
  ASSUME CampaignsInv, NEW c \in DOMAIN campaigns, NEW q \in BackerCampaign,
         campaigns' = [campaigns EXCEPT ![c] = q],
         q.selected = campaigns[c].selected, q.count = campaigns[c].count
  PROVE  CampaignsInv' /\ SelectionsStay
<1>1. Seated(q.selected, q.count)
  BY SeatedHolds
<1>2. CampaignsInv'
  BY <1>1, CampaignRewritten
<1>3. SelectionsStay
  BY DEF CampaignsInv, BackerRewardsTypeOK, SelectionsStay
<1> QED BY <1>2, <1>3

\* A new campaign has no selections.
LEMMA CreateCampaignKeeps ==
  ASSUME CampaignsInv, NEW m \in Seller, NEW t \in Tokens, NEW deadline \in Deadlines,
         CreateBackerCampaign(m, t, deadline)
  PROVE  CampaignsInv' /\ SelectionsStay
<1> DEFINE pledges == [b \in Backers |-> 0]
           selection == [b \in Backers |-> None]
           counts == [k \in Rewards |-> 0]
           new == [merchant |-> m, token |-> t, deadline |-> deadline, raised |-> 0,
                   tiers |-> << >>, pledge |-> pledges, selected |-> selection,
                   count |-> counts, fulfilled |-> {}, claimed |-> {}]
           n == Len(campaigns) + 1
<1>1. campaigns' = Append(campaigns, new)
  BY DEF CreateBackerCampaign
<1>2. /\ pledges \in [Backers -> Nat]
      /\ selection \in [Backers -> Rewards \cup {None}]
      /\ counts \in [Rewards -> Nat]
      /\ << >> \in Seq(RewardTier)
      /\ deadline \in Nat
  BY BackerRewardsAssumption
<1>3. \A k \in Rewards : {b \in Backers : selection[b] = k} = {} /\ counts[k] = 0
  BY PlatformAssumption DEF Rewards
<1>4. Seated(selection, counts)
  BY <1>2, <1>3, FS_EmptySet DEF Seated
<1> HIDE DEF pledges, selection, counts
<1>5. new \in BackerCampaign
  BY <1>2 DEF BackerCampaign
<1>6. new.selected = selection /\ new.count = counts
  OBVIOUS
<1> HIDE DEF new
<1>7. /\ campaigns' \in Seq(BackerCampaign)
      /\ DOMAIN campaigns' = DOMAIN campaigns \cup {n}
      /\ campaigns'[n] = new
      /\ \A c \in DOMAIN campaigns : campaigns'[c] = campaigns[c]
  BY <1>1, <1>5, Added DEF CampaignsInv, BackerRewardsTypeOK
<1> HIDE DEF n
<1>8. ASSUME NEW c \in DOMAIN campaigns \cup {n}
      PROVE  Seated(campaigns'[c].selected, campaigns'[c].count)
  <2>1. CASE c \in DOMAIN campaigns
    BY <1>7, <2>1, SeatedHolds
  <2>2. CASE c = n
    BY <1>4, <1>6, <1>7, <2>2
  <2> QED BY <2>1, <2>2
<1>9. CountsAgree'
  BY <1>7, <1>8 DEF CountsAgree, Seated, InTier
<1> QED BY <1>7, <1>9 DEF CampaignsInv, BackerRewardsTypeOK, SelectionsStay

\* Replacing the tiers touches no selection.
LEMMA SetTiersKeeps ==
  ASSUME CampaignsInv, NEW c \in DOMAIN campaigns, NEW list \in TierLists,
         SetBackerRewardTiers(c, list)
  PROVE  CampaignsInv' /\ SelectionsStay
<1> DEFINE campaign == campaigns[c]
           q == [campaign EXCEPT !.tiers = list]
<1>1. campaigns' = [campaigns EXCEPT ![c] = q]
  BY DEF SetBackerRewardTiers
<1>2. campaign \in BackerCampaign /\ list \in Seq(RewardTier)
  BY BackerRewardsAssumption DEF CampaignsInv, BackerRewardsTypeOK
<1> HIDE DEF campaign
<1>3. q \in BackerCampaign /\ q.selected = campaign.selected /\ q.count = campaign.count
  BY <1>2 DEF BackerCampaign
<1> HIDE DEF q
<1> QED BY <1>1, <1>3, CampaignTouched DEF campaign

\* Fulfilling a reward touches no selection.
LEMMA FulfillKeeps ==
  ASSUME CampaignsInv, NEW c \in DOMAIN campaigns, NEW b \in Backers, FulfillBackerReward(c, b)
  PROVE  CampaignsInv' /\ SelectionsStay
<1> DEFINE campaign == campaigns[c]
           done == campaign.fulfilled \cup {b}
           q == [campaign EXCEPT !.fulfilled = done]
<1>1. campaigns' = [campaigns EXCEPT ![c] = q]
  BY DEF FulfillBackerReward
<1>2. campaign \in BackerCampaign
  BY DEF CampaignsInv, BackerRewardsTypeOK
<1> HIDE DEF campaign
<1>3. done \in SUBSET Backers
  BY <1>2 DEF BackerCampaign
<1> HIDE DEF done
<1>4. q \in BackerCampaign /\ q.selected = campaign.selected /\ q.count = campaign.count
  BY <1>2, <1>3 DEF BackerCampaign
<1> HIDE DEF q
<1> QED BY <1>1, <1>4, CampaignTouched DEF campaign

\* Claiming a perk touches no selection.
LEMMA ClaimPerkKeeps ==
  ASSUME CampaignsInv, NEW c \in DOMAIN campaigns, NEW b \in Backers, NEW k \in Rewards,
         ClaimBackerPerk(c, b, k)
  PROVE  CampaignsInv' /\ SelectionsStay
<1> DEFINE campaign == campaigns[c]
           done == campaign.claimed \cup {<<b, k>>}
           q == [campaign EXCEPT !.claimed = done]
<1>1. campaigns' = [campaigns EXCEPT ![c] = q]
  BY DEF ClaimBackerPerk
<1>2. campaign \in BackerCampaign
  BY DEF CampaignsInv, BackerRewardsTypeOK
<1> HIDE DEF campaign
<1>3. done \in SUBSET (Backers \X Rewards)
  BY <1>2 DEF BackerCampaign
<1> HIDE DEF done
<1>4. q \in BackerCampaign /\ q.selected = campaign.selected /\ q.count = campaign.count
  BY <1>2, <1>3 DEF BackerCampaign
<1> HIDE DEF q
<1> QED BY <1>1, <1>4, CampaignTouched DEF campaign

\* A pledge touches no selection.
LEMMA PledgeKeeps ==
  ASSUME CampaignsInv, NEW c \in DOMAIN campaigns, NEW b \in Backers, NEW amt \in Pledges,
         PledgeToCampaign(c, b, amt)
  PROVE  CampaignsInv' /\ SelectionsStay
<1> DEFINE campaign == campaigns[c]
           topped == [campaign.pledge EXCEPT ![b] = Topped(@, amt)]
           raised == campaign.raised + amt
           q == [campaign EXCEPT !.pledge = topped, !.raised = raised]
<1>1. campaigns' = [campaigns EXCEPT ![c] = q] /\ amt > 0
  BY Zenon DEF PledgeToCampaign
<1>2. campaign \in BackerCampaign /\ amt \in Nat
  BY <1>1, BackerRewardsAssumption DEF CampaignsInv, BackerRewardsTypeOK
<1> HIDE DEF campaign
<1>3. topped \in [Backers -> Nat] /\ raised \in Nat
  BY <1>2 DEF BackerCampaign, Topped
<1> HIDE DEF topped, raised
<1>4. q \in BackerCampaign /\ q.selected = campaign.selected /\ q.count = campaign.count
  BY <1>2, <1>3 DEF BackerCampaign
<1> HIDE DEF q
<1> QED BY <1>1, <1>4, CampaignTouched DEF campaign

\* A selection finds room in a limited tier.
LEMMA SelectKeeps ==
  ASSUME CampaignsInv, NEW c \in DOMAIN campaigns, NEW b \in Backers, NEW k \in Rewards,
         SelectBackerRewardTier(c, b, k)
  PROVE  /\ CampaignsInv'
         /\ \A d \in DOMAIN campaigns, x \in Backers :
                \/ campaigns'[d].selected[x] = campaigns[d].selected[x]
                \/ /\ d = c /\ x = b
                   /\ campaigns'[d].selected[x] = k
                   /\ campaigns'[d].tiers[k].max_backers > 0 =>
                        Cardinality({y \in Backers : campaigns'[d].selected[y] = k}) <=
                            campaigns'[d].tiers[k].max_backers
<1> DEFINE campaign == campaigns[c]
           was == campaign.selected
           selected == [was EXCEPT ![b] = k]
           count == Reseated(campaign.count, was[b], k)
           most == campaign.tiers[k].max_backers
           q == [campaign EXCEPT !.count = count, !.selected = selected]
<1>1. /\ campaigns' = [campaigns EXCEPT ![c] = q]
      /\ k \in DOMAIN campaign.tiers
  BY Zenon DEF SelectBackerRewardTier
<1>2. most > 0 /\ was[b] # k => campaign.count[k] < most
  BY DEF SelectBackerRewardTier, HasRoom
<1>3. campaign \in BackerCampaign
  BY DEF CampaignsInv, BackerRewardsTypeOK
<1>4. Seated(was, campaign.count)
  BY SeatedHolds
<1> HIDE DEF campaign
<1>5. Seated(selected, count)
  BY <1>4, ReseatedSeats
<1>6. most \in Nat
  <2>1. campaign.tiers \in Seq(RewardTier)
    BY <1>3 DEF BackerCampaign
  <2>2. campaign.tiers[k] \in RewardTier
    BY <1>1, <2>1
  <2> QED BY <2>2 DEF RewardTier
<1> HIDE DEF was, selected, count, most
<1>7. /\ q \in BackerCampaign
      /\ q.selected = selected
      /\ q.count = count
      /\ q.tiers = campaign.tiers
  BY <1>3, <1>5 DEF BackerCampaign, Seated
<1> HIDE DEF q
<1>8. CampaignsInv'
  BY <1>1, <1>5, <1>7, CampaignRewritten
<1>9. /\ campaigns'[c] = q
      /\ \A d \in DOMAIN campaigns \ {c} : campaigns'[d] = campaigns[d]
  BY <1>1, <1>7, Written DEF CampaignsInv, BackerRewardsTypeOK
<1>10. /\ selected[b] = k
       /\ \A x \in Backers \ {b} : selected[x] = was[x]
  BY <1>4 DEF Seated, selected
<1>11. count[k] = Cardinality({y \in Backers : selected[y] = k})
  BY <1>5 DEF Seated
<1>12. was[b] # k => count[k] = campaign.count[k] + 1 /\ campaign.count[k] \in Nat
  BY <1>4 DEF Seated, Reseated, count
<1>13. most > 0 /\ was[b] # k => count[k] <= most
  BY <1>2, <1>6, <1>12
<1>14. q.tiers[k].max_backers = most
  BY <1>7 DEF most
<1>15. was = campaigns[c].selected
  BY DEF was, campaign
<1>16. ASSUME NEW d \in DOMAIN campaigns, NEW x \in Backers
       PROVE  \/ campaigns'[d].selected[x] = campaigns[d].selected[x]
              \/ /\ d = c /\ x = b
                 /\ campaigns'[d].selected[x] = k
                 /\ campaigns'[d].tiers[k].max_backers > 0 =>
                        Cardinality({y \in Backers : campaigns'[d].selected[y] = k}) <=
                            campaigns'[d].tiers[k].max_backers
  <2>1. CASE d # c
    BY <1>9, <2>1
  <2>2. CASE d = c /\ x # b
    BY <1>7, <1>9, <1>10, <1>15, <2>2
  <2>3. CASE d = c /\ x = b /\ was[b] = k
    BY <1>7, <1>9, <1>10, <1>15, <2>3
  <2>4. CASE d = c /\ x = b /\ was[b] # k
    <3>1. most > 0 => Cardinality({y \in Backers : q.selected[y] = k}) <= most
      BY <1>7, <1>11, <1>13, <2>4
    <3> QED BY <1>7, <1>9, <1>10, <1>14, <2>4, <3>1
  <2> QED BY <2>1, <2>2, <2>3, <2>4
<1> QED BY <1>8, <1>16

\* There are no campaigns at the start.
LEMMA CampaignsInvInit == ShadeInit => CampaignsInv
  BY DEF ShadeInit, BackerRewardsInit, CampaignsInv, BackerRewardsTypeOK, CountsAgree

Capped ==
    \A c \in DOMAIN campaigns, b \in Backers :
        LET was == campaigns[c]
            is  == campaigns'[c]
            k   == is.selected[b]
        IN  k # was.selected[b] /\ is.tiers[k].max_backers > 0 =>
                Cardinality(InTier(is, k)) <= is.tiers[k].max_backers

\* Every step of the contract keeps the counts.
LEMMA CampaignsInvStep ==
  ASSUME CampaignsInv, [ShadeNext]_shadeVars
  PROVE  CampaignsInv' /\ Capped
<1>1. CASE UNCHANGED campaigns
  BY <1>1 DEF CampaignsInv, BackerRewardsTypeOK, CountsAgree, InTier, Capped
<1>2. CASE BackerRewardsNext
  <2> DEFINE Kept == CampaignsInv' /\ SelectionsStay
  <2>1. Kept => CampaignsInv' /\ Capped
    BY DEF SelectionsStay, Capped
  <2>2. ASSUME NEW m \in Seller, NEW t \in Tokens, NEW deadline \in Deadlines,
               CreateBackerCampaign(m, t, deadline)
        PROVE  Kept
    BY <2>2, CreateCampaignKeeps
  <2>3. ASSUME NEW c \in DOMAIN campaigns, NEW list \in TierLists,
               SetBackerRewardTiers(c, list)
        PROVE  Kept
    BY <2>3, SetTiersKeeps
  <2>4. ASSUME NEW c \in DOMAIN campaigns, NEW b \in Backers, NEW amt \in Pledges,
               PledgeToCampaign(c, b, amt)
        PROVE  Kept
    BY <2>4, PledgeKeeps
  <2>5. ASSUME NEW c \in DOMAIN campaigns, NEW b \in Backers, NEW k \in Rewards,
               ClaimBackerPerk(c, b, k)
        PROVE  Kept
    BY <2>5, ClaimPerkKeeps
  <2>6. ASSUME NEW c \in DOMAIN campaigns, NEW b \in Backers, FulfillBackerReward(c, b)
        PROVE  Kept
    BY <2>6, FulfillKeeps
  <2>7. ASSUME NEW c \in DOMAIN campaigns, NEW b \in Backers, NEW k \in Rewards,
               SelectBackerRewardTier(c, b, k)
        PROVE  CampaignsInv' /\ Capped
    <3>1. /\ CampaignsInv'
          /\ \A d \in DOMAIN campaigns, x \in Backers :
                \/ campaigns'[d].selected[x] = campaigns[d].selected[x]
                \/ /\ d = c /\ x = b
                   /\ campaigns'[d].selected[x] = k
                   /\ campaigns'[d].tiers[k].max_backers > 0 =>
                        Cardinality({y \in Backers : campaigns'[d].selected[y] = k}) <=
                            campaigns'[d].tiers[k].max_backers
      BY <2>7, SelectKeeps
    <3>2. ASSUME NEW d \in DOMAIN campaigns, NEW x \in Backers,
                 campaigns'[d].selected[x] # campaigns[d].selected[x],
                 campaigns'[d].tiers[campaigns'[d].selected[x]].max_backers > 0
          PROVE  Cardinality(InTier(campaigns'[d], campaigns'[d].selected[x])) <=
                    campaigns'[d].tiers[campaigns'[d].selected[x]].max_backers
      BY <3>1, <3>2 DEF InTier
    <3>3. Capped
      BY <3>2 DEF Capped
    <3> QED BY <3>1, <3>3
  <2> HIDE DEF Kept
  <2> QED BY <1>2, <2>1, <2>2, <2>3, <2>4, <2>5, <2>6, <2>7 DEF BackerRewardsNext
<1> QED BY <1>1, <1>2, StepOwners

\* The stored count of each tier is the number of backers whose selection it is
\* (select_backer_reward_tier).
THEOREM CountsAgreeHolds == ShadeSpec => []CountsAgree
<1>1. CampaignsInv => CountsAgree
  BY DEF CampaignsInv
<1>2. CampaignsInv /\ [ShadeNext]_shadeVars => CampaignsInv'
  BY CampaignsInvStep
<1> QED BY <1>1, <1>2, CampaignsInvInit, PTL DEF ShadeSpec

\* Whoever enters a limited tier finds a place in it (select_backer_reward_tier).
THEOREM CapacityKeptHolds == ShadeSpec => CapacityKept
<1>1. CampaignsInv /\ [ShadeNext]_shadeVars => CampaignsInv' /\ Capped
  BY CampaignsInvStep
<1>2. Capped => [Capped]_<<platformVars, merchantVars, campaigns>>
  OBVIOUS
<1>3. ShadeSpec => [][Capped]_<<platformVars, merchantVars, campaigns>>
  BY <1>1, <1>2, CampaignsInvInit, PTL DEF ShadeSpec
<1> QED BY <1>3 DEF Capped, CapacityKept

-----------------------------------------------------------------------------
(* Fees. *)

\* Paying an amount in two instalments never costs more in fees than paying it at once,
\* whatever the fee, the volume and the instalments: the first instalment can only lower
\* the rate of the second, and each fee is rounded down (calculate_fee,
\* apply_volume_discount).
THEOREM SplitFeeNeverDearer ==
  \A bps \in Nat, volume \in Nat, x \in Nat, y \in Nat :
      FeeAt(bps, volume, x) + FeeAt(bps, volume + x, y) <= FeeAt(bps, volume, x + y)
<1> SUFFICES ASSUME NEW bps \in Nat, NEW volume \in Nat, NEW x \in Nat, NEW y \in Nat
             PROVE  FeeAt(bps, volume, x) + FeeAt(bps, volume + x, y) <=
                        FeeAt(bps, volume, x + y)
  OBVIOUS
<1> DEFINE later == volume + x
           rate == DiscountedBps(bps, volume)
           lower == DiscountedBps(bps, later)
<1>1. later \in Nat /\ volume <= later
  OBVIOUS
<1> HIDE DEF later
<1>2. rate \in Nat /\ lower \in Nat /\ lower <= rate
  BY <1>1, RateFalls
<1> HIDE DEF rate, lower
<1> DEFINE first == x * rate
           second == y * lower
           full == y * rate
           all == (x + y) * rate
<1>3. first \in Nat /\ second \in Nat /\ full \in Nat /\ second <= full /\ all = first + full
  BY <1>2, Products
<1> HIDE DEF first, second, full, all
<1>4. first \div 10000 + second \div 10000 <= all \div 10000
  BY <1>3
<1> QED BY <1>4 DEF FeeAt, first, second, all, rate, lower, later

-----------------------------------------------------------------------------
(* Tickets, charges, pledges and the money they move. *)

\* What a step that takes a payment leaves: every balance and count a number.
BooksTyped ==
    /\ bank' \in Ledger
    /\ flow' \in [Account -> Flow]
    /\ stats' \in StatsType
    /\ UNCHANGED <<configVars, merchants, account>>

\* The payment of amt by p to merchant m, charged of it as the fee.
SoldOne(p, m, t, amt, charged) ==
    LET till == merchants[m].account
    IN  /\ amt \in Nat /\ charged \in Nat /\ amt - charged \in Nat
        /\ till \in Routes
        /\ charged # 0 => fee[t] # 0
        /\ BankSplit(bank, bank', p, till, platform, t, amt, charged)
        /\ FlowSplit(flow, flow', till, platform, t, amt, charged)
        /\ stats' = RecordMerchantPayment(stats, m, t, amt, charged)

\* TakePayment makes the two transfers and records them.
LEMMA TakePaymentMove ==
  ASSUME TypesInv, NEW m \in Seller, merchants[m] \in RoutedMerchant, NEW t \in Tokens,
         NEW p \in Holder, NEW amt \in Nat, NEW charged,
         charged = CalculateFee(stats, m, t, amt), TakePayment(p, m, t, amt, charged),
         UNCHANGED <<configVars, merchants, account>>
  PROVE  SoldOne(p, m, t, amt, charged) /\ BooksTyped
<1> DEFINE till == merchants[m].account
           net == Moved(bank, p, till, t, amt - charged)
<1>1. /\ till # None
      /\ CanPay(bank, p, t, amt - charged)
      /\ CanPay(net, p, t, charged)
      /\ bank' = Moved(net, p, platform, t, charged)
      /\ flow' = Received(Received(flow, till, t, amt - charged), platform, t, charged)
      /\ stats' = RecordMerchantPayment(stats, m, t, amt, charged)
  BY DEF TakePayment
<1>2. bank \in Ledger /\ flow \in [Account -> Flow] /\ stats \in StatsType
  BY DEF TypesInv, MerchantsTypeOK, PlatformTypeOK, AccountTypeOK, Ledger, StatsType
<1>3. charged \in Nat /\ (charged # 0 => fee[t] # 0)
  BY <1>2, FeeFacts
<1>4. till \in Routes /\ till \in Holder
  BY <1>1, RouteFacts
<1> HIDE DEF till, net
<1>5. /\ bank' \in Ledger
      /\ flow' \in [Account -> Flow]
      /\ amt - charged \in Nat
      /\ BankSplit(bank, bank', p, till, platform, t, amt, charged)
      /\ FlowSplit(flow, flow', till, platform, t, amt, charged)
  <2>1. net = Moved(bank, p, till, t, amt - charged)
    BY DEF net
  <2>2. IsSplit(bank, flow, p, till, platform, t, amt, charged, net, bank', flow')
    BY <1>1, <1>2, <1>3, <1>4, <2>1, PlatformFacts DEF IsSplit
  <2> QED BY <2>2, SplitFacts
<1>6. stats' \in StatsType
  BY <1>1, <1>2, <1>3, RecordFacts
<1> QED BY <1>1, <1>3, <1>4, <1>5, <1>6 DEF SoldOne, BooksTyped, till

\* What a transfer does to the ledger.
LEMMA LedgerMoved ==
  ASSUME NEW b \in Ledger, NEW x \in Holder, NEW y, NEW t \in Tokens, NEW amt \in Int,
         CanPay(b, x, t, amt), NEW c, c = Moved(b, x, y, t, amt)
  PROVE  /\ c \in Ledger
         /\ amt \in Nat
         /\ \A h \in Holder, u \in Tokens : c[h][u] = b[h][u] + Change(h, u, x, y, t, amt)
<1> DEFINE H == Holder
<1>1. b \in LedgerOf(H) /\ x \in H
  BY DEF LedgerOf, Ledger
<1>2. Ledger = LedgerOf(H)
  BY DEF LedgerOf, Ledger
<1> HIDE DEF H
<1>3. /\ c \in LedgerOf(H)
      /\ amt \in Nat
      /\ \A h \in H, u \in Tokens : c[h][u] = b[h][u] + Change(h, u, x, y, t, amt)
  BY <1>1, TransferFacts
<1> QED BY <1>2, <1>3 DEF H

\* What a transfer and its record in the history do.
MovedOnce(b, c, f, g, x, y, t, amt) ==
    /\ amt \in Nat
    /\ \A h \in Holder, u \in Tokens : c[h][u] = b[h][u] + Change(h, u, x, y, t, amt)
    /\ \A a \in Account, u \in Tokens :
        /\ g[a].received[u] = f[a].received[u] + (IF a = y /\ u = t THEN amt ELSE 0)
        /\ g[a].refunded[u] = f[a].refunded[u]

\* Any transfer between holders does that.
LEMMA TransferMove ==
  ASSUME NEW b \in Ledger, NEW f \in [Account -> Flow], NEW x \in Holder, NEW y \in Holder,
         NEW t \in Tokens, NEW amt \in Int, CanPay(b, x, t, amt)
  PROVE  /\ Moved(b, x, y, t, amt) \in Ledger
         /\ Received(f, y, t, amt) \in [Account -> Flow]
         /\ MovedOnce(b, Moved(b, x, y, t, amt), f, Received(f, y, t, amt), x, y, t, amt)
<1>1. PICK c : c = Moved(b, x, y, t, amt)
  OBVIOUS
<1>2. /\ c \in Ledger
      /\ amt \in Nat
      /\ \A h \in Holder, u \in Tokens : c[h][u] = b[h][u] + Change(h, u, x, y, t, amt)
  BY <1>1, LedgerMoved
<1>3. /\ Received(f, y, t, amt) \in [Account -> Flow]
      /\ \A a \in Account, u \in Tokens :
            /\ Received(f, y, t, amt)[a].received[u] =
                  f[a].received[u] + (IF a = y /\ u = t THEN amt ELSE 0)
            /\ Received(f, y, t, amt)[a].refunded[u] = f[a].refunded[u]
  BY <1>2, ReceivedFacts
<1> QED BY <1>1, <1>2, <1>3 DEF MovedOnce

(* The loop of refunds. *)

Balances == [Holder -> [Tokens -> Int]]

\* A transfer between balances, covered or not.
LEMMA MovedBalances ==
  ASSUME NEW b \in Balances, NEW x \in Holder, NEW y \in Holder, NEW t \in Tokens, NEW amt \in Int
  PROVE  Moved(b, x, y, t, amt) \in Balances
<1> DEFINE d == [b EXCEPT ![x][t] = @ - amt]
<1>1. b[x] \in [Tokens -> Int] /\ b[x][t] - amt \in Int
  BY DEF Balances
<1>2. d \in Balances
  BY <1>1 DEF Balances
<1>3. d[y] \in [Tokens -> Int] /\ d[y][t] + amt \in Int
  BY <1>2 DEF Balances
<1>4. [d EXCEPT ![y][t] = @ + amt] \in Balances
  BY <1>2, <1>3 DEF Balances
<1> QED BY <1>4 DEF Moved

\* The outcomes of the refunds of event e, one by one.
IsRefunds(r, e) ==
    LET event == events[e]
        n     == Len(event.tickets)
    IN  /\ r[0] = [bank |-> bank, covered |-> TRUE]
        /\ \A k \in 1 .. n :
                r[k] = RefundNext(r[k - 1], event.merchant, event.token, event.tickets[k])
        /\ RefundAll(e) = r[n]

\* What the loop works on.
LEMMA RefundInputs ==
  ASSUME EventsInv, NEW e \in DOMAIN events
  PROVE  /\ events[e].merchant \in Seller /\ events[e].merchant \in Holder
         /\ events[e].token \in Tokens
         /\ events[e].tickets \in Seq(Nat)
         /\ IsInjective(events[e].tickets)
         /\ Range(events[e].tickets) = TicketsOf(e)
         /\ \A i \in DOMAIN tickets : /\ tickets[i].owner \in Buyers
                                      /\ tickets[i].owner \in Holder
                                      /\ tickets[i].purchase_price \in Nat
         /\ \A k \in 1 .. Len(events[e].tickets) : events[e].tickets[k] \in TicketsOf(e)
<1> DEFINE event == events[e]
           list == event.tickets
<1>1. event \in Event /\ tickets \in Seq(Ticket)
  BY DEF EventsInv, EventsTyped
<1>2. IsInjective(list) /\ Range(list) = TicketsOf(e)
  BY DEF EventsInv, NeverOversold
<1> HIDE DEF event
<1>3. event.merchant \in Seller /\ event.token \in Tokens /\ list \in Seq(Nat)
  BY <1>1 DEF Event
<1>4. \A i \in DOMAIN tickets : tickets[i] \in Ticket
  BY <1>1
<1>5. \A i \in DOMAIN tickets : /\ tickets[i].owner \in Buyers
                                /\ tickets[i].purchase_price \in Nat
  BY <1>4 DEF Ticket
<1>6. Buyers \subseteq Holder /\ Seller \subseteq Holder
  BY EventsAssumption, MerchantsAssumption
<1> HIDE DEF list
<1>7. \A k \in 1 .. Len(list) : list[k] \in Range(list)
  BY <1>3 DEF Range
<1> QED BY <1>2, <1>3, <1>5, <1>6, <1>7 DEF list, event

\* There are such outcomes.
LEMMA RefundsRun ==
  ASSUME bank \in Ledger, EventsInv, NEW e \in DOMAIN events
  PROVE  \E r : IsRefunds(r, e)
<1> DEFINE m == events[e].merchant
           t == events[e].token
           list == events[e].tickets
           n == Len(list)
           start == [bank |-> bank, covered |-> TRUE]
           body(g) == [k \in 0 .. n |->
                         IF k = 0 THEN start ELSE RefundNext(g[k - 1], m, t, list[k])]
           after == CHOOSE g : g = body(g)
           W == [bank : Balances, covered : BOOLEAN]
           step == [wk \in W \X (1 .. n) |-> RefundNext(wk[1], m, t, list[wk[2]])]
<1>1. RefundAll(e) = after[n]
  BY Zenon DEF RefundAll
<1>2. /\ n \in Nat /\ m \in Holder /\ t \in Tokens
      /\ \A k \in 1 .. n : /\ tickets[list[k]].owner \in Holder
                           /\ tickets[list[k]].purchase_price \in Int
  <2>1. /\ m \in Holder /\ t \in Tokens /\ list \in Seq(Nat)
        /\ \A k \in 1 .. n : list[k] \in DOMAIN tickets
    BY RefundInputs DEF TicketsOf
  <2> HIDE DEF m, t, list
  <2> QED BY <2>1, RefundInputs
<1>3. start \in W
  BY DEF Ledger, Balances
<1> HIDE DEF m, t, list, n, start
<1>4. ASSUME NEW w \in W, NEW k \in 1 .. n
      PROVE  RefundNext(w, m, t, list[k]) \in W
  <2> DEFINE owner == tickets[list[k]].owner
             due == tickets[list[k]].purchase_price
  <2>1. w.bank \in Balances /\ w.covered \in BOOLEAN /\ owner \in Holder /\ due \in Int
    BY <1>2
  <2> HIDE DEF owner, due
  <2>2. Moved(w.bank, m, owner, t, due) \in Balances
    BY <1>2, <2>1, MovedBalances
  <2>3. RefundNext(w, m, t, list[k]) = [bank    |-> Moved(w.bank, m, owner, t, due),
                                        covered |-> w.covered /\ CanPay(w.bank, m, t, due)]
    BY DEF RefundNext, owner, due
  <2> HIDE DEF W
  <2> DEFINE moved == Moved(w.bank, m, owner, t, due)
             also == w.covered /\ CanPay(w.bank, m, t, due)
  <2>4. moved \in Balances /\ also \in BOOLEAN /\ RefundNext(w, m, t, list[k]) = [bank |-> moved, covered |-> also]
    BY <2>2, <2>3, Zenon
  <2> HIDE DEF moved, also
  <2> QED BY <2>4 DEF W
<1>5. after = body(after)
  <2>1. IsLoop(W, start, n, step)
    BY <1>2, <1>3, <1>4 DEF IsLoop
  <2>2. \A w \in W, k \in 1 .. n : step[<<w, k>>] = RefundNext(w, m, t, list[k])
    OBVIOUS
  <2> HIDE DEF W, step
  <2>3. PICK g : IsRun(g, W, start, n, step)
    BY <2>1, RunExists
  <2> USE DEF IsRun
  <2>4. ASSUME NEW k \in 0 .. n
        PROVE  g[k] = IF k = 0 THEN start ELSE RefundNext(g[k - 1], m, t, list[k])
    <3>1. CASE k = 0
      BY <2>3, <3>1
    <3>2. CASE k # 0
      <4>1. k \in 1 .. n /\ k - 1 \in 0 .. n
        BY <1>2, <3>2
      <4> QED BY <2>2, <2>3, <3>2, <4>1
    <3> QED BY <3>1, <3>2
  <2>5. g = body(g)
    BY <2>3, <2>4
  <2> HIDE DEF body
  <2> QED BY <2>5
<1> HIDE DEF after
<1>6. PICK g : g = after /\ g = body(after)
  BY <1>5
<1>7. after[0] = start
  <2>1. 0 \in 0 .. n
    BY <1>2
  <2> QED BY <1>6, <2>1, Zenon
<1>8. ASSUME NEW k \in 1 .. n
      PROVE  after[k] = RefundNext(after[k - 1], m, t, list[k])
  <2>1. k \in 0 .. n /\ k # 0
    BY <1>2
  <2> QED BY <1>6, <2>1, Zenon
<1> HIDE DEF body
<1> QED BY <1>1, <1>7, <1>8, Zenon DEF IsRefunds, m, t, list, n, start

Prices0 == [i \in DOMAIN tickets |-> tickets[i].purchase_price]

\* The first k tickets of a list that are in the hands of p.
OfFirst(list, k, p) == {i \in {list[j] : j \in 1 .. k} : tickets[i].owner = p}

\* With each ticket of a list, what its holder is owed grows by the ticket's price.
LEMMA OwedNext ==
  ASSUME EventsInv, NEW e \in DOMAIN events, NEW list, list = events[e].tickets,
         NEW k \in 1 .. Len(list), NEW p
  PROVE  /\ SumFunctionOnSet(Prices0, OfFirst(list, k - 1, p)) \in Int
         /\ SumFunctionOnSet(Prices0, OfFirst(list, k, p)) =
                SumFunctionOnSet(Prices0, OfFirst(list, k - 1, p))
                + (IF tickets[list[k]].owner = p THEN tickets[list[k]].purchase_price ELSE 0)
<1> DEFINE x == list[k]
           done == OfFirst(list, k - 1, p)
           all == OfFirst(list, k, p)
<1>1. /\ list \in Seq(Nat) /\ DOMAIN list = 1 .. Len(list) /\ Len(list) \in Nat
      /\ IsInjective(list)
      /\ \A j \in 1 .. Len(list) : list[j] \in DOMAIN tickets
      /\ \A i \in DOMAIN tickets : tickets[i].purchase_price \in Nat
  BY RefundInputs DEF TicketsOf
<1>2. \A j \in 1 .. (k - 1) : j \in 1 .. Len(list) /\ j # k
  BY <1>1
<1>3. done \subseteq DOMAIN tickets /\ x \in DOMAIN tickets /\ x \notin done
  <2>1. done \subseteq {list[j] : j \in 1 .. (k - 1)}
    BY DEF OfFirst
  <2>2. \A j \in 1 .. (k - 1) : list[j] # x /\ list[j] \in DOMAIN tickets
    BY <1>1, <1>2 DEF IsInjective
  <2> HIDE DEF done
  <2> QED BY <1>1, <2>1, <2>2
<1>4. 1 .. k = (1 .. (k - 1)) \cup {k}
  BY <1>1
<1>5. all = IF tickets[x].owner = p THEN done \cup {x} ELSE done
  BY <1>4 DEF OfFirst
<1>6. IsFiniteSet(done)
  <2>1. tickets \in Seq(Ticket)
    BY DEF EventsInv, EventsTyped
  <2>2. DOMAIN tickets = 1 .. Len(tickets) /\ Len(tickets) \in Nat
    BY <2>1
  <2>3. IsFiniteSet(DOMAIN tickets)
    BY <2>2, FS_Interval
  <2> QED BY <1>3, <2>3, FS_Subset
<1>7. \A i \in DOMAIN tickets : Prices0[i] \in Int /\ Prices0[i] = tickets[i].purchase_price
  BY <1>1 DEF Prices0
<1> HIDE DEF x, done, all
<1>8. SumFunctionOnSet(Prices0, done) \in Int
  BY <1>3, <1>6, <1>7, SumInt
<1>9. CASE tickets[x].owner = p
  <2>1. SumFunctionOnSet(Prices0, done \cup {x}) = Prices0[x] + SumFunctionOnSet(Prices0, done)
    <3>1. \A i \in done : Prices0[i] \in Int
      BY <1>3, <1>7
    <3>2. Prices0[x] \in Int
      BY <1>3, <1>7
    <3> QED BY <1>3, <1>6, <3>1, <3>2, SumAdd
  <2>2. Prices0[x] = tickets[x].purchase_price /\ Prices0[x] \in Int
    BY <1>3, <1>7
  <2> QED BY <1>5, <1>8, <1>9, <2>1, <2>2 DEF done, all, x
<1>10. CASE tickets[x].owner # p
  BY <1>5, <1>8, <1>10 DEF done, all, x
<1> QED BY <1>9, <1>10

\* What a run of the refunds leaves in the hands of everyone.
RefundsOwed(e, c) ==
    LET event   == events[e]
        held(p) == {i \in TicketsOf(e) : tickets[i].owner = p}
    IN  /\ c \in Ledger
        /\ \A h \in Holder \ (Buyers \cup {event.merchant}), u \in Tokens : c[h][u] = bank[h][u]
        /\ \A p \in Buyers \ {event.merchant} :
                c[p][event.token] - bank[p][event.token] =
                    SumFunction([i \in held(p) |-> tickets[i].purchase_price])

\* A cancellation that is covered pays everyone what it is owed.
LEMMA RefundsPaid ==
  ASSUME bank \in Ledger, EventsInv, NEW e \in DOMAIN events, RefundAll(e).covered
  PROVE  RefundsOwed(e, RefundAll(e).bank)
<1> DEFINE m == events[e].merchant
           t == events[e].token
           list == events[e].tickets
           n == Len(list)
           owed(k, p) == SumFunctionOnSet(Prices0, OfFirst(list, k, p))
<1>1. PICK r : IsRefunds(r, e)
  BY RefundsRun
<1>2. /\ r[0] = [bank |-> bank, covered |-> TRUE]
      /\ \A k \in 1 .. n : r[k] = RefundNext(r[k - 1], m, t, list[k])
      /\ RefundAll(e) = r[n]
  BY <1>1 DEF IsRefunds
<1>3. /\ m \in Holder /\ t \in Tokens /\ list \in Seq(Nat) /\ n \in Nat
      /\ DOMAIN list = 1 .. n
      /\ Range(list) = TicketsOf(e)
      /\ \A k \in 1 .. n : list[k] \in DOMAIN tickets
      /\ \A i \in DOMAIN tickets : /\ tickets[i].owner \in Buyers
                                   /\ tickets[i].purchase_price \in Nat
  BY RefundInputs DEF TicketsOf
<1>4. \A k \in 1 .. n, p \in Buyers :
        /\ owed(k - 1, p) \in Int
        /\ owed(k, p) = owed(k - 1, p)
              + (IF tickets[list[k]].owner = p THEN tickets[list[k]].purchase_price ELSE 0)
  BY OwedNext
<1>5. Buyers \subseteq Holder
  BY EventsAssumption
<1> HIDE DEF m, t, list, n
<1> DEFINE Good(k) == r[k].covered =>
               /\ r[k].bank \in Ledger
               /\ \A h \in Holder \ (Buyers \cup {m}), u \in Tokens : r[k].bank[h][u] = bank[h][u]
               /\ \A p \in Buyers \ {m} : r[k].bank[p][t] = bank[p][t] + owed(k, p)
           D == {k \in 0 .. n : Good(k)}
<1>6. 0 \in D
  <2>1. r[0].bank = bank /\ \A h \in Holder, u \in Tokens : bank[h][u] \in Nat
    BY <1>2 DEF Ledger
  <2>2. \A p : OfFirst(list, 0, p) = {}
    BY DEF OfFirst
  <2>3. \A p : owed(0, p) = 0
    BY <2>2, SumEmpty
  <2> HIDE DEF owed
  <2>4. Good(0)
    BY <1>3, <1>5, <2>1, <2>3
  <2> QED BY <1>3, <2>4
<1>7. ASSUME NEW k \in 1 .. n, k - 1 \in D
      PROVE  k \in D
  <2> DEFINE w == r[k - 1]
             was == w.bank
             is == r[k].bank
             o == tickets[list[k]].owner
             d == tickets[list[k]].purchase_price
  <2>1. SUFFICES ASSUME r[k].covered PROVE Good(k)
    BY <1>3
  <2>2. is = Moved(was, m, o, t, d) /\ w.covered /\ CanPay(was, m, t, d)
    <3> DEFINE moved == Moved(was, m, o, t, d)
               also == w.covered /\ CanPay(was, m, t, d)
    <3>1. r[k] = [bank |-> moved, covered |-> also]
      BY <1>2, Zenon DEF RefundNext
    <3> HIDE DEF moved, also
    <3>2. is = moved /\ also
      BY <2>1, <3>1
    <3> QED BY <3>2, Zenon DEF moved, also
  <2>3. /\ was \in Ledger
        /\ \A h \in Holder \ (Buyers \cup {m}), u \in Tokens : was[h][u] = bank[h][u]
        /\ \A p \in Buyers \ {m} : was[p][t] = bank[p][t] + owed(k - 1, p)
    BY <1>7, <2>2
  <2>4. o \in Buyers /\ d \in Nat
    BY <1>3
  <2>5. \A p \in Buyers : /\ owed(k - 1, p) \in Int
                          /\ owed(k, p) = owed(k - 1, p) + (IF o = p THEN d ELSE 0)
    BY <1>4
  <2> HIDE DEF owed, was, is, o, d
  <2>6. /\ is \in Ledger
        /\ \A h \in Holder, u \in Tokens : is[h][u] = was[h][u] + Change(h, u, m, o, t, d)
    BY <1>3, <2>2, <2>3, <2>4, LedgerMoved
  <2>7. ASSUME NEW h \in Holder \ (Buyers \cup {m}), NEW u \in Tokens
        PROVE  is[h][u] = bank[h][u]
    <3>1. Change(h, u, m, o, t, d) = 0
      BY <2>4 DEF Change
    <3>2. was[h][u] = bank[h][u] /\ was[h][u] \in Nat /\ is[h][u] = was[h][u] + Change(h, u, m, o, t, d)
      BY <2>3, <2>6 DEF Ledger
    <3> QED BY <3>1, <3>2
  <2>8. ASSUME NEW p \in Buyers \ {m}
        PROVE  is[p][t] = bank[p][t] + owed(k, p)
    <3>1. Change(p, t, m, o, t, d) = IF o = p THEN d ELSE 0
      BY <2>4 DEF Change
    <3>2. p \in Holder
      BY <1>5
    <3>3. /\ was[p][t] = bank[p][t] + owed(k - 1, p)
          /\ is[p][t] = was[p][t] + Change(p, t, m, o, t, d)
      BY <1>3, <2>3, <2>6, <3>2
    <3>4. bank[p][t] \in Int /\ owed(k - 1, p) \in Int
      BY <1>3, <2>5, <3>2 DEF Ledger
    <3> QED BY <2>4, <2>5, <3>1, <3>3, <3>4
  <2> QED BY <2>6, <2>7, <2>8 DEF is
<1>8. n \in D
  <2>1. D \in SUBSET Nat /\ n \in 0 .. n
    BY <1>3
  <2> HIDE DEF D
  <2> QED BY <1>3, <1>6, <1>7, <2>1, Rounds
<1>9. ASSUME NEW p \in Buyers
      PROVE  owed(n, p) = SumFunction([i \in {j \in TicketsOf(e) : tickets[j].owner = p} |->
                                        tickets[i].purchase_price])
  <2> DEFINE held == {j \in TicketsOf(e) : tickets[j].owner = p}
             g == [i \in held |-> tickets[i].purchase_price]
  <2>1. OfFirst(list, n, p) = held
    BY <1>3 DEF OfFirst, Range
  <2>2. held \subseteq DOMAIN tickets
    BY DEF TicketsOf
  <2>3. g = [i \in held |-> Prices0[i]]
    BY <2>2 DEF Prices0
  <2>4. IsFiniteSet(held)
    <3>1. tickets \in Seq(Ticket)
      BY DEF EventsInv, EventsTyped
    <3>2. DOMAIN tickets = 1 .. Len(tickets) /\ Len(tickets) \in Nat
      BY <3>1
    <3>3. IsFiniteSet(DOMAIN tickets)
      BY <3>2, FS_Interval
    <3> QED BY <2>2, <3>3, FS_Subset
  <2> HIDE DEF g, held
  <2>5. SumFunction(g) = SumFunctionOnSet(Prices0, held)
    BY <2>3, <2>4, SumOverDomain
  <2> QED BY <2>1, <2>5 DEF g, held
<1> HIDE DEF owed
<1>10. /\ r[n].bank \in Ledger
       /\ \A h \in Holder \ (Buyers \cup {m}), u \in Tokens : r[n].bank[h][u] = bank[h][u]
       /\ \A p \in Buyers \ {m} : r[n].bank[p][t] = bank[p][t] + owed(n, p)
  BY <1>2, <1>8
<1>11. ASSUME NEW p \in Buyers \ {m}
       PROVE  r[n].bank[p][t] - bank[p][t] =
                SumFunction([i \in {j \in TicketsOf(e) : tickets[j].owner = p} |->
                                        tickets[i].purchase_price])
  <2>1. p \in Holder /\ bank[p][t] \in Nat /\ r[n].bank[p][t] \in Nat
    BY <1>3, <1>5, <1>10 DEF Ledger
  <2>2. r[n].bank[p][t] = bank[p][t] + owed(n, p)
    BY <1>10
  <2>3. owed(n, p) \in Int
    <3>1. n = 0 \/ n \in 1 .. n
      BY <1>3
    <3>2. CASE n = 0
      <4>1. OfFirst(list, 0, p) = {}
        BY DEF OfFirst
      <4> QED BY <3>2, <4>1, SumEmpty DEF owed
    <3>3. CASE n \in 1 .. n
      BY <1>3, <1>4, <3>3
    <3> QED BY <3>1, <3>2, <3>3
  <2>4. r[n].bank[p][t] - bank[p][t] = owed(n, p)
    BY <2>1, <2>2, <2>3
  <2> QED BY <1>9, <2>4
<1> QED BY <1>2, <1>10, <1>11 DEF RefundsOwed, m, t

-----------------------------------------------------------------------------
(* What the steps of each component do to the ledger, the receipts and the *)
(* analytics.                                                              *)

\* The types of the balances, the receipts and the analytics.
LEMMA BooksOf ==
  ASSUME TypesInv
  PROVE  bank \in Ledger /\ flow \in [Account -> Flow] /\ stats \in StatsType
BY DEF TypesInv, MerchantsTypeOK, PlatformTypeOK, AccountTypeOK, Ledger, StatsType

\* Nothing of the money moves.
BooksKept == UNCHANGED <<platformVars, merchantVars>>

\* A ticket sold, through the platform.
TicketSold(e, p, amt, charged) ==
    /\ SoldOne(p, events[e].merchant, events[e].token, amt, charged)
    /\ tickets' = Append(tickets, [event_id |-> e, owner |-> p, purchase_price |-> amt])
    /\ UNCHANGED offBooks

\* purchase_ticket sells one.
LEMMA PurchaseMove ==
  ASSUME TypesInv, EventsInv, Registered(events), NEW e \in DOMAIN events, NEW buyer \in Buyers,
         PurchaseTicket(e, buyer)
  PROVE  /\ BooksTyped
         /\ \E amt \in Nat, charged \in Nat : TicketSold(e, buyer, amt, charged)
<1> DEFINE event == events[e]
           m == event.merchant
           t == event.token
           amt == CurrentPrice(event)
           charged == CalculateFee(stats, m, t, amt)
<1>1. /\ TakePayment(buyer, m, t, amt, charged)
      /\ tickets' = Append(tickets, [event_id |-> e, owner |-> buyer, purchase_price |-> amt])
      /\ UNCHANGED <<configVars, merchants, account, offBooks>>
  BY DEF PurchaseTicket
<1>2. event \in Event /\ merchants[m] \in RoutedMerchant
  BY DEF EventsInv, EventsTyped, Registered
<1> HIDE DEF event
<1>3. m \in Seller /\ t \in Tokens
  BY <1>2 DEF Event
<1>4. amt \in Nat /\ buyer \in Holder
  BY <1>2, CurrentPriceType, EventsAssumption
<1>5. charged = CalculateFee(stats, m, t, amt)
  OBVIOUS
<1> HIDE DEF m, t, amt, charged
<1>6. SoldOne(buyer, m, t, amt, charged) /\ BooksTyped
  BY <1>1, <1>2, <1>3, <1>4, <1>5, TakePaymentMove
<1>7. TicketSold(e, buyer, amt, charged)
  BY <1>1, <1>6 DEF TicketSold, m, t, event
<1>8. charged \in Nat
  BY <1>6 DEF SoldOne
<1> QED BY <1>4, <1>6, <1>7, <1>8

\* Seats sold in bulk, beside the platform.
BulkSold(p, to, t, paid) ==
    /\ MovedOnce(bank, bank', flow, flow', p, to, t, paid)
    /\ offBooks' = OffBooks(to, t, paid)
    /\ UNCHANGED <<stats, tickets>>

\* purchase_tickets_bulk sells some.
LEMMA BulkMove ==
  ASSUME TypesInv, EventsInv, NEW e \in DOMAIN events, NEW buyer \in Buyers,
         NEW n \in Quantities, NEW t \in Tokens, NEW to \in Routes,
         PurchaseTicketsBulk(e, buyer, n, t, to)
  PROVE  /\ BooksTyped
         /\ \E paid \in Nat : BulkSold(buyer, to, t, paid)
<1> DEFINE event == events[e]
           paid == BulkPrice(event, n)
<1>1. /\ CanPay(bank, buyer, t, paid)
      /\ bank' = Moved(bank, buyer, to, t, paid)
      /\ flow' = Received(flow, to, t, paid)
      /\ offBooks' = OffBooks(to, t, paid)
      /\ UNCHANGED <<platformVars, merchants, account, tickets>>
  BY DEF PurchaseTicketsBulk
<1>2. paid \in Int
  <2> DEFINE one == CurrentPrice(event)
             gross == one * n
             off == GroupDiscount(n)
             product == gross * off
  <2>1. event \in Event
    BY DEF EventsInv, EventsTyped
  <2>2. paid = gross - product \div 10000
    BY DEF BulkPrice
  <2> HIDE DEF event
  <2>3. one \in Nat /\ n \in Nat
    BY <2>1, CurrentPriceType, EventsAssumption
  <2>4. off \in Nat
    BY DEF GroupDiscount
  <2> HIDE DEF one, off, paid
  <2>5. gross \in Nat
    BY <2>3
  <2> HIDE DEF gross
  <2>6. product \in Nat
    BY <2>4, <2>5
  <2> HIDE DEF product
  <2> QED BY <2>2, <2>5, <2>6
<1>3. buyer \in Holder /\ to \in Holder
  BY EventsAssumption, MerchantsAssumption
<1> HIDE DEF paid
<1>4. /\ bank' \in Ledger
      /\ flow' \in [Account -> Flow]
      /\ MovedOnce(bank, bank', flow, flow', buyer, to, t, paid)
  <2>1. PICK b, f : b = bank /\ f = flow
    OBVIOUS
  <2>2. /\ Moved(b, buyer, to, t, paid) \in Ledger
        /\ Received(f, to, t, paid) \in [Account -> Flow]
        /\ MovedOnce(b, Moved(b, buyer, to, t, paid), f, Received(f, to, t, paid), buyer, to, t, paid)
    BY <1>1, <1>2, <1>3, <2>1, BooksOf, TransferMove
  <2> QED BY <1>1, <2>1, <2>2
<1>5. paid \in Nat
  BY <1>2, <1>1 DEF CanPay
<1>6. stats' = stats /\ UNCHANGED <<configVars, merchants, account>>
  BY <1>1 DEF platformVars
<1> QED BY <1>1, <1>4, <1>5, <1>6, BooksOf DEF BulkSold, BooksTyped

\* A ticket resold: its price less the royalty to the holder, the royalty to the merchant.
TicketResold(i, p, net, royalty) ==
    LET event  == events[tickets[i].event_id]
        seller == tickets[i].owner
        till   == merchants[event.merchant].account
    IN  /\ \E mid \in Ledger :
            /\ MovedOnce(bank, mid, flow, flow, p, seller, event.token, net)
            /\ MovedOnce(mid, bank', flow, flow', p, till, event.token, royalty)
        /\ till \in Routes
        /\ offBooks' = OffBooks(till, event.token, royalty)
        /\ tickets' = [tickets EXCEPT ![i].owner = p]
        /\ UNCHANGED <<stats, events>>

\* resell_ticket resells one.
LEMMA ResaleMove ==
  ASSUME TypesInv, EventsInv, Registered(events), NEW i \in DOMAIN tickets, NEW buyer \in Buyers,
         NEW asked \in Resales, ResellTicket(i, buyer, asked)
  PROVE  /\ BooksTyped
         /\ \E net \in Nat, royalty \in Nat : TicketResold(i, buyer, net, royalty)
<1> DEFINE ticket == tickets[i]
           seller == ticket.owner
           event == events[ticket.event_id]
           m == event.merchant
           t == event.token
           till == merchants[m].account
           royalty == BpsOf(asked, event.royalty_bps)
           net == asked - royalty
           mid == Moved(bank, buyer, seller, t, net)
<1>1. /\ asked > 0
      /\ till # None
      /\ CanPay(bank, buyer, t, net)
      /\ CanPay(mid, buyer, t, royalty)
      /\ bank' = Moved(mid, buyer, till, t, royalty)
      /\ flow' = Received(flow, till, t, royalty)
      /\ offBooks' = OffBooks(till, t, royalty)
      /\ tickets' = [tickets EXCEPT ![i].owner = buyer]
      /\ UNCHANGED <<platformVars, merchants, account, events>>
  BY DEF ResellTicket
<1>2. /\ ticket \in Ticket /\ event \in Event /\ merchants[m] \in RoutedMerchant
  BY DEF EventsInv, EventsTyped, Registered
<1> HIDE DEF ticket, event
<1>3. /\ m \in Seller /\ t \in Tokens /\ seller \in Buyers /\ event.royalty_bps \in BasisPoints
  BY <1>2 DEF Ticket, Event
<1>4. asked \in Nat
  BY <1>1, EventsAssumption
<1>5. royalty \in Nat /\ royalty <= asked
  BY <1>3, <1>4, BpsOfType
<1>6. till \in Routes /\ till \in Holder
  BY <1>1, <1>2, <1>3, RouteFacts
<1>7. buyer \in Holder /\ seller \in Holder /\ seller \notin Account
  BY <1>3, EventsAssumption
<1> HIDE DEF royalty
<1>8. net \in Nat
  BY <1>4, <1>5
<1>9. mid = Moved(bank, buyer, seller, t, net)
  OBVIOUS
<1> HIDE DEF m, t, seller, till, net, mid
<1>10. PICK b, f : b = bank /\ f = flow
  OBVIOUS
<1>11. /\ mid \in Ledger
       /\ MovedOnce(bank, mid, flow, flow, buyer, seller, t, net)
  <2>1. Received(f, seller, t, net) = f
    BY <1>7 DEF Received
  <2>2. /\ Moved(b, buyer, seller, t, net) \in Ledger
        /\ MovedOnce(b, Moved(b, buyer, seller, t, net), f, Received(f, seller, t, net),
                     buyer, seller, t, net)
    BY <1>1, <1>3, <1>7, <1>8, <1>10, BooksOf, TransferMove
  <2> QED BY <1>9, <1>10, <2>1, <2>2
<1>12. /\ bank' \in Ledger
       /\ flow' \in [Account -> Flow]
       /\ MovedOnce(mid, bank', flow, flow', buyer, till, t, royalty)
  <2>1. /\ Moved(mid, buyer, till, t, royalty) \in Ledger
        /\ Received(f, till, t, royalty) \in [Account -> Flow]
        /\ MovedOnce(mid, Moved(mid, buyer, till, t, royalty), f, Received(f, till, t, royalty),
                     buyer, till, t, royalty)
    BY <1>1, <1>3, <1>5, <1>6, <1>7, <1>10, <1>11, BooksOf, TransferMove
  <2> QED BY <1>1, <1>10, <2>1
<1>13. stats' = stats /\ UNCHANGED <<configVars, merchants, account>>
  BY <1>1 DEF platformVars
<1>14. TicketResold(i, buyer, net, royalty)
  BY <1>1, <1>6, <1>11, <1>12, <1>13 DEF TicketResold, ticket, event, m, t, seller, till
<1> QED BY <1>5, <1>8, <1>12, <1>13, <1>14, BooksOf DEF BooksTyped

\* A cancellation pays what is owed, and nothing else.
Refunding(e) ==
    /\ CancelEventAndBatchRefund(e)
    /\ RefundsOwed(e, bank')
    /\ UNCHANGED <<flow, stats, offBooks, tickets>>

\* cancel_event_and_batch_refund does that.
LEMMA CancelMove ==
  ASSUME TypesInv, EventsInv, NEW e \in DOMAIN events, CancelEventAndBatchRefund(e)
  PROVE  BooksTyped /\ Refunding(e)
<1>1. /\ RefundAll(e).covered
      /\ bank' = RefundAll(e).bank
      /\ UNCHANGED <<platformVars, merchants, account, flow, tickets, offBooks>>
  BY DEF CancelEventAndBatchRefund
<1>2. RefundsOwed(e, RefundAll(e).bank)
  BY <1>1, RefundsPaid, BooksOf
<1>3. RefundsOwed(e, bank')
  BY <1>1, <1>2
<1>4. bank' \in Ledger
  BY <1>3 DEF RefundsOwed
<1> QED BY <1>1, <1>3, <1>4, BooksOf DEF Refunding, BooksTyped, platformVars

\* A subscription charged, through the platform.
Charged(s, charged) ==
    LET plan == plans[subs[s].plan_id]
    IN  /\ SoldOne(subs[s].customer, plan.merchant, plan.token, plan.amount, charged)
        /\ charges' = [charges EXCEPT ![s] = Append(charges[s], now)]
        /\ subs' = [subs EXCEPT ![s].last_charged = now]
        /\ UNCHANGED plans

\* charge_subscription charges one.
LEMMA ChargeMove ==
  ASSUME TypesInv, SubsInv, Registered(plans), NEW s \in DOMAIN subs, ChargeSubscription(s)
  PROVE  BooksTyped /\ \E charged \in Nat : Charged(s, charged)
<1> DEFINE sub == subs[s]
           plan == plans[sub.plan_id]
           c == sub.customer
           m == plan.merchant
           t == plan.token
           amt == plan.amount
           charged == CalculateFee(stats, m, t, amt)
<1>1. /\ TakePayment(c, m, t, amt, charged)
      /\ charges' = [charges EXCEPT ![s] = Append(charges[s], now)]
      /\ subs' = [subs EXCEPT ![s].last_charged = now]
      /\ UNCHANGED <<configVars, merchants, account, plans>>
  BY DEF ChargeSubscription
<1>2. sub \in SubscriptionRecord /\ plan \in SubscriptionPlan /\ merchants[m] \in RoutedMerchant
  BY DEF SubsInv, SubsTyped, Registered
<1> HIDE DEF sub, plan
<1>3. /\ m \in Seller /\ t \in Tokens /\ amt \in Nat /\ c \in Customers
  BY <1>2 DEF SubscriptionRecord, SubscriptionPlan
<1>4. c \in Holder
  BY <1>3, ShadeSubscriptionAssumption
<1>5. charged = CalculateFee(stats, m, t, amt)
  OBVIOUS
<1> HIDE DEF m, t, amt, charged, c
<1>6. SoldOne(c, m, t, amt, charged) /\ BooksTyped
  BY <1>1, <1>2, <1>3, <1>4, <1>5, TakePaymentMove
<1>7. Charged(s, charged)
  BY <1>1, <1>6 DEF Charged, m, t, amt, c, plan, sub
<1>8. charged \in Nat
  BY <1>6 DEF SoldOne
<1> QED BY <1>6, <1>7, <1>8

\* A pledge goes to the contract, and into the campaign's records.
Pledged(c, b, amt) ==
    LET was == campaigns[c]
    IN  /\ \A h \in Holder, u \in Tokens :
                bank'[h][u] = bank[h][u] + Change(h, u, b, Shade, was.token, amt)
        /\ campaigns' = [campaigns EXCEPT ![c] =
                [was EXCEPT !.pledge = [was.pledge EXCEPT ![b] = was.pledge[b] + amt],
                            !.raised = was.raised + amt]]
        /\ UNCHANGED <<flow, stats>>

\* pledge_to_campaign makes one.
LEMMA PledgeMove ==
  ASSUME TypesInv, CampaignsInv, NEW c \in DOMAIN campaigns, NEW b \in Backers,
         NEW amt \in Pledges, PledgeToCampaign(c, b, amt)
  PROVE  BooksTyped /\ amt \in Nat /\ Pledged(c, b, amt)
<1> DEFINE was == campaigns[c]
           t == was.token
           more == [was EXCEPT !.pledge = [was.pledge EXCEPT ![b] = was.pledge[b] + amt],
                               !.raised = was.raised + amt]
<1>1. /\ CanPay(bank, b, t, amt)
      /\ bank' = Moved(bank, b, Shade, t, amt)
      /\ campaigns' = [campaigns EXCEPT ![c] = more]
      /\ UNCHANGED <<platformVars, merchants, account, flow>>
  BY Zenon DEF PledgeToCampaign, Topped
<1>2. was \in BackerCampaign
  BY DEF CampaignsInv, BackerRewardsTypeOK
<1> HIDE DEF more
<1> DEFINE campaign == was
<1>3. t \in Tokens
  <2> HIDE DEF was
  <2> QED BY <1>2 DEF BackerCampaign
<1>4. amt \in Int /\ b \in Holder
  BY BackerRewardsAssumption
<1> HIDE DEF t
<1>5. PICK d : d = bank
  OBVIOUS
<1>6. /\ bank' \in Ledger
      /\ amt \in Nat
      /\ \A h \in Holder, u \in Tokens : bank'[h][u] = bank[h][u] + Change(h, u, b, Shade, t, amt)
  <2>1. PICK after : after = Moved(d, b, Shade, t, amt)
    OBVIOUS
  <2>2. /\ after \in Ledger
        /\ amt \in Nat
        /\ \A h \in Holder, u \in Tokens : after[h][u] = d[h][u] + Change(h, u, b, Shade, t, amt)
    <3>1. d \in Ledger /\ CanPay(d, b, t, amt)
      BY <1>1, <1>5, BooksOf
    <3>2. PICK x \in Holder, u \in Tokens, n \in Int : x = b /\ u = t /\ n = amt
      BY <1>3, <1>4
    <3>3. after = Moved(d, x, Shade, u, n) /\ CanPay(d, x, u, n)
      BY ONLY <2>1, <3>1, <3>2
    <3>4. /\ after \in Ledger
          /\ n \in Nat
          /\ \A h \in Holder, v \in Tokens :
                after[h][v] = d[h][v] + Change(h, v, x, Shade, u, n)
      BY ONLY <3>1, <3>3, LedgerMoved
    <3> QED BY ONLY <3>2, <3>4
  <2> QED BY <1>1, <1>5, <2>1, <2>2
<1>7. stats' = stats /\ UNCHANGED <<configVars, merchants, account>>
  BY <1>1 DEF platformVars
<1>8. BooksTyped
  BY <1>1, <1>6, <1>7, BooksOf DEF BooksTyped
<1>9. Pledged(c, b, amt)
  BY <1>1, <1>6, <1>7 DEF Pledged, more, t, was
<1> QED BY <1>6, <1>8, <1>9

\* The steps that move none.
LEMMA EventsQuiet ==
  ASSUME NEW e, NEW m, NEW s, NEW d,
         CreateEvent(m, s) \/ ConfigureDynamicPricing(e, d)
  PROVE  BooksKept /\ UNCHANGED <<tickets, offBooks>>
BY DEF CreateEvent, ConfigureDynamicPricing, BooksKept

\* Every step of the events is one of these.
LEMMA EventsMoves ==
  ASSUME TypesInv, EventsInv, Registered(events), EventsNext
  PROVE  \/ BooksKept /\ UNCHANGED <<tickets, offBooks>>
         \/ /\ BooksTyped
            /\ \/ \E e \in DOMAIN events, p \in Buyers, amt \in Nat, charged \in Nat :
                    TicketSold(e, p, amt, charged)
               \/ \E p \in Buyers, to \in Routes, t \in Tokens, paid \in Nat :
                    BulkSold(p, to, t, paid)
               \/ \E i \in DOMAIN tickets, p \in Buyers, net \in Nat, royalty \in Nat :
                    TicketResold(i, p, net, royalty)
               \/ \E e \in DOMAIN events : Refunding(e)
<1>1. CASE \E m \in Seller, s \in Shows : CreateEvent(m, s)
  BY <1>1, EventsQuiet
<1>2. CASE \E e \in DOMAIN events, d \in Pricings : ConfigureDynamicPricing(e, d)
  BY <1>2, EventsQuiet
<1>3. CASE \E e \in DOMAIN events : CancelEventAndBatchRefund(e)
  BY <1>3, CancelMove
<1>4. CASE \E e \in DOMAIN events, p \in Buyers : PurchaseTicket(e, p)
  BY <1>4, PurchaseMove
<1>5. CASE \E e \in DOMAIN events, p \in Buyers, n \in Quantities, t \in Tokens, to \in Routes :
              PurchaseTicketsBulk(e, p, n, t, to)
  BY <1>5, BulkMove
<1>6. CASE \E i \in DOMAIN tickets, p \in Buyers, asked \in Resales : ResellTicket(i, p, asked)
  BY <1>6, ResaleMove
<1> QED BY <1>1, <1>2, <1>3, <1>4, <1>5, <1>6 DEF EventsNext

\* Every step of the subscriptions is one of these.
LEMMA SubscriptionMoves ==
  ASSUME TypesInv, SubsInv, Registered(plans), SubscriptionNext
  PROVE  \/ BooksKept
         \/ BooksTyped /\ \E s \in DOMAIN subs, charged \in Nat : Charged(s, charged)
<1>1. CASE \E m \in Seller, t \in Tokens, amt \in PlanAmounts, interval \in PlanIntervals :
              CreateSubscriptionPlan(m, t, amt, interval)
  BY <1>1 DEF CreateSubscriptionPlan, BooksKept
<1>2. CASE \E p \in DOMAIN plans : DeactivatePlan(p) \/ \E c \in Customers : Subscribe(c, p)
  BY <1>2 DEF DeactivatePlan, Subscribe, BooksKept
<1>3. CASE \E s \in DOMAIN subs : CancelSubscription(s)
  BY <1>3 DEF CancelSubscription, BooksKept
<1>4. CASE \E s \in DOMAIN subs : ChargeSubscription(s)
  BY <1>4, ChargeMove
<1>5. CASE \E c \in Customers, t \in Tokens, amt \in Allowances : ApproveShade(c, t, amt)
  BY <1>5 DEF ApproveShade, BooksKept
<1> QED BY <1>1, <1>2, <1>3, <1>4, <1>5 DEF SubscriptionNext

\* Every step of the campaigns is one of these.
LEMMA CampaignMoves ==
  ASSUME TypesInv, CampaignsInv, BackerRewardsNext
  PROVE  \/ BooksKept
         \/ BooksTyped /\ \E c \in DOMAIN campaigns, b \in Backers, amt \in Nat : Pledged(c, b, amt)
<1>1. CASE \E m \in Seller, t \in Tokens, deadline \in Deadlines :
              CreateBackerCampaign(m, t, deadline)
  BY <1>1 DEF CreateBackerCampaign, BooksKept
<1>2. CASE \E c \in DOMAIN campaigns, list \in TierLists : SetBackerRewardTiers(c, list)
  BY <1>2 DEF SetBackerRewardTiers, BooksKept
<1>3. CASE \E c \in DOMAIN campaigns, b \in Backers, amt \in Pledges : PledgeToCampaign(c, b, amt)
  BY <1>3, PledgeMove
<1>4. CASE \E c \in DOMAIN campaigns, b \in Backers, k \in Rewards :
              SelectBackerRewardTier(c, b, k) \/ ClaimBackerPerk(c, b, k)
  BY <1>4 DEF SelectBackerRewardTier, ClaimBackerPerk, BooksKept
<1>5. CASE \E c \in DOMAIN campaigns, b \in Backers : FulfillBackerReward(c, b)
  BY <1>5 DEF FulfillBackerReward, BooksKept
<1> QED BY <1>1, <1>2, <1>3, <1>4, <1>5 DEF BackerRewardsNext

\* No step of the NFTs moves any.
LEMMA NftMoves ==
  ASSUME NftNext
  PROVE  BooksKept
<1>1. CASE \E m \in Seller, supply \in Supplies, bps \in Royalties :
              CreateNftCollection(m, supply, bps)
  BY <1>1 DEF CreateNftCollection, BooksKept
<1>2. CASE \E c \in DOMAIN collections :
              \/ DeactivateNftCollection(c)
              \/ \E p \in Collectors : MintNft(c, p)
              \/ \E p \in Collectors, q \in Collectors : BatchMintNfts(c, p, q)
  BY <1>2 DEF DeactivateNftCollection, MintNft, BatchMintNfts, Mint, BooksKept
<1>3. CASE \E i \in DOMAIN nfts :
              \/ BurnNft(i)
              \/ \E p \in Collectors : TransferNft(i, p) \/ ClaimNftReward(i, p)
  BY <1>3 DEF BurnNft, TransferNft, ClaimNftReward, BooksKept
<1> QED BY <1>1, <1>2, <1>3 DEF NftNext

-----------------------------------------------------------------------------
(* The whole contract's state. *)

\* The merchants are records or None.
LEMMA RegisteredMerchants ==
  ASSUME TypesInv, NEW m \in Seller, IsMerchant(m)
  PROVE  merchants[m] \in RoutedMerchant
BY DEF TypesInv, IsMerchant

\* What no step changes of the events there are.
EventTermsStay ==
    /\ DOMAIN events \subseteq DOMAIN events'
    /\ \A e \in DOMAIN events : /\ events'[e].merchant = events[e].merchant
                                /\ events'[e].token = events[e].token

\* A new event, of a registered merchant.
EventAdded(q) ==
    /\ events' = Append(events, q)
    /\ merchants[q.merchant] \in RoutedMerchant
    /\ ~q.cancelled /\ ~q.refunds_processed
    /\ tickets' = tickets

\* Event e becomes q, its terms the same; it is open and stays open, or it is cancelled.
EventWritten(e, q) ==
    LET was == events[e]
    IN  /\ events' = [events EXCEPT ![e] = q]
        /\ q.merchant = was.merchant /\ q.token = was.token
        /\ \A i \in DOMAIN tickets : tickets'[i] = tickets[i]
        /\ \/ /\ ~was.cancelled /\ ~q.cancelled
              /\ q.refunds_processed = was.refunds_processed
           \/ /\ CancelEventAndBatchRefund(e)
              /\ ~was.refunds_processed
              /\ q.cancelled /\ q.refunds_processed

\* Every step of the events adds one, writes one, or resells a ticket of an open one.
LEMMA EventsWrites ==
  ASSUME TypesInv, EventsInv, EventsNext
  PROVE  \/ \E q : EventAdded(q)
         \/ \E e \in DOMAIN events : \E q : EventWritten(e, q)
         \/ /\ events' = events
            /\ \A i \in DOMAIN tickets :
                    ~events[tickets[i].event_id].cancelled \/ tickets'[i] = tickets[i]
<1>0. \A e \in DOMAIN events : events[e] \in Event
  BY DEF EventsInv, EventsTyped
<1>1. ASSUME NEW m \in Seller, NEW s \in Shows, CreateEvent(m, s)
      PROVE  \E q : EventAdded(q)
  <2> DEFINE new == [merchant |-> m, price |-> s.price, token |-> s.token,
                     capacity |-> s.capacity, sold |-> 0, event_date |-> s.event_date,
                     royalty_bps |-> s.royalty_bps, early_bird_end |-> None,
                     discount_bps |-> 0, markup_bps |-> 0, cancelled |-> FALSE,
                     refunds_processed |-> FALSE, tickets |-> << >>]
  <2>1. events' = Append(events, new) /\ IsMerchant(m) /\ tickets' = tickets
    BY <1>1 DEF CreateEvent
  <2>2. new.merchant = m /\ ~new.cancelled /\ ~new.refunds_processed
    OBVIOUS
  <2> HIDE DEF new
  <2>3. QED BY <2>1, <2>2, RegisteredMerchants DEF EventAdded
<1>2. ASSUME NEW e \in DOMAIN events, NEW d \in Pricings, ConfigureDynamicPricing(e, d)
      PROVE  \E q : EventWritten(e, q)
  <2> DEFINE q == [events[e] EXCEPT !.early_bird_end = d.early_bird_end,
                                    !.discount_bps = d.discount_bps,
                                    !.markup_bps = d.markup_bps]
  <2>1. /\ events' = [events EXCEPT ![e] = q]
        /\ ~events[e].cancelled /\ tickets' = tickets
    BY <1>2 DEF ConfigureDynamicPricing
  <2>2. /\ q.merchant = events[e].merchant /\ q.token = events[e].token
        /\ q.cancelled = events[e].cancelled
        /\ q.refunds_processed = events[e].refunds_processed
    BY <1>0 DEF Event
  <2> HIDE DEF q
  <2>3. QED BY <2>1, <2>2 DEF EventWritten
<1>3. ASSUME NEW e \in DOMAIN events, CancelEventAndBatchRefund(e)
      PROVE  \E q : EventWritten(e, q)
  <2> DEFINE q == [events[e] EXCEPT !.cancelled = TRUE, !.refunds_processed = TRUE]
  <2>0. ~events[e].refunds_processed /\ tickets' = tickets
    BY <1>3, Zenon DEF CancelEventAndBatchRefund, Refundable
  <2>1. events' = [events EXCEPT ![e] = q]
    BY <1>3 DEF CancelEventAndBatchRefund
  <2>2. /\ q.merchant = events[e].merchant /\ q.token = events[e].token
        /\ q.cancelled /\ q.refunds_processed
    BY <1>0 DEF Event
  <2> HIDE DEF q
  <2>3. QED BY <1>3, <2>0, <2>1, <2>2 DEF EventWritten
<1>4. ASSUME NEW e \in DOMAIN events, NEW p \in Buyers, PurchaseTicket(e, p)
      PROVE  \E q : EventWritten(e, q)
  <2> DEFINE list == Append(events[e].tickets, Len(tickets) + 1)
             more == events[e].sold + 1
             q == [events[e] EXCEPT !.tickets = list, !.sold = more]
             new == [event_id |-> e, owner |-> p, purchase_price |-> CurrentPrice(events[e])]
  <2>1. /\ events' = [events EXCEPT ![e] = q]
        /\ ~events[e].cancelled
        /\ tickets' = Append(tickets, new)
    BY <1>4, Zenon DEF PurchaseTicket
  <2> HIDE DEF list, more
  <2>2. /\ q.merchant = events[e].merchant /\ q.token = events[e].token
        /\ q.cancelled = events[e].cancelled
        /\ q.refunds_processed = events[e].refunds_processed
    BY <1>0 DEF Event
  <2> HIDE DEF q, new
  <2>3. \A i \in DOMAIN tickets : tickets'[i] = tickets[i]
    BY <2>1 DEF EventsInv, EventsTyped
  <2>4. QED BY <2>1, <2>2, <2>3 DEF EventWritten
<1>5. ASSUME NEW e \in DOMAIN events, NEW p \in Buyers, NEW n \in Quantities, NEW t \in Tokens,
             NEW to \in Routes, PurchaseTicketsBulk(e, p, n, t, to)
      PROVE  \E q : EventWritten(e, q)
  <2> DEFINE more == events[e].sold + n
             q == [events[e] EXCEPT !.sold = more]
  <2>1. /\ events' = [events EXCEPT ![e] = q]
        /\ ~events[e].cancelled /\ tickets' = tickets
    BY <1>5 DEF PurchaseTicketsBulk
  <2> HIDE DEF more
  <2>2. /\ q.merchant = events[e].merchant /\ q.token = events[e].token
        /\ q.cancelled = events[e].cancelled
        /\ q.refunds_processed = events[e].refunds_processed
    BY <1>0 DEF Event
  <2> HIDE DEF q
  <2>3. QED BY <2>1, <2>2 DEF EventWritten
<1>6. ASSUME NEW i \in DOMAIN tickets, NEW p \in Buyers, NEW asked \in Resales,
             ResellTicket(i, p, asked)
      PROVE  /\ events' = events
             /\ \A j \in DOMAIN tickets :
                    ~events[tickets[j].event_id].cancelled \/ tickets'[j] = tickets[j]
  <2>1. /\ events' = events /\ ~events[tickets[i].event_id].cancelled
        /\ tickets' = [tickets EXCEPT ![i].owner = p]
    BY <1>6 DEF ResellTicket
  <2>2. QED BY <2>1
<1>7. QED BY <1>1, <1>2, <1>3, <1>4, <1>5, <1>6 DEF EventsNext

\* The events: their terms stay, and the merchant of a new one is registered.
LEMMA EventTerms ==
  ASSUME TypesInv, EventsInv, EventsNext
  PROVE  /\ EventTermsStay
         /\ \A e \in DOMAIN events' \ DOMAIN events :
                merchants[events'[e].merchant] \in RoutedMerchant
<1>1. ASSUME NEW q, EventAdded(q)
      PROVE  /\ EventTermsStay
             /\ \A e \in DOMAIN events' \ DOMAIN events :
                    merchants[events'[e].merchant] \in RoutedMerchant
  <2>1. events' = Append(events, q) /\ merchants[q.merchant] \in RoutedMerchant
    BY <1>1 DEF EventAdded
  <2>2. events \in Seq(Event)
    BY DEF EventsInv, EventsTyped
  <2>3. /\ DOMAIN events \subseteq DOMAIN events'
        /\ \A e \in DOMAIN events : events'[e] = events[e]
        /\ \A e \in DOMAIN events' \ DOMAIN events : events'[e] = q
    BY <2>1, <2>2
  <2>4. QED BY <2>1, <2>3 DEF EventTermsStay
<1>2. ASSUME NEW e \in DOMAIN events, NEW q, EventWritten(e, q)
      PROVE  EventTermsStay /\ DOMAIN events' = DOMAIN events
  BY <1>2 DEF EventWritten, EventsInv, EventsTyped, EventTermsStay
<1>3. CASE events' = events
  BY <1>3 DEF EventTermsStay
<1>4. QED BY <1>1, <1>2, <1>3, EventsWrites

\* A cancelled event is one whose refunds were paid, and only those.
CancelledRefunded ==
    \A e \in DOMAIN events : events[e].cancelled <=> events[e].refunds_processed

\* What a step of the events does to the two flags, and to a cancelled event.
LEMMA EventFlags ==
  ASSUME TypesInv, EventsInv, CancelledRefunded, EventsNext
  PROVE  /\ CancelledRefunded'
         /\ \A e \in DOMAIN events :
                /\ \/ events'[e].refunds_processed <=> events[e].refunds_processed
                   \/ CancelEventAndBatchRefund(e)
                /\ events[e].cancelled => events'[e] = events[e]
                /\ CancelEventAndBatchRefund(e) => events'[e].cancelled
         /\ \A i \in DOMAIN tickets :
                ~events[tickets[i].event_id].cancelled \/ tickets'[i] = tickets[i]
<1>0. events \in Seq(Event)
  BY DEF EventsInv, EventsTyped
<1>1. ASSUME NEW q, EventAdded(q)
      PROVE  /\ CancelledRefunded'
             /\ \A e \in DOMAIN events : events'[e] = events[e]
             /\ tickets' = tickets
  <2>1. /\ events' = Append(events, q)
        /\ ~q.cancelled /\ ~q.refunds_processed /\ tickets' = tickets
    BY <1>1 DEF EventAdded
  <2>2. /\ \A e \in DOMAIN events : events'[e] = events[e]
        /\ \A e \in DOMAIN events' \ DOMAIN events : events'[e] = q
    BY <1>0, <2>1
  <2>3. QED BY <2>1, <2>2 DEF CancelledRefunded
<1>2. ASSUME NEW e \in DOMAIN events, NEW q, EventWritten(e, q)
      PROVE  /\ CancelledRefunded'
             /\ \A x \in DOMAIN events :
                    \/ events'[x] = events[x]
                    \/ /\ x = e /\ ~events[e].cancelled
                       /\ \/ events'[x].refunds_processed <=> events[x].refunds_processed
                          \/ CancelEventAndBatchRefund(e)
             /\ tickets' = tickets \/ \A i \in DOMAIN tickets : tickets'[i] = tickets[i]
  <2>1. /\ events' = [events EXCEPT ![e] = q]
        /\ \A i \in DOMAIN tickets : tickets'[i] = tickets[i]
        /\ \/ /\ ~events[e].cancelled /\ ~q.cancelled
              /\ q.refunds_processed = events[e].refunds_processed
           \/ /\ CancelEventAndBatchRefund(e)
              /\ ~events[e].refunds_processed
              /\ q.cancelled /\ q.refunds_processed
    BY <1>2 DEF EventWritten
  <2>2. events[e].cancelled <=> events[e].refunds_processed
    BY DEF CancelledRefunded
  <2>3. /\ DOMAIN events' = DOMAIN events /\ events'[e] = q
        /\ \A x \in DOMAIN events \ {e} : events'[x] = events[x]
    BY <1>0, <2>1
  <2>4. q.cancelled <=> q.refunds_processed
    BY <2>1, <2>2
  <2>5. CancelledRefunded'
    BY <2>3, <2>4 DEF CancelledRefunded
  <2>6. QED BY <2>1, <2>2, <2>3, <2>5
<1>3. ASSUME NEW e \in DOMAIN events, CancelEventAndBatchRefund(e)
      PROVE  events'[e].cancelled
  <2> DEFINE q == [events[e] EXCEPT !.cancelled = TRUE, !.refunds_processed = TRUE]
  <2>1. events' = [events EXCEPT ![e] = q]
    BY <1>3 DEF CancelEventAndBatchRefund
  <2>2. q.cancelled
    BY <1>0 DEF Event
  <2> HIDE DEF q
  <2>3. QED BY <2>1, <2>2, <1>0
<1>4. CASE /\ events' = events
           /\ \A i \in DOMAIN tickets :
                  ~events[tickets[i].event_id].cancelled \/ tickets'[i] = tickets[i]
  <2>1. CancelledRefunded'
    BY <1>4 DEF CancelledRefunded
  <2>2. QED BY <1>3, <1>4, <2>1
<1>5. CASE \E q : EventAdded(q)
  BY <1>1, <1>3, <1>5
<1>6. CASE \E e \in DOMAIN events : \E q : EventWritten(e, q)
  BY <1>2, <1>3, <1>6
<1>7. QED BY <1>4, <1>5, <1>6, EventsWrites

\* What no step changes of the plans there are.
PlanTermsStay ==
    /\ DOMAIN plans \subseteq DOMAIN plans'
    /\ \A k \in DOMAIN plans : /\ plans'[k].merchant = plans[k].merchant
                               /\ plans'[k].token = plans[k].token
                               /\ plans'[k].amount = plans[k].amount

\* The plans: their terms stay, and the merchant of a new one is registered.
LEMMA PlanTerms ==
  ASSUME TypesInv, SubsInv, SubscriptionNext
  PROVE  /\ PlanTermsStay
         /\ \A k \in DOMAIN plans' \ DOMAIN plans :
                merchants[plans'[k].merchant] \in RoutedMerchant
<1>0. \A k \in DOMAIN plans : plans[k] \in SubscriptionPlan
  BY DEF SubsInv, SubsTyped
<1>1. ASSUME NEW m \in Seller, NEW t \in Tokens, NEW amt \in PlanAmounts,
             NEW interval \in PlanIntervals, CreateSubscriptionPlan(m, t, amt, interval)
      PROVE  /\ PlanTermsStay
             /\ \A k \in DOMAIN plans' \ DOMAIN plans :
                    merchants[plans'[k].merchant] \in RoutedMerchant
  <2> DEFINE new == [merchant |-> m, token |-> t, amount |-> amt, interval |-> interval,
                     active |-> TRUE]
             n == Len(plans) + 1
  <2>1. plans' = Append(plans, new) /\ IsMerchant(m)
    BY <1>1 DEF CreateSubscriptionPlan
  <2>2. new.merchant = m
    OBVIOUS
  <2> HIDE DEF new
  <2>3. plans \in Seq(SubscriptionPlan)
    BY DEF SubsInv, SubsTyped
  <2>4. /\ DOMAIN plans' = DOMAIN plans \cup {n}
        /\ plans'[n] = new
        /\ \A k \in DOMAIN plans : plans'[k] = plans[k]
    BY <2>1, <2>3
  <2> QED BY <2>1, <2>2, <2>4, RegisteredMerchants DEF PlanTermsStay
<1>2. ASSUME NEW k \in DOMAIN plans, DeactivatePlan(k)
      PROVE  PlanTermsStay /\ DOMAIN plans' = DOMAIN plans
  <2> DEFINE q == [plans[k] EXCEPT !.active = FALSE]
  <2>1. plans' = [plans EXCEPT ![k] = q]
    BY <1>2 DEF DeactivatePlan
  <2>2. q.merchant = plans[k].merchant /\ q.token = plans[k].token /\ q.amount = plans[k].amount
    BY <1>0 DEF SubscriptionPlan
  <2> HIDE DEF q
  <2> QED BY <2>1, <2>2 DEF SubsInv, SubsTyped, PlanTermsStay
<1>3. ASSUME UNCHANGED plans
      PROVE  PlanTermsStay /\ DOMAIN plans' = DOMAIN plans
  BY <1>3 DEF PlanTermsStay
<1>4. ASSUME NEW c \in Customers, NEW k \in DOMAIN plans, Subscribe(c, k)
      PROVE  UNCHANGED plans
  BY <1>4 DEF Subscribe
<1>5. ASSUME NEW s \in DOMAIN subs, CancelSubscription(s) \/ ChargeSubscription(s)
      PROVE  UNCHANGED plans
  BY <1>5 DEF CancelSubscription, ChargeSubscription
<1>6. ASSUME NEW c \in Customers, NEW t \in Tokens, NEW amt \in Allowances, ApproveShade(c, t, amt)
      PROVE  UNCHANGED plans
  BY <1>6 DEF ApproveShade
<1>7. PlanTermsStay /\ DOMAIN plans' = DOMAIN plans =>
         /\ PlanTermsStay
         /\ \A k \in DOMAIN plans' \ DOMAIN plans :
                    merchants[plans'[k].merchant] \in RoutedMerchant
  OBVIOUS
<1> QED BY <1>1, <1>2, <1>3, <1>4, <1>5, <1>6, <1>7 DEF SubscriptionNext

\* What the whole contract keeps: the types, the registered merchants of everything that
\* names one, and the invariants of the components.
ShadeInv ==
    /\ InvoicesInv
    /\ SignedInv
    /\ HoldersInv
    /\ Registered(events)
    /\ offBooks \in [Tokens -> Nat]
    /\ SubsInv
    /\ Registered(plans)
    /\ allowance \in [Customers -> [Tokens -> Nat]]
    /\ CampaignsInv
    /\ OwnersInv

\* A step that moves no money or only money keeps the types.
LEMMA BooksTypes ==
  ASSUME TypesInv, BooksKept \/ BooksTyped
  PROVE  TypesInv' /\ RegisteredStay
<1>1. CASE BooksKept
  BY <1>1, TypesUnmoved DEF BooksKept
<1>2. CASE BooksTyped
  <2>1. /\ bank' \in Ledger /\ flow' \in [Account -> Flow] /\ stats' \in StatsType
        /\ UNCHANGED <<configVars, merchants, account>>
    BY <1>2 DEF BooksTyped
  <2>2. QED BY <2>1, TypesPaid
<1>3. QED BY <1>1, <1>2

\* The steps of the events keep the types, and the account of the sales off the books.
LEMMA EventsTypes ==
  ASSUME TypesInv, EventsInv, Registered(events), offBooks \in [Tokens -> Nat], EventsNext
  PROVE  TypesInv' /\ RegisteredStay /\ offBooks' \in [Tokens -> Nat]
<1>1. TypesInv' /\ RegisteredStay
  BY BooksTypes, EventsMoves
<1>3. ASSUME NEW to, NEW t \in Tokens, NEW amt \in Nat, offBooks' = OffBooks(to, t, amt)
      PROVE  offBooks' \in [Tokens -> Nat]
  BY <1>3 DEF OffBooks
<1>4. offBooks' \in [Tokens -> Nat]
  <2>1. CASE UNCHANGED offBooks
    BY <2>1
  <2>2. ASSUME NEW e, NEW p, NEW amt, NEW charged, TicketSold(e, p, amt, charged)
        PROVE  UNCHANGED offBooks
    BY <2>2 DEF TicketSold
  <2>3. ASSUME NEW p, NEW to, NEW t \in Tokens, NEW paid \in Nat, BulkSold(p, to, t, paid)
        PROVE  offBooks' \in [Tokens -> Nat]
    BY <2>3, <1>3 DEF BulkSold
  <2>4. ASSUME NEW i \in DOMAIN tickets, NEW p, NEW net, NEW royalty \in Nat,
               TicketResold(i, p, net, royalty)
        PROVE  offBooks' \in [Tokens -> Nat]
    <3> DEFINE e == tickets[i].event_id
    <3>1. e \in DOMAIN events /\ events \in Seq(Event)
      BY DEF EventsInv, EventsTyped
    <3>2. events[e] \in Event
      BY <3>1
    <3>3. events[e].token \in Tokens
      BY <3>2 DEF Event
    <3>4. QED BY <2>4, <3>3, <1>3 DEF TicketResold
  <2>5. ASSUME NEW e, Refunding(e) PROVE UNCHANGED offBooks
    BY <2>5 DEF Refunding
  <2>6. QED BY <2>1, <2>2, <2>3, <2>4, <2>5, EventsMoves
<1>5. QED BY <1>1, <1>4

\* The steps of the subscriptions keep the types, and the allowances.
LEMMA SubscriptionTypes ==
  ASSUME TypesInv, SubsInv, Registered(plans), allowance \in [Customers -> [Tokens -> Nat]],
         SubscriptionNext
  PROVE  TypesInv' /\ RegisteredStay /\ allowance' \in [Customers -> [Tokens -> Nat]]
<1>1. TypesInv' /\ RegisteredStay
  BY BooksTypes, SubscriptionMoves
<1>2. ASSUME NEW s \in DOMAIN subs, ChargeSubscription(s)
      PROVE  allowance' \in [Customers -> [Tokens -> Nat]]
  <2> DEFINE c   == subs[s].customer
             t   == plans[subs[s].plan_id].token
             amt == plans[subs[s].plan_id].amount
  <2>1. /\ subs \in Seq(SubscriptionRecord) /\ plans \in Seq(SubscriptionPlan)
        /\ subs[s].plan_id \in DOMAIN plans
    BY DEF SubsInv, SubsTyped
  <2>0. subs[s] \in SubscriptionRecord /\ plans[subs[s].plan_id] \in SubscriptionPlan
    BY <2>1
  <2>2. c \in Customers /\ t \in Tokens /\ amt \in Nat
    BY <2>0 DEF SubscriptionRecord, SubscriptionPlan
  <2>3. /\ amt <= allowance[c][t]
        /\ allowance' = [allowance EXCEPT ![c][t] = @ - amt]
    BY <1>2 DEF ChargeSubscription
  <2> HIDE DEF c, t, amt
  <2>4. allowance[c][t] - amt \in Nat
    BY <2>2, <2>3
  <2>5. QED BY <2>2, <2>3, <2>4
<1>3. ASSUME NEW c \in Customers, NEW t \in Tokens, NEW amt \in Allowances, ApproveShade(c, t, amt)
      PROVE  allowance' \in [Customers -> [Tokens -> Nat]]
  BY <1>3, ShadeSubscriptionAssumption DEF ApproveShade
<1>4. ASSUME NEW m, NEW t, NEW amt, NEW interval, CreateSubscriptionPlan(m, t, amt, interval)
      PROVE  UNCHANGED allowance
  BY <1>4 DEF CreateSubscriptionPlan
<1>5. ASSUME NEW k, NEW c, DeactivatePlan(k) \/ Subscribe(c, k) \/ CancelSubscription(k)
      PROVE  UNCHANGED allowance
  BY <1>5 DEF DeactivatePlan, Subscribe, CancelSubscription
<1>6. QED BY <1>1, <1>2, <1>3, <1>4, <1>5 DEF SubscriptionNext

\* The steps of the campaigns and of the NFTs keep the types.
LEMMA CampaignTypes ==
  ASSUME TypesInv, CampaignsInv, BackerRewardsNext \/ NftNext
  PROVE  TypesInv' /\ RegisteredStay
BY BooksTypes, CampaignMoves, NftMoves

\* The types of the whole contract after any of its steps.
LEMMA ShadeTypesStep ==
  ASSUME ShadeInv, [ShadeNext]_shadeVars
  PROVE  /\ TypesInv' /\ RegisteredStay
         /\ SignedInv'
         /\ offBooks' \in [Tokens -> Nat]
         /\ allowance' \in [Customers -> [Tokens -> Nat]]
<1> USE DEF ShadeInv
<1>1. TypesInv /\ EventsInv
  BY DEF InvoicesInv, HoldersInv
<1>2. ASSUME UNCHANGED <<usedNonces, redeemed>> PROVE SignedInv'
  BY <1>2 DEF SignedInv, SignedOnce
<1>3. CASE Next /\ UNCHANGED <<eventVars, subscriptionVars, campaigns, nftVars>>
  <2>1. [Next]_vars
    BY <1>3
  <2>2. InvoicesInv' /\ RegisteredStay /\ SignedInv'
    BY <2>1, InvoicesStep, SignedInvStep
  <2>3. QED BY <2>2, <1>3 DEF InvoicesInv, eventVars, subscriptionVars
<1>4. CASE EventsNext /\ UNCHANGED <<invoiceVars, subscriptionVars, campaigns, nftVars>>
  BY <1>1, <1>2, <1>4, EventsTypes DEF invoiceVars, subscriptionVars
<1>5. CASE SubscriptionNext /\ UNCHANGED <<invoiceVars, eventVars, campaigns, nftVars>>
  BY <1>1, <1>2, <1>5, SubscriptionTypes DEF invoiceVars, eventVars
<1>6. CASE BackerRewardsNext /\ UNCHANGED <<invoiceVars, eventVars, subscriptionVars, nftVars>>
  BY <1>1, <1>2, <1>6, CampaignTypes DEF invoiceVars, eventVars, subscriptionVars
<1>7. CASE NftNext /\ UNCHANGED <<invoiceVars, eventVars, subscriptionVars, campaigns>>
  BY <1>1, <1>2, <1>7, CampaignTypes DEF invoiceVars, eventVars, subscriptionVars
<1>8. CASE UNCHANGED shadeVars
  BY <1>1, <1>2, <1>8, TypesUnmoved DEF shadeVars, invoiceVars, eventVars, subscriptionVars
<1>9. QED BY <1>3, <1>4, <1>5, <1>6, <1>7, <1>8 DEF ShadeNext
\* Everything that names a merchant names a registered one, after any step.
LEMMA RegisteredStep ==
  ASSUME ShadeInv, RegisteredStay, HoldersInv', SubsInv', [ShadeNext]_shadeVars
  PROVE  Registered(events)' /\ Registered(plans)'
<1>1. TypesInv /\ EventsInv /\ EventsInv' /\ SubsInv
  BY DEF ShadeInv, InvoicesInv, HoldersInv
<1>2. Registered(events) /\ Registered(plans)
  BY DEF ShadeInv
<1>3. Registered(events)'
  <2>1. /\ DOMAIN events \subseteq DOMAIN events'
        /\ \A e \in DOMAIN events : events'[e].merchant = events[e].merchant
        /\ \A e \in DOMAIN events' \ DOMAIN events :
                merchants[events'[e].merchant] \in RoutedMerchant
    <3>1. CASE EventsNext
      BY <1>1, <3>1, EventTerms DEF EventTermsStay
    <3>2. CASE UNCHANGED eventVars
      BY <3>2 DEF eventVars
    <3>3. QED BY <3>1, <3>2, StepOwners
  <2>2. \A e \in DOMAIN events' : events'[e].merchant \in Seller
    <3>1. events' \in Seq(Event)
      BY <1>1 DEF EventsInv, EventsTyped
    <3>2. \A e \in DOMAIN events' : events'[e] \in Event
      BY <3>1
    <3>3. QED BY <3>2 DEF Event
  <2>3. \A e \in DOMAIN events' : merchants[events'[e].merchant] \in RoutedMerchant
    BY <1>2, <2>1 DEF Registered
  <2>4. QED BY <2>2, <2>3 DEF Registered, RegisteredStay
<1>4. Registered(plans)'
  <2>1. /\ DOMAIN plans \subseteq DOMAIN plans'
        /\ \A k \in DOMAIN plans : plans'[k].merchant = plans[k].merchant
        /\ \A k \in DOMAIN plans' \ DOMAIN plans :
                merchants[plans'[k].merchant] \in RoutedMerchant
    <3>1. CASE SubscriptionNext
      BY <1>1, <3>1, PlanTerms DEF PlanTermsStay
    <3>2. CASE UNCHANGED plans
      BY <3>2
    <3>3. QED BY <3>1, <3>2, StepOwners
  <2>2. \A k \in DOMAIN plans' : plans'[k].merchant \in Seller
    <3>1. plans' \in Seq(SubscriptionPlan)
      BY DEF SubsInv, SubsTyped
    <3>2. \A k \in DOMAIN plans' : plans'[k] \in SubscriptionPlan
      BY <3>1
    <3>3. QED BY <3>2 DEF SubscriptionPlan
  <2>3. \A k \in DOMAIN plans' : merchants[plans'[k].merchant] \in RoutedMerchant
    BY <1>2, <2>1 DEF Registered
  <2>4. QED BY <2>2, <2>3 DEF Registered, RegisteredStay
<1>5. QED BY <1>3, <1>4

\* Every step of the contract keeps all of it.
LEMMA ShadeInvStep ==
  ASSUME ShadeInv, [ShadeNext]_shadeVars
  PROVE  ShadeInv' /\ RegisteredStay
<1>1. /\ TypesInv' /\ RegisteredStay
      /\ SignedInv'
      /\ offBooks' \in [Tokens -> Nat]
      /\ allowance' \in [Customers -> [Tokens -> Nat]]
  BY ShadeTypesStep
<1>2. HoldersInv' /\ SubsInv' /\ CampaignsInv' /\ OwnersInv'
  BY HoldersInvStep, SubsInvStep, CampaignsInvStep, OwnersInvStep DEF ShadeInv
<1>3. Registered(events)' /\ Registered(plans)'
  BY <1>1, <1>2, RegisteredStep
<1>4. InvoicesInv'
  <2>1. InvoicesInv
    BY DEF ShadeInv
  <2>2. CASE [Next]_vars
    BY <2>1, <2>2, InvoicesStep
  <2>3. CASE UNCHANGED invoices
    <3>1. \A i \in DOMAIN invoices : invoices[i].merchant \in Seller
      BY <2>1, Fields DEF InvoicesInv, AllSound
    <3>2. \A i \in DOMAIN invoices : merchants'[invoices[i].merchant] \in RoutedMerchant
      BY <1>1, <2>1, <3>1, RegisteredKept DEF InvoicesInv
    <3>3. Registered(invoices)' /\ AllSound(invoices)'
      BY <2>1, <2>3, <3>2 DEF Registered, InvoicesInv
    <3>4. QED BY <1>1, <3>3 DEF InvoicesInv
  <2>4. [Next]_vars \/ UNCHANGED invoices
    BY DEF ShadeNext, shadeVars, invoiceVars, vars
  <2>5. QED BY <2>2, <2>3, <2>4
<1>5. QED BY <1>1, <1>2, <1>3, <1>4 DEF ShadeInv

\* It holds at the start.
LEMMA ShadeInvInit == ShadeInit => ShadeInv
<1> SUFFICES ASSUME ShadeInit PROVE ShadeInv
  OBVIOUS
<1>1. InvoicesInv /\ SignedInv
  BY InvoicesInvInit, SignedInvInit DEF ShadeInit
<1>2. HoldersInv /\ SubsInv /\ CampaignsInv
  BY HoldersInvInit, SubsInvInit, CampaignsInvInit
<1>3. OwnersInv
  BY OwnersInvInit
<1>4. Registered(events) /\ Registered(plans)
  BY DEF ShadeInit, EventsInit, SubscriptionInit, Registered
<1>5. offBooks \in [Tokens -> Nat] /\ allowance \in [Customers -> [Tokens -> Nat]]
  BY DEF ShadeInit, EventsInit, SubscriptionInit
<1>6. QED BY <1>1, <1>2, <1>3, <1>4, <1>5 DEF ShadeInv

\* The invariant of the whole contract.
THEOREM ShadeInvHolds == ShadeSpec => []ShadeInv
<1>1. ShadeInv /\ [ShadeNext]_shadeVars => ShadeInv'
  BY ShadeInvStep
<1>2. QED BY ShadeInvInit, <1>1, PTL DEF ShadeSpec

\* Every variable of the contract keeps its type, with every entry point of every
\* component in play.
THEOREM ShadeTypes == ShadeSpec => []ShadeTypeOK
<1>1. ShadeInv => ShadeTypeOK
  <2> SUFFICES ASSUME ShadeInv PROVE ShadeTypeOK
    OBVIOUS
  <2>1. InvoiceTypeOK
    BY DEF ShadeInv, InvoicesInv, SignedInv, TypesInv, AllSound, InvoiceTypeOK
  <2>2. EventsTypeOK
    BY DEF ShadeInv, HoldersInv, EventsInv, EventsTyped, Owned, EventsTypeOK
  <2>3. SubscriptionTypeOK
    BY DEF ShadeInv, SubsInv, SubsTyped, SubscriptionTypeOK
  <2>4. BackerRewardsTypeOK
    BY DEF ShadeInv, CampaignsInv
  <2>5. NftTypeOK
    <3>1. /\ collections \in Seq(NftCollection) /\ nfts \in Seq(NftRecord)
          /\ userNfts \in [Collectors -> Seq(Nat \ {0})]
          /\ ClaimedByRecipients
      BY DEF ShadeInv, OwnersInv, NftInv, NftsTyped, Owned
    <3>2. ASSUME NEW claim \in nftClaimed PROVE claim \in (Nat \ {0}) \X Collectors
      <4>1. /\ claim[1] \in DOMAIN nfts
            /\ claim = <<claim[1], nfts[claim[1]].recipient>>
        BY <3>1, <3>2 DEF ClaimedByRecipients
      <4>2. nfts[claim[1]] \in NftRecord /\ claim[1] \in Nat \ {0}
        BY <3>1, <4>1
      <4>3. QED BY <4>1, <4>2 DEF NftRecord
    <3>3. QED BY <3>1, <3>2 DEF NftTypeOK
  <2>6. QED BY <2>1, <2>2, <2>3, <2>4, <2>5 DEF ShadeTypeOK
<1>2. QED BY ShadeInvHolds, <1>1, PTL
-----------------------------------------------------------------------------
(* Cancelled events. *)

\* A cancellation is all or nothing, and each holder gets exactly what the tickets in
\* its hands were first sold for (cancel_event_and_batch_refund), for every number of
\* tickets, holders and resales.
THEOREM HoldersRefundedHolds == ShadeSpec => HoldersRefunded
<1> DEFINE Paid ==
        \A e \in DOMAIN events :
            LET event  == events[e]
                held(p) == {i \in TicketsOf(e) : tickets[i].owner = p}
            IN  events'[e].refunds_processed /\ ~event.refunds_processed =>
                    \A p \in Buyers \ {event.merchant} :
                        bank'[p][event.token] - bank[p][event.token] =
                            SumFunction([i \in held(p) |-> tickets[i].purchase_price])
           Inv == ShadeInv /\ CancelledRefunded
<1>1. ShadeInit => Inv
  BY ShadeInvInit DEF ShadeInit, EventsInit, CancelledRefunded
<1>2. Inv /\ [ShadeNext]_shadeVars => Inv' /\ Paid
  <2> SUFFICES ASSUME Inv, [ShadeNext]_shadeVars PROVE Inv' /\ Paid
    OBVIOUS
  <2>1. TypesInv /\ EventsInv
    BY DEF ShadeInv, InvoicesInv, HoldersInv
  <2>2. CASE EventsNext
    <3>1. CancelledRefunded'
      BY <2>1, <2>2, EventFlags
    <3>2. ASSUME NEW e \in DOMAIN events, events'[e].refunds_processed,
                 ~events[e].refunds_processed
          PROVE  RefundsOwed(e, bank')
      BY <2>1, <2>2, <3>2, EventFlags, CancelMove DEF Refunding
    <3>3. Paid
      BY <3>2 DEF RefundsOwed
    <3>4. QED BY <3>1, <3>3, ShadeInvStep
  <2>3. CASE UNCHANGED eventVars
    <3>1. events' = events
      BY <2>3 DEF eventVars
    <3>2. CancelledRefunded' /\ Paid
      BY <3>1 DEF CancelledRefunded
    <3>3. QED BY <3>2, ShadeInvStep
  <2>4. QED BY <2>2, <2>3, StepOwners
<1>3. QED BY <1>1, <1>2, PTL DEF ShadeSpec, HoldersRefunded
-----------------------------------------------------------------------------
(* Who pays, and who is paid.  A holder that is nobody's payer loses nothing by a *)
(* step, and one that is nobody's payee either keeps what it has.                  *)

\* From ledger b to ledger c holder h loses nothing, or keeps what it has.
Fed(b, c, h) == \A u \in Tokens : c[h][u] >= b[h][u]

Left(b, c, h) == \A u \in Tokens : c[h][u] = b[h][u]

Treasury == Admins \cup PlatformAccounts

\* A payment split between a till and the platform.
LEMMA SplitAside ==
  ASSUME NEW b \in Ledger, NEW c \in Ledger, NEW p, NEW till, NEW to, NEW t,
         NEW amt \in Nat, NEW charged \in Nat, amt - charged \in Nat,
         BankSplit(b, c, p, till, to, t, amt, charged), NEW h \in Holder \ {p}
  PROVE  /\ Fed(b, c, h)
         /\ h \notin {till, to} => Left(b, c, h)
<1>1. ASSUME NEW u \in Tokens
      PROVE  /\ c[h][u] >= b[h][u]
             /\ h \notin {till, to} => c[h][u] = b[h][u]
  <2> DEFINE net == amt - charged
             x   == b[h][u]
  <2>1. x \in Nat /\ net \in Nat
    BY DEF Ledger
  <2>2. c[h][u] = x + ((IF h = till /\ u = t THEN net ELSE 0)
                     + (IF h = to /\ u = t THEN charged ELSE 0))
    BY DEF BankSplit, SplitChange, Change
  <2> HIDE DEF net, x
  <2>3. c[h][u] >= x /\ (h \notin {till, to} => c[h][u] = x)
    BY <2>1, <2>2
  <2>4. QED BY <2>3 DEF x
<1>2. QED BY <1>1 DEF Fed, Left

\* Ledger c is b with amt of t passed from x to y.
Transferred(b, c, x, y, t, amt) ==
    \A h \in Holder, u \in Tokens : c[h][u] = b[h][u] + Change(h, u, x, y, t, amt)

\* A single transfer.
LEMMA TransferAside ==
  ASSUME NEW b \in Ledger, NEW c \in Ledger, NEW x, NEW y, NEW t, NEW amt \in Nat,
         Transferred(b, c, x, y, t, amt), NEW h \in Holder \ {x}
  PROVE  /\ Fed(b, c, h)
         /\ h # y => Left(b, c, h)
<1>1. ASSUME NEW u \in Tokens
      PROVE  /\ c[h][u] >= b[h][u]
             /\ h # y => c[h][u] = b[h][u]
  <2> DEFINE z == b[h][u]
  <2>1. z \in Nat
    BY DEF Ledger
  <2>2. c[h][u] = z + (IF h = y /\ u = t THEN amt ELSE 0)
    BY DEF Change, Transferred
  <2> HIDE DEF z
  <2>3. c[h][u] >= z /\ (h # y => c[h][u] = z)
    BY <2>1, <2>2
  <2>4. QED BY <2>3 DEF z
<1>2. QED BY <1>1 DEF Fed, Left

\* Two changes of the ledger in a row.
LEMMA AsideTwice ==
  ASSUME NEW b \in Ledger, NEW mid \in Ledger, NEW c \in Ledger, NEW h \in Holder
  PROVE  /\ Fed(b, mid, h) /\ Fed(mid, c, h) => Fed(b, c, h)
         /\ Left(b, mid, h) /\ Left(mid, c, h) => Left(b, c, h)
<1>1. \A u \in Tokens : b[h][u] \in Nat /\ mid[h][u] \in Nat /\ c[h][u] \in Nat
  BY DEF Ledger
<1>2. QED BY <1>1 DEF Fed, Left

\* The ledger as it is.
LEMMA AsideKept ==
  ASSUME NEW b \in Ledger, NEW h \in Holder
  PROVE  Fed(b, b, h) /\ Left(b, b, h)
BY DEF Fed, Left, Ledger

\* The steps of the invoices, the merchants and the administration.
LEMMA InvoicesAside ==
  ASSUME InvoicesInv, Next, NEW h \in Holder \ (Payers \cup Account)
  PROVE  /\ Fed(bank, bank', h)
         /\ h \notin Payees \cup Routes \cup Treasury => Left(bank, bank', h)
<1>1. bank \in Ledger /\ TypesInv /\ Payers \subseteq Holder
  BY BooksOf, InvoiceAssumption DEF InvoicesInv
<1>2. bank' \in Ledger
  <2>1. InvoicesInv'
    BY InvoicesStep
  <2>2. QED BY <2>1 DEF InvoicesInv, TypesInv, MerchantsTypeOK, AccountTypeOK, Ledger
<1>3. CASE bank' = bank
  BY <1>1, <1>3, AsideKept
<1>4. ASSUME NEW a \in Account, NEW to, NEW t \in Tokens, NEW amt \in Int,
             CanPay(bank, a, t, amt), bank' = Moved(bank, a, to, t, amt)
      PROVE  Fed(bank, bank', h) /\ (h # to => Left(bank, bank', h))
  <2>1. a \in Holder
    BY AccountAssumption
  <2>2. PICK c : c = bank'
    OBVIOUS
  <2>3. /\ amt \in Nat
        /\ \A x \in Holder, u \in Tokens : c[x][u] = bank[x][u] + Change(x, u, a, to, t, amt)
    BY <1>1, <1>4, <2>1, <2>2, LedgerMoved
  <2>4. c \in Ledger /\ h \in Holder \ {a}
    BY <1>2, <2>2
  <2>5. Fed(bank, c, h) /\ (h # to => Left(bank, c, h))
    <3>1. Transferred(bank, c, a, to, t, amt) /\ amt \in Nat
      BY <2>3 DEF Transferred
    <3> HIDE <1>4
    <3>2. QED BY <1>1, <2>4, <3>1, TransferAside
  <2>6. QED BY <2>2, <2>5
<1>5. ASSUME NEW w, WorldType(w), NEW v, WorldType(v), NEW p \in Payers,
             NEW i \in DOMAIN w.invoices, NEW amt, NEW charged, PaidOne(w, v, i, p, amt, charged)
      PROVE  /\ Fed(w.bank, v.bank, h)
             /\ h \notin Routes \cup Treasury => Left(w.bank, v.bank, h)
  <2> DEFINE till == merchants[w.invoices[i].merchant].account
  <2>1. /\ w.bank \in Ledger /\ v.bank \in Ledger
        /\ amt \in Nat /\ charged \in Nat /\ amt - charged \in Nat
        /\ till \in Routes
        /\ BankSplit(w.bank, v.bank, p, till, platform, w.invoices[i].token, amt, charged)
    BY <1>5 DEF WorldType, PaidOne
  <2>2. h \in Holder \ {p} /\ p \in Holder
    BY <1>1
  <2> HIDE DEF till
  <2>3. /\ Fed(w.bank, v.bank, h)
        /\ h \notin {till, platform} => Left(w.bank, v.bank, h)
    BY <2>1, <2>2, SplitAside
  <2>4. h \notin Treasury => h # platform
    BY <1>1, PlatformFacts, AccountAssumption DEF Treasury
  <2>5. QED BY <2>1, <2>3, <2>4
<1>6. ASSUME NEW p \in Payers, NEW v, PaidSome(p, v)
      PROVE  /\ Fed(bank, bank', h)
             /\ h \notin Routes \cup Treasury => Left(bank, bank', h)
  <2>1. /\ WorldType(v) /\ bank' = v.bank
        /\ World.bank = bank /\ World.invoices = invoices
    BY <1>6 DEF PaidSome, Install, World
  <2>2. WorldType(World)
    BY <1>1, BooksOf DEF WorldType, World, InvoicesInv
  <2>3. CASE \E i \in DOMAIN invoices, amt \in Int, charged \in Nat :
                PaidOne(World, v, i, p, amt, charged)
    BY <1>5, <2>1, <2>2, <2>3
  <2>4. ASSUME NEW z, WorldType(z),
               NEW i \in DOMAIN invoices, NEW a1 \in Int, NEW c1 \in Nat,
               PaidOne(World, z, i, p, a1, c1),
               NEW j \in DOMAIN z.invoices, NEW a2 \in Int, NEW c2 \in Nat,
               PaidOne(z, v, j, p, a2, c2)
        PROVE  /\ Fed(bank, v.bank, h)
               /\ h \notin Routes \cup Treasury => Left(bank, v.bank, h)
    <3>1. /\ Fed(bank, z.bank, h)
          /\ h \notin Routes \cup Treasury => Left(bank, z.bank, h)
      BY <1>5, <2>1, <2>2, <2>4
    <3>2. /\ Fed(z.bank, v.bank, h)
          /\ h \notin Routes \cup Treasury => Left(z.bank, v.bank, h)
      BY <1>5, <2>1, <2>4
    <3>3. z.bank \in Ledger /\ v.bank \in Ledger
      BY <2>1, <2>4 DEF WorldType
    <3>4. QED BY <1>1, <3>1, <3>2, <3>3, AsideTwice
  <2>5. QED BY <1>6, <2>1, <2>3, <2>4 DEF PaidSome
<1>7. CASE MerchantsNext
  <2>1. CASE LedgerKept
    BY <1>3, <2>1 DEF LedgerKept
  <2>2. ASSUME NEW a \in Account, NEW to \in Payees, NEW t \in Tokens, NEW amt \in Nat,
               Withdrawn(a, to, t, amt)
        PROVE  Fed(bank, bank', h) /\ (h # to => Left(bank, bank', h))
    BY <1>4, <2>2 DEF Withdrawn
  <2>3. QED BY <1>7, <2>1, <2>2, MerchantsMoney
<1>8. CASE InvoiceNext
  <2>1. ASSUME NEW q, CreatedOne(q) PROVE bank' = bank
    BY <2>1 DEF CreatedOne, merchantVars, accountVars
  <2>2. ASSUME NEW i, NEW r, RevisedOne(i, r) PROVE bank' = bank
    BY <2>2 DEF RevisedOne, merchantVars, accountVars
  <2>3. ASSUME NEW i \in DOMAIN invoices, NEW r, NEW amt, RefundedOne(i, r, amt)
        PROVE  Fed(bank, bank', h) /\ Left(bank, bank', h)
    <3> DEFINE a  == merchants[invoices[i].merchant].account
               to == invoices[i].payer
               t  == invoices[i].token
    <3>1. /\ a \in Account /\ to \in Payers /\ amt \in Nat
          /\ CanPay(bank, a, t, amt)
          /\ bank' = Moved(bank, a, to, t, amt)
      BY <2>3 DEF RefundedOne
    <3>2. t \in Tokens
      BY Fields DEF InvoicesInv, AllSound
    <3> HIDE DEF a, to, t
    <3>3. QED BY <1>4, <3>1, <3>2
  <2>4. QED BY <1>3, <1>6, <1>8, <2>1, <2>2, <2>3, InvoiceMoves
<1>9. QED BY <1>7, <1>8 DEF Next
\* A payment through the platform.
LEMMA SplitPaid ==
  ASSUME TypesInv, BooksTyped, NEW p, NEW m, NEW t, NEW amt, NEW charged \in Nat,
         SoldOne(p, m, t, amt, charged), NEW h \in Holder \ {p}
  PROVE  /\ Fed(bank, bank', h)
         /\ h \notin Routes \cup Treasury => Left(bank, bank', h)
<1> DEFINE till == merchants[m].account
<1>1. /\ bank \in Ledger /\ bank' \in Ledger
      /\ amt \in Nat /\ amt - charged \in Nat
      /\ till \in Routes
      /\ BankSplit(bank, bank', p, till, platform, t, amt, charged)
  BY BooksOf DEF BooksTyped, SoldOne
<1> HIDE DEF till
<1>2. h \notin Treasury => h # platform
  BY PlatformFacts, AccountAssumption DEF Treasury
<1>3. /\ Fed(bank, bank', h)
      /\ h \notin {till, platform} => Left(bank, bank', h)
  BY <1>1, SplitAside
<1>4. QED BY <1>1, <1>2, <1>3

\* Sales, resales and cancellations: besides the buyers only the merchant pays, when it
\* cancels.
LEMMA EventsAside ==
  ASSUME TypesInv, EventsInv, Registered(events), EventsNext, NEW h \in Holder \ Buyers
  PROVE  /\ \/ Fed(bank, bank', h)
            \/ \E e \in DOMAIN events :
                  CancelEventAndBatchRefund(e) /\ events[e].merchant = h
         /\ h \notin Seller \cup Routes \cup Treasury => Left(bank, bank', h)
<1>1. bank \in Ledger
  BY BooksOf
<1>2. CASE BooksKept
  BY <1>1, <1>2, AsideKept DEF BooksKept, merchantVars, accountVars
<1>3. ASSUME BooksTyped,
             NEW e \in DOMAIN events, NEW p \in Buyers, NEW amt \in Nat, NEW charged \in Nat,
             TicketSold(e, p, amt, charged)
      PROVE  /\ Fed(bank, bank', h)
             /\ h \notin Routes \cup Treasury => Left(bank, bank', h)
  BY <1>3, SplitPaid DEF TicketSold
<1>4. ASSUME BooksTyped, NEW p \in Buyers, NEW to \in Routes, NEW t \in Tokens, NEW paid \in Nat,
             BulkSold(p, to, t, paid)
      PROVE  /\ Fed(bank, bank', h)
             /\ h \notin Routes => Left(bank, bank', h)
  <2>1. /\ Transferred(bank, bank', p, to, t, paid)
        /\ bank' \in Ledger /\ h \in Holder \ {p}
    BY <1>4 DEF BulkSold, MovedOnce, BooksTyped, Transferred
  <2> HIDE <1>4
  <2>2. QED BY <1>1, <2>1, TransferAside
<1>5. ASSUME BooksTyped, NEW i \in DOMAIN tickets, NEW p \in Buyers, NEW net \in Nat,
             NEW royalty \in Nat, TicketResold(i, p, net, royalty)
      PROVE  /\ Fed(bank, bank', h)
             /\ h \notin Routes => Left(bank, bank', h)
  <2> DEFINE event  == events[tickets[i].event_id]
             t      == event.token
             seller == tickets[i].owner
             till   == merchants[event.merchant].account
  <2>1. PICK mid \in Ledger : /\ MovedOnce(bank, mid, flow, flow, p, seller, t, net)
                              /\ MovedOnce(mid, bank', flow, flow', p, till, t, royalty)
    BY <1>5 DEF TicketResold
  <2>2. till \in Routes /\ bank' \in Ledger /\ h \in Holder \ {p}
    BY <1>5 DEF TicketResold, BooksTyped
  <2>3. seller \in Buyers
    <3>1. tickets[i] \in Ticket
      BY DEF EventsInv, EventsTyped
    <3>2. QED BY <3>1 DEF Ticket
  <2>4. Transferred(bank, mid, p, seller, t, net)
    BY <2>1 DEF MovedOnce, Transferred
  <2>5. Transferred(mid, bank', p, till, t, royalty)
    BY <2>1 DEF MovedOnce, Transferred
  <2>6. h # seller /\ mid \in Ledger
    BY <2>1, <2>3
  <2> HIDE <1>5
  <2> HIDE DEF seller, till, t
  <2>7. Fed(bank, mid, h) /\ Left(bank, mid, h)
    <3>1. PICK b : b = bank
      OBVIOUS
    <3>2. Transferred(b, mid, p, seller, t, net)
      BY <2>4, <3>1
    <3>3. b \in Ledger /\ mid \in Ledger /\ h \in Holder \ {p}
      BY <1>1, <2>2, <2>6, <3>1
    <3>4. Fed(b, mid, h) /\ (h # seller => Left(b, mid, h))
      BY <3>2, <3>3, TransferAside
    <3>5. QED BY <2>6, <3>1, <3>4
  <2>8. Fed(mid, bank', h) /\ (h # till => Left(mid, bank', h))
    BY <2>2, <2>5, <2>6, TransferAside
  <2>9. QED BY <1>1, <2>2, <2>6, <2>7, <2>8, AsideTwice
<1>6. ASSUME NEW e \in DOMAIN events, Refunding(e)
      PROVE  /\ CancelEventAndBatchRefund(e)
             /\ h # events[e].merchant => Fed(bank, bank', h) /\ Left(bank, bank', h)
             /\ events[e].merchant \in Seller
  <2>1. CancelEventAndBatchRefund(e) /\ RefundsOwed(e, bank')
    BY <1>6 DEF Refunding
  <2>2. h # events[e].merchant => Left(bank, bank', h)
    BY <2>1 DEF RefundsOwed, Left
  <2>3. Left(bank, bank', h) => Fed(bank, bank', h)
    BY <1>1 DEF Left, Fed, Ledger
  <2>4. events[e].merchant \in Seller
    BY RefundInputs
  <2>5. QED BY <2>1, <2>2, <2>3, <2>4
<1>7. QED BY <1>2, <1>3, <1>4, <1>5, <1>6, EventsMoves

\* Charges.
LEMMA SubscriptionAside ==
  ASSUME TypesInv, SubsInv, Registered(plans), SubscriptionNext, NEW h \in Holder \ Customers
  PROVE  /\ Fed(bank, bank', h)
         /\ h \notin Routes \cup Treasury => Left(bank, bank', h)
<1>1. bank \in Ledger
  BY BooksOf
<1>2. CASE BooksKept
  BY <1>1, <1>2, AsideKept DEF BooksKept, merchantVars, accountVars
<1>3. ASSUME BooksTyped, NEW s \in DOMAIN subs, NEW charged \in Nat, Charged(s, charged)
      PROVE  /\ Fed(bank, bank', h)
             /\ h \notin Routes \cup Treasury => Left(bank, bank', h)
  <2>1. subs[s] \in SubscriptionRecord
    BY DEF SubsInv, SubsTyped
  <2>2. subs[s].customer \in Customers
    BY <2>1 DEF SubscriptionRecord
  <2>3. QED BY <1>3, <2>2, SplitPaid DEF Charged
<1>4. QED BY <1>2, <1>3, SubscriptionMoves

\* Pledges.
LEMMA CampaignAside ==
  ASSUME TypesInv, CampaignsInv, BackerRewardsNext, NEW h \in Holder \ Backers
  PROVE  /\ Fed(bank, bank', h)
         /\ h # Shade => Left(bank, bank', h)
<1>1. bank \in Ledger
  BY BooksOf
<1>2. CASE BooksKept
  BY <1>1, <1>2, AsideKept DEF BooksKept, merchantVars, accountVars
<1>3. ASSUME BooksTyped, NEW c \in DOMAIN campaigns, NEW b \in Backers, NEW amt \in Nat,
             Pledged(c, b, amt)
      PROVE  /\ Fed(bank, bank', h)
             /\ h # Shade => Left(bank, bank', h)
  <2> DEFINE t == campaigns[c].token
  <2>1. /\ Transferred(bank, bank', b, Shade, t, amt)
        /\ bank' \in Ledger /\ h \in Holder \ {b}
    BY <1>3 DEF Pledged, BooksTyped, Transferred
  <2> HIDE <1>3
  <2> HIDE DEF t
  <2>2. QED BY <1>1, <2>1, TransferAside
<1>4. QED BY <1>2, <1>3, CampaignMoves

\* Once an event is cancelled nothing of it moves again, and a merchant's wallet pays out
\* only in the step that cancels one of its events (cancel_event_and_batch_refund), so no
\* ticket is refunded twice.
THEOREM CancelledClosedHolds ==
  ASSUME SellersOnlySell
  PROVE  ShadeSpec => CancelledClosed
<1> DEFINE Closed ==
        \A e \in DOMAIN events :
            events[e].cancelled =>
                /\ events[e].refunds_processed
                /\ events'[e] = events[e]
                /\ \A i \in TicketsOf(e) : tickets'[i] = tickets[i]
           Spends ==
        \A m \in Seller \ Buyers, t \in Tokens :
            bank'[m][t] < bank[m][t] =>
                \E e \in DOMAIN events :
                    /\ events[e].merchant = m
                    /\ ~events[e].cancelled
                    /\ events'[e].cancelled
           Inv == ShadeInv /\ CancelledRefunded
<1>1. ShadeInit => Inv
  BY ShadeInvInit DEF ShadeInit, EventsInit, CancelledRefunded
<1>2. Inv /\ [ShadeNext]_shadeVars => Inv' /\ Closed /\ Spends
  <2> SUFFICES ASSUME Inv, [ShadeNext]_shadeVars PROVE Inv' /\ Closed /\ Spends
    OBVIOUS
  <2>1. TypesInv /\ EventsInv /\ InvoicesInv /\ SubsInv /\ CampaignsInv
    BY DEF ShadeInv, InvoicesInv, HoldersInv
  <2>2. Registered(events) /\ Registered(plans)
    BY DEF ShadeInv
  <2>3. CancelledRefunded' /\ Closed
    <3>1. CASE EventsNext
      <4>1. /\ CancelledRefunded'
            /\ \A e \in DOMAIN events : events[e].cancelled => events'[e] = events[e]
            /\ \A i \in DOMAIN tickets :
                   ~events[tickets[i].event_id].cancelled \/ tickets'[i] = tickets[i]
        BY <2>1, <3>1, EventFlags
      <4>2. QED BY <4>1 DEF CancelledRefunded, TicketsOf
    <3>2. CASE UNCHANGED eventVars
      BY <3>2 DEF eventVars, CancelledRefunded
    <3>3. QED BY <3>1, <3>2, StepOwners
  <2>4. ASSUME NEW m \in Seller \ Buyers, NEW t \in Tokens, bank'[m][t] < bank[m][t]
        PROVE  \E e \in DOMAIN events :
                    /\ events[e].merchant = m
                    /\ ~events[e].cancelled
                    /\ events'[e].cancelled
    <3>1. /\ m \in Holder \ Buyers /\ m \in Holder \ (Payers \cup Account)
          /\ m \in Holder \ Customers /\ m \in Holder \ Backers
      BY MerchantsAssumption DEF SellersOnlySell
    <3>2. ~Fed(bank, bank', m)
      <4>1. bank \in Ledger /\ bank' \in Ledger
        <5>1. TypesInv'
          BY ShadeTypesStep
        <5>2. QED BY <2>1, <5>1 DEF TypesInv, MerchantsTypeOK, AccountTypeOK, Ledger
      <4>2. bank[m][t] \in Nat /\ bank'[m][t] \in Nat
        BY <3>1, <4>1 DEF Ledger
      <4>3. QED BY <2>4, <4>2 DEF Fed
    <3>3. bank' # bank
      BY <2>1, <3>1, <3>2, BooksOf, AsideKept
    <3>4. EventsNext
      <4>1. ASSUME Next PROVE Fed(bank, bank', m)
        BY <2>1, <3>1, <4>1, InvoicesAside
      <4>2. ASSUME SubscriptionNext PROVE Fed(bank, bank', m)
        BY <2>1, <2>2, <3>1, <4>2, SubscriptionAside
      <4>3. ASSUME BackerRewardsNext PROVE Fed(bank, bank', m)
        BY <2>1, <3>1, <4>3, CampaignAside
      <4>4. ASSUME NftNext PROVE bank' = bank
        BY <4>4, NftMoves DEF BooksKept, merchantVars, accountVars
      <4>5. ASSUME UNCHANGED shadeVars PROVE bank' = bank
        BY <4>5 DEF shadeVars, merchantVars, accountVars
      <4>6. QED BY <3>2, <3>3, <4>1, <4>2, <4>3, <4>4, <4>5 DEF ShadeNext
    <3>5. PICK e \in DOMAIN events : CancelEventAndBatchRefund(e) /\ events[e].merchant = m
      BY <2>1, <2>2, <3>1, <3>2, <3>4, EventsAside
    <3>6. events'[e].cancelled /\ (events[e].cancelled => events'[e] = events[e])
      BY <2>1, <3>4, <3>5, EventFlags
    <3>7. ~events[e].refunds_processed
      BY <3>5 DEF CancelEventAndBatchRefund, Refundable
    <3>8. QED BY <3>5, <3>6, <3>7 DEF CancelledRefunded
  <2>5. ShadeInv'
    BY ShadeInvStep
  <2>6. QED BY <2>3, <2>4, <2>5
<1>3. QED BY <1>1, <1>2, PTL DEF ShadeSpec, CancelledClosed
-----------------------------------------------------------------------------
(* What the campaigns raise. *)

\* A new campaign, which has raised nothing.
CampaignAdded(q) ==
    /\ q \in BackerCampaign /\ q.raised = 0 /\ q.pledge = [b \in Backers |-> 0]
    /\ campaigns' = Append(campaigns, q)
    /\ bank' = bank

\* Campaign c becomes q, which has raised what it had.
CampaignWritten(c, q) ==
    LET was == campaigns[c]
    IN  /\ q \in BackerCampaign
        /\ q.token = was.token /\ q.raised = was.raised /\ q.pledge = was.pledge
        /\ campaigns' = [campaigns EXCEPT ![c] = q]
        /\ bank' = bank

\* Every step of the campaigns adds one, writes one, or is a pledge.
LEMMA CampaignsWrites ==
  ASSUME TypesInv, CampaignsInv, BackerRewardsNext
  PROVE  \/ \E q : CampaignAdded(q)
         \/ \E c \in DOMAIN campaigns : \E q : CampaignWritten(c, q)
         \/ /\ BooksTyped
            /\ \E c \in DOMAIN campaigns, b \in Backers, amt \in Nat : Pledged(c, b, amt)
<1>0. \A c \in DOMAIN campaigns : campaigns[c] \in BackerCampaign
  BY DEF CampaignsInv, BackerRewardsTypeOK
<1>1. ASSUME NEW m \in Seller, NEW t \in Tokens, NEW deadline \in Deadlines,
             CreateBackerCampaign(m, t, deadline)
      PROVE  \E q : CampaignAdded(q)
  <2> DEFINE pledges == [b \in Backers |-> 0]
             selection == [b \in Backers |-> None]
             counts == [k \in Rewards |-> 0]
             q == [merchant |-> m, token |-> t, deadline |-> deadline, raised |-> 0,
                   tiers |-> << >>, pledge |-> pledges, selected |-> selection,
                   count |-> counts, fulfilled |-> {}, claimed |-> {}]
  <2>1. campaigns' = Append(campaigns, q) /\ bank' = bank
    BY <1>1 DEF CreateBackerCampaign, merchantVars, accountVars
  <2>2. /\ pledges \in [Backers -> Nat]
        /\ selection \in [Backers -> Rewards \cup {None}]
        /\ counts \in [Rewards -> Nat]
        /\ << >> \in Seq(RewardTier)
        /\ deadline \in Nat
    BY BackerRewardsAssumption
  <2> HIDE DEF pledges, selection, counts
  <2>3. q \in BackerCampaign /\ q.raised = 0 /\ q.pledge = pledges
    BY <2>2 DEF BackerCampaign
  <2> HIDE DEF q
  <2>4. QED BY <2>1, <2>3 DEF CampaignAdded, pledges
<1>2. ASSUME NEW c \in DOMAIN campaigns, NEW list \in TierLists, SetBackerRewardTiers(c, list)
      PROVE  \E q : CampaignWritten(c, q)
  <2> DEFINE q == [campaigns[c] EXCEPT !.tiers = list]
  <2>1. campaigns' = [campaigns EXCEPT ![c] = q] /\ bank' = bank
    BY <1>2 DEF SetBackerRewardTiers, merchantVars, accountVars
  <2>2. list \in Seq(RewardTier)
    BY BackerRewardsAssumption
  <2>3. /\ q \in BackerCampaign
        /\ q.token = campaigns[c].token /\ q.raised = campaigns[c].raised
        /\ q.pledge = campaigns[c].pledge
    BY <1>0, <2>2 DEF BackerCampaign
  <2> HIDE DEF q
  <2>4. QED BY <2>1, <2>3 DEF CampaignWritten
<1>3. ASSUME NEW c \in DOMAIN campaigns, NEW b \in Backers, FulfillBackerReward(c, b)
      PROVE  \E q : CampaignWritten(c, q)
  <2> DEFINE done == campaigns[c].fulfilled \cup {b}
             q    == [campaigns[c] EXCEPT !.fulfilled = done]
  <2>1. campaigns' = [campaigns EXCEPT ![c] = q] /\ bank' = bank
    BY <1>3 DEF FulfillBackerReward, merchantVars, accountVars
  <2>2. done \in SUBSET Backers
    BY <1>0 DEF BackerCampaign
  <2> HIDE DEF done
  <2>3. /\ q \in BackerCampaign
        /\ q.token = campaigns[c].token /\ q.raised = campaigns[c].raised
        /\ q.pledge = campaigns[c].pledge
    BY <1>0, <2>2 DEF BackerCampaign
  <2> HIDE DEF q
  <2>4. QED BY <2>1, <2>3 DEF CampaignWritten
<1>4. ASSUME NEW c \in DOMAIN campaigns, NEW b \in Backers, NEW k \in Rewards,
             ClaimBackerPerk(c, b, k)
      PROVE  \E q : CampaignWritten(c, q)
  <2> DEFINE done == campaigns[c].claimed \cup {<<b, k>>}
             q    == [campaigns[c] EXCEPT !.claimed = done]
  <2>1. campaigns' = [campaigns EXCEPT ![c] = q] /\ bank' = bank
    BY <1>4 DEF ClaimBackerPerk, merchantVars, accountVars
  <2>2. done \in SUBSET (Backers \X Rewards)
    BY <1>0 DEF BackerCampaign
  <2> HIDE DEF done
  <2>3. /\ q \in BackerCampaign
        /\ q.token = campaigns[c].token /\ q.raised = campaigns[c].raised
        /\ q.pledge = campaigns[c].pledge
    BY <1>0, <2>2 DEF BackerCampaign
  <2> HIDE DEF q
  <2>4. QED BY <2>1, <2>3 DEF CampaignWritten
<1>5. ASSUME NEW c \in DOMAIN campaigns, NEW b \in Backers, NEW k \in Rewards,
             SelectBackerRewardTier(c, b, k)
      PROVE  \E q : CampaignWritten(c, q)
  <2> DEFINE was      == campaigns[c].selected
             selected == [was EXCEPT ![b] = k]
             count    == Reseated(campaigns[c].count, was[b], k)
             q        == [campaigns[c] EXCEPT !.count = count, !.selected = selected]
  <2>1. campaigns' = [campaigns EXCEPT ![c] = q] /\ bank' = bank
    BY <1>5, Zenon DEF SelectBackerRewardTier, merchantVars, accountVars
  <2>2. Seated(was, campaigns[c].count)
    BY SeatedHolds
  <2>3. Seated(selected, count)
    BY <2>2, ReseatedSeats
  <2>4. selected \in [Backers -> Rewards \cup {None}] /\ count \in [Rewards -> Nat]
    BY <2>3 DEF Seated
  <2> HIDE DEF was, selected, count
  <2>5. /\ q \in BackerCampaign
        /\ q.token = campaigns[c].token /\ q.raised = campaigns[c].raised
        /\ q.pledge = campaigns[c].pledge
    BY <1>0, <2>4 DEF BackerCampaign
  <2> HIDE DEF q
  <2>6. QED BY <2>1, <2>5 DEF CampaignWritten
<1>6. ASSUME NEW c \in DOMAIN campaigns, NEW b \in Backers, NEW amt \in Pledges,
             PledgeToCampaign(c, b, amt)
      PROVE  BooksTyped /\ amt \in Nat /\ Pledged(c, b, amt)
  BY <1>6, PledgeMove
<1>7. QED BY <1>1, <1>2, <1>3, <1>4, <1>5, <1>6 DEF BackerRewardsNext

\* What each campaign in token t has raised.
RaisedIn(list, t) ==
    [c \in {d \in DOMAIN list : list[d].token = t} |-> list[c].raised]

\* What campaign c has, if it is one in token t.
RaisedAt(list, c, t) == IF c \in DOMAIN list /\ list[c].token = t THEN list[c].raised ELSE 0

\* Lists that differ in campaign c only, which the first may not have.
OnlyCampaign(list, next, c) ==
    /\ list \in Seq(BackerCampaign) /\ next \in Seq(BackerCampaign)
    /\ (DOMAIN list) \ {c} = (DOMAIN next) \ {c}
    /\ \A d \in (DOMAIN list) \ {c} : next[d] = list[d]

\* The sum moves by what that campaign's entry does.
LEMMA RaisedChange ==
  ASSUME NEW list, NEW next, NEW c, OnlyCampaign(list, next, c), NEW t
  PROVE  /\ SumFunction(RaisedIn(list, t)) \in Int
         /\ RaisedAt(list, c, t) \in Int /\ RaisedAt(next, c, t) \in Int
         /\ SumFunction(RaisedIn(next, t)) =
                SumFunction(RaisedIn(list, t)) + (RaisedAt(next, c, t) - RaisedAt(list, c, t))
<1> DEFINE f == RaisedIn(list, t)
           g == RaisedIn(next, t)
<1> USE DEF OnlyCampaign
<1>1. /\ \A d \in DOMAIN list : list[d] \in BackerCampaign
      /\ \A d \in DOMAIN next : next[d] \in BackerCampaign
  OBVIOUS
<1>2. /\ \A d \in DOMAIN list : list[d].raised \in Int
      /\ \A d \in DOMAIN next : next[d].raised \in Int
  BY <1>1 DEF BackerCampaign
<1>3. /\ DOMAIN f = {d \in DOMAIN list : list[d].token = t}
      /\ \A x \in DOMAIN f : f[x] = list[x].raised
      /\ DOMAIN g = {d \in DOMAIN next : next[d].token = t}
      /\ \A x \in DOMAIN g : g[x] = next[x].raised
  BY DEF RaisedIn
<1>4. IsFiniteSet(DOMAIN f) /\ IsFiniteSet(DOMAIN g)
  <2>1. IsFiniteSet(1 .. Len(list)) /\ IsFiniteSet(1 .. Len(next))
    BY FS_Interval
  <2>2. DOMAIN f \subseteq 1 .. Len(list) /\ DOMAIN g \subseteq 1 .. Len(next)
    BY <1>3
  <2>3. QED BY <2>1, <2>2, FS_Subset
<1>5. /\ (DOMAIN f) \ {c} = (DOMAIN g) \ {c}
      /\ \A x \in (DOMAIN f) \ {c} : f[x] = g[x]
  BY <1>3
<1>6. /\ At(f, c) = RaisedAt(list, c, t)
      /\ At(g, c) = RaisedAt(next, c, t)
  BY <1>3 DEF At, RaisedAt
<1>7. RaisedAt(list, c, t) \in Int /\ RaisedAt(next, c, t) \in Int
  BY <1>2 DEF RaisedAt
<1>8. /\ \A x \in DOMAIN f : f[x] \in Int
      /\ \A x \in DOMAIN g : g[x] \in Int
  BY <1>2, <1>3
<1> HIDE DEF f, g
<1>9. /\ SumFunction(f) \in Int
      /\ SumFunction(g) = SumFunction(f) + (At(g, c) - At(f, c))
  BY <1>4, <1>5, <1>8, SumAtOne
<1>10. QED BY <1>6, <1>7, <1>9 DEF f, g
\* Shade holds what the campaigns of a list raised.
Raised(b, list) ==
    \A t \in Tokens : b[Shade][t] - Funds[Shade][t] = SumFunction(RaisedIn(list, t))

\* What a campaign raised is what its backers' records add up to.
Pooled(list) == \A c \in DOMAIN list : list[c].raised = SumFunction(list[c].pledge)

\* It goes on holding that when its balance moves by what one campaign's record does.
LEMMA RaisedMove ==
  ASSUME NEW b \in Ledger, NEW d \in Ledger, NEW list, NEW next, NEW c,
         OnlyCampaign(list, next, c), Raised(b, list),
         \A t \in Tokens : d[Shade][t] - b[Shade][t] = RaisedAt(next, c, t) - RaisedAt(list, c, t)
  PROVE  Raised(d, next)
<1> SUFFICES ASSUME NEW t \in Tokens
             PROVE  d[Shade][t] - Funds[Shade][t] = SumFunction(RaisedIn(next, t))
  BY DEF Raised
<1> DEFINE x == SumFunction(RaisedIn(list, t))
           y == SumFunction(RaisedIn(next, t))
           k == RaisedAt(list, c, t)
           l == RaisedAt(next, c, t)
<1>1. x \in Int /\ k \in Int /\ l \in Int /\ y = x + (l - k)
  BY RaisedChange
<1>2. b[Shade][t] - Funds[Shade][t] = x
  BY DEF Raised
<1>3. Funds[Shade][t] \in Nat /\ b[Shade][t] \in Nat /\ d[Shade][t] \in Nat
  BY MerchantsAssumption, AccountAssumption DEF Ledger
<1>4. d[Shade][t] - b[Shade][t] = l - k
  OBVIOUS
<1> HIDE DEF x, y, k, l
<1>5. d[Shade][t] - Funds[Shade][t] = y
  BY <1>1, <1>2, <1>3, <1>4
<1>6. QED BY <1>5 DEF y

\* One pledge more adds up to that much more.
LEMMA PledgeSum ==
  ASSUME NEW pledge \in [Backers -> Nat], NEW b \in Backers, NEW amt \in Nat
  PROVE  SumFunction([pledge EXCEPT ![b] = pledge[b] + amt]) = SumFunction(pledge) + amt
<1> DEFINE g == [pledge EXCEPT ![b] = pledge[b] + amt]
<1>1. /\ DOMAIN pledge = Backers /\ \A x \in DOMAIN pledge : pledge[x] \in Int
      /\ DOMAIN g = Backers /\ \A x \in DOMAIN g : g[x] \in Int
      /\ \A x \in (DOMAIN pledge) \ {b} : pledge[x] = g[x]
      /\ g[b] = pledge[b] + amt
  OBVIOUS
<1>2. At(g, b) - At(pledge, b) = amt
  BY <1>1 DEF At
<1>3. IsFiniteSet(DOMAIN pledge) /\ IsFiniteSet(DOMAIN g)
  BY <1>1, BackerRewardsAssumption
<1> HIDE DEF g
<1>4. /\ SumFunction(pledge) \in Int
      /\ SumFunction(g) = SumFunction(pledge) + (At(g, b) - At(pledge, b))
  BY <1>1, <1>3, SumAtOne
<1>5. QED BY <1>2, <1>4 DEF g

\* The campaigns' books: what each has raised, and what Shade holds for all of them.
PledgesInv == Pooled(campaigns) /\ Raised(bank, campaigns)

\* The steps of the campaigns keep them.
LEMMA CampaignsHeld ==
  ASSUME TypesInv, CampaignsInv, PledgesInv, BackerRewardsNext
  PROVE  PledgesInv'
<1>1. /\ bank \in Ledger /\ bank' \in Ledger
      /\ campaigns \in Seq(BackerCampaign) /\ Shade \in Holder
  <2>1. TypesInv'
    BY CampaignTypes
  <2>2. QED BY <2>1, BooksOf, MerchantsAssumption
            DEF TypesInv, MerchantsTypeOK, AccountTypeOK, Ledger, CampaignsInv,
                BackerRewardsTypeOK
<1>2. PICK b : b = bank
  OBVIOUS
<1>3. PICK d : d = bank'
  OBVIOUS
<1>4. PICK list : list = campaigns
  OBVIOUS
<1>5. b \in Ledger /\ d \in Ledger /\ list \in Seq(BackerCampaign) /\ Raised(b, list) /\ Pooled(list)
  BY <1>1, <1>2, <1>3, <1>4 DEF PledgesInv, Raised, Pooled
<1>6. ASSUME NEW next, campaigns' = next, Raised(d, next), Pooled(next)
      PROVE  PledgesInv'
  BY <1>3, <1>6 DEF PledgesInv, Raised, Pooled
<1>7. ASSUME NEW q, CampaignAdded(q)
      PROVE  PledgesInv'
  <2> DEFINE c == Len(list) + 1
  <2>1. PICK next : next = Append(list, q)
    OBVIOUS
  <2>2. /\ q \in BackerCampaign /\ q.raised = 0 /\ q.pledge = [x \in Backers |-> 0]
        /\ campaigns' = next /\ d = b
    BY <1>2, <1>3, <1>4, <1>7, <2>1 DEF CampaignAdded
  <2>3. /\ next \in Seq(BackerCampaign) /\ c \notin DOMAIN list /\ next[c] = q
        /\ (DOMAIN list) \ {c} = (DOMAIN next) \ {c}
        /\ \A x \in (DOMAIN list) \ {c} : next[x] = list[x]
    BY <1>5, <2>1, <2>2
  <2> HIDE DEF c
  <2>4. \A t \in Tokens : d[Shade][t] - b[Shade][t] = RaisedAt(next, c, t) - RaisedAt(list, c, t)
    <3>1. \A t \in Tokens : RaisedAt(next, c, t) = 0 /\ RaisedAt(list, c, t) = 0
      BY <2>2, <2>3 DEF RaisedAt
    <3>2. \A t \in Tokens : b[Shade][t] \in Nat
      BY <1>1, <1>5 DEF Ledger
    <3>3. QED BY <2>2, <3>1, <3>2
  <2>5. Raised(d, next)
    <3>1. OnlyCampaign(list, next, c)
      BY <1>5, <2>3 DEF OnlyCampaign
    <3>2. QED BY <1>5, <2>4, <3>1, RaisedMove
  <2>6. SumFunction(q.pledge) = 0
    <3> DEFINE f == [x \in Backers |-> 0]
    <3>1. IsFiniteSet(Backers) /\ DOMAIN f = Backers /\ \A x \in Backers : f[x] = 0
      BY BackerRewardsAssumption
    <3> HIDE DEF f
    <3>2. SumFunctionOnSet(f, Backers) = 0
      BY <3>1, SumZero
    <3>3. SumFunction(f) = SumFunctionOnSet(f, DOMAIN f)
      BY DEF SumFunction
    <3>4. QED BY <2>2, <3>1, <3>2, <3>3 DEF f
  <2>7. Pooled(next)
    BY <1>5, <2>2, <2>3, <2>6 DEF Pooled
  <2>8. QED BY <1>6, <2>2, <2>5, <2>7
<1>8. ASSUME NEW c \in DOMAIN list, NEW q \in BackerCampaign, campaigns' = [list EXCEPT ![c] = q],
             q.raised = SumFunction(q.pledge), q.token = list[c].token,
             \A t \in Tokens : d[Shade][t] - b[Shade][t] =
                        IF t = q.token THEN q.raised - list[c].raised ELSE 0
      PROVE  PledgesInv'
  <2>1. PICK next : next = [list EXCEPT ![c] = q]
    OBVIOUS
  <2>2. /\ next \in Seq(BackerCampaign) /\ DOMAIN next = DOMAIN list /\ next[c] = q
        /\ (DOMAIN list) \ {c} = (DOMAIN next) \ {c}
        /\ \A x \in (DOMAIN list) \ {c} : next[x] = list[x]
    BY <1>5, <2>1
  <2>3. \A t \in Tokens : d[Shade][t] - b[Shade][t] = RaisedAt(next, c, t) - RaisedAt(list, c, t)
    BY <1>8, <2>2 DEF RaisedAt
  <2>4. Raised(d, next)
    <3>1. OnlyCampaign(list, next, c)
      BY <1>5, <2>2 DEF OnlyCampaign
    <3>2. QED BY <1>5, <2>3, <3>1, RaisedMove
  <2>5. Pooled(next)
    BY <1>5, <1>8, <2>2 DEF Pooled
  <2>6. QED BY <1>6, <1>8, <2>1, <2>4, <2>5
<1>9. ASSUME NEW c \in DOMAIN campaigns, NEW q, CampaignWritten(c, q)
      PROVE  PledgesInv'
  <2>1. /\ q \in BackerCampaign /\ campaigns' = [list EXCEPT ![c] = q] /\ c \in DOMAIN list
        /\ q.token = list[c].token /\ q.raised = list[c].raised /\ q.pledge = list[c].pledge
        /\ d = b
    BY <1>2, <1>3, <1>4, <1>9 DEF CampaignWritten
  <2>2. q.raised \in Nat /\ \A t \in Tokens : b[Shade][t] \in Nat
    BY <1>1, <1>5, <2>1 DEF BackerCampaign, Ledger
  <2>3. \A t \in Tokens : d[Shade][t] - b[Shade][t] =
                IF t = q.token THEN q.raised - list[c].raised ELSE 0
    BY <2>1, <2>2
  <2>4. q.raised = SumFunction(q.pledge)
    BY <1>5, <2>1 DEF Pooled
  <2>5. QED BY <1>8, <2>1, <2>3, <2>4
<1>10. ASSUME NEW c \in DOMAIN campaigns, NEW p \in Backers, NEW amt \in Nat, Pledged(c, p, amt)
       PROVE  PledgesInv'
  <2> DEFINE was    == list[c]
             topped == [was.pledge EXCEPT ![p] = was.pledge[p] + amt]
             more   == was.raised + amt
             q      == [was EXCEPT !.pledge = topped, !.raised = more]
  <2>1. /\ c \in DOMAIN list /\ campaigns' = [list EXCEPT ![c] = q]
        /\ \A h \in Holder, u \in Tokens :
                d[h][u] = b[h][u] + Change(h, u, p, Shade, was.token, amt)
    BY <1>2, <1>3, <1>4, <1>10 DEF Pledged
  <2>2. was \in BackerCampaign
    BY <1>5, <2>1
  <2>3. was.pledge \in [Backers -> Nat] /\ was.raised \in Nat /\ was.token \in Tokens
    BY <2>2 DEF BackerCampaign
  <2>4. topped \in [Backers -> Nat] /\ more \in Nat /\ SumFunction(topped) = SumFunction(was.pledge) + amt
    BY <2>3, PledgeSum
  <2>5. was.raised = SumFunction(was.pledge)
    BY <1>5, <2>1 DEF Pooled
  <2>6. more = SumFunction(topped)
    BY <2>4, <2>5
  <2> HIDE DEF was, topped
  <2>7. more - was.raised = amt
    BY <2>3
  <2> HIDE DEF more
  <2>8. /\ q \in BackerCampaign /\ q.token = was.token /\ q.raised = more /\ q.pledge = topped
    BY <2>2, <2>4 DEF BackerCampaign
  <2> HIDE DEF q
  <2>9. p # Shade
    BY BackerRewardsAssumption
  <2>10. ASSUME NEW t \in Tokens
         PROVE  d[Shade][t] - b[Shade][t] = IF t = q.token THEN q.raised - was.raised ELSE 0
    <3>1. d[Shade][t] = b[Shade][t] + (IF t = was.token THEN amt ELSE 0)
      BY <1>1, <2>1, <2>9 DEF Change
    <3>2. b[Shade][t] \in Nat
      BY <1>1, <1>5 DEF Ledger
    <3>3. QED BY <2>7, <2>8, <3>1, <3>2
  <2>11. QED BY <1>8, <2>1, <2>6, <2>8, <2>10 DEF was
<1>11. QED BY <1>7, <1>9, <1>10, CampaignsWrites

\* Shade holds what its campaigns raised, and a campaign has raised what its backers'
\* records add up to (pledge_to_campaign), for every number of campaigns and backers, and
\* whatever every other entry point moves.
THEOREM PledgesHeldHolds ==
  ASSUME ShadeOnlyHolds
  PROVE  ShadeSpec => []PledgesHeld
<1> DEFINE Inv == ShadeInv /\ PledgesInv
<1>1. ShadeInit => Inv
  <2> SUFFICES ASSUME ShadeInit PROVE Inv
    OBVIOUS
  <2>1. campaigns = << >> /\ bank = Funds
    BY DEF ShadeInit, BackerRewardsInit, Init, MerchantsInit, AccountInit
  <2>2. ASSUME NEW t \in Tokens
        PROVE  bank[Shade][t] - Funds[Shade][t] = SumFunction(RaisedIn(campaigns, t))
    <3>1. DOMAIN RaisedIn(campaigns, t) = {}
      BY <2>1 DEF RaisedIn
    <3>2. SumFunction(RaisedIn(campaigns, t)) = 0
      BY <3>1, SumEmpty DEF SumFunction
    <3>3. Funds[Shade][t] \in Nat
      BY MerchantsAssumption, AccountAssumption
    <3>4. QED BY <2>1, <3>2, <3>3
  <2>3. PledgesInv
    BY <2>1, <2>2 DEF PledgesInv, Raised, Pooled
  <2>4. QED BY <2>3, ShadeInvInit
<1>2. Inv /\ [ShadeNext]_shadeVars => Inv'
  <2> SUFFICES ASSUME Inv, [ShadeNext]_shadeVars PROVE Inv'
    OBVIOUS
  <2>1. TypesInv /\ EventsInv /\ InvoicesInv /\ SubsInv /\ CampaignsInv
    BY DEF ShadeInv, InvoicesInv, HoldersInv
  <2>2. Registered(events) /\ Registered(plans)
    BY DEF ShadeInv
  <2>3. /\ Shade \in Holder \ (Payers \cup Account)
        /\ Shade \in Holder \ Buyers /\ Shade \in Holder \ Customers
        /\ Shade \notin Payees \cup Routes \cup Treasury
        /\ Shade \notin Seller \cup Routes \cup Treasury
    BY MerchantsAssumption DEF ShadeOnlyHolds, Treasury
  <2>4. ASSUME UNCHANGED campaigns, Left(bank, bank', Shade) PROVE PledgesInv'
    BY <2>4 DEF PledgesInv, Raised, Pooled, Left
  <2>5. CASE BackerRewardsNext
    BY <2>1, <2>5, CampaignsHeld, ShadeInvStep
  <2>6. CASE UNCHANGED campaigns
    <3>1. ASSUME Next PROVE Left(bank, bank', Shade)
      BY <2>1, <2>3, <3>1, InvoicesAside
    <3>2. ASSUME EventsNext PROVE Left(bank, bank', Shade)
      BY <2>1, <2>2, <2>3, <3>2, EventsAside
    <3>3. ASSUME SubscriptionNext PROVE Left(bank, bank', Shade)
      BY <2>1, <2>2, <2>3, <3>3, SubscriptionAside
    <3>4. ASSUME bank' = bank PROVE Left(bank, bank', Shade)
      BY <3>4 DEF Left
    <3>5. ASSUME NftNext PROVE bank' = bank
      BY <3>5, NftMoves DEF BooksKept, merchantVars, accountVars
    <3>6. ASSUME UNCHANGED shadeVars PROVE bank' = bank
      BY <3>6 DEF shadeVars, merchantVars, accountVars
    <3>7. CASE BackerRewardsNext
      BY <2>1, <3>7, CampaignsHeld, ShadeInvStep
    <3>8. QED BY <2>4, <2>6, <3>1, <3>2, <3>3, <3>4, <3>5, <3>6, <3>7, ShadeInvStep DEF ShadeNext
  <2>7. QED BY <2>5, <2>6, StepOwners
<1>3. Inv => PledgesHeld
  BY DEF PledgesInv, Pooled, Raised, RaisedIn, PledgesHeld
<1>4. QED BY <1>1, <1>2, <1>3, PTL DEF ShadeSpec
-----------------------------------------------------------------------------
(* Fees and volumes. *)

\* Splitting a payment never costs the merchant more in fees than taking it at once, in
\* whatever state of the analytics and the fees (calculate_fee, record_merchant_payment).
THEOREM SplitNeverDearerHolds == ShadeSpec => []SplitNeverDearer
<1>1. ShadeInv => SplitNeverDearer
  <2> SUFFICES ASSUME ShadeInv, NEW m \in Seller, NEW t \in Tokens,
                      NEW x \in Instalments \cap Nat, NEW y \in Instalments \cap Nat
               PROVE  LET first == CalculateFee(stats, m, t, x)
                          after == RecordMerchantPayment(stats, m, t, x, first)
                      IN  first + CalculateFee(after, m, t, y) <= CalculateFee(stats, m, t, x + y)
    BY DEF SplitNeverDearer
  <2> DEFINE first  == CalculateFee(stats, m, t, x)
             after  == RecordMerchantPayment(stats, m, t, x, first)
             volume == stats.merchant[m][t].total_volume
  <2>1. TypesInv
    BY DEF ShadeInv, InvoicesInv
  <2>2. stats \in StatsType /\ fee[t] \in Nat
    BY <2>1, BooksOf DEF TypesInv, MerchantsTypeOK, PlatformTypeOK
  <2>3. volume \in Nat
    BY <2>2 DEF StatsType, Analysis
  <2>4. first \in Nat
    BY <2>1, <2>2, FeeFacts
  <2>5. after.merchant[m][t].total_volume = volume + x
    <3>1. PICK st : st = stats
      OBVIOUS
    <3> HIDE DEF first
    <3>2. RecordMerchantPayment(st, m, t, x, first).merchant[m][t].total_volume =
              st.merchant[m][t].total_volume + x
      BY <2>2, <2>4, <3>1, RecordFacts, SMTT(30)
    <3>3. QED BY <3>1, <3>2
  <2>6. first + FeeAt(fee[t], volume + x, y) <= FeeAt(fee[t], volume, x + y)
    BY <2>2, <2>3, SplitFeeNeverDearer DEF CalculateFee
  <2>7. CalculateFee(after, m, t, y) = FeeAt(fee[t], volume + x, y)
    BY <2>5 DEF CalculateFee
  <2>8. CalculateFee(stats, m, t, x + y) = FeeAt(fee[t], volume, x + y)
    BY DEF CalculateFee
  <2>9. QED BY <2>6, <2>7, <2>8
<1>2. QED BY ShadeInvHolds, <1>1, PTL

-----------------------------------------------------------------------------
(* Volumes.  A payment of any kind adds to a merchant's row of the analytics what *)
(* it adds to one record: to what was paid on an invoice, to the tickets, or to    *)
(* the charges of a subscription.                                                 *)

\* What entry i of a list of invoices has brought m in t; what all of them have.
PaidAt(list, i, m, t) ==
    IF i \in DOMAIN list /\ list[i].merchant = m /\ list[i].token = t
    THEN list[i].amount_paid ELSE 0

PaidIn(list, m, t) ==
    [i \in {j \in DOMAIN list : list[j].merchant = m /\ list[j].token = t} |->
        list[i].amount_paid]

\* From st and list to su and next, the rows grow by what the invoices do.
Matched(st, list, su, next) ==
    \A m \in Seller, t \in Tokens :
        su.merchant[m][t].total_volume =
            st.merchant[m][t].total_volume
            + (SumFunction(PaidIn(next, m, t)) - SumFunction(PaidIn(list, m, t)))

\* The total moves by what that entry's part does.
LEMMA PaidChange ==
  ASSUME NEW list, NEW next, NEW i, OnlyAt(list, next, i), NEW m, NEW t
  PROVE  /\ SumFunction(PaidIn(list, m, t)) \in Int
         /\ SumFunction(PaidIn(next, m, t)) \in Int
         /\ PaidAt(list, i, m, t) \in Int /\ PaidAt(next, i, m, t) \in Int
         /\ SumFunction(PaidIn(next, m, t)) = SumFunction(PaidIn(list, m, t))
                                            + (PaidAt(next, i, m, t) - PaidAt(list, i, m, t))
<1> DEFINE f == PaidIn(list, m, t)
           g == PaidIn(next, m, t)
<1>1. ASSUME NEW l, l \in Seq(InvoiceRecord)
      PROVE  /\ IsFiniteSet(DOMAIN PaidIn(l, m, t))
             /\ \A j \in DOMAIN PaidIn(l, m, t) : PaidIn(l, m, t)[j] \in Int
             /\ At(PaidIn(l, m, t), i) = PaidAt(l, i, m, t)
             /\ PaidAt(l, i, m, t) \in Int
  <2>1. IsFiniteSet(DOMAIN l)
    BY <1>1, FS_Interval
  <2>2. \A j \in DOMAIN l : l[j].amount_paid \in Nat
    <3>1. \A j \in DOMAIN l : l[j] \in InvoiceRecord
      BY <1>1
    <3> QED BY <3>1, Fields
  <2>3. DOMAIN PaidIn(l, m, t) \subseteq DOMAIN l
    BY DEF PaidIn
  <2> QED BY <2>1, <2>2, <2>3, FS_Subset DEF PaidIn, PaidAt, At
<1>2. list \in Seq(InvoiceRecord) /\ next \in Seq(InvoiceRecord)
  BY DEF OnlyAt
<1>3. (DOMAIN f) \ {i} = (DOMAIN g) \ {i} /\ \A j \in (DOMAIN f) \ {i} : f[j] = g[j]
  BY DEF PaidIn, OnlyAt
<1>4. /\ IsFiniteSet(DOMAIN f) /\ \A j \in DOMAIN f : f[j] \in Int
      /\ IsFiniteSet(DOMAIN g) /\ \A j \in DOMAIN g : g[j] \in Int
      /\ At(f, i) = PaidAt(list, i, m, t) /\ At(g, i) = PaidAt(next, i, m, t)
      /\ PaidAt(list, i, m, t) \in Int /\ PaidAt(next, i, m, t) \in Int
  BY <1>1, <1>2
<1> HIDE DEF f, g
<1>5. /\ SumFunction(f) \in Int /\ SumFunction(g) \in Int
      /\ SumFunction(g) = SumFunction(f) + (At(g, i) - At(f, i))
  BY <1>3, <1>4, SumAtOne
<1> QED BY <1>4, <1>5 DEF f, g

\* Nothing more is paid, and nothing is recorded.
LEMMA MatchedKept ==
  ASSUME NEW st \in StatsType, NEW list, NEW next, NEW i, OnlyAt(list, next, i),
         \A m \in Seller, t \in Tokens : PaidAt(next, i, m, t) = PaidAt(list, i, m, t)
  PROVE  Matched(st, list, st, next)
<1> SUFFICES ASSUME NEW m \in Seller, NEW t \in Tokens
             PROVE  st.merchant[m][t].total_volume = st.merchant[m][t].total_volume
                    + (SumFunction(PaidIn(next, m, t)) - SumFunction(PaidIn(list, m, t)))
  BY DEF Matched
<1>1. st.merchant[m][t] \in Analysis
  BY DEF StatsType
<1>2. st.merchant[m][t].total_volume \in Nat
  BY <1>1 DEF Analysis
<1> QED BY <1>2, PaidChange

\* Two steps, one after the other.
LEMMA MatchedTwice ==
  ASSUME NEW st \in StatsType, NEW su \in StatsType, NEW sv,
         NEW list \in Seq(InvoiceRecord), NEW next \in Seq(InvoiceRecord),
         NEW last \in Seq(InvoiceRecord),
         Matched(st, list, su, next), Matched(su, next, sv, last)
  PROVE  Matched(st, list, sv, last)
<1> SUFFICES ASSUME NEW m \in Seller, NEW t \in Tokens
             PROVE  sv.merchant[m][t].total_volume = st.merchant[m][t].total_volume
                    + (SumFunction(PaidIn(last, m, t)) - SumFunction(PaidIn(list, m, t)))
  BY DEF Matched
<1>1. st.merchant[m][t] \in Analysis
  BY DEF StatsType
<1>2. st.merchant[m][t].total_volume \in Nat
  BY <1>1 DEF Analysis
<1>3. \A l \in Seq(InvoiceRecord) : SumFunction(PaidIn(l, m, t)) \in Int
  <2> TAKE l \in Seq(InvoiceRecord)
  <2>1. PICK k : k = l
    OBVIOUS
  <2>2. OnlyAt(l, k, 0)
    BY <2>1 DEF OnlyAt
  <2> QED BY <2>2, PaidChange
<1>4. PICK a \in Int, b \in Int, c \in Int : /\ a = SumFunction(PaidIn(list, m, t))
                                             /\ b = SumFunction(PaidIn(next, m, t))
                                             /\ c = SumFunction(PaidIn(last, m, t))
  BY <1>3
<1>5. su.merchant[m][t].total_volume = st.merchant[m][t].total_volume + (b - a)
  BY <1>4 DEF Matched
<1>6. sv.merchant[m][t].total_volume = su.merchant[m][t].total_volume + (c - b)
  BY <1>4 DEF Matched
<1>7. PICK x \in Nat, y \in Int : /\ x = st.merchant[m][t].total_volume
                                  /\ y = su.merchant[m][t].total_volume
                                  /\ y = x + (b - a)
  BY <1>2, <1>4, <1>5
<1>8. PICK z \in Int : z = sv.merchant[m][t].total_volume /\ z = y + (c - b)
  BY <1>4, <1>6, <1>7
<1>9. z = x + (c - a)
  BY <1>7, <1>8
<1> QED BY <1>4, <1>7, <1>8, <1>9

\* What a payment of x to merchant m in t is for row n in u.
Part(n, u, m, t, x) == IF n = m /\ u = t THEN x ELSE 0

\* The rows before and after a payment.
LEMMA RowsRecorded ==
  ASSUME NEW st \in StatsType, NEW m \in Seller, NEW t \in Tokens, NEW amt \in Nat,
         NEW charged \in Nat, NEW su, su = RecordMerchantPayment(st, m, t, amt, charged),
         NEW n \in Seller, NEW u \in Tokens
  PROVE  /\ su \in StatsType
         /\ st.merchant[n][u].total_volume \in Nat /\ st.merchant[n][u].total_fees \in Int
         /\ su.merchant[n][u].total_volume =
                st.merchant[n][u].total_volume + Part(n, u, m, t, amt)
         /\ su.merchant[n][u].total_fees =
                st.merchant[n][u].total_fees + Part(n, u, m, t, charged)
<1>1. st.merchant[n][u] \in Analysis
  BY DEF StatsType
<1>2. charged \in Int
  OBVIOUS
<1> DEFINE r == RecordMerchantPayment(st, m, t, amt, charged)
<1>3. r \in StatsType
  BY <1>2, RecordFacts
<1>4. CASE n = m /\ u = t
  <2>1. /\ r.merchant[n][u].total_volume = st.merchant[n][u].total_volume + amt
        /\ r.merchant[n][u].total_fees = st.merchant[n][u].total_fees + charged
    BY <1>2, <1>4, RecordFacts
  <2> HIDE DEF r
  <2>2. su = r
    BY DEF r
  <2> QED BY <1>1, <1>3, <1>4, <2>1, <2>2 DEF Analysis, Part
<1>5. CASE ~(n = m /\ u = t)
  <2>1. /\ r.merchant[n][u].total_volume = st.merchant[n][u].total_volume + 0
        /\ r.merchant[n][u].total_fees = st.merchant[n][u].total_fees + 0
    BY <1>2, <1>5, RecordFacts, SMTT(30)
  <2> HIDE DEF r
  <2>2. su = r
    BY DEF r
  <2> QED BY <1>1, <1>3, <1>5, <2>1, <2>2 DEF Analysis, Part
<1> QED BY <1>4, <1>5

\* A payment of an invoice is recorded once, under its merchant and token.
LEMMA PaidMatched ==
  ASSUME NEW w, WorldType(w), NEW v, WorldType(v),
         NEW i \in DOMAIN w.invoices, NEW p \in Payers, NEW amt, NEW charged,
         PaidOne(w, v, i, p, amt, charged)
  PROVE  Matched(w.stats, w.invoices, v.stats, v.invoices)
<1> DEFINE st == w.stats  su == v.stats  list == w.invoices  next == v.invoices
           q == list[i]  r == next[i]  t == q.token  m == q.merchant
<1>1. /\ st \in StatsType
      /\ list \in Seq(InvoiceRecord) /\ next \in Seq(InvoiceRecord)
      /\ DOMAIN next = DOMAIN list
      /\ q \in InvoiceRecord
  BY DEF WorldType, AllSound, PaidOne, Follows, Sound
<1>2. /\ amt \in Nat /\ charged \in Nat
      /\ \A j \in (DOMAIN list) \ {i} : next[j] = list[j]
      /\ r.token = t /\ r.merchant = m
      /\ r.amount_paid = q.amount_paid + amt
      /\ su = RecordMerchantPayment(st, m, t, amt, charged)
  BY DEF PaidOne
<1>3. q.amount_paid \in Nat /\ t \in Tokens /\ m \in Seller
  <2> HIDE DEF q
  <2> QED BY <1>1, Fields
<1>4. OnlyAt(list, next, i)
  BY <1>1, <1>2 DEF OnlyAt
<1>5. i \in DOMAIN list /\ i \in DOMAIN next
  BY <1>1
<1>6. ASSUME NEW n \in Seller, NEW u \in Tokens
      PROVE  PaidAt(next, i, n, u) - PaidAt(list, i, n, u) = Part(n, u, m, t, amt)
  BY <1>2, <1>3, <1>5 DEF PaidAt, Part
<1> HIDE DEF st, su, list, next, m, t
<1>7. ASSUME NEW n \in Seller, NEW u \in Tokens
      PROVE  su.merchant[n][u].total_volume = st.merchant[n][u].total_volume
                + (SumFunction(PaidIn(next, n, u)) - SumFunction(PaidIn(list, n, u)))
  <2>1. su.merchant[n][u].total_volume =
            st.merchant[n][u].total_volume + Part(n, u, m, t, amt)
    <3>1. /\ st \in StatsType /\ m \in Seller /\ t \in Tokens /\ amt \in Nat /\ charged \in Nat
          /\ su = RecordMerchantPayment(st, m, t, amt, charged)
      BY <1>1, <1>2, <1>3
    <3> HIDE <1>1, <1>2, <1>3
    <3> QED BY <3>1, RowsRecorded
  <2>2. PICK a \in Int, b \in Int, x \in Int, y \in Int :
            /\ a = SumFunction(PaidIn(list, n, u)) /\ b = SumFunction(PaidIn(next, n, u))
            /\ x = PaidAt(list, i, n, u) /\ y = PaidAt(next, i, n, u)
            /\ b = a + (y - x)
    BY <1>4, PaidChange
  <2>3. b - a = y - x
    BY <2>2
  <2> QED BY <1>6, <2>1, <2>2, <2>3
<1>8. Matched(st, list, su, next)
  BY <1>7 DEF Matched
<1> QED BY <1>8 DEF st, su, list, next

\* The steps of the invoices record what they pay.
LEMMA InvoicesMatched ==
  ASSUME InvoicesInv, InvoiceNext
  PROVE  Matched(stats, invoices, stats', invoices')
<1>1. TypesInv /\ invoices \in Seq(InvoiceRecord) /\ stats \in StatsType
  BY BooksOf DEF InvoicesInv, AllSound
<1>2. ASSUME NEW q, CreatedOne(q)
      PROVE  Matched(stats, invoices, stats', invoices')
  <2> DEFINE i == Len(invoices) + 1
  <2>1. PICK next : next = Append(invoices, q)
    OBVIOUS
  <2>2. q \in InvoiceRecord /\ q.amount_paid = 0
    BY <1>2 DEF CreatedOne, Sound
  <2>3. /\ next \in Seq(InvoiceRecord) /\ i \notin DOMAIN invoices /\ next[i] = q
        /\ (DOMAIN invoices) \ {i} = (DOMAIN next) \ {i}
        /\ \A j \in (DOMAIN invoices) \ {i} : next[j] = invoices[j]
    BY <1>1, <2>1, <2>2
  <2> HIDE DEF i
  <2>4. OnlyAt(invoices, next, i)
    BY <1>1, <2>3 DEF OnlyAt
  <2>5. \A m \in Seller, t \in Tokens : PaidAt(next, i, m, t) = PaidAt(invoices, i, m, t)
    BY <2>2, <2>3 DEF PaidAt
  <2>6. stats' = stats /\ invoices' = next
    BY <1>2, <2>1 DEF CreatedOne, platformVars
  <2>7. Matched(stats, invoices, stats, next)
    BY <1>1, <2>4, <2>5, MatchedKept
  <2> QED BY <2>6, <2>7
<1>3. ASSUME NEW i \in DOMAIN invoices, NEW r, r \in InvoiceRecord,
             r.token = invoices[i].token, r.merchant = invoices[i].merchant,
             r.amount_paid = invoices[i].amount_paid,
             invoices' = [invoices EXCEPT ![i] = r], stats' = stats
      PROVE  Matched(stats, invoices, stats', invoices')
  <2>1. PICK next : next = [invoices EXCEPT ![i] = r]
    OBVIOUS
  <2>2. /\ next \in Seq(InvoiceRecord) /\ DOMAIN next = DOMAIN invoices /\ next[i] = r
        /\ \A j \in (DOMAIN invoices) \ {i} : next[j] = invoices[j]
    BY <1>1, <1>3, <2>1
  <2>3. OnlyAt(invoices, next, i)
    BY <1>1, <2>2 DEF OnlyAt
  <2>4. \A m \in Seller, t \in Tokens : PaidAt(next, i, m, t) = PaidAt(invoices, i, m, t)
    BY <1>3, <2>2 DEF PaidAt
  <2> QED BY <1>1, <1>3, <2>1, <2>3, <2>4, MatchedKept
<1>4. ASSUME NEW i \in DOMAIN invoices, NEW r, RevisedOne(i, r)
      PROVE  Matched(stats, invoices, stats', invoices')
  BY <1>3, <1>4 DEF RevisedOne, platformVars
<1>5. ASSUME NEW p \in Payers, NEW v, PaidSome(p, v)
      PROVE  Matched(stats, invoices, stats', invoices')
  <2>1. /\ WorldType(v) /\ stats' = v.stats /\ invoices' = v.invoices
    BY <1>5 DEF PaidSome, Install
  <2>2. PICK w : w = World
    OBVIOUS
  <2>3. WorldType(w) /\ w.stats = stats /\ w.invoices = invoices
    BY <2>2 DEF InvoicesInv, TypesInv, MerchantsTypeOK, PlatformTypeOK, AccountTypeOK, World,
                WorldType, Ledger, StatsType
  <2>4. CASE \E i \in DOMAIN invoices, amt \in Int, charged \in Nat :
                PaidOne(w, v, i, p, amt, charged)
    <3>1. Matched(w.stats, w.invoices, v.stats, v.invoices)
      BY <2>1, <2>3, <2>4, PaidMatched
    <3> QED BY <2>1, <2>3, <3>1
  <2>5. CASE \E z : /\ WorldType(z)
                    /\ \E i \in DOMAIN invoices, amt \in Int, charged \in Nat :
                            PaidOne(w, z, i, p, amt, charged)
                    /\ \E i \in DOMAIN z.invoices, amt \in Int, charged \in Nat :
                            PaidOne(z, v, i, p, amt, charged)
    <3>1. PICK z : /\ WorldType(z)
                   /\ \E i \in DOMAIN invoices, amt \in Int, charged \in Nat :
                            PaidOne(w, z, i, p, amt, charged)
                   /\ \E i \in DOMAIN z.invoices, amt \in Int, charged \in Nat :
                            PaidOne(z, v, i, p, amt, charged)
      BY <2>5
    <3>2. Matched(w.stats, w.invoices, z.stats, z.invoices)
      BY <2>3, <3>1, PaidMatched
    <3>3. Matched(z.stats, z.invoices, v.stats, v.invoices)
      BY <2>1, <3>1, PaidMatched
    <3>4. /\ w.stats \in StatsType /\ z.stats \in StatsType
          /\ w.invoices \in Seq(InvoiceRecord) /\ z.invoices \in Seq(InvoiceRecord)
          /\ v.invoices \in Seq(InvoiceRecord)
      BY <2>1, <2>3, <3>1 DEF WorldType, AllSound
    <3>5. Matched(w.stats, w.invoices, v.stats, v.invoices)
      BY <3>2, <3>3, <3>4, MatchedTwice
    <3> QED BY <2>1, <2>3, <3>5
  <2> QED BY <1>5, <2>2, <2>4, <2>5 DEF PaidSome
<1>6. ASSUME NEW i \in DOMAIN invoices, NEW r, NEW amt, RefundedOne(i, r, amt)
      PROVE  Matched(stats, invoices, stats', invoices')
  BY <1>3, <1>6 DEF RefundedOne, platformVars
<1> QED BY <1>2, <1>4, <1>5, <1>6, InvoiceMoves DEF InvoicesInv

\* What ticket i has brought m in t; what all tickets have.
SoldFor(ev, ts, i, m, t) ==
    IF i \in DOMAIN ts /\ ev[ts[i].event_id].merchant = m /\ ev[ts[i].event_id].token = t
    THEN ts[i].purchase_price ELSE 0

SoldIn(ev, ts, m, t) ==
    [i \in {j \in DOMAIN ts : /\ ev[ts[j].event_id].merchant = m
                              /\ ev[ts[j].event_id].token = t} |-> ts[i].purchase_price]

\* Two lists of tickets of events on the same terms, but for ticket i, which the first may
\* not have.
OnlyTicket(ev, ts, nx, us, i) ==
    /\ ts \in Seq(Ticket) /\ us \in Seq(Ticket)
    /\ (DOMAIN ts) \ {i} = (DOMAIN us) \ {i}
    /\ \A j \in (DOMAIN ts) \ {i} :
        /\ us[j].purchase_price = ts[j].purchase_price
        /\ nx[us[j].event_id].merchant = ev[ts[j].event_id].merchant
        /\ nx[us[j].event_id].token = ev[ts[j].event_id].token

\* The total moves by what that ticket brings.
LEMMA SoldChange ==
  ASSUME NEW ev, NEW ts, NEW nx, NEW us, NEW i, OnlyTicket(ev, ts, nx, us, i), NEW m, NEW t
  PROVE  /\ SumFunction(SoldIn(ev, ts, m, t)) \in Int
         /\ SumFunction(SoldIn(nx, us, m, t)) \in Int
         /\ SoldFor(ev, ts, i, m, t) \in Int /\ SoldFor(nx, us, i, m, t) \in Int
         /\ SumFunction(SoldIn(nx, us, m, t)) =
                SumFunction(SoldIn(ev, ts, m, t))
                + (SoldFor(nx, us, i, m, t) - SoldFor(ev, ts, i, m, t))
<1> DEFINE f == SoldIn(ev, ts, m, t)
           g == SoldIn(nx, us, m, t)
<1>1. ASSUME NEW e, NEW l, l \in Seq(Ticket)
      PROVE  /\ IsFiniteSet(DOMAIN SoldIn(e, l, m, t))
             /\ \A j \in DOMAIN SoldIn(e, l, m, t) : SoldIn(e, l, m, t)[j] \in Int
             /\ At(SoldIn(e, l, m, t), i) = SoldFor(e, l, i, m, t)
             /\ SoldFor(e, l, i, m, t) \in Int
  <2>1. IsFiniteSet(DOMAIN l)
    BY <1>1, FS_Interval
  <2>2. \A j \in DOMAIN l : l[j].purchase_price \in Nat
    <3>1. \A j \in DOMAIN l : l[j] \in Ticket
      BY <1>1
    <3> QED BY <3>1 DEF Ticket
  <2>3. DOMAIN SoldIn(e, l, m, t) \subseteq DOMAIN l
    BY DEF SoldIn
  <2> QED BY <2>1, <2>2, <2>3, FS_Subset DEF SoldIn, SoldFor, At
<1>2. ts \in Seq(Ticket) /\ us \in Seq(Ticket)
  BY DEF OnlyTicket
<1>3. (DOMAIN f) \ {i} = (DOMAIN g) \ {i} /\ \A j \in (DOMAIN f) \ {i} : f[j] = g[j]
  BY DEF SoldIn, OnlyTicket
<1>4. /\ IsFiniteSet(DOMAIN f) /\ \A j \in DOMAIN f : f[j] \in Int
      /\ IsFiniteSet(DOMAIN g) /\ \A j \in DOMAIN g : g[j] \in Int
      /\ At(f, i) = SoldFor(ev, ts, i, m, t) /\ At(g, i) = SoldFor(nx, us, i, m, t)
      /\ SoldFor(ev, ts, i, m, t) \in Int /\ SoldFor(nx, us, i, m, t) \in Int
  BY <1>1, <1>2
<1> HIDE DEF f, g
<1>5. /\ SumFunction(f) \in Int /\ SumFunction(g) \in Int
      /\ SumFunction(g) = SumFunction(f) + (At(g, i) - At(f, i))
  BY <1>3, <1>4, SumAtOne
<1> QED BY <1>4, <1>5 DEF f, g

\* From st, ev and ts to su, nx and us, the rows grow by what the tickets do.
TicketsMatched(st, ev, ts, su, nx, us) ==
    \A m \in Seller, t \in Tokens :
        /\ SumFunction(SoldIn(ev, ts, m, t)) \in Int
        /\ SumFunction(SoldIn(nx, us, m, t)) \in Int
        /\ su.merchant[m][t].total_volume =
                st.merchant[m][t].total_volume
                + (SumFunction(SoldIn(nx, us, m, t)) - SumFunction(SoldIn(ev, ts, m, t)))

\* Every ticket keeps its event and its price, and no payment is recorded.
LEMMA TicketsKept ==
  ASSUME NEW st \in StatsType, NEW ev, NEW ts, NEW nx, NEW us, NEW i,
         OnlyTicket(ev, ts, nx, us, i),
         \A m \in Seller, t \in Tokens :
            SoldFor(nx, us, i, m, t) = SoldFor(ev, ts, i, m, t)
  PROVE  TicketsMatched(st, ev, ts, st, nx, us)
<1> SUFFICES ASSUME NEW m \in Seller, NEW t \in Tokens
             PROVE  /\ SumFunction(SoldIn(ev, ts, m, t)) \in Int
                    /\ SumFunction(SoldIn(nx, us, m, t)) \in Int
                    /\ st.merchant[m][t].total_volume = st.merchant[m][t].total_volume
                         + (SumFunction(SoldIn(nx, us, m, t)) - SumFunction(SoldIn(ev, ts, m, t)))
  BY DEF TicketsMatched
<1>1. st.merchant[m][t] \in Analysis
  BY DEF StatsType
<1>2. st.merchant[m][t].total_volume \in Nat
  BY <1>1 DEF Analysis
<1> QED BY <1>2, SoldChange

\* A ticket sold is recorded once, under its event's merchant and token.
LEMMA TicketMatched ==
  ASSUME NEW st \in StatsType, NEW m \in Seller, NEW t \in Tokens, NEW amt \in Nat,
         NEW charged \in Nat, NEW su, su = RecordMerchantPayment(st, m, t, amt, charged),
         NEW ev, NEW ts, NEW nx, NEW us, NEW i, OnlyTicket(ev, ts, nx, us, i),
         i \notin DOMAIN ts, i \in DOMAIN us, us[i].purchase_price = amt,
         nx[us[i].event_id].merchant = m, nx[us[i].event_id].token = t
  PROVE  TicketsMatched(st, ev, ts, su, nx, us)
<1> SUFFICES ASSUME NEW n \in Seller, NEW u \in Tokens
             PROVE  /\ SumFunction(SoldIn(ev, ts, n, u)) \in Int
                    /\ SumFunction(SoldIn(nx, us, n, u)) \in Int
                    /\ su.merchant[n][u].total_volume = st.merchant[n][u].total_volume
                         + (SumFunction(SoldIn(nx, us, n, u)) - SumFunction(SoldIn(ev, ts, n, u)))
  BY DEF TicketsMatched
<1>1. su.merchant[n][u].total_volume =
            st.merchant[n][u].total_volume + Part(n, u, m, t, amt)
  BY RowsRecorded, SMTT(30)
<1>2. PICK a \in Int, b \in Int, x \in Int, y \in Int :
            /\ a = SumFunction(SoldIn(ev, ts, n, u)) /\ b = SumFunction(SoldIn(nx, us, n, u))
            /\ x = SoldFor(ev, ts, i, n, u) /\ y = SoldFor(nx, us, i, n, u)
            /\ b = a + (y - x)
  BY SoldChange
<1>3. x = 0 /\ y = Part(n, u, m, t, amt)
  BY <1>2 DEF SoldFor, Part
<1>4. b - a = y
  BY <1>2, <1>3
<1> QED BY <1>1, <1>2, <1>3, <1>4

\* The steps of the events record every ticket they sell through the platform.
LEMMA EventsMatched ==
  ASSUME TypesInv, EventsInv, Registered(events), EventsNext
  PROVE  TicketsMatched(stats, events, tickets, stats', events', tickets')
<1>1. stats \in StatsType /\ tickets \in Seq(Ticket) /\ events \in Seq(Event)
  BY BooksOf DEF EventsInv, EventsTyped
<1>2. \A i \in DOMAIN tickets :
            /\ events'[tickets[i].event_id].merchant = events[tickets[i].event_id].merchant
            /\ events'[tickets[i].event_id].token = events[tickets[i].event_id].token
  BY EventTerms DEF EventTermsStay, EventsInv, EventsTyped
<1>3. PICK nx : nx = events'
  OBVIOUS
<1>4. ASSUME NEW us, us \in Seq(Ticket), DOMAIN us = DOMAIN tickets,
             \A i \in DOMAIN tickets : /\ us[i].event_id = tickets[i].event_id
                                       /\ us[i].purchase_price = tickets[i].purchase_price
      PROVE  TicketsMatched(stats, events, tickets, stats, nx, us)
  <2>1. OnlyTicket(events, tickets, nx, us, 0)
    BY <1>1, <1>2, <1>3, <1>4 DEF OnlyTicket
  <2>2. \A m \in Seller, t \in Tokens :
            SoldFor(nx, us, 0, m, t) = SoldFor(events, tickets, 0, m, t)
    <3>1. 0 \notin DOMAIN tickets
      BY <1>1
    <3> QED BY <1>4, <3>1 DEF SoldFor
  <2> QED BY <1>1, <2>1, <2>2, TicketsKept
<1>5. ASSUME UNCHANGED <<stats, tickets>>
      PROVE  TicketsMatched(stats, events, tickets, stats', events', tickets')
  <2>1. TicketsMatched(stats, events, tickets, stats, nx, tickets)
    BY <1>1, <1>4
  <2> QED BY <1>3, <1>5, <2>1
<1>6. CASE BooksKept /\ UNCHANGED <<tickets, offBooks>>
  BY <1>5, <1>6 DEF BooksKept, platformVars
<1>7. ASSUME NEW e \in DOMAIN events, NEW p \in Buyers, NEW amt \in Nat, NEW charged \in Nat,
             TicketSold(e, p, amt, charged)
      PROVE  TicketsMatched(stats, events, tickets, stats', events', tickets')
  <2> DEFINE m == events[e].merchant  t == events[e].token  i == Len(tickets) + 1
             new == [event_id |-> e, owner |-> p, purchase_price |-> amt]
  <2>1. PICK us : us = Append(tickets, new)
    OBVIOUS
  <2>2. PICK su : su = stats'
    OBVIOUS
  <2>3. /\ tickets' = us
        /\ su = RecordMerchantPayment(stats, m, t, amt, charged)
    BY <1>7, <2>1, <2>2 DEF TicketSold, SoldOne
  <2>4. events[e] \in Event /\ e \in Nat
    BY <1>1
  <2>5. m \in Seller /\ t \in Tokens
    BY <2>4 DEF Event
  <2>6. /\ new \in Ticket /\ new.event_id = e /\ new.purchase_price = amt
    BY <2>4 DEF Ticket
  <2> HIDE DEF new
  <2>7. /\ us \in Seq(Ticket) /\ i \notin DOMAIN tickets /\ i \in DOMAIN us /\ us[i] = new
        /\ (DOMAIN tickets) \ {i} = (DOMAIN us) \ {i}
        /\ \A j \in (DOMAIN tickets) \ {i} : us[j] = tickets[j]
    BY <1>1, <2>1, <2>6
  <2>8. nx[e].merchant = m /\ nx[e].token = t
    BY <1>3, EventTerms DEF EventTermsStay
  <2> HIDE DEF i, m, t
  <2>9. OnlyTicket(events, tickets, nx, us, i)
    BY <1>1, <1>2, <1>3, <2>7 DEF OnlyTicket
  <2>10. us[i].purchase_price = amt /\ nx[us[i].event_id].merchant = m
         /\ nx[us[i].event_id].token = t
    BY <2>6, <2>7, <2>8
  <2>11. TicketsMatched(stats, events, tickets, su, nx, us)
    BY <1>1, <2>3, <2>5, <2>7, <2>9, <2>10, TicketMatched
  <2> QED BY <1>3, <2>2, <2>3, <2>11
<1>8. ASSUME NEW p \in Buyers, NEW to \in Routes, NEW t \in Tokens, NEW paid \in Nat,
             BulkSold(p, to, t, paid)
      PROVE  UNCHANGED <<stats, tickets>>
  BY <1>8 DEF BulkSold
<1>9. ASSUME NEW i \in DOMAIN tickets, NEW p \in Buyers, NEW net \in Nat, NEW royalty \in Nat,
             TicketResold(i, p, net, royalty)
      PROVE  TicketsMatched(stats, events, tickets, stats', events', tickets')
  <2> DEFINE was == tickets[i]
             r == [was EXCEPT !.owner = p]
  <2>1. was \in Ticket
    BY <1>1
  <2>2. /\ r \in Ticket
        /\ r.event_id = was.event_id /\ r.purchase_price = was.purchase_price
    BY <2>1 DEF Ticket
  <2>3. PICK us : us = [tickets EXCEPT ![i] = r]
    OBVIOUS
  <2>4. tickets' = us /\ stats' = stats
    BY <1>9, <2>3 DEF TicketResold
  <2> HIDE DEF r
  <2>5. /\ us \in Seq(Ticket) /\ DOMAIN us = DOMAIN tickets
        /\ \A j \in DOMAIN tickets : us[j] = IF j = i THEN r ELSE tickets[j]
    BY <1>1, <2>2, <2>3
  <2>6. \A j \in DOMAIN tickets : /\ us[j].event_id = tickets[j].event_id
                                  /\ us[j].purchase_price = tickets[j].purchase_price
    BY <2>2, <2>5
  <2>7. TicketsMatched(stats, events, tickets, stats, nx, us)
    BY <1>4, <2>5, <2>6
  <2> QED BY <1>3, <2>4, <2>7
<1>10. ASSUME NEW e \in DOMAIN events, Refunding(e)
       PROVE  UNCHANGED <<stats, tickets>>
  BY <1>10 DEF Refunding
<1> QED BY <1>5, <1>6, <1>7, <1>8, <1>9, <1>10, EventsMoves

\* What the charges of subscription s have brought m in t; what those of all have.
DrawnFor(pl, ss, ch, s, m, t) ==
    IF s \in DOMAIN ss /\ pl[ss[s].plan_id].merchant = m /\ pl[ss[s].plan_id].token = t
    THEN Len(ch[s]) * pl[ss[s].plan_id].amount ELSE 0

DrawnIn(pl, ss, ch, m, t) ==
    [s \in {r \in DOMAIN ss : /\ pl[ss[r].plan_id].merchant = m
                              /\ pl[ss[r].plan_id].token = t} |->
        Len(ch[s]) * pl[ss[s].plan_id].amount]

\* Plans, subscriptions and charges that belong together.
Enrolled(pl, ss, ch) ==
    /\ pl \in Seq(SubscriptionPlan)
    /\ ss \in Seq(SubscriptionRecord)
    /\ ch \in Seq(Seq(Nat))
    /\ Len(ch) = Len(ss)
    /\ \A s \in DOMAIN ss : ss[s].plan_id \in DOMAIN pl

\* The plans keep their terms, and the subscriptions are the same but for s, which may be
\* new.
OnlyDrawn(pl, ss, ch, ql, rs, dh, s) ==
    /\ Enrolled(pl, ss, ch) /\ Enrolled(ql, rs, dh)
    /\ (DOMAIN ss) \ {s} = (DOMAIN rs) \ {s}
    /\ \A k \in DOMAIN pl : /\ ql[k].merchant = pl[k].merchant
                            /\ ql[k].token = pl[k].token
                            /\ ql[k].amount = pl[k].amount
    /\ \A r \in (DOMAIN ss) \ {s} : rs[r].plan_id = ss[r].plan_id /\ dh[r] = ch[r]

\* What was drawn is an integer.
LEMMA DrawnInt ==
  ASSUME NEW pl, NEW ss, NEW ch, Enrolled(pl, ss, ch), NEW s, NEW m, NEW t
  PROVE  /\ IsFiniteSet(DOMAIN DrawnIn(pl, ss, ch, m, t))
         /\ \A r \in DOMAIN DrawnIn(pl, ss, ch, m, t) : DrawnIn(pl, ss, ch, m, t)[r] \in Int
         /\ At(DrawnIn(pl, ss, ch, m, t), s) = DrawnFor(pl, ss, ch, s, m, t)
         /\ DrawnFor(pl, ss, ch, s, m, t) \in Int
<1>1. IsFiniteSet(DOMAIN ss)
  <2>1. ss \in Seq(SubscriptionRecord)
    BY DEF Enrolled
  <2>2. DOMAIN ss = 1 .. Len(ss) /\ 1 \in Int /\ Len(ss) \in Int
    BY ONLY <2>1
  <2>3. IsFiniteSet(1 .. Len(ss))
    BY ONLY <2>2, FS_Interval
  <2> QED BY ONLY <2>2, <2>3
<1>2. ASSUME NEW r \in DOMAIN ss PROVE Len(ch[r]) * pl[ss[r].plan_id].amount \in Int
  <2>1. r \in DOMAIN ch /\ ss[r].plan_id \in DOMAIN pl
    BY DEF Enrolled
  <2>2. ch[r] \in Seq(Nat) /\ pl[ss[r].plan_id] \in SubscriptionPlan
    BY <2>1 DEF Enrolled
  <2>3. PICK k \in Nat, a \in Nat : k = Len(ch[r]) /\ a = pl[ss[r].plan_id].amount
    BY <2>2 DEF SubscriptionPlan
  <2> QED BY <2>3
<1>3. DOMAIN DrawnIn(pl, ss, ch, m, t) \subseteq DOMAIN ss
  BY DEF DrawnIn
<1>4. IsFiniteSet(DOMAIN DrawnIn(pl, ss, ch, m, t))
  BY <1>1, <1>3, FS_Subset
<1>5. \A r \in DOMAIN DrawnIn(pl, ss, ch, m, t) : DrawnIn(pl, ss, ch, m, t)[r] \in Int
  BY <1>2 DEF DrawnIn
<1>6. At(DrawnIn(pl, ss, ch, m, t), s) = DrawnFor(pl, ss, ch, s, m, t)
  BY DEF DrawnIn, DrawnFor, At
<1>7. DrawnFor(pl, ss, ch, s, m, t) \in Int
  BY <1>2 DEF DrawnFor
<1> QED BY <1>4, <1>5, <1>6, <1>7

\* The total moves by what that subscription's charges bring.
LEMMA DrawnChange ==
  ASSUME NEW pl, NEW ss, NEW ch, NEW ql, NEW rs, NEW dh, NEW s,
         OnlyDrawn(pl, ss, ch, ql, rs, dh, s), NEW m, NEW t
  PROVE  /\ SumFunction(DrawnIn(pl, ss, ch, m, t)) \in Int
         /\ SumFunction(DrawnIn(ql, rs, dh, m, t)) \in Int
         /\ DrawnFor(pl, ss, ch, s, m, t) \in Int /\ DrawnFor(ql, rs, dh, s, m, t) \in Int
         /\ SumFunction(DrawnIn(ql, rs, dh, m, t)) =
                SumFunction(DrawnIn(pl, ss, ch, m, t))
                + (DrawnFor(ql, rs, dh, s, m, t) - DrawnFor(pl, ss, ch, s, m, t))
<1> DEFINE f == DrawnIn(pl, ss, ch, m, t)
           g == DrawnIn(ql, rs, dh, m, t)
<1>1. Enrolled(pl, ss, ch) /\ Enrolled(ql, rs, dh)
  BY DEF OnlyDrawn
<1>2. \A r \in (DOMAIN ss) \ {s} :
            /\ r \in DOMAIN rs
            /\ ql[rs[r].plan_id].merchant = pl[ss[r].plan_id].merchant
            /\ ql[rs[r].plan_id].token = pl[ss[r].plan_id].token
            /\ Len(dh[r]) * ql[rs[r].plan_id].amount = Len(ch[r]) * pl[ss[r].plan_id].amount
  BY DEF OnlyDrawn, Enrolled
<1>3. (DOMAIN ss) \ {s} = (DOMAIN rs) \ {s}
  BY DEF OnlyDrawn
<1>4. (DOMAIN f) \ {s} = (DOMAIN g) \ {s} /\ \A r \in (DOMAIN f) \ {s} : f[r] = g[r]
  BY <1>2, <1>3 DEF DrawnIn
<1>5. /\ IsFiniteSet(DOMAIN f) /\ \A r \in DOMAIN f : f[r] \in Int
      /\ At(f, s) = DrawnFor(pl, ss, ch, s, m, t)
      /\ DrawnFor(pl, ss, ch, s, m, t) \in Int
  BY <1>1, DrawnInt
<1>6. /\ IsFiniteSet(DOMAIN g) /\ \A r \in DOMAIN g : g[r] \in Int
      /\ At(g, s) = DrawnFor(ql, rs, dh, s, m, t)
      /\ DrawnFor(ql, rs, dh, s, m, t) \in Int
  BY <1>1, DrawnInt
<1> HIDE DEF f, g
<1>7. /\ SumFunction(f) \in Int /\ SumFunction(g) \in Int
      /\ SumFunction(g) = SumFunction(f) + (At(g, s) - At(f, s))
  BY <1>4, <1>5, <1>6, SumAtOne
<1> QED BY <1>5, <1>6, <1>7 DEF f, g

\* From st, pl, ss and ch to su, ql, rs and dh, the rows grow by what the charges do.
ChargesMatched(st, pl, ss, ch, su, ql, rs, dh) ==
    \A m \in Seller, t \in Tokens :
        /\ SumFunction(DrawnIn(pl, ss, ch, m, t)) \in Int
        /\ SumFunction(DrawnIn(ql, rs, dh, m, t)) \in Int
        /\ su.merchant[m][t].total_volume =
                st.merchant[m][t].total_volume
                + (SumFunction(DrawnIn(ql, rs, dh, m, t)) - SumFunction(DrawnIn(pl, ss, ch, m, t)))

\* Nothing more is drawn, and no payment is recorded.
LEMMA ChargesKept ==
  ASSUME NEW st \in StatsType, NEW pl, NEW ss, NEW ch, NEW ql, NEW rs, NEW dh, NEW s,
         OnlyDrawn(pl, ss, ch, ql, rs, dh, s),
         \A m \in Seller, t \in Tokens :
            DrawnFor(ql, rs, dh, s, m, t) = DrawnFor(pl, ss, ch, s, m, t)
  PROVE  ChargesMatched(st, pl, ss, ch, st, ql, rs, dh)
<1> SUFFICES ASSUME NEW m \in Seller, NEW t \in Tokens
             PROVE  /\ SumFunction(DrawnIn(pl, ss, ch, m, t)) \in Int
                    /\ SumFunction(DrawnIn(ql, rs, dh, m, t)) \in Int
                    /\ st.merchant[m][t].total_volume = st.merchant[m][t].total_volume
                         + (SumFunction(DrawnIn(ql, rs, dh, m, t))
                            - SumFunction(DrawnIn(pl, ss, ch, m, t)))
  BY DEF ChargesMatched
<1>1. st.merchant[m][t] \in Analysis
  BY DEF StatsType
<1>2. st.merchant[m][t].total_volume \in Nat
  BY <1>1 DEF Analysis
<1> QED BY <1>2, DrawnChange

\* What the charges of s brought grows by what a payment of amt to m in t is for each row.
DrawnMore(pl, ss, ch, ql, rs, dh, s, m, t, amt) ==
    \A n \in Seller, u \in Tokens :
        DrawnFor(ql, rs, dh, s, n, u) - DrawnFor(pl, ss, ch, s, n, u) = Part(n, u, m, t, amt)

\* A charge is recorded once, under its plan's merchant and token.
LEMMA ChargeMatched ==
  ASSUME NEW st \in StatsType, NEW m \in Seller, NEW t \in Tokens, NEW amt \in Nat,
         NEW charged \in Nat, NEW su, su = RecordMerchantPayment(st, m, t, amt, charged),
         NEW pl, NEW ss, NEW ch, NEW ql, NEW rs, NEW dh, NEW s,
         OnlyDrawn(pl, ss, ch, ql, rs, dh, s),
         DrawnMore(pl, ss, ch, ql, rs, dh, s, m, t, amt)
  PROVE  ChargesMatched(st, pl, ss, ch, su, ql, rs, dh)
<1> SUFFICES ASSUME NEW n \in Seller, NEW u \in Tokens
             PROVE  /\ SumFunction(DrawnIn(pl, ss, ch, n, u)) \in Int
                    /\ SumFunction(DrawnIn(ql, rs, dh, n, u)) \in Int
                    /\ su.merchant[n][u].total_volume = st.merchant[n][u].total_volume
                         + (SumFunction(DrawnIn(ql, rs, dh, n, u))
                            - SumFunction(DrawnIn(pl, ss, ch, n, u)))
  BY DEF ChargesMatched
<1>1. su.merchant[n][u].total_volume =
            st.merchant[n][u].total_volume + Part(n, u, m, t, amt)
  BY RowsRecorded, SMTT(30)
<1>2. PICK a \in Int, b \in Int, x \in Int, y \in Int :
            /\ a = SumFunction(DrawnIn(pl, ss, ch, n, u))
            /\ b = SumFunction(DrawnIn(ql, rs, dh, n, u))
            /\ x = DrawnFor(pl, ss, ch, s, n, u) /\ y = DrawnFor(ql, rs, dh, s, n, u)
            /\ b = a + (y - x)
  BY DrawnChange
<1>3. b - a = y - x
  BY <1>2
<1>4. y - x = Part(n, u, m, t, amt)
  BY <1>2 DEF DrawnMore
<1> QED BY <1>1, <1>2, <1>3, <1>4

\* The steps of the subscriptions record every charge they make.
LEMMA SubscriptionMatched ==
  ASSUME TypesInv, SubsInv, SubsInv', Registered(plans), SubscriptionNext
  PROVE  ChargesMatched(stats, plans, subs, charges, stats', plans', subs', charges')
<1>1. /\ stats \in StatsType
      /\ Enrolled(plans, subs, charges)
      /\ Enrolled(plans', subs', charges')
  BY BooksOf DEF SubsInv, SubsTyped, Enrolled
<1>2. PICK ql, rs, dh : ql = plans' /\ rs = subs' /\ dh = charges'
  OBVIOUS
<1>3. Enrolled(ql, rs, dh)
  BY <1>1, <1>2
<1>4. \A k \in DOMAIN plans : /\ ql[k].merchant = plans[k].merchant
                              /\ ql[k].token = plans[k].token
                              /\ ql[k].amount = plans[k].amount
  BY <1>2, PlanTerms DEF PlanTermsStay
<1>5. ASSUME stats' = stats, DOMAIN rs = DOMAIN subs, dh = charges,
             \A r \in DOMAIN subs : rs[r].plan_id = subs[r].plan_id
      PROVE  ChargesMatched(stats, plans, subs, charges, stats', plans', subs', charges')
  <2>1. OnlyDrawn(plans, subs, charges, ql, rs, dh, 0)
    BY <1>1, <1>3, <1>4, <1>5 DEF OnlyDrawn
  <2>2. 0 \notin DOMAIN subs
    BY <1>1 DEF Enrolled
  <2>3. \A m \in Seller, t \in Tokens :
            DrawnFor(ql, rs, dh, 0, m, t) = DrawnFor(plans, subs, charges, 0, m, t)
    BY <1>5, <2>2 DEF DrawnFor
  <2>4. ChargesMatched(stats, plans, subs, charges, stats, ql, rs, dh)
    BY <1>1, <2>1, <2>3, ChargesKept
  <2> QED BY <1>2, <1>5, <2>4
<1>6. ASSUME UNCHANGED <<stats, subs, charges>>
      PROVE  ChargesMatched(stats, plans, subs, charges, stats', plans', subs', charges')
  BY <1>2, <1>5, <1>6
<1>7. ASSUME NEW m \in Seller, NEW t \in Tokens, NEW amt \in PlanAmounts,
             NEW interval \in PlanIntervals, CreateSubscriptionPlan(m, t, amt, interval)
      PROVE  UNCHANGED <<stats, subs, charges>>
  BY <1>7 DEF CreateSubscriptionPlan, platformVars
<1>8. ASSUME NEW k \in DOMAIN plans, DeactivatePlan(k)
      PROVE  UNCHANGED <<stats, subs, charges>>
  BY <1>8 DEF DeactivatePlan, platformVars
<1>9. ASSUME NEW c \in Customers, NEW t \in Tokens, NEW amt \in Allowances,
             ApproveShade(c, t, amt)
      PROVE  UNCHANGED <<stats, subs, charges>>
  BY <1>9 DEF ApproveShade, platformVars
<1>10. ASSUME NEW k \in DOMAIN plans, NEW c \in Customers, Subscribe(c, k)
       PROVE  ChargesMatched(stats, plans, subs, charges, stats', plans', subs', charges')
  <2> DEFINE s == Len(subs) + 1
             new == [plan_id |-> k, customer |-> c, status |-> "Active", last_charged |-> None]
  <2>1. /\ rs = Append(subs, new) /\ dh = Append(charges, << >>)
        /\ stats' = stats /\ ql = plans
    BY <1>2, <1>10 DEF Subscribe, platformVars
  <2>2. new \in SubscriptionRecord /\ new.plan_id = k
    <3>1. k \in Nat
      BY <1>1 DEF Enrolled
    <3> QED BY <3>1 DEF SubscriptionRecord
  <2> HIDE DEF new
  <2>3. subs \in Seq(SubscriptionRecord) /\ charges \in Seq(Seq(Nat)) /\ Len(charges) = Len(subs)
    BY <1>1 DEF Enrolled
  <2>4. /\ DOMAIN rs = DOMAIN subs \cup {s} /\ s \notin DOMAIN subs
        /\ \A r \in DOMAIN subs : rs[r] = subs[r]
        /\ rs[s] = new
    BY <2>1, <2>2, <2>3
  <2>5. dh[s] = << >> /\ \A r \in DOMAIN subs : dh[r] = charges[r]
    BY <2>1, <2>3
  <2> HIDE DEF s
  <2>6. OnlyDrawn(plans, subs, charges, ql, rs, dh, s)
    BY <1>1, <1>3, <1>4, <2>4, <2>5 DEF OnlyDrawn
  <2>7. ASSUME NEW m \in Seller, NEW t \in Tokens
        PROVE  DrawnFor(ql, rs, dh, s, m, t) = DrawnFor(plans, subs, charges, s, m, t)
    <3>1. DrawnFor(plans, subs, charges, s, m, t) = 0
      BY <2>4 DEF DrawnFor
    <3>2. plans[k] \in SubscriptionPlan
      BY <1>1 DEF Enrolled
    <3>3. plans[k].amount \in Nat
      BY <3>2 DEF SubscriptionPlan
    <3>4. DrawnFor(ql, rs, dh, s, m, t) =
                IF plans[k].merchant = m /\ plans[k].token = t THEN 0 * plans[k].amount ELSE 0
      <4>1. s \in DOMAIN rs /\ rs[s].plan_id = k /\ ql = plans /\ Len(dh[s]) = 0
        BY <2>1, <2>2, <2>4, <2>5
      <4> QED BY <4>1 DEF DrawnFor
    <3> QED BY <3>1, <3>3, <3>4
  <2>8. ChargesMatched(stats, plans, subs, charges, stats, ql, rs, dh)
    BY <1>1, <2>6, <2>7, ChargesKept
  <2> QED BY <1>2, <2>1, <2>8
<1>11. ASSUME NEW s \in DOMAIN subs, CancelSubscription(s)
       PROVE  ChargesMatched(stats, plans, subs, charges, stats', plans', subs', charges')
  <2> DEFINE q == [subs[s] EXCEPT !.status = "Cancelled"]
  <2>1. rs = [subs EXCEPT ![s] = q] /\ dh = charges /\ stats' = stats
    BY <1>2, <1>11 DEF CancelSubscription, platformVars
  <2>2. subs[s] \in SubscriptionRecord
    BY <1>1 DEF Enrolled
  <2>3. q.plan_id = subs[s].plan_id
    BY <2>2 DEF SubscriptionRecord
  <2> HIDE DEF q
  <2>4. DOMAIN rs = DOMAIN subs /\ \A r \in DOMAIN subs : rs[r].plan_id = subs[r].plan_id
    BY <2>1, <2>3
  <2> QED BY <1>5, <2>1, <2>4
<1>12. ASSUME NEW s \in DOMAIN subs, ChargeSubscription(s)
       PROVE  ChargesMatched(stats, plans, subs, charges, stats', plans', subs', charges')
  <2> DEFINE plan == plans[subs[s].plan_id]
             m == plan.merchant  t == plan.token  amt == plan.amount
             q == [subs[s] EXCEPT !.last_charged = now]
             times == Append(charges[s], now)
  <2>1. PICK charged \in Nat : Charged(s, charged)
    BY <1>12, ChargeMove
  <2>2. PICK su : su = stats'
    OBVIOUS
  <2>3. /\ su = RecordMerchantPayment(stats, m, t, amt, charged)
        /\ dh = [charges EXCEPT ![s] = times] /\ rs = [subs EXCEPT ![s] = q] /\ ql = plans
    BY <1>2, <2>1, <2>2 DEF Charged, SoldOne
  <2>4. /\ subs[s] \in SubscriptionRecord /\ plan \in SubscriptionPlan
        /\ charges[s] \in Seq(Nat) /\ DOMAIN charges = DOMAIN subs /\ now \in Nat
    BY <1>1 DEF Enrolled, SubsInv, SubsTyped
  <2>5. q.plan_id = subs[s].plan_id
    BY <2>4 DEF SubscriptionRecord
  <2>6. Len(charges[s]) \in Nat /\ Len(times) = Len(charges[s]) + 1
    BY <2>4
  <2>7. m \in Seller /\ t \in Tokens /\ amt \in Nat
    <3> HIDE DEF plan
    <3> QED BY <2>4 DEF SubscriptionPlan
  <2> HIDE DEF q, times
  <2>8. /\ DOMAIN rs = DOMAIN subs
        /\ rs[s] = q /\ dh[s] = times
        /\ \A r \in (DOMAIN subs) \ {s} : rs[r] = subs[r] /\ dh[r] = charges[r]
    BY <2>3, <2>4
  <2>9. OnlyDrawn(plans, subs, charges, ql, rs, dh, s)
    BY <1>1, <1>3, <1>4, <2>8 DEF OnlyDrawn
  <2>10. ASSUME NEW n \in Seller, NEW u \in Tokens
         PROVE  DrawnFor(ql, rs, dh, s, n, u) - DrawnFor(plans, subs, charges, s, n, u) =
                    Part(n, u, m, t, amt)
    <3>1. PICK k \in Nat, a \in Nat : k = Len(charges[s]) /\ a = amt
      BY <2>6, <2>7
    <3>2. DrawnFor(plans, subs, charges, s, n, u) = IF m = n /\ t = u THEN k * a ELSE 0
      BY <3>1 DEF DrawnFor
    <3>3. DrawnFor(ql, rs, dh, s, n, u) = IF m = n /\ t = u THEN (k + 1) * a ELSE 0
      <4>1. s \in DOMAIN rs /\ rs[s].plan_id = subs[s].plan_id /\ ql = plans
            /\ Len(dh[s]) = k + 1
        BY <2>3, <2>5, <2>6, <2>8, <3>1
      <4> QED BY <4>1, <3>1 DEF DrawnFor
    <3>4. (k + 1) * a - k * a = a
      OBVIOUS
    <3>5. CASE m = n /\ t = u
      BY <3>1, <3>2, <3>3, <3>4, <3>5 DEF Part
    <3>6. CASE ~(m = n /\ t = u)
      <4>1. Part(n, u, m, t, amt) = 0
        BY <3>6 DEF Part
      <4> QED BY <3>2, <3>3, <3>6, <4>1
    <3> QED BY <3>5, <3>6
  <2> HIDE DEF m, t, amt
  <2>11. ChargesMatched(stats, plans, subs, charges, su, ql, rs, dh)
    <3>1. DrawnMore(plans, subs, charges, ql, rs, dh, s, m, t, amt)
      BY <2>10 DEF DrawnMore
    <3> QED BY <1>1, <2>3, <2>7, <2>9, <3>1, ChargeMatched
  <2> QED BY <1>2, <2>2, <2>11
<1> QED BY <1>6, <1>7, <1>8, <1>9, <1>10, <1>11, <1>12 DEF SubscriptionNext

\* The token rows are the sums of the merchants' rows.
Rows(st) ==
    \A t \in Tokens :
        /\ st.token[t].total_volume =
                SumFunction([m \in Seller |-> st.merchant[m][t].total_volume])
        /\ st.token[t].total_fees =
                SumFunction([m \in Seller |-> st.merchant[m][t].total_fees])

\* One merchant's number grows, and the sum by as much.
LEMMA OneRow ==
  ASSUME NEW f \in [Seller -> Int], NEW g \in [Seller -> Int], NEW m \in Seller, NEW d \in Int,
         g[m] = f[m] + d, \A n \in Seller \ {m} : g[n] = f[n]
  PROVE  SumFunction(f) \in Int /\ SumFunction(g) = SumFunction(f) + d
<1>1. IsFiniteSet(Seller)
  BY ShadeAssumption, MerchantsAssumption, FS_Subset
<1>2. /\ IsFiniteSet(DOMAIN f) /\ IsFiniteSet(DOMAIN g)
      /\ \A x \in DOMAIN f : f[x] \in Int
      /\ \A x \in DOMAIN g : g[x] \in Int
      /\ (DOMAIN f) \ {m} = (DOMAIN g) \ {m}
      /\ \A x \in (DOMAIN f) \ {m} : f[x] = g[x]
  BY <1>1
<1>3. /\ SumFunction(f) \in Int
      /\ SumFunction(g) = SumFunction(f) + (At(g, m) - At(f, m))
  BY <1>2, SumAtOne
<1>4. At(g, m) = f[m] + d /\ At(f, m) = f[m] /\ f[m] \in Int
  BY DEF At
<1> QED BY <1>3, <1>4

\* A payment adds to the token's row what it adds to the merchant's.
LEMMA RowsPaid ==
  ASSUME NEW st \in StatsType, Rows(st),
         NEW m \in Seller, NEW t \in Tokens, NEW amt \in Nat, NEW charged \in Nat,
         NEW su, su = RecordMerchantPayment(st, m, t, amt, charged)
  PROVE  Rows(su)
<1> SUFFICES ASSUME NEW u \in Tokens
             PROVE  /\ su.token[u].total_volume =
                          SumFunction([n \in Seller |-> su.merchant[n][u].total_volume])
                    /\ su.token[u].total_fees =
                          SumFunction([n \in Seller |-> su.merchant[n][u].total_fees])
  BY DEF Rows
<1> DEFINE v(s) == [n \in Seller |-> s.merchant[n][u].total_volume]
           f(s) == [n \in Seller |-> s.merchant[n][u].total_fees]
<1>1. \A n \in Seller :
        /\ st.merchant[n][u].total_volume \in Nat /\ st.merchant[n][u].total_fees \in Int
        /\ su.merchant[n][u].total_volume =
                st.merchant[n][u].total_volume + Part(n, u, m, t, amt)
        /\ su.merchant[n][u].total_fees =
                st.merchant[n][u].total_fees + Part(n, u, m, t, charged)
  BY RowsRecorded, SMTT(30)
<1>2. PICK d \in Int, e \in Int : d = Part(m, u, m, t, amt) /\ e = Part(m, u, m, t, charged)
  BY DEF Part
<1>3. \A n \in Seller : /\ Part(n, u, m, t, amt) = IF n = m THEN d ELSE 0
                        /\ Part(n, u, m, t, charged) = IF n = m THEN e ELSE 0
  BY <1>2 DEF Part
<1>4. /\ su.token[u].total_volume = st.token[u].total_volume + d
      /\ su.token[u].total_fees = st.token[u].total_fees + e
  <2>1. charged \in Int
    OBVIOUS
  <2>2. /\ su.token[u].total_volume = st.token[u].total_volume + (IF u = t THEN amt ELSE 0)
        /\ su.token[u].total_fees = st.token[u].total_fees + (IF u = t THEN charged ELSE 0)
    BY <2>1, RecordFacts, SMTT(30)
  <2> QED BY <1>2, <2>2 DEF Part
<1>5. \A n \in Seller : /\ v(st)[n] \in Int /\ f(st)[n] \in Int
                        /\ v(su)[n] = v(st)[n] + (IF n = m THEN d ELSE 0)
                        /\ f(su)[n] = f(st)[n] + (IF n = m THEN e ELSE 0)
  BY <1>1, <1>3
<1>6. /\ DOMAIN v(st) = Seller /\ DOMAIN f(st) = Seller
      /\ v(st) = [n \in Seller |-> v(st)[n]] /\ f(st) = [n \in Seller |-> f(st)[n]]
      /\ v(su) = [n \in Seller |-> v(su)[n]] /\ f(su) = [n \in Seller |-> f(su)[n]]
  OBVIOUS
<1>7. /\ st.token[u].total_volume = SumFunction(v(st))
      /\ st.token[u].total_fees = SumFunction(f(st))
  BY DEF Rows
<1> HIDE DEF v, f
<1>8. /\ v(st) \in [Seller -> Int] /\ f(st) \in [Seller -> Int]
      /\ v(su) \in [Seller -> Int] /\ f(su) \in [Seller -> Int]
  BY <1>5, <1>6
<1>9. v(su)[m] = v(st)[m] + d /\ \A n \in Seller \ {m} : v(su)[n] = v(st)[n]
  BY <1>5
<1>10. f(su)[m] = f(st)[m] + e /\ \A n \in Seller \ {m} : f(su)[n] = f(st)[n]
  BY <1>5
<1>11. SumFunction(v(su)) = SumFunction(v(st)) + d
  BY <1>8, <1>9, OneRow
<1>12. SumFunction(f(su)) = SumFunction(f(st)) + e
  BY <1>8, <1>10, OneRow
<1>13. /\ su.token[u].total_volume = SumFunction(v(su))
       /\ su.token[u].total_fees = SumFunction(f(su))
  BY <1>4, <1>7, <1>11, <1>12
<1> QED BY <1>13 DEF v, f

\* No step of the platform or of the merchants records a payment.
LEMMA StatsSettled ==
  ASSUME MerchantsNext
  PROVE  stats' = stats
<1>1. ASSUME PlatformNext PROVE stats' = stats
  <2>1. ASSUME NEW a, InitializePlatform(a) \/ AcceptAdminTransfer(a) \/ ProposeAdminTransfer(a)
        PROVE  stats' = stats
    BY <2>1 DEF InitializePlatform, AcceptAdminTransfer, ProposeAdminTransfer
  <2>2. ASSUME NEW status, SetPaused(status) PROVE stats' = stats
    BY <2>2 DEF SetPaused
  <2>3. ASSUME NEW t, \/ RemoveAcceptedToken(t) \/ AddAcceptedToken(t) \/ ExecuteFee(t)
                      \/ SetTokenOracle(t)
        PROVE  stats' = stats
    BY <2>3 DEF RemoveAcceptedToken, AddAcceptedToken, ExecuteFee, SetTokenOracle
  <2>4. ASSUME NEW t, NEW x, SetFee(t, x) \/ ProposeFee(t, x) \/ OraclePriceMoves(t, x)
        PROVE  stats' = stats
    BY <2>4 DEF SetFee, ProposeFee, OraclePriceMoves
  <2>5. ASSUME NEW p, SetPlatformAccount(p) PROVE stats' = stats
    BY <2>5 DEF SetPlatformAccount
  <2>6. ASSUME Tick PROVE stats' = stats
    BY <2>6 DEF Tick
  <2> QED BY <1>1, <2>1, <2>2, <2>3, <2>4, <2>5, <2>6 DEF PlatformNext
<1>2. ASSUME AccountStep PROVE stats' = stats
  BY <1>2 DEF AccountStep, platformVars
<1>3. ASSUME NEW m, NEW x, \/ RegisterMerchant(m) \/ SetMerchantStatus(m, x)
                           \/ SetMerchantKey(m, x) \/ SetMerchantAccount(m, x)
                           \/ SetMerchantAcceptedTokens(m, x)
                           \/ RemoveMerchantAcceptedToken(m, x)
                           \/ RestrictMerchantAccount(m, x)
      PROVE  stats' = stats
  BY <1>3 DEF RegisterMerchant, SetMerchantStatus, SetMerchantKey, SetMerchantAccount,
              SetMerchantAcceptedTokens, RemoveMerchantAcceptedToken, RestrictMerchantAccount,
              platformVars
<1> QED BY <1>1, <1>2, <1>3 DEF MerchantsNext

\* An invoice paid.
LEMMA InvoiceRows ==
  ASSUME NEW w, WorldType(w), Rows(w.stats), NEW v, NEW i \in DOMAIN w.invoices,
         NEW p \in Payers, NEW amt, NEW charged, PaidOne(w, v, i, p, amt, charged)
  PROVE  Rows(v.stats)
<1> DEFINE q == w.invoices[i]
<1>1. q \in InvoiceRecord /\ w.stats \in StatsType
  BY DEF WorldType, AllSound
<1>2. q.merchant \in Seller /\ q.token \in Tokens
  <2> HIDE DEF q
  <2> QED BY <1>1 DEF InvoiceRecord
<1>3. /\ amt \in Nat /\ charged \in Nat
      /\ v.stats = RecordMerchantPayment(w.stats, q.merchant, q.token, amt, charged)
  BY DEF PaidOne
<1> HIDE DEF q
<1> QED BY <1>1, <1>2, <1>3, RowsPaid

\* A ticket sold or a charge made.
LEMMA SoldRows ==
  ASSUME TypesInv, Rows(stats), NEW p, NEW m \in Seller, NEW t \in Tokens, NEW amt \in Nat,
         NEW charged \in Nat, SoldOne(p, m, t, amt, charged)
  PROVE  Rows(stats')
<1>1. PICK su : su = stats'
  OBVIOUS
<1>2. stats \in StatsType /\ su = RecordMerchantPayment(stats, m, t, amt, charged)
  BY <1>1, BooksOf DEF SoldOne
<1>3. Rows(su)
  BY <1>2, RowsPaid
<1> QED BY <1>1, <1>3

\* Steps that record no payment.
LEMMA StatsKept ==
  ASSUME TypesInv, EventsInv, SubsInv, CampaignsInv, Registered(events), Registered(plans)
  PROVE  /\ EventsNext => \/ stats' = stats
                          \/ \E e \in DOMAIN events, p \in Buyers, amt \in Nat, charged \in Nat :
                                TicketSold(e, p, amt, charged)
         /\ SubscriptionNext => \/ stats' = stats
                                \/ \E s \in DOMAIN subs, charged \in Nat : Charged(s, charged)
         /\ BackerRewardsNext => stats' = stats
         /\ NftNext => stats' = stats
<1>1. BooksKept => stats' = stats
  BY DEF BooksKept, platformVars
<1>2. ASSUME EventsNext
      PROVE  \/ stats' = stats
             \/ \E e \in DOMAIN events, p \in Buyers, amt \in Nat, charged \in Nat :
                    TicketSold(e, p, amt, charged)
  <2>1. ASSUME NEW p, NEW to, NEW t, NEW paid, BulkSold(p, to, t, paid)
        PROVE  stats' = stats
    BY <2>1 DEF BulkSold
  <2>2. ASSUME NEW i, NEW p, NEW net, NEW royalty, TicketResold(i, p, net, royalty)
        PROVE  stats' = stats
    BY <2>2 DEF TicketResold
  <2>3. ASSUME NEW e, Refunding(e) PROVE stats' = stats
    BY <2>3 DEF Refunding
  <2> QED BY <1>1, <1>2, <2>1, <2>2, <2>3, EventsMoves
<1>3. ASSUME NEW c, NEW b, NEW amt, Pledged(c, b, amt) PROVE stats' = stats
  BY <1>3 DEF Pledged
<1> QED BY <1>1, <1>2, <1>3, SubscriptionMoves, CampaignMoves, NftMoves

\* No step parts the token rows from the merchants'.
LEMMA RowsStep ==
  ASSUME ShadeInv, Rows(stats), [ShadeNext]_shadeVars
  PROVE  Rows(stats')
<1>1. /\ TypesInv /\ EventsInv /\ InvoicesInv /\ SubsInv /\ CampaignsInv
      /\ Registered(events) /\ Registered(plans)
  BY DEF ShadeInv, InvoicesInv, HoldersInv
<1>2. ASSUME stats' = stats PROVE Rows(stats')
  BY <1>2
<1>3. ASSUME UNCHANGED shadeVars PROVE stats' = stats
  BY <1>3 DEF shadeVars, platformVars
<1>4. ASSUME InvoiceNext PROVE Rows(stats')
  <2>1. ASSUME NEW q, CreatedOne(q) PROVE stats' = stats
    BY <2>1 DEF CreatedOne, platformVars
  <2>2. ASSUME NEW i, NEW r, RevisedOne(i, r) PROVE stats' = stats
    BY <2>2 DEF RevisedOne, platformVars
  <2>3. ASSUME NEW i, NEW r, NEW amt, RefundedOne(i, r, amt) PROVE stats' = stats
    BY <2>3 DEF RefundedOne, platformVars
  <2>4. ASSUME NEW p \in Payers, NEW v, PaidSome(p, v) PROVE Rows(stats')
    <3>1. PICK w : w = World
      OBVIOUS
    <3>2. WorldType(w) /\ Rows(w.stats)
      <4>1. InvoicesInv
        BY <1>1
      <4>2. WorldType(w)
        BY <3>1, <4>1 DEF InvoicesInv, TypesInv, MerchantsTypeOK, PlatformTypeOK, AccountTypeOK,
                          World, WorldType, Ledger, StatsType
      <4>3. w.stats = stats
        BY <3>1 DEF World
      <4> QED BY <4>2, <4>3
    <3>3. WorldType(v) /\ stats' = v.stats
      BY <2>4 DEF PaidSome, Install
    <3>4. CASE \E i \in DOMAIN invoices, amt \in Int, charged \in Nat :
                    PaidOne(w, v, i, p, amt, charged)
      <4>1. \E i \in DOMAIN w.invoices : \E amt, charged : PaidOne(w, v, i, p, amt, charged)
        BY <3>1, <3>4 DEF World
      <4>2. Rows(v.stats)
        BY <3>2, <4>1, InvoiceRows
      <4> QED BY <3>3, <4>2
    <3>5. CASE \E z : /\ WorldType(z)
                      /\ \E i \in DOMAIN invoices, amt \in Int, charged \in Nat :
                            PaidOne(w, z, i, p, amt, charged)
                      /\ \E i \in DOMAIN z.invoices, amt \in Int, charged \in Nat :
                            PaidOne(z, v, i, p, amt, charged)
      <4>1. PICK z : /\ WorldType(z)
                     /\ \E i \in DOMAIN invoices : \E amt, charged :
                            PaidOne(w, z, i, p, amt, charged)
                     /\ \E i \in DOMAIN z.invoices : \E amt, charged :
                            PaidOne(z, v, i, p, amt, charged)
        BY <3>5
      <4>2. DOMAIN w.invoices = DOMAIN invoices
        BY <3>1 DEF World
      <4>3. Rows(z.stats)
        BY <3>2, <4>1, <4>2, InvoiceRows
      <4>4. Rows(v.stats)
        BY <4>1, <4>3, InvoiceRows
      <4> QED BY <3>3, <4>4
    <3> QED BY <2>4, <3>1, <3>4, <3>5 DEF PaidSome
  <2> QED BY <1>1, <1>2, <1>4, <2>1, <2>2, <2>3, <2>4, InvoiceMoves
<1>5. ASSUME NEW e \in DOMAIN events, NEW p, NEW amt \in Nat, NEW charged \in Nat,
             TicketSold(e, p, amt, charged)
      PROVE  Rows(stats')
  <2> DEFINE event == events[e]
  <2>1. event \in Event
    BY <1>1 DEF EventsInv, EventsTyped
  <2>2. SoldOne(p, event.merchant, event.token, amt, charged)
    BY <1>5 DEF TicketSold
  <2> HIDE DEF event
  <2>3. event.merchant \in Seller /\ event.token \in Tokens
    BY <2>1 DEF Event
  <2> QED BY <1>1, <2>2, <2>3, SoldRows
<1>6. ASSUME NEW s \in DOMAIN subs, NEW charged \in Nat, Charged(s, charged)
      PROVE  Rows(stats')
  <2> DEFINE plan == plans[subs[s].plan_id]
  <2>1. plan \in SubscriptionPlan
    BY <1>1 DEF SubsInv, SubsTyped
  <2>2. PICK p : SoldOne(p, plan.merchant, plan.token, plan.amount, charged)
    BY <1>6 DEF Charged
  <2> HIDE DEF plan
  <2>3. plan.merchant \in Seller /\ plan.token \in Tokens /\ plan.amount \in Nat
    BY <2>1 DEF SubscriptionPlan
  <2> QED BY <1>1, <2>2, <2>3, SoldRows
<1> QED BY <1>1, <1>2, <1>3, <1>4, <1>5, <1>6, StatsKept, StatsSettled DEF ShadeNext, Next

\* Each merchant's row counts its invoices, tickets and charges.
Volumes(st, list, ev, ts, pl, ss, ch) ==
    \A m \in Seller, t \in Tokens :
        st.merchant[m][t].total_volume =
            SumFunction(PaidIn(list, m, t)) + SumFunction(SoldIn(ev, ts, m, t))
            + SumFunction(DrawnIn(pl, ss, ch, m, t))

\* What is added up is integers.
Counts(list, ev, ts, pl, ss, ch) ==
    \A m \in Seller, t \in Tokens : /\ SumFunction(PaidIn(list, m, t)) \in Int
                                    /\ SumFunction(SoldIn(ev, ts, m, t)) \in Int
                                    /\ SumFunction(DrawnIn(pl, ss, ch, m, t)) \in Int

\* They are, for lists of what they should hold.
LEMMA CountsHold ==
  ASSUME NEW list \in Seq(InvoiceRecord), NEW ev, NEW ts \in Seq(Ticket),
         NEW pl, NEW ss, NEW ch, Enrolled(pl, ss, ch)
  PROVE  Counts(list, ev, ts, pl, ss, ch)
<1>1. /\ OnlyAt(list, list, 0)
      /\ OnlyTicket(ev, ts, ev, ts, 0)
      /\ OnlyDrawn(pl, ss, ch, pl, ss, ch, 0)
  BY DEF OnlyAt, OnlyTicket, OnlyDrawn
<1>2. ASSUME NEW m, NEW t
      PROVE  /\ SumFunction(PaidIn(list, m, t)) \in Int
             /\ SumFunction(SoldIn(ev, ts, m, t)) \in Int
             /\ SumFunction(DrawnIn(pl, ss, ch, m, t)) \in Int
  BY <1>1, PaidChange, SoldChange, DrawnChange
<1> QED BY <1>2 DEF Counts

\* A step of the invoices, of the events or of the subscriptions.
LEMMA VolumesMove ==
  ASSUME NEW st, NEW list, NEW ev, NEW ts, NEW pl, NEW ss, NEW ch,
         Volumes(st, list, ev, ts, pl, ss, ch), Counts(list, ev, ts, pl, ss, ch),
         NEW su, NEW next, NEW nx, NEW us, NEW ql, NEW rs, NEW dh,
         Counts(next, nx, us, ql, rs, dh),
         \/ /\ Matched(st, list, su, next)
            /\ nx = ev /\ us = ts /\ ql = pl /\ rs = ss /\ dh = ch
         \/ /\ TicketsMatched(st, ev, ts, su, nx, us)
            /\ next = list /\ ql = pl /\ rs = ss /\ dh = ch
         \/ /\ ChargesMatched(st, pl, ss, ch, su, ql, rs, dh)
            /\ next = list /\ nx = ev /\ us = ts
  PROVE  Volumes(su, next, nx, us, ql, rs, dh)
<1> SUFFICES ASSUME NEW m \in Seller, NEW t \in Tokens
             PROVE  su.merchant[m][t].total_volume =
                        SumFunction(PaidIn(next, m, t)) + SumFunction(SoldIn(nx, us, m, t))
                        + SumFunction(DrawnIn(ql, rs, dh, m, t))
  BY DEF Volumes
<1>1. PICK a \in Int, b \in Int, c \in Int : /\ a = SumFunction(PaidIn(list, m, t))
                                             /\ b = SumFunction(SoldIn(ev, ts, m, t))
                                             /\ c = SumFunction(DrawnIn(pl, ss, ch, m, t))
  BY DEF Counts
<1>2. PICK x \in Int, y \in Int, z \in Int : /\ x = SumFunction(PaidIn(next, m, t))
                                             /\ y = SumFunction(SoldIn(nx, us, m, t))
                                             /\ z = SumFunction(DrawnIn(ql, rs, dh, m, t))
  BY DEF Counts
<1>3. st.merchant[m][t].total_volume = a + b + c
  BY <1>1 DEF Volumes
<1>4. CASE /\ Matched(st, list, su, next)
           /\ nx = ev /\ us = ts /\ ql = pl /\ rs = ss /\ dh = ch
  <2>1. su.merchant[m][t].total_volume = st.merchant[m][t].total_volume + (x - a)
    BY <1>1, <1>2, <1>4 DEF Matched
  <2>2. y = b /\ z = c
    BY <1>1, <1>2, <1>4
  <2> QED BY <1>2, <1>3, <2>1, <2>2
<1>5. CASE /\ TicketsMatched(st, ev, ts, su, nx, us)
           /\ next = list /\ ql = pl /\ rs = ss /\ dh = ch
  <2>1. su.merchant[m][t].total_volume = st.merchant[m][t].total_volume + (y - b)
    BY <1>1, <1>2, <1>5 DEF TicketsMatched
  <2>2. x = a /\ z = c
    BY <1>1, <1>2, <1>5
  <2> QED BY <1>2, <1>3, <2>1, <2>2
<1>6. CASE /\ ChargesMatched(st, pl, ss, ch, su, ql, rs, dh)
           /\ next = list /\ nx = ev /\ us = ts
  <2>1. su.merchant[m][t].total_volume = st.merchant[m][t].total_volume + (z - c)
    BY <1>1, <1>2, <1>6 DEF ChargesMatched
  <2>2. x = a /\ y = b
    BY <1>1, <1>2, <1>6
  <2> QED BY <1>2, <1>3, <2>1, <2>2
<1> QED BY <1>4, <1>5, <1>6

\* The rows, of the merchants and of the tokens.
VolumesInv == Volumes(stats, invoices, events, tickets, plans, subs, charges) /\ Rows(stats)

\* Nothing is counted at the start.
LEMMA VolumesInit ==
  ASSUME ShadeInit
  PROVE  VolumesInv
<1>1. /\ invoices = << >> /\ tickets = << >> /\ subs = << >>
      /\ stats = [merchant |-> [m \in Seller |-> [t \in Tokens |-> NoAnalysis]],
                  token    |-> [t \in Tokens |-> NoTokenAnalysis]]
  BY DEF ShadeInit, Init, EventsInit, SubscriptionInit, MerchantsInit, PlatformInit
<1>2. ASSUME NEW m \in Seller, NEW t \in Tokens
      PROVE  /\ stats.merchant[m][t].total_volume = 0
             /\ stats.merchant[m][t].total_fees = 0
             /\ stats.token[t].total_volume = 0 /\ stats.token[t].total_fees = 0
  BY <1>1 DEF NoAnalysis, NoTokenAnalysis
<1>3. ASSUME NEW f, DOMAIN f = {} PROVE SumFunction(f) = 0
  BY <1>3, SumEmpty DEF SumFunction
<1>4. Volumes(stats, invoices, events, tickets, plans, subs, charges)
  <2>1. ASSUME NEW m \in Seller, NEW t \in Tokens
        PROVE  /\ SumFunction(PaidIn(invoices, m, t)) = 0
               /\ SumFunction(SoldIn(events, tickets, m, t)) = 0
               /\ SumFunction(DrawnIn(plans, subs, charges, m, t)) = 0
    <3>1. /\ DOMAIN PaidIn(invoices, m, t) = {}
          /\ DOMAIN SoldIn(events, tickets, m, t) = {}
          /\ DOMAIN DrawnIn(plans, subs, charges, m, t) = {}
      BY <1>1 DEF PaidIn, SoldIn, DrawnIn
    <3> QED BY <1>3, <3>1
  <2> QED BY <1>2, <2>1 DEF Volumes
<1>5. Rows(stats)
  <2> SUFFICES ASSUME NEW t \in Tokens
               PROVE  /\ stats.token[t].total_volume =
                            SumFunction([m \in Seller |-> stats.merchant[m][t].total_volume])
                      /\ stats.token[t].total_fees =
                            SumFunction([m \in Seller |-> stats.merchant[m][t].total_fees])
    BY DEF Rows
  <2>1. IsFiniteSet(Seller)
    BY ShadeAssumption, MerchantsAssumption, FS_Subset
  <2>2. ASSUME NEW f, DOMAIN f = Seller, \A m \in Seller : f[m] = 0
        PROVE  SumFunction(f) = 0
    BY <2>1, <2>2, SumZero DEF SumFunction
  <2> DEFINE v == [m \in Seller |-> stats.merchant[m][t].total_volume]
             f == [m \in Seller |-> stats.merchant[m][t].total_fees]
  <2>3. /\ DOMAIN v = Seller /\ \A m \in Seller : v[m] = 0
        /\ DOMAIN f = Seller /\ \A m \in Seller : f[m] = 0
    BY <1>2
  <2> HIDE DEF v, f
  <2>4. SumFunction(v) = 0 /\ SumFunction(f) = 0
    BY <2>2, <2>3
  <2>5. stats.token[t].total_volume = 0 /\ stats.token[t].total_fees = 0
    BY <1>1 DEF NoTokenAnalysis
  <2> QED BY <2>4, <2>5 DEF v, f
<1> QED BY <1>4, <1>5 DEF VolumesInv

\* Every step keeps the rows.
LEMMA VolumesStep ==
  ASSUME ShadeInv, ShadeInv', VolumesInv, [ShadeNext]_shadeVars
  PROVE  VolumesInv'
<1>1. /\ TypesInv /\ EventsInv /\ InvoicesInv /\ SubsInv /\ SubsInv' /\ CampaignsInv
      /\ Registered(events) /\ Registered(plans)
  BY DEF ShadeInv, InvoicesInv, HoldersInv
<1>2. PICK su, next, nx, us, ql, rs, dh :
            /\ su = stats' /\ next = invoices' /\ nx = events' /\ us = tickets'
            /\ ql = plans' /\ rs = subs' /\ dh = charges'
  OBVIOUS
<1>3. Counts(invoices, events, tickets, plans, subs, charges)
  <2>1. invoices \in Seq(InvoiceRecord) /\ tickets \in Seq(Ticket)
        /\ Enrolled(plans, subs, charges)
    BY <1>1 DEF InvoicesInv, AllSound, EventsInv, EventsTyped, SubsInv, SubsTyped, Enrolled
  <2> QED BY <2>1, CountsHold
<1>4. Counts(next, nx, us, ql, rs, dh)
  <2>1. invoices' \in Seq(InvoiceRecord) /\ tickets' \in Seq(Ticket)
        /\ Enrolled(plans', subs', charges')
    BY DEF ShadeInv, HoldersInv, InvoicesInv, AllSound, EventsInv, EventsTyped, SubsInv,
           SubsTyped, Enrolled
  <2>2. next \in Seq(InvoiceRecord) /\ us \in Seq(Ticket) /\ Enrolled(ql, rs, dh)
    BY <1>2, <2>1
  <2> QED BY <2>2, CountsHold
<1>5. Volumes(stats, invoices, events, tickets, plans, subs, charges)
  BY DEF VolumesInv
<1>6. ASSUME \/ /\ Matched(stats, invoices, su, next)
                /\ nx = events /\ us = tickets /\ ql = plans /\ rs = subs /\ dh = charges
             \/ /\ TicketsMatched(stats, events, tickets, su, nx, us)
                /\ next = invoices /\ ql = plans /\ rs = subs /\ dh = charges
             \/ /\ ChargesMatched(stats, plans, subs, charges, su, ql, rs, dh)
                /\ next = invoices /\ nx = events /\ us = tickets
      PROVE  Volumes(su, next, nx, us, ql, rs, dh)
  BY <1>3, <1>4, <1>5, <1>6, VolumesMove
<1>7. ASSUME UNCHANGED <<stats, invoices, events, tickets, plans, subs, charges>>
      PROVE  Volumes(su, next, nx, us, ql, rs, dh)
  BY <1>2, <1>5, <1>7
<1>8. ASSUME InvoiceNext /\ UNCHANGED <<eventVars, subscriptionVars, campaigns, nftVars>>
      PROVE  Volumes(su, next, nx, us, ql, rs, dh)
  <2>1. Matched(stats, invoices, stats', invoices')
    BY <1>1, <1>8, InvoicesMatched
  <2> QED BY <1>2, <1>6, <1>8, <2>1 DEF eventVars, subscriptionVars
<1>9. ASSUME EventsNext /\ UNCHANGED <<invoiceVars, subscriptionVars, campaigns, nftVars>>
      PROVE  Volumes(su, next, nx, us, ql, rs, dh)
  <2>1. TicketsMatched(stats, events, tickets, stats', events', tickets')
    BY <1>1, <1>9, EventsMatched
  <2> QED BY <1>2, <1>6, <1>9, <2>1 DEF invoiceVars, subscriptionVars
<1>10. ASSUME SubscriptionNext /\ UNCHANGED <<invoiceVars, eventVars, campaigns, nftVars>>
       PROVE  Volumes(su, next, nx, us, ql, rs, dh)
  <2>1. ChargesMatched(stats, plans, subs, charges, stats', plans', subs', charges')
    BY <1>1, <1>10, SubscriptionMatched
  <2> QED BY <1>2, <1>6, <1>10, <2>1 DEF invoiceVars, eventVars
<1>11. ASSUME MerchantsNext /\ UNCHANGED invoiceVars
              /\ UNCHANGED <<eventVars, subscriptionVars, campaigns, nftVars>>
       PROVE  Volumes(su, next, nx, us, ql, rs, dh)
  BY <1>7, <1>11, StatsSettled DEF invoiceVars, eventVars, subscriptionVars
<1>12. ASSUME BackerRewardsNext /\ UNCHANGED <<invoiceVars, eventVars, subscriptionVars, nftVars>>
       PROVE  Volumes(su, next, nx, us, ql, rs, dh)
  BY <1>1, <1>7, <1>12, StatsKept DEF invoiceVars, eventVars, subscriptionVars
<1>13. ASSUME NftNext /\ UNCHANGED <<invoiceVars, eventVars, subscriptionVars, campaigns>>
       PROVE  Volumes(su, next, nx, us, ql, rs, dh)
  BY <1>1, <1>7, <1>13, StatsKept DEF invoiceVars, eventVars, subscriptionVars
<1>14. ASSUME UNCHANGED shadeVars
       PROVE  Volumes(su, next, nx, us, ql, rs, dh)
  BY <1>7, <1>14 DEF shadeVars, platformVars, invoiceVars, eventVars, subscriptionVars
<1>15. Volumes(su, next, nx, us, ql, rs, dh)
  BY <1>8, <1>9, <1>10, <1>11, <1>12, <1>13, <1>14 DEF ShadeNext, Next
<1>16. Rows(stats')
  BY RowsStep DEF VolumesInv
<1> QED BY <1>2, <1>15, <1>16 DEF VolumesInv

\* The analytics that set a merchant's discount count every payment once, whatever it pays
\* for, and the global rows are the sums of the merchants' (record_merchant_payment).
THEOREM VolumesAgreeHolds == ShadeSpec => []VolumesAgree
<1> DEFINE Inv == ShadeInv /\ VolumesInv
<1>1. ShadeInit => Inv
  BY ShadeInvInit, VolumesInit
<1>2. Inv /\ [ShadeNext]_shadeVars => Inv'
  <2> SUFFICES ASSUME Inv, [ShadeNext]_shadeVars PROVE Inv'
    OBVIOUS
  <2>1. ShadeInv'
    BY ShadeInvStep
  <2> QED BY <2>1, VolumesStep
<1>3. Inv => VolumesAgree
  BY DEF VolumesInv, Volumes, Rows, PaidIn, SoldIn, DrawnIn, VolumesAgree, InvoiceVolume,
         TicketVolume, ChargeVolume, InvoicesOf
<1> QED BY <1>1, <1>2, <1>3, PTL DEF ShadeSpec

-----------------------------------------------------------------------------
(* Takings: what the platform's accounts and the merchants' received.             *)

\* What each of the platform's accounts, past and present, has gained in t.
Gained(b, t) == [p \in Treasury |-> b[p][t] - Funds[p][t]]

\* What each merchant account has received in t.
Takings(f, t) == [a \in Account |-> f[a].received[t]]

\* The fees on record went to the former, the rest of the volume to the latter.
Settles(b, f, st, off) ==
    \A t \in Tokens :
        /\ SumFunction(Gained(b, t)) = st.token[t].total_fees
        /\ SumFunction(Takings(f, t)) =
                st.token[t].total_volume - st.token[t].total_fees + off[t]

\* From f to g the number at x grows by d, if there is one, and no other changes.
Grown(S, f, g, x, d) ==
    /\ f \in [S -> Int] /\ g \in [S -> Int] /\ d \in Int
    /\ x \in S \/ d = 0
    /\ \A n \in S : g[n] = f[n] + (IF n = x THEN d ELSE 0)

\* The sum grows by as much.
LEMMA OneMore ==
  ASSUME NEW S, IsFiniteSet(S), NEW f, NEW g, NEW x, NEW d, Grown(S, f, g, x, d)
  PROVE  SumFunction(f) \in Int /\ SumFunction(g) = SumFunction(f) + d
<1> USE DEF Grown
<1>1. /\ IsFiniteSet(DOMAIN f) /\ IsFiniteSet(DOMAIN g)
      /\ \A n \in DOMAIN f : f[n] \in Int
      /\ \A n \in DOMAIN g : g[n] \in Int
      /\ (DOMAIN f) \ {x} = (DOMAIN g) \ {x}
      /\ \A n \in (DOMAIN f) \ {x} : f[n] = g[n]
  OBVIOUS
<1>2. /\ SumFunction(f) \in Int
      /\ SumFunction(g) = SumFunction(f) + (At(g, x) - At(f, x))
  BY <1>1, SumAtOne
<1>3. At(g, x) - At(f, x) = d
  <2>1. CASE x \in S
    <3>1. f[x] \in Int /\ g[x] = f[x] + d
      BY <2>1
    <3> QED BY <2>1, <3>1 DEF At
  <2>2. CASE x \notin S
    BY <2>2 DEF At
  <2> QED BY <2>1, <2>2
<1>4. PICK a \in Int, b \in Int : a = At(g, x) /\ b = At(f, x)
  BY DEF At
<1> QED BY <1>2, <1>3, <1>4

\* In token t the balance of x grows by d, if it is one of the treasury's, and no other.
GainedAt(b, c, t, x, d) ==
    /\ d \in Int
    /\ x \in Treasury \/ d = 0
    /\ \A h \in Treasury : c[h][t] = b[h][t] + (IF h = x THEN d ELSE 0)

\* So does what the treasury gained.
LEMMA GainedMore ==
  ASSUME NEW b \in Ledger, NEW c \in Ledger, NEW t \in Tokens, NEW x, NEW d,
         GainedAt(b, c, t, x, d)
  PROVE  /\ SumFunction(Gained(b, t)) \in Int
         /\ SumFunction(Gained(c, t)) = SumFunction(Gained(b, t)) + d
<1>1. Treasury \subseteq Holder /\ IsFiniteSet(Treasury)
  BY ShadeAssumption, MerchantsAssumption, FS_Subset DEF Treasury
<1>2. ASSUME NEW h \in Treasury
      PROVE  b[h][t] \in Int /\ c[h][t] \in Int /\ Funds[h][t] \in Int
  BY <1>1, AccountAssumption DEF Ledger
<1> DEFINE f == Gained(b, t)  g == Gained(c, t)
<1>3. f \in [Treasury -> Int] /\ g \in [Treasury -> Int]
  BY <1>2 DEF Gained
<1>4. ASSUME NEW h \in Treasury
      PROVE  g[h] = f[h] + (IF h = x THEN d ELSE 0)
  <2>1. PICK i \in Int, j \in Int, k \in Int : i = b[h][t] /\ j = c[h][t] /\ k = Funds[h][t]
    BY <1>2
  <2>2. f[h] = i - k /\ g[h] = j - k
    BY <2>1 DEF Gained
  <2>3. j = i + (IF h = x THEN d ELSE 0) /\ d \in Int
    BY <2>1 DEF GainedAt
  <2> HIDE DEF f, g
  <2> QED BY <2>2, <2>3
<1> HIDE DEF f, g
<1>5. SumFunction(f) \in Int /\ SumFunction(g) = SumFunction(f) + d
  <2>1. Grown(Treasury, f, g, x, d)
    BY <1>3, <1>4 DEF Grown, GainedAt
  <2> QED BY <1>1, <2>1, OneMore
<1> QED BY <1>5 DEF f, g

\* In token t account x receives d, if it is one, and no other receives anything.
TakenAt(f, g, t, x, d) ==
    /\ d \in Int
    /\ x \in Account \/ d = 0
    /\ \A a \in Account : g[a].received[t] = f[a].received[t] + (IF a = x THEN d ELSE 0)

\* So do the accounts.
LEMMA TakingsMore ==
  ASSUME NEW f \in [Account -> Flow], NEW g \in [Account -> Flow], NEW t \in Tokens, NEW x,
         NEW d, TakenAt(f, g, t, x, d)
  PROVE  /\ SumFunction(Takings(f, t)) \in Int
         /\ SumFunction(Takings(g, t)) = SumFunction(Takings(f, t)) + d
<1>1. IsFiniteSet(Account)
  BY ShadeAssumption, AccountAssumption, FS_Subset
<1>2. ASSUME NEW a \in Account
      PROVE  f[a].received[t] \in Int /\ g[a].received[t] \in Int
  <2>1. f[a] \in Flow /\ g[a] \in Flow
    OBVIOUS
  <2> QED BY <2>1 DEF Flow
<1> DEFINE i == Takings(f, t)  j == Takings(g, t)
<1>3. i \in [Account -> Int] /\ j \in [Account -> Int]
  BY <1>2 DEF Takings
<1>4. \A a \in Account : j[a] = i[a] + (IF a = x THEN d ELSE 0)
  BY DEF Takings, TakenAt
<1> HIDE DEF i, j
<1>5. SumFunction(i) \in Int /\ SumFunction(j) = SumFunction(i) + d
  <2>1. Grown(Account, i, j, x, d)
    BY <1>3, <1>4 DEF Grown, TakenAt
  <2> QED BY <1>1, <2>1, OneMore
<1> QED BY <1>5 DEF i, j

\* The row of a token, in numbers.
LEMMA TokenRow ==
  ASSUME NEW st \in StatsType, NEW t \in Tokens
  PROVE  st.token[t].total_volume \in Int /\ st.token[t].total_fees \in Int
<1>1. st.token[t] \in TokenAnalysis
  BY DEF StatsType
<1> QED BY <1>1 DEF TokenAnalysis

\* The row of token u, what is off the books, and what is taken, move together.
Together(b, f, st, off, c, g, su, up, u) ==
    \E v \in Int, d \in Int, o \in Int :
        /\ su.token[u].total_volume = st.token[u].total_volume + v
        /\ su.token[u].total_fees = st.token[u].total_fees + d
        /\ up[u] = off[u] + o
        /\ SumFunction(Gained(c, u)) = SumFunction(Gained(b, u)) + d
        /\ SumFunction(Takings(g, u)) = SumFunction(Takings(f, u)) + (v - d + o)

\* What moves together stays settled.
LEMMA SettlesMove ==
  ASSUME NEW b \in Ledger, NEW f \in [Account -> Flow], NEW st \in StatsType,
         NEW off \in [Tokens -> Nat], Settles(b, f, st, off),
         NEW c \in Ledger, NEW g \in [Account -> Flow], NEW su, NEW up,
         \A u \in Tokens : Together(b, f, st, off, c, g, su, up, u)
  PROVE  Settles(c, g, su, up)
<1> SUFFICES ASSUME NEW u \in Tokens
             PROVE  /\ SumFunction(Gained(c, u)) = su.token[u].total_fees
                    /\ SumFunction(Takings(g, u)) =
                            su.token[u].total_volume - su.token[u].total_fees + up[u]
  BY DEF Settles
<1>1. PICK v \in Int, d \in Int, o \in Int :
            /\ su.token[u].total_volume = st.token[u].total_volume + v
            /\ su.token[u].total_fees = st.token[u].total_fees + d
            /\ up[u] = off[u] + o
            /\ SumFunction(Gained(c, u)) = SumFunction(Gained(b, u)) + d
            /\ SumFunction(Takings(g, u)) = SumFunction(Takings(f, u)) + (v - d + o)
  BY DEF Together
<1>2. PICK i \in Int, j \in Int, k \in Int :
            /\ i = st.token[u].total_volume /\ j = st.token[u].total_fees /\ k = off[u]
  BY TokenRow
<1>3. SumFunction(Gained(b, u)) = j /\ SumFunction(Takings(f, u)) = i - j + k
  BY <1>2 DEF Settles
<1>4. /\ su.token[u].total_volume = i + v /\ su.token[u].total_fees = j + d /\ up[u] = k + o
      /\ SumFunction(Gained(c, u)) = j + d
      /\ SumFunction(Takings(g, u)) = (i - j + k) + (v - d + o)
  BY <1>1, <1>2, <1>3
<1>5. (i - j + k) + (v - d + o) = (i + v) - (j + d) + (k + o)
  OBVIOUS
<1> QED BY <1>4, <1>5

\* A payment through the platform.
LEMMA SplitSettles ==
  ASSUME TakingsStay,
         NEW b \in Ledger, NEW f \in [Account -> Flow], NEW st \in StatsType,
         NEW off \in [Tokens -> Nat], Settles(b, f, st, off),
         NEW c \in Ledger, NEW g \in [Account -> Flow], NEW su,
         NEW m \in Seller, NEW t \in Tokens, NEW amt \in Nat, NEW charged \in Nat,
         NEW p, p \notin Treasury, NEW till \in Routes, NEW to, to \notin Account,
         charged # 0 => to \in Treasury, amt - charged \in Nat,
         BankSplit(b, c, p, till, to, t, amt, charged),
         FlowSplit(f, g, till, to, t, amt, charged),
         su = RecordMerchantPayment(st, m, t, amt, charged)
  PROVE  Settles(c, g, su, off)
<1> SUFFICES ASSUME NEW u \in Tokens
             PROVE  Together(b, f, st, off, c, g, su, off, u)
  BY SettlesMove
<1> DEFINE v == IF u = t THEN amt ELSE 0
           d == IF u = t THEN charged ELSE 0
<1>1. /\ till \in Account /\ till \notin Treasury
      /\ Treasury \subseteq Holder
  BY MerchantsAssumption DEF TakingsStay, Treasury
<1>2. /\ su.token[u].total_volume = st.token[u].total_volume + v
      /\ su.token[u].total_fees = st.token[u].total_fees + d
  <2>1. charged \in Int
    OBVIOUS
  <2> HIDE DEF TakingsStay
  <2> QED BY <2>1, RecordFacts, SMTT(30)
<1>3. ASSUME NEW h \in Treasury
      PROVE  c[h][u] = b[h][u] + (IF h = to THEN d ELSE 0)
  <2>1. h \in Holder /\ h # p /\ h # till
    BY <1>1
  <2>2. c[h][u] = b[h][u] + SplitChange(h, u, p, till, to, t, amt, charged)
    BY <2>1 DEF BankSplit
  <2>3. SplitChange(h, u, p, till, to, t, amt, charged) = IF h = to THEN d ELSE 0
    BY <2>1 DEF SplitChange, Change
  <2> QED BY <2>2, <2>3
<1>4. ASSUME NEW a \in Account
      PROVE  g[a].received[u] = f[a].received[u] + (IF a = till THEN v - d ELSE 0)
  <2>1. g[a].received[u] = f[a].received[u] + SplitReceipt(a, u, till, to, t, amt, charged)
    BY DEF FlowSplit
  <2>2. SplitReceipt(a, u, till, to, t, amt, charged) = IF a = till THEN v - d ELSE 0
    BY DEF SplitReceipt
  <2> QED BY <2>1, <2>2
<1>5. v \in Int /\ d \in Int /\ v - d \in Int /\ (to \in Treasury \/ d = 0)
  OBVIOUS
<1>6. off[u] \in Int
  OBVIOUS
<1> HIDE DEF v, d
<1>7. SumFunction(Gained(c, u)) = SumFunction(Gained(b, u)) + d
  <2>1. GainedAt(b, c, u, to, d)
    BY <1>3, <1>5 DEF GainedAt
  <2> QED BY <2>1, GainedMore
<1>8. SumFunction(Takings(g, u)) = SumFunction(Takings(f, u)) + (v - d)
  <2>1. PICK k \in Int : k = v - d
    BY <1>5
  <2>2. \A a \in Account : g[a].received[u] = f[a].received[u] + (IF a = till THEN k ELSE 0)
    BY <1>4, <2>1
  <2>3. SumFunction(Takings(g, u)) = SumFunction(Takings(f, u)) + k
    <3>1. TakenAt(f, g, u, till, k)
      BY <1>1, <2>2 DEF TakenAt
    <3> QED BY <3>1, TakingsMore
  <2> QED BY <2>1, <2>3
<1>9. off[u] = off[u] + 0 /\ v - d + 0 = v - d
  BY <1>5, <1>6
<1> QED BY <1>2, <1>5, <1>7, <1>8, <1>9 DEF Together

\* A transfer to an account, off the books.
LEMMA AsideSettles ==
  ASSUME TakingsStay,
         NEW b \in Ledger, NEW f \in [Account -> Flow], NEW st \in StatsType,
         NEW off \in [Tokens -> Nat], Settles(b, f, st, off),
         NEW c \in Ledger, NEW g \in [Account -> Flow],
         NEW t \in Tokens, NEW amt, NEW p, p \notin Treasury, NEW till \in Routes,
         MovedOnce(b, c, f, g, p, till, t, amt)
  PROVE  Settles(c, g, st, [off EXCEPT ![t] = @ + amt])
<1> DEFINE up == [off EXCEPT ![t] = @ + amt]
<1> SUFFICES ASSUME NEW u \in Tokens
             PROVE  Together(b, f, st, off, c, g, st, up, u)
  BY SettlesMove
<1> DEFINE o == IF u = t THEN amt ELSE 0
<1>1. /\ till \in Account /\ till \notin Treasury /\ Treasury \subseteq Holder
      /\ amt \in Nat
  BY MerchantsAssumption DEF TakingsStay, Treasury, MovedOnce
<1>2. o \in Int /\ up[u] = off[u] + o
  BY <1>1
<1>3. ASSUME NEW h \in Treasury
      PROVE  c[h][u] = b[h][u] + (IF h = till THEN 0 ELSE 0)
  <2>1. h \in Holder /\ h # p /\ h # till
    BY <1>1
  <2>2. c[h][u] = b[h][u] + Change(h, u, p, till, t, amt)
    BY <2>1 DEF MovedOnce
  <2> QED BY <2>1, <2>2 DEF Change
<1>4. ASSUME NEW a \in Account
      PROVE  g[a].received[u] = f[a].received[u] + (IF a = till THEN o ELSE 0)
  <2>1. g[a].received[u] = f[a].received[u] + (IF a = till /\ u = t THEN amt ELSE 0)
    BY DEF MovedOnce
  <2> QED BY <2>1
<1> HIDE DEF o, up
<1>5. SumFunction(Gained(c, u)) = SumFunction(Gained(b, u)) + 0
  <2>1. GainedAt(b, c, u, till, 0)
    BY <1>3 DEF GainedAt
  <2> QED BY <2>1, GainedMore
<1>6. SumFunction(Takings(g, u)) = SumFunction(Takings(f, u)) + o
  <2>1. TakenAt(f, g, u, till, o)
    BY <1>1, <1>2, <1>4 DEF TakenAt
  <2> QED BY <2>1, TakingsMore
<1>7. /\ st.token[u].total_volume = st.token[u].total_volume + 0
      /\ st.token[u].total_fees = st.token[u].total_fees + 0
      /\ 0 - 0 + o = o
  BY <1>2, TokenRow
<1>8. 0 \in Int
  OBVIOUS
<1> QED BY <1>2, <1>5, <1>6, <1>7, <1>8 DEF Together

\* Nothing of it moves.
LEMMA StillSettles ==
  ASSUME NEW b \in Ledger, NEW f \in [Account -> Flow], NEW st \in StatsType,
         NEW off \in [Tokens -> Nat], Settles(b, f, st, off),
         NEW c \in Ledger, NEW g \in [Account -> Flow],
         \A h \in Treasury : Left(b, c, h),
         \A a \in Account : g[a].received = f[a].received
  PROVE  Settles(c, g, st, off)
<1>1. ASSUME NEW u \in Tokens
      PROVE  Gained(c, u) = Gained(b, u) /\ Takings(g, u) = Takings(f, u)
  BY DEF Left, Gained, Takings
<1> QED BY <1>1 DEF Settles

\* Whoever sets a fee is the admin, and with the first admin the platform has an account.
FeesSet ==
    /\ \A t \in Tokens : fee[t] # 0 => admin # None
    /\ pendingAdmin # None => admin # None
    /\ admin # None => platform # None

\* No step of the administration leaves a fee without a payee.
LEMMA FeesStep ==
  ASSUME PlatformTypeOK, FeesSet, [ShadeNext]_shadeVars,
         ~ MerchantsNext => UNCHANGED configVars
  PROVE  FeesSet'
<1> USE DEF FeesSet
<1>1. None \notin Admins \cup PlatformAccounts /\ Successors \subseteq Admins
  BY PlatformAssumption
<1>2. ASSUME UNCHANGED configVars PROVE FeesSet'
  BY <1>2 DEF configVars
<1>3. ASSUME PlatformNext PROVE FeesSet'
  <2>1. ASSUME NEW a \in Admins, InitializePlatform(a) PROVE FeesSet'
    BY <1>1, <2>1 DEF InitializePlatform
  <2>2. ASSUME NEW a \in Admins, AcceptAdminTransfer(a) PROVE FeesSet'
    BY <1>1, <2>2 DEF AcceptAdminTransfer
  <2>3. ASSUME NEW a \in Successors, ProposeAdminTransfer(a) PROVE FeesSet'
    BY <1>1, <2>3 DEF ProposeAdminTransfer
  <2>4. ASSUME NEW status, SetPaused(status) PROVE FeesSet'
    BY <2>4 DEF SetPaused
  <2>5. ASSUME NEW t, RemoveAcceptedToken(t) \/ AddAcceptedToken(t) \/ SetTokenOracle(t)
        PROVE  FeesSet'
    BY <2>5 DEF RemoveAcceptedToken, AddAcceptedToken, SetTokenOracle
  <2>6. ASSUME NEW t, NEW x, ProposeFee(t, x) \/ OraclePriceMoves(t, x) PROVE FeesSet'
    BY <2>6 DEF ProposeFee, OraclePriceMoves
  <2>7. ASSUME NEW t, NEW x, SetFee(t, x) PROVE FeesSet'
    BY <2>7 DEF SetFee, Configurable
  <2>8. ASSUME NEW t, ExecuteFee(t) PROVE FeesSet'
    BY <2>8 DEF ExecuteFee, Configurable
  <2>9. ASSUME NEW p \in PlatformAccounts, SetPlatformAccount(p) PROVE FeesSet'
    BY <1>1, <2>9 DEF SetPlatformAccount
  <2>10. ASSUME Tick PROVE FeesSet'
    BY <2>10 DEF Tick
  <2> QED BY <1>3, <2>1, <2>2, <2>3, <2>4, <2>5, <2>6, <2>7, <2>8, <2>9, <2>10 DEF PlatformNext
<1>4. ASSUME AccountStep PROVE UNCHANGED configVars
  BY <1>4 DEF AccountStep, platformVars
<1>5. ASSUME NEW m, NEW x, \/ RegisterMerchant(m) \/ SetMerchantStatus(m, x)
                           \/ SetMerchantKey(m, x) \/ SetMerchantAccount(m, x)
                           \/ SetMerchantAcceptedTokens(m, x)
                           \/ RemoveMerchantAcceptedToken(m, x)
                           \/ RestrictMerchantAccount(m, x)
      PROVE  UNCHANGED configVars
  BY <1>5 DEF RegisterMerchant, SetMerchantStatus, SetMerchantKey, SetMerchantAccount,
              SetMerchantAcceptedTokens, RemoveMerchantAcceptedToken, RestrictMerchantAccount,
              platformVars
<1> QED BY <1>2, <1>3, <1>4, <1>5 DEF MerchantsNext

\* Nothing but the administration changes the configuration.
LEMMA ConfigKept ==
  ASSUME ShadeInv, [ShadeNext]_shadeVars, ~ MerchantsNext
  PROVE  UNCHANGED configVars
<1>1. /\ TypesInv /\ EventsInv /\ InvoicesInv /\ SubsInv /\ CampaignsInv
      /\ Registered(events) /\ Registered(plans)
  BY DEF ShadeInv, InvoicesInv, HoldersInv
<1>2. ASSUME BooksKept \/ BooksTyped PROVE UNCHANGED configVars
  BY <1>2 DEF BooksKept, BooksTyped, platformVars
<1>3. ASSUME InvoiceNext PROVE UNCHANGED configVars
  <2>1. ASSUME NEW q, CreatedOne(q) PROVE UNCHANGED configVars
    BY <2>1 DEF CreatedOne, platformVars
  <2>2. ASSUME NEW i, NEW r, RevisedOne(i, r) PROVE UNCHANGED configVars
    BY <2>2 DEF RevisedOne, platformVars
  <2>3. ASSUME NEW i, NEW r, NEW amt, RefundedOne(i, r, amt) PROVE UNCHANGED configVars
    BY <2>3 DEF RefundedOne, platformVars
  <2>4. ASSUME NEW p, NEW v, PaidSome(p, v) PROVE UNCHANGED configVars
    BY <2>4 DEF PaidSome, Install
  <2> QED BY <1>1, <1>3, <2>1, <2>2, <2>3, <2>4, InvoiceMoves
<1>4. ASSUME UNCHANGED shadeVars PROVE UNCHANGED configVars
  BY <1>4 DEF shadeVars, platformVars
<1> QED BY <1>1, <1>2, <1>3, <1>4, EventsMoves, SubscriptionMoves, CampaignMoves, NftMoves
        DEF ShadeNext, Next

\* A fee has a payee, which is the platform's.
LEMMA FeePayee ==
  ASSUME TakingsStay, TypesInv, FeesSet, NEW t \in Tokens
  PROVE  platform \notin Account /\ (fee[t] # 0 => platform \in Treasury)
<1>1. None \notin Account
  BY AccountAssumption
<1>2. Treasury \cap Account = {}
  BY DEF TakingsStay, Treasury
<1> QED BY <1>1, <1>2, PlatformFacts DEF FeesSet, Treasury

\* A ticket sold or a charge made.
LEMMA SoldSettles ==
  ASSUME TakingsStay, TypesInv, BooksTyped, FeesSet, NEW off \in [Tokens -> Nat],
         Settles(bank, flow, stats, off),
         NEW p, p \notin Treasury, NEW m \in Seller, NEW t \in Tokens, NEW amt, NEW charged,
         SoldOne(p, m, t, amt, charged)
  PROVE  Settles(bank', flow', stats', off)
<1>1. PICK b, f, st, c, g, su : /\ b = bank /\ f = flow /\ st = stats
                                /\ c = bank' /\ g = flow' /\ su = stats'
  OBVIOUS
<1>2. PICK till, to : till = merchants[m].account /\ to = platform
  OBVIOUS
<1>3. /\ b \in Ledger /\ f \in [Account -> Flow] /\ st \in StatsType
      /\ c \in Ledger /\ g \in [Account -> Flow]
  BY <1>1, BooksOf DEF BooksTyped
<1>4. /\ amt \in Nat /\ charged \in Nat /\ amt - charged \in Nat /\ till \in Routes
      /\ charged # 0 => fee[t] # 0
      /\ BankSplit(b, c, p, till, to, t, amt, charged)
      /\ FlowSplit(f, g, till, to, t, amt, charged)
      /\ su = RecordMerchantPayment(st, m, t, amt, charged)
  BY <1>1, <1>2 DEF SoldOne
<1>5. to \notin Account /\ (charged # 0 => to \in Treasury)
  BY <1>2, <1>4, FeePayee
<1>6. Settles(b, f, st, off)
  BY <1>1
<1> HIDE DEF SoldOne
<1>7. Settles(c, g, su, off)
  BY <1>3, <1>4, <1>5, <1>6, SplitSettles
<1> QED BY <1>1, <1>7

\* An invoice paid.
LEMMA PaidSettles ==
  ASSUME TakingsStay, TypesInv, FeesSet, NEW off \in [Tokens -> Nat],
         NEW w, WorldType(w), Settles(w.bank, w.flow, w.stats, off), NEW v, WorldType(v),
         NEW i \in DOMAIN w.invoices, NEW p \in Payers, NEW amt, NEW charged,
         PaidOne(w, v, i, p, amt, charged)
  PROVE  Settles(v.bank, v.flow, v.stats, off)
<1> DEFINE q == w.invoices[i]
<1>1. q \in InvoiceRecord
  BY DEF WorldType, AllSound
<1>2. q.merchant \in Seller /\ q.token \in Tokens
  <2> HIDE DEF q
  <2> QED BY <1>1 DEF InvoiceRecord
<1>3. PICK m \in Seller, t \in Tokens : m = q.merchant /\ t = q.token
  BY <1>2
<1>4. PICK till, to : till = merchants[m].account /\ to = platform
  OBVIOUS
<1>5. /\ w.bank \in Ledger /\ w.flow \in [Account -> Flow] /\ w.stats \in StatsType
      /\ v.bank \in Ledger /\ v.flow \in [Account -> Flow]
  BY DEF WorldType
<1>6. /\ amt \in Nat /\ charged \in Nat /\ amt - charged \in Nat /\ till \in Routes
      /\ charged # 0 => fee[t] # 0
      /\ BankSplit(w.bank, v.bank, p, till, to, t, amt, charged)
      /\ FlowSplit(w.flow, v.flow, till, to, t, amt, charged)
      /\ v.stats = RecordMerchantPayment(w.stats, m, t, amt, charged)
  BY <1>3, <1>4 DEF PaidOne
<1>7. to \notin Account /\ (charged # 0 => to \in Treasury)
  BY <1>4, <1>6, FeePayee
<1>8. p \notin Treasury
  BY DEF TakingsStay, Treasury
<1> HIDE DEF q
<1> QED BY <1>5, <1>6, <1>7, <1>8, SplitSettles

\* A transfer that ends outside the treasury and the accounts.
LEMMA PassedSettles ==
  ASSUME NEW b \in Ledger, NEW f \in [Account -> Flow], NEW st \in StatsType,
         NEW off \in [Tokens -> Nat], Settles(b, f, st, off),
         NEW c \in Ledger, NEW g \in [Account -> Flow],
         \A a \in Account : g[a].received = f[a].received,
         NEW x, x \notin Treasury, NEW y, y \notin Treasury, NEW t, NEW amt \in Nat,
         Transferred(b, c, x, y, t, amt)
  PROVE  Settles(c, g, st, off)
<1>1. Treasury \subseteq Holder
  BY MerchantsAssumption DEF Treasury
<1>2. ASSUME NEW h \in Treasury PROVE Left(b, c, h)
  <2>1. h \in Holder \ {x} /\ h # y
    BY <1>1
  <2> QED BY <2>1, TransferAside
<1> QED BY <1>2, StillSettles

\* A withdrawal or a refund.
LEMMA SentSettles ==
  ASSUME TakingsStay, TypesInv, TypesInv', NEW off \in [Tokens -> Nat],
         Settles(bank, flow, stats, off),
         NEW a \in Account, NEW to \in Payees \cup Payers, NEW t \in Tokens, NEW amt \in Int,
         CanPay(bank, a, t, amt), bank' = Moved(bank, a, to, t, amt),
         flow' = flow \/ flow' = Refunded(flow, a, t, amt)
  PROVE  Settles(bank', flow', stats, off)
<1>1. PICK b, f, st, c, g : /\ b = bank /\ f = flow /\ st = stats /\ c = bank' /\ g = flow'
  OBVIOUS
<1>2. /\ b \in Ledger /\ f \in [Account -> Flow] /\ st \in StatsType
      /\ c \in Ledger /\ g \in [Account -> Flow]
  BY <1>1, BooksOf DEF TypesInv, MerchantsTypeOK, AccountTypeOK, Ledger
<1>3. a \in Holder
  BY AccountAssumption
<1>4. amt \in Nat /\ Transferred(b, c, a, to, t, amt)
  BY <1>1, <1>2, <1>3, LedgerMoved DEF Transferred
<1>5. \A x \in Account : g[x].received = f[x].received
  <2>1. CASE g = f
    BY <2>1
  <2>2. CASE g = Refunded(f, a, t, amt)
    BY <1>2, <2>2 DEF Refunded, Flow
  <2> QED BY <1>1, <2>1, <2>2
<1>6. a \notin Treasury /\ to \notin Treasury
  BY DEF TakingsStay, Treasury
<1>7. Settles(b, f, st, off)
  BY <1>1
<1> HIDE DEF Transferred, Settles
<1>8. Settles(c, g, st, off)
  BY <1>2, <1>4, <1>5, <1>6, <1>7, PassedSettles
<1> QED BY <1>1, <1>8

\* The steps of the merchants and the administration.
LEMMA MerchantsSettle ==
  ASSUME TakingsStay, TypesInv, TypesInv', NEW off \in [Tokens -> Nat],
         Settles(bank, flow, stats, off), MerchantsNext
  PROVE  Settles(bank', flow', stats', off)
<1>1. stats' = stats
  BY StatsSettled
<1>2. ASSUME LedgerKept PROVE Settles(bank', flow', stats', off)
  BY <1>1, <1>2 DEF LedgerKept
<1>3. ASSUME NEW a \in Account, NEW to \in Payees, NEW t \in Tokens, NEW amt \in Nat,
             Withdrawn(a, to, t, amt)
      PROVE  Settles(bank', flow', stats', off)
  <2>1. to \notin Account
    BY DEF TakingsStay
  <2>2. /\ amt \in Int /\ CanPay(bank, a, t, amt) /\ bank' = Moved(bank, a, to, t, amt)
        /\ flow' = flow
    BY <1>3, <2>1 DEF Withdrawn, Received
  <2> QED BY <1>1, <2>2, SentSettles
<1> QED BY <1>2, <1>3, MerchantsMoney

\* The steps of the invoices.
LEMMA InvoicesSettle ==
  ASSUME TakingsStay, InvoicesInv, TypesInv', FeesSet, NEW off \in [Tokens -> Nat],
         Settles(bank, flow, stats, off), InvoiceNext
  PROVE  Settles(bank', flow', stats', off)
<1>1. TypesInv
  BY DEF InvoicesInv
<1>2. ASSUME UNCHANGED <<platformVars, merchantVars>>
      PROVE  Settles(bank', flow', stats', off)
  BY <1>2 DEF platformVars, merchantVars, accountVars
<1>3. ASSUME NEW q, CreatedOne(q) PROVE Settles(bank', flow', stats', off)
  BY <1>2, <1>3 DEF CreatedOne
<1>4. ASSUME NEW i, NEW r, RevisedOne(i, r) PROVE Settles(bank', flow', stats', off)
  BY <1>2, <1>4 DEF RevisedOne
<1>5. ASSUME NEW i \in DOMAIN invoices, NEW r, NEW amt, RefundedOne(i, r, amt)
      PROVE  Settles(bank', flow', stats', off)
  <2> DEFINE a  == merchants[invoices[i].merchant].account
             to == invoices[i].payer
             t  == invoices[i].token
  <2>1. /\ a \in Account /\ to \in Payers /\ amt \in Nat
        /\ CanPay(bank, a, t, amt)
        /\ bank' = Moved(bank, a, to, t, amt)
        /\ flow' = Refunded(Received(flow, to, t, amt), a, t, amt)
        /\ stats' = stats
    BY <1>5 DEF RefundedOne, platformVars
  <2>2. t \in Tokens
    BY Fields DEF InvoicesInv, AllSound
  <2> HIDE DEF a, to, t
  <2>3. to \notin Account /\ amt \in Int
    BY <2>1 DEF TakingsStay
  <2>4. flow' = Refunded(flow, a, t, amt)
    BY <2>1, <2>3 DEF Received
  <2> QED BY <1>1, <2>1, <2>2, <2>3, <2>4, SentSettles
<1>6. ASSUME NEW p \in Payers, NEW v, PaidSome(p, v)
      PROVE  Settles(bank', flow', stats', off)
  <2>1. PICK w : w = World
    OBVIOUS
  <2>2. WorldType(w)
    BY <2>1 DEF InvoicesInv, TypesInv, MerchantsTypeOK, PlatformTypeOK, AccountTypeOK,
                World, WorldType, Ledger, StatsType
  <2>3. w.bank = bank /\ w.flow = flow /\ w.stats = stats /\ w.invoices = invoices
    BY <2>1 DEF World
  <2>4. WorldType(v) /\ bank' = v.bank /\ flow' = v.flow /\ stats' = v.stats
    BY <1>6 DEF PaidSome, Install
  <2>5. Settles(w.bank, w.flow, w.stats, off)
    BY <2>3
  <2>6. CASE \E i \in DOMAIN invoices, amt \in Int, charged \in Nat :
                  PaidOne(w, v, i, p, amt, charged)
    <3>1. \E i \in DOMAIN w.invoices : \E amt, charged : PaidOne(w, v, i, p, amt, charged)
      BY <2>3, <2>6
    <3>2. Settles(v.bank, v.flow, v.stats, off)
      BY <1>1, <2>2, <2>4, <2>5, <3>1, PaidSettles
    <3> QED BY <2>4, <3>2
  <2>7. CASE \E z : /\ WorldType(z)
                    /\ \E i \in DOMAIN invoices, amt \in Int, charged \in Nat :
                          PaidOne(w, z, i, p, amt, charged)
                    /\ \E i \in DOMAIN z.invoices, amt \in Int, charged \in Nat :
                          PaidOne(z, v, i, p, amt, charged)
    <3>1. PICK z : /\ WorldType(z)
                   /\ \E i \in DOMAIN w.invoices : \E amt, charged :
                          PaidOne(w, z, i, p, amt, charged)
                   /\ \E i \in DOMAIN z.invoices : \E amt, charged :
                          PaidOne(z, v, i, p, amt, charged)
      BY <2>3, <2>7
    <3>2. Settles(z.bank, z.flow, z.stats, off)
      BY <1>1, <2>2, <2>5, <3>1, PaidSettles
    <3>3. Settles(v.bank, v.flow, v.stats, off)
      BY <1>1, <2>4, <3>1, <3>2, PaidSettles
    <3> QED BY <2>4, <3>3
  <2> QED BY <1>6, <2>1, <2>6, <2>7 DEF PaidSome
<1> QED BY <1>3, <1>4, <1>5, <1>6, InvoiceMoves

\* Sales, resales and cancellations.
LEMMA EventsSettle ==
  ASSUME TakingsStay, TypesInv, EventsInv, Registered(events), FeesSet,
         offBooks \in [Tokens -> Nat], Settles(bank, flow, stats, offBooks), EventsNext
  PROVE  Settles(bank', flow', stats', offBooks')
<1>1. CASE BooksKept /\ UNCHANGED <<tickets, offBooks>>
  BY <1>1 DEF BooksKept, platformVars, merchantVars, accountVars
<1>2. \A p \in Buyers \cup Seller : p \notin Treasury
  BY DEF TakingsStay, Treasury
<1>3. ASSUME BooksTyped,
             NEW e \in DOMAIN events, NEW p \in Buyers, NEW amt \in Nat, NEW charged \in Nat,
             TicketSold(e, p, amt, charged)
      PROVE  Settles(bank', flow', stats', offBooks')
  <2>1. PICK m \in Seller, t \in Tokens : m = events[e].merchant /\ t = events[e].token
    BY RefundInputs
  <2>2. SoldOne(p, m, t, amt, charged) /\ offBooks' = offBooks
    BY <1>3, <2>1 DEF TicketSold
  <2>3. p \notin Treasury
    BY <1>2
  <2>4. Settles(bank', flow', stats', offBooks)
    BY <1>3, <2>2, <2>3, SoldSettles
  <2> QED BY <2>2, <2>4
<1>4. ASSUME BooksTyped PROVE bank' \in Ledger /\ flow' \in [Account -> Flow]
  BY <1>4 DEF BooksTyped
<1>5. ASSUME BooksTyped, NEW p \in Buyers, NEW to \in Routes, NEW t \in Tokens, NEW paid \in Nat,
             BulkSold(p, to, t, paid)
      PROVE  Settles(bank', flow', stats', offBooks')
  <2>1. PICK b, f, st, off, c, g : /\ b = bank /\ f = flow /\ st = stats /\ off = offBooks
                                   /\ c = bank' /\ g = flow'
    OBVIOUS
  <2>2. /\ b \in Ledger /\ f \in [Account -> Flow] /\ st \in StatsType
        /\ c \in Ledger /\ g \in [Account -> Flow] /\ off \in [Tokens -> Nat]
        /\ Settles(b, f, st, off) /\ p \notin Treasury
    BY <1>2, <1>4, <1>5, <2>1, BooksOf
  <2>3. MovedOnce(b, c, f, g, p, to, t, paid)
    BY <1>5, <2>1 DEF BulkSold
  <2>4. Settles(c, g, st, [off EXCEPT ![t] = @ + paid])
    BY <2>2, <2>3, AsideSettles
  <2>5. stats' = stats /\ offBooks' = [offBooks EXCEPT ![t] = @ + paid]
    BY <1>5 DEF BulkSold, OffBooks, TakingsStay
  <2> QED BY <2>1, <2>4, <2>5
<1>6. ASSUME BooksTyped, NEW i \in DOMAIN tickets, NEW p \in Buyers, NEW net \in Nat,
             NEW royalty \in Nat, TicketResold(i, p, net, royalty)
      PROVE  Settles(bank', flow', stats', offBooks')
  <2> DEFINE event == events[tickets[i].event_id]
  <2>1. PICK b, f, st, off, c, g : /\ b = bank /\ f = flow /\ st = stats /\ off = offBooks
                                   /\ c = bank' /\ g = flow'
    OBVIOUS
  <2>2. PICK t, seller, till : /\ t = event.token /\ seller = tickets[i].owner
                               /\ till = merchants[event.merchant].account
    OBVIOUS
  <2>3. PICK mid \in Ledger : /\ MovedOnce(b, mid, f, f, p, seller, t, net)
                              /\ MovedOnce(mid, c, f, g, p, till, t, royalty)
    BY <1>6, <2>1, <2>2 DEF TicketResold
  <2>4. till \in Routes /\ stats' = stats /\ offBooks' = OffBooks(till, t, royalty)
    BY <1>6, <2>2 DEF TicketResold
  <2>5. /\ b \in Ledger /\ f \in [Account -> Flow] /\ st \in StatsType
        /\ c \in Ledger /\ g \in [Account -> Flow] /\ off \in [Tokens -> Nat]
        /\ Settles(b, f, st, off) /\ p \notin Treasury
    BY <1>2, <1>4, <1>6, <2>1, BooksOf
  <2>6. tickets[i] \in Ticket
    BY DEF EventsInv, EventsTyped
  <2>7. tickets[i].event_id \in DOMAIN events /\ seller \in Buyers
    BY <2>2, <2>6 DEF Ticket, EventsInv, EventsTyped
  <2>8. t \in Tokens /\ seller \notin Treasury
    BY <1>2, <2>2, <2>7, RefundInputs
  <2>9. Settles(mid, f, st, off)
    <3>1. Transferred(b, mid, p, seller, t, net)
      BY <2>3 DEF MovedOnce, Transferred
    <3> QED BY <2>5, <2>8, <3>1, PassedSettles
  <2>10. Settles(c, g, st, [off EXCEPT ![t] = @ + royalty])
    BY <2>3, <2>4, <2>5, <2>8, <2>9, AsideSettles
  <2>11. offBooks' = [offBooks EXCEPT ![t] = @ + royalty]
    BY <2>4 DEF OffBooks, TakingsStay
  <2> QED BY <2>1, <2>4, <2>10, <2>11
<1>7. ASSUME BooksTyped, NEW e \in DOMAIN events, Refunding(e)
      PROVE  Settles(bank', flow', stats', offBooks')
  <2>1. /\ RefundsOwed(e, bank') /\ flow' = flow /\ stats' = stats /\ offBooks' = offBooks
    BY <1>7 DEF Refunding
  <2>2. PICK b, f, st, off, c : /\ b = bank /\ f = flow /\ st = stats /\ off = offBooks
                                /\ c = bank'
    OBVIOUS
  <2>3. /\ b \in Ledger /\ f \in [Account -> Flow] /\ st \in StatsType
        /\ c \in Ledger /\ off \in [Tokens -> Nat] /\ Settles(b, f, st, off)
    BY <1>4, <1>7, <2>2, BooksOf
  <2>4. events[e].merchant \in Seller
    BY RefundInputs
  <2>5. ASSUME NEW h \in Treasury PROVE Left(b, c, h)
    <3>1. h \in Holder \ (Buyers \cup {events[e].merchant})
      BY <1>2, <2>4, MerchantsAssumption DEF Treasury
    <3> QED BY <2>1, <2>2, <3>1 DEF RefundsOwed, Left
  <2>6. Settles(c, f, st, off)
    BY <2>3, <2>5, StillSettles
  <2> QED BY <2>1, <2>2, <2>6
<1> QED BY <1>1, <1>3, <1>5, <1>6, <1>7, EventsMoves

\* Charges.
LEMMA SubscriptionsSettle ==
  ASSUME TakingsStay, TypesInv, SubsInv, Registered(plans), FeesSet, NEW off \in [Tokens -> Nat],
         Settles(bank, flow, stats, off), SubscriptionNext
  PROVE  Settles(bank', flow', stats', off)
<1>1. CASE BooksKept
  BY <1>1 DEF BooksKept, platformVars, merchantVars, accountVars
<1>2. ASSUME BooksTyped, NEW s \in DOMAIN subs, NEW charged \in Nat, Charged(s, charged)
      PROVE  Settles(bank', flow', stats', off)
  <2> DEFINE plan == plans[subs[s].plan_id]
             p    == subs[s].customer
  <2>1. plan \in SubscriptionPlan /\ subs[s] \in SubscriptionRecord
    BY DEF SubsInv, SubsTyped
  <2>2. p \in Customers
    BY <2>1 DEF SubscriptionRecord
  <2>3. SoldOne(p, plan.merchant, plan.token, plan.amount, charged)
    BY <1>2 DEF Charged
  <2> HIDE DEF plan, p
  <2>4. plan.merchant \in Seller /\ plan.token \in Tokens
    BY <2>1 DEF SubscriptionPlan
  <2>5. p \notin Treasury
    BY <2>2 DEF TakingsStay, Treasury
  <2> QED BY <1>2, <2>3, <2>4, <2>5, SoldSettles
<1> QED BY <1>1, <1>2, SubscriptionMoves

\* Pledges.
LEMMA CampaignsSettle ==
  ASSUME TakingsStay, TypesInv, CampaignsInv, NEW off \in [Tokens -> Nat],
         Settles(bank, flow, stats, off), BackerRewardsNext
  PROVE  Settles(bank', flow', stats', off)
<1>1. CASE BooksKept
  BY <1>1 DEF BooksKept, platformVars, merchantVars, accountVars
<1>2. ASSUME BooksTyped, NEW c \in DOMAIN campaigns, NEW b \in Backers, NEW amt \in Nat,
             Pledged(c, b, amt)
      PROVE  Settles(bank', flow', stats', off)
  <2>1. PICK from, f, st, to : from = bank /\ f = flow /\ st = stats /\ to = bank'
    OBVIOUS
  <2>2. PICK t : t = campaigns[c].token
    OBVIOUS
  <2>3. /\ Transferred(from, to, b, Shade, t, amt) /\ flow' = flow /\ stats' = stats
    BY <1>2, <2>1, <2>2 DEF Pledged, Transferred
  <2>4. /\ from \in Ledger /\ f \in [Account -> Flow] /\ st \in StatsType /\ to \in Ledger
        /\ Settles(from, f, st, off)
    BY <1>2, <2>1, BooksOf DEF BooksTyped
  <2>5. b \notin Treasury /\ Shade \notin Treasury
    BY DEF TakingsStay, Treasury
  <2>6. Settles(to, f, st, off)
    BY <2>3, <2>4, <2>5, PassedSettles
  <2> QED BY <2>1, <2>3, <2>6
<1> QED BY <1>1, <1>2, CampaignMoves

\* At the start nobody has received anything.
LEMMA SettlesInit ==
  ASSUME ShadeInit
  PROVE  FeesSet /\ Settles(bank, flow, stats, offBooks)
<1>1. /\ bank = Funds /\ flow = [a \in Account |-> NoFlow] /\ offBooks = [t \in Tokens |-> 0]
      /\ stats.token = [t \in Tokens |-> NoTokenAnalysis]
      /\ fee = [t \in Tokens |-> 0] /\ admin = None /\ pendingAdmin = None
  BY DEF ShadeInit, Init, EventsInit, MerchantsInit, PlatformInit, AccountInit
<1>2. Treasury \subseteq Holder /\ IsFiniteSet(Treasury) /\ IsFiniteSet(Account)
  BY ShadeAssumption, MerchantsAssumption, AccountAssumption, FS_Subset DEF Treasury
<1>3. ASSUME NEW S, IsFiniteSet(S), NEW f, DOMAIN f = S, \A x \in S : f[x] = 0
      PROVE  SumFunction(f) = 0
  BY <1>3, SumZero DEF SumFunction
<1>4. ASSUME NEW t \in Tokens
      PROVE  SumFunction(Gained(bank, t)) = 0 /\ SumFunction(Takings(flow, t)) = 0
  <2>1. \A p \in Treasury : Funds[p][t] \in Int
    BY <1>2, AccountAssumption
  <2>2. DOMAIN Gained(bank, t) = Treasury /\ \A p \in Treasury : Gained(bank, t)[p] = 0
    BY <1>1, <2>1 DEF Gained
  <2>3. DOMAIN Takings(flow, t) = Account /\ \A a \in Account : Takings(flow, t)[a] = 0
    BY <1>1 DEF Takings, NoFlow
  <2>4. PICK f, g : f = Gained(bank, t) /\ g = Takings(flow, t)
    OBVIOUS
  <2>5. SumFunction(f) = 0 /\ SumFunction(g) = 0
    BY <1>2, <1>3, <2>2, <2>3, <2>4
  <2> QED BY <2>4, <2>5
<1>5. ASSUME NEW t \in Tokens
      PROVE  /\ stats.token[t].total_volume = 0 /\ stats.token[t].total_fees = 0
             /\ offBooks[t] = 0
  <2>1. stats.token[t] = NoTokenAnalysis /\ offBooks[t] = 0
    BY <1>1
  <2> QED BY <2>1 DEF NoTokenAnalysis
<1>6. Settles(bank, flow, stats, offBooks)
  <2>1. 0 = 0 - 0 + 0
    OBVIOUS
  <2> QED BY <1>4, <1>5, <2>1 DEF Settles
<1>7. FeesSet
  BY <1>1 DEF FeesSet
<1> QED BY <1>6, <1>7

\* Every step keeps fees, takings and the analytics in line.
LEMMA SettlesStep ==
  ASSUME TakingsStay, ShadeInv, ShadeInv', FeesSet, Settles(bank, flow, stats, offBooks),
         [ShadeNext]_shadeVars
  PROVE  FeesSet' /\ Settles(bank', flow', stats', offBooks')
<1>1. /\ TypesInv /\ EventsInv /\ InvoicesInv /\ SubsInv /\ CampaignsInv
      /\ Registered(events) /\ Registered(plans) /\ offBooks \in [Tokens -> Nat]
  BY DEF ShadeInv, InvoicesInv, HoldersInv
<1>2. TypesInv'
  BY DEF ShadeInv, InvoicesInv
<1>3. FeesSet'
  <2>1. PlatformTypeOK
    BY <1>1 DEF TypesInv, MerchantsTypeOK
  <2> QED BY <2>1, ConfigKept, FeesStep
<1>4. PICK off \in [Tokens -> Nat] : off = offBooks
  BY <1>1
<1>5. Settles(bank, flow, stats, off)
  BY <1>4
<1>6. ASSUME MerchantsNext, UNCHANGED eventVars
      PROVE  Settles(bank', flow', stats', offBooks')
  <2>1. Settles(bank', flow', stats', off)
    BY <1>1, <1>2, <1>5, <1>6, MerchantsSettle
  <2> QED BY <1>4, <1>6, <2>1 DEF eventVars
<1>7. ASSUME InvoiceNext, UNCHANGED eventVars
      PROVE  Settles(bank', flow', stats', offBooks')
  <2>1. Settles(bank', flow', stats', off)
    BY <1>1, <1>2, <1>5, <1>7, InvoicesSettle
  <2> QED BY <1>4, <1>7, <2>1 DEF eventVars
<1>8. ASSUME SubscriptionNext, UNCHANGED eventVars
      PROVE  Settles(bank', flow', stats', offBooks')
  <2>1. Settles(bank', flow', stats', off)
    BY <1>1, <1>5, <1>8, SubscriptionsSettle
  <2> QED BY <1>4, <1>8, <2>1 DEF eventVars
<1>9. ASSUME BackerRewardsNext, UNCHANGED eventVars
      PROVE  Settles(bank', flow', stats', offBooks')
  <2>1. Settles(bank', flow', stats', off)
    BY <1>1, <1>5, <1>9, CampaignsSettle
  <2> QED BY <1>4, <1>9, <2>1 DEF eventVars
<1>10. ASSUME NftNext, UNCHANGED eventVars
       PROVE  Settles(bank', flow', stats', offBooks')
  BY <1>10, NftMoves DEF BooksKept, platformVars, merchantVars, accountVars, eventVars
<1>11. ASSUME EventsNext PROVE Settles(bank', flow', stats', offBooks')
  BY <1>1, <1>11, EventsSettle
<1>12. ASSUME UNCHANGED shadeVars PROVE Settles(bank', flow', stats', offBooks')
  BY <1>12 DEF shadeVars, platformVars, merchantVars, accountVars, eventVars
<1>13. Settles(bank', flow', stats', offBooks')
  BY <1>6, <1>7, <1>8, <1>9, <1>10, <1>11, <1>12 DEF ShadeNext, Next
<1> QED BY <1>3, <1>13

\* The platform's accounts received what the analytics record as fees, whoever holds them
\* and whatever the discount was; the merchants' accounts received the volume less the
\* fees, and what is sold off the books (take_payment, record_merchant_payment).
THEOREM TakingsAgreeHolds ==
  ASSUME TakingsStay
  PROVE  ShadeSpec => []TakingsAgree
<1> DEFINE Inv == ShadeInv /\ FeesSet /\ Settles(bank, flow, stats, offBooks)
<1>1. ShadeInit => Inv
  BY ShadeInvInit, SettlesInit
<1>2. Inv /\ [ShadeNext]_shadeVars => Inv'
  <2> SUFFICES ASSUME Inv, [ShadeNext]_shadeVars PROVE Inv'
    OBVIOUS
  <2>1. ShadeInv'
    BY ShadeInvStep
  <2> QED BY <2>1, SettlesStep
<1>3. Inv => TakingsAgree
  BY DEF Settles, Gained, Takings, Treasury, TakingsAgree
<1> QED BY <1>1, <1>2, <1>3, PTL DEF ShadeSpec
=============================================================================
