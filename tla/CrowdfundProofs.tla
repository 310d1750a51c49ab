--------------------------- MODULE CrowdfundProofs ---------------------------
(***************************************************************************)
(* Theorems about a crowdfund campaign, for every value of the constants:   *)
(* its types, its books, its list of contributors, and that it implements   *)
(* AllOrNothing, all from one inductive invariant; and, from a second one    *)
(* about the sums of the pledges, that refunds are covered and that a        *)
(* milestone is released by a majority.                                      *)
(***************************************************************************)
EXTENDS Crowdfund, TokenLedgerProofs, FoldTheorems

-----------------------------------------------------------------------------
(* The inductive invariant. *)

\* Until init_campaign no money moves.
Untouched ==
    ~Initialized => /\ bank = Funds
                    /\ raised = 0 /\ pool = 0 /\ taken = 0 /\ refunded = 0

\* The batch refund happens after the deadline, so no pledge follows it.
RefundsAfterEnd == refundProcessed => Ended

CampaignInv ==
    /\ CampaignTypeOK
    /\ Untouched
    /\ CampaignBooks
    /\ RefundsAfterEnd
    /\ BackersListed

-----------------------------------------------------------------------------
(* The list of contributors. *)

\* track_contributor adds the backer, once, and keeps everyone on the list.
LEMMA TrackedFacts ==
  ASSUME NEW list \in Seq(Backers), NEW b \in Backers,
         \A i, j \in DOMAIN list : list[i] = list[j] => i = j
  PROVE  LET new == Tracked(list, b)
         IN  /\ new \in Seq(Backers)
             /\ b \in Range(new)
             /\ Range(list) \subseteq Range(new)
             /\ \A i, j \in DOMAIN new : new[i] = new[j] => i = j
<1>1. CASE b \in Range(list)
  BY <1>1 DEF Tracked
<1>2. CASE b \notin Range(list)
  <2> DEFINE new == Append(list, b)
  <2>1. /\ new \in Seq(Backers)
        /\ DOMAIN new = 1 .. Len(list) + 1
        /\ new[Len(list) + 1] = b
        /\ \A i \in DOMAIN list : i \in DOMAIN new /\ new[i] = list[i]
        /\ DOMAIN list = 1 .. Len(list)
        /\ Len(list) \in Nat
    OBVIOUS
  <2>2. b \in Range(new)
    BY <2>1 DEF Range
  <2>3. Range(list) \subseteq Range(new)
    BY <2>1 DEF Range
  <2>4. \A i \in DOMAIN list : list[i] # b
    BY <1>2 DEF Range
  <2>5. \A i, j \in DOMAIN new : new[i] = new[j] => i = j
    <3> SUFFICES ASSUME NEW i \in DOMAIN new, NEW j \in DOMAIN new, new[i] = new[j]
                 PROVE  i = j
      OBVIOUS
    <3>1. \A k \in DOMAIN new : k \in DOMAIN list \/ k = Len(list) + 1
      BY <2>1
    <3> QED BY <2>1, <2>4, <3>1
  <2>6. Tracked(list, b) = new
    BY <1>2 DEF Tracked
  <2> QED BY <2>1, <2>2, <2>3, <2>5, <2>6
<1> QED BY <1>1, <1>2

-----------------------------------------------------------------------------
(* What the steps have in common. *)

\* The terms of an initialized campaign.
LEMMA TermsFacts ==
  ASSUME CampaignTypeOK, Initialized
  PROVE  /\ terms \in Terms
         /\ terms.token \in Tokens
         /\ terms.deadline \in Nat /\ terms.goal \in Int
         /\ terms.organizer \in Holder \ {Self}
         /\ Self \in Holder
         /\ bank[Self][terms.token] \in Nat
<1>1. terms \in Terms
  BY DEF CampaignTypeOK, Initialized
<1>2. terms.organizer \in Organizers /\ terms.token \in Tokens
  BY <1>1 DEF Terms
<1> QED BY <1>1, <1>2, HoldersAssumption DEF Terms, CampaignTypeOK

\* What apply_pledge_with_matching does to the totals and to the list.
LEMMA CreditFacts ==
  ASSUME CampaignInv, NEW b \in Backers, NEW amt \in Int, amt > 0, NEW extra \in Nat,
         Credit(b, amt, extra)
  PROVE  /\ Matched(amt) \in 0 .. pool
         /\ raised' = raised + (amt + Matched(amt))
         /\ pool' = pool - Matched(amt)
         /\ raised' \in Nat /\ pool' \in Nat /\ raised' > raised
         /\ pledges' \in [Backers -> Nat]
         /\ contributors' \in Seq(Backers)
         /\ \A c \in Backers : pledges'[c] > 0 => c \in Range(contributors')
         /\ \A i, j \in DOMAIN contributors' : contributors'[i] = contributors'[j] => i = j
<1>1. /\ raised \in Nat /\ pool \in Nat /\ amt \in Nat
      /\ pledges \in [Backers -> Nat] /\ contributors \in Seq(Backers)
  BY DEF CampaignInv, CampaignTypeOK
<1>2. Matched(amt) \in 0 .. pool
  BY <1>1 DEF Matched
<1>3. /\ raised' = raised + (amt + Matched(amt))
      /\ pool' = pool - Matched(amt)
      /\ pledges' = [pledges EXCEPT ![b] = @ + (amt + Matched(amt)) + extra]
      /\ contributors' = Tracked(contributors, b)
  BY DEF Credit, PoolAfter
<1>4. /\ contributors' \in Seq(Backers)
      /\ b \in Range(contributors')
      /\ Range(contributors) \subseteq Range(contributors')
      /\ \A i, j \in DOMAIN contributors' : contributors'[i] = contributors'[j] => i = j
  BY <1>1, <1>3, TrackedFacts DEF CampaignInv, BackersListed
<1>5. pledges[b] + (amt + Matched(amt)) + extra \in Nat
  BY <1>1, <1>2
<1>6. pledges' \in [Backers -> Nat]
  BY <1>1, <1>3, <1>5
<1>7. \A c \in Backers : pledges'[c] > 0 => c \in Range(contributors')
  BY <1>1, <1>3, <1>4 DEF CampaignInv, BackersListed
<1>8. raised' \in Nat /\ pool' \in Nat /\ raised' > raised
  BY <1>1, <1>2, <1>3
<1> QED BY <1>2, <1>3, <1>4, <1>6, <1>7, <1>8

\* A contribution, directly or through the gateway.
LEMMA CollectInv ==
  ASSUME CampaignInv, NEW b \in Backers, NEW amt \in Int, amt > 0, NEW extra \in Nat,
         InTime(now), Credit(b, amt, extra),
         bank' \in LedgerOf(Holder),
         bank'[Self][terms.token] = bank[Self][terms.token] + amt,
         UNCHANGED <<now, setupVars, closeVars, voteVars, taken, refunded>>
  PROVE  CampaignInv'
<1>1. /\ Initialized /\ Initialized' /\ now \in Nat /\ terms.deadline \in Nat
      /\ bank[Self][terms.token] \in Nat /\ {taken, refunded} \subseteq Nat
      /\ {raised, pool} \subseteq Nat
  BY TermsFacts DEF CampaignInv, CampaignTypeOK, InTime, Initialized, setupVars
<1>2. CampaignTypeOK'
  BY CreditFacts DEF CampaignInv, CampaignTypeOK, LedgerOf, Index, setupVars, closeVars,
     voteVars
<1>3. CampaignBooks'
  <2>1. bank[Self][terms.token] = raised + pool - taken - refunded
    BY <1>1 DEF CampaignInv, CampaignBooks
  <2>2. /\ Matched(amt) \in Nat
        /\ raised' = raised + (amt + Matched(amt))
        /\ pool' = pool - Matched(amt)
    BY <1>1, CreditFacts
  <2>3. terms' = terms /\ taken' = taken /\ refunded' = refunded
    BY DEF setupVars
  <2>4. bank'[Self][terms'.token] = bank[Self][terms.token] + amt
    BY <2>3
  <2>5. taken \in Nat /\ refunded \in Nat /\ raised \in Nat /\ pool \in Nat
    BY <1>1
  <2>6. raised' + pool' - taken - refunded = raised + pool - taken - refunded + amt
    BY <2>2, <2>5
  <2> QED BY <2>1, <2>3, <2>4, <2>6 DEF CampaignBooks
<1>4. ~refundProcessed'
  BY <1>1 DEF CampaignInv, RefundsAfterEnd, Ended, InTime, closeVars
<1>5. BackersListed'
  BY <1>4, CreditFacts DEF BackersListed
<1> QED BY <1>1, <1>2, <1>3, <1>4, <1>5 DEF CampaignInv, Untouched, RefundsAfterEnd

\* A direct contribution keeps the invariant.
LEMMA ContributeInv ==
  ASSUME CampaignInv, NEW b \in Backers, NEW amt \in Int, Contribute(b, amt)
  PROVE  CampaignInv'
<1>1. bank \in LedgerOf(Holder) /\ b \in Holder /\ b # Self /\ terms.token \in Tokens
      /\ Self \in Holder
  BY TermsFacts, HoldersAssumption DEF CampaignInv, CampaignTypeOK, LedgerOf, Contribute, InTime
<1>2. /\ CanPay(bank, b, terms.token, amt) /\ bank' = Moved(bank, b, Self, terms.token, amt)
      /\ amt > 0 /\ InTime(now) /\ Credit(b, amt, 0)
      /\ UNCHANGED <<now, setupVars, closeVars, voteVars, taken, refunded>>
  BY DEF Contribute
<1>3. bank' \in LedgerOf(Holder)
  BY <1>1, <1>2, TransferType
<1>4. bank'[Self][terms.token] = bank[Self][terms.token] + amt
  BY <1>1, <1>2, TransferValue
<1>5. 0 \in Nat
  OBVIOUS
<1> QED BY <1>2, <1>3, <1>4, <1>5, CollectInv

\* So does a pledge through a gateway, recorded twice as it is.
LEMMA PledgeInv ==
  ASSUME CampaignInv, NEW b \in Backers, NEW amt \in Int, NEW invoiced \in Nat,
         Pledge(b, amt, invoiced)
  PROVE  CampaignInv'
<1> DEFINE paid == Moved(bank, b, account, terms.token, invoiced)
<1>1. /\ bank \in LedgerOf(Holder) /\ b \in Holder /\ b # Self /\ terms.token \in Tokens
      /\ Self \in Holder /\ account \in Holder /\ account # Self
  BY TermsFacts, HoldersAssumption
  DEF CampaignInv, CampaignTypeOK, LedgerOf, Pledge, InTime
<1>2. /\ CanPay(bank, b, terms.token, invoiced)
      /\ CanPay(paid, account, terms.token, amt)
      /\ bank' = Moved(paid, account, Self, terms.token, amt)
      /\ amt > 0 /\ InTime(now) /\ Credit(b, amt, amt)
      /\ UNCHANGED <<now, setupVars, closeVars, voteVars, taken, refunded>>
  BY DEF Pledge
<1>3. paid \in LedgerOf(Holder) /\ invoiced \in Int /\ amt \in Nat
  BY <1>1, <1>2, TransferType
<1>4. bank' \in LedgerOf(Holder)
  BY <1>1, <1>2, <1>3, TransferType
<1>5. bank'[Self][terms.token] = paid[Self][terms.token] + amt
  BY <1>1, <1>2, <1>3, TransferValue
<1>6. paid[Self] = bank[Self]
  <2>1. CASE b # account
    BY <1>1, <1>3, <2>1, TransferValue
  <2>2. CASE b = account
    BY <1>1, <2>2 DEF Moved, LedgerOf
  <2> QED BY <2>1, <2>2
<1> QED BY <1>2, <1>3, <1>4, <1>5, <1>6, CollectInv

-----------------------------------------------------------------------------
(* The organizer's settings, the votes and the clock leave the money alone. *)

\* A step that changes none of the totals, the pledges and the balances keeps the
\* invariant as soon as it keeps the types.
LEMMA QuietInv ==
  ASSUME CampaignInv, CampaignTypeOK',
         now' >= now,
         UNCHANGED <<terms, pledgeVars, closeVars, moneyVars>>
  PROVE  CampaignInv'
<1>1. CASE Initialized
  <2>1. now \in Nat /\ now' \in Nat /\ terms.deadline \in Nat
    BY <1>1, TermsFacts DEF CampaignInv, CampaignTypeOK
  <2>2. Initialized' /\ (Ended => Ended')
    BY <1>1, <2>1 DEF Initialized, Ended
  <2>3. CampaignBooks'
    BY <1>1 DEF CampaignInv, CampaignBooks, pledgeVars, moneyVars
  <2>4. BackersListed'
    BY DEF CampaignInv, BackersListed, pledgeVars, closeVars
  <2>5. RefundsAfterEnd'
    BY <2>2 DEF CampaignInv, RefundsAfterEnd, closeVars
  <2> QED BY <2>2, <2>3, <2>4, <2>5 DEF CampaignInv, Untouched
<1>2. CASE ~Initialized
  BY <1>2 DEF CampaignInv, Untouched, CampaignBooks, RefundsAfterEnd, BackersListed,
     Initialized, Ended, pledgeVars, closeVars, moneyVars
<1> QED BY <1>1, <1>2

\* Initialising a campaign keeps the invariant.
LEMMA InitCampaignInv ==
  ASSUME CampaignInv, NEW o \in Organizers, NEW t \in Tokens, NEW goal \in Goals,
         NEW deadline \in Deadlines, InitCampaign(o, t, goal, deadline)
  PROVE  CampaignInv'
<1>1. /\ terms' = [organizer |-> o, token |-> t, goal |-> goal, deadline |-> deadline]
      /\ UNCHANGED <<now, gateway, account, pledgeVars, closeVars, voteVars, moneyVars>>
      /\ ~Initialized
  BY DEF InitCampaign
<1>2. terms' \in Terms
  BY <1>1, CampaignAssumption DEF Terms
<1>3. CampaignTypeOK'
  BY <1>1, <1>2 DEF CampaignInv, CampaignTypeOK, pledgeVars, closeVars, voteVars, moneyVars,
     Index
<1>4. bank' = Funds /\ raised' = 0 /\ pool' = 0 /\ taken' = 0 /\ refunded' = 0
  BY <1>1 DEF CampaignInv, Untouched, pledgeVars, moneyVars
<1>5. CampaignBooks'
  <2>1. Funds[Self][terms'.token] = 0
    BY <1>1, HoldersAssumption
  <2> QED BY <1>4, <2>1 DEF CampaignBooks
<1>6. ~refundProcessed'
  BY <1>1 DEF CampaignInv, RefundsAfterEnd, Ended, closeVars
<1>7. BackersListed'
  BY <1>1, <1>6 DEF CampaignInv, BackersListed, pledgeVars
<1> QED BY <1>3, <1>4, <1>5, <1>6, <1>7 DEF CampaignInv, Untouched, RefundsAfterEnd

\* So do the organizer's settings.
LEMMA SettingsInv ==
  ASSUME CampaignInv,
         \/ \E g \in Gateways : SetShadeGateway(g)
         \/ \E a \in Accounts : SetMerchantAccount(a)
         \/ \E percentages \in MilestoneLists : SetMilestones(percentages)
  PROVE  CampaignInv'
<1>1. /\ Initialized /\ now' = now /\ now \in Nat
      /\ UNCHANGED <<terms, pledgeVars, closeVars, moneyVars>>
      /\ UNCHANGED <<unlocked, released, ballots, tally>>
  BY DEF SetShadeGateway, SetMerchantAccount, SetMilestones, setupVars, voteVars, CampaignInv,
     CampaignTypeOK
<1>2. /\ gateway' \in Gateways \cup {None}
      /\ account' \in Accounts \cup {None}
      /\ milestones' \in Seq(Nat)
  BY CampaignAssumption
  DEF SetShadeGateway, SetMerchantAccount, SetMilestones, setupVars, voteVars, CampaignInv,
      CampaignTypeOK
<1>3. CampaignTypeOK'
  BY <1>1, <1>2 DEF CampaignInv, CampaignTypeOK, pledgeVars, closeVars, moneyVars, Index
<1> QED BY <1>1, <1>3, QuietInv

\* So does releasing a milestone.
LEMMA UnlockInv ==
  ASSUME CampaignInv, NEW i \in Index, UnlockMilestone(i)
  PROVE  CampaignInv'
<1>1. /\ now' = now /\ now \in Nat
      /\ UNCHANGED <<terms, gateway, account, pledgeVars, closeVars, moneyVars>>
      /\ UNCHANGED <<milestones, released, ballots, tally>>
      /\ unlocked' = unlocked \cup {i}
  BY DEF UnlockMilestone, setupVars, CampaignInv, CampaignTypeOK
<1>2. CampaignTypeOK'
  BY <1>1 DEF CampaignInv, CampaignTypeOK, pledgeVars, closeVars, moneyVars, Index
<1> QED BY <1>1, <1>2, QuietInv

\* So does a vote.
LEMMA VoteInv ==
  ASSUME CampaignInv, NEW b \in Backers, NEW i \in Index,
         NEW approve \in BOOLEAN, VoteMilestone(b, i, approve)
  PROVE  CampaignInv'
<1>1. /\ now' = now /\ now \in Nat
      /\ UNCHANGED <<terms, gateway, account, pledgeVars, closeVars, moneyVars>>
      /\ UNCHANGED <<milestones, unlocked, released>>
      /\ ballots' = [ballots EXCEPT ![i][b] = approve]
      /\ tally' = [tally EXCEPT ![i][approve] = @ + pledges[b]]
  BY DEF VoteMilestone, setupVars, CampaignInv, CampaignTypeOK
<1>2. ballots' \in [Index -> [Backers -> BOOLEAN \cup {None}]]
  BY <1>1 DEF CampaignInv, CampaignTypeOK
<1>3. tally' \in [Index -> [BOOLEAN -> Nat]]
  <2>1. tally[i][approve] + pledges[b] \in Nat /\ tally \in [Index -> [BOOLEAN -> Nat]]
    BY DEF CampaignInv, CampaignTypeOK
  <2> QED BY <1>1, <2>1
<1>4. CampaignTypeOK'
  BY <1>1, <1>2, <1>3 DEF CampaignInv, CampaignTypeOK, pledgeVars, closeVars, moneyVars, Index
<1> QED BY <1>1, <1>4, QuietInv

\* So does the clock.
LEMMA TickInv ==
  ASSUME CampaignInv, Tick
  PROVE  CampaignInv'
<1>1. /\ now' = now + 1 /\ now \in Nat
      /\ UNCHANGED <<terms, gateway, account, pledgeVars, closeVars, voteVars, moneyVars>>
  BY DEF Tick, setupVars, CampaignInv, CampaignTypeOK
<1>2. CampaignTypeOK'
  BY <1>1 DEF CampaignInv, CampaignTypeOK, pledgeVars, closeVars, voteVars, moneyVars, Index
<1> QED BY <1>1, <1>2, QuietInv

-----------------------------------------------------------------------------
(* The sponsor's money, and the money that goes out. *)

\* So does money for the matching pool.
LEMMA FundMatchingPoolInv ==
  ASSUME CampaignInv, NEW s \in Sponsors, NEW amt \in Int, FundMatchingPool(s, amt)
  PROVE  CampaignInv'
<1>1. /\ Initialized /\ amt \in Nat
      /\ CanPay(bank, s, terms.token, amt) /\ bank' = Moved(bank, s, Self, terms.token, amt)
      /\ pool' = pool + amt
      /\ UNCHANGED <<now, setupVars, raised, contributors, pledges, closeVars,
                     voteVars, taken, refunded>>
  BY DEF FundMatchingPool
<1>2. /\ bank \in LedgerOf(Holder) /\ s \in Holder /\ s # Self /\ terms.token \in Tokens
      /\ Self \in Holder /\ pool \in Nat /\ bank[Self][terms.token] \in Nat
      /\ raised \in Nat /\ taken \in Nat /\ refunded \in Nat
  BY <1>1, TermsFacts, HoldersAssumption DEF CampaignInv, CampaignTypeOK, LedgerOf
<1>3. bank' \in LedgerOf(Holder) /\ pool' \in Nat
  BY <1>1, <1>2, TransferType
<1>4. bank'[Self][terms.token] = bank[Self][terms.token] + amt
  BY <1>1, <1>2, TransferValue
<1>5. CampaignTypeOK'
  BY <1>1, <1>3 DEF CampaignInv, CampaignTypeOK, LedgerOf, Index, setupVars, closeVars, voteVars
<1>6. CampaignBooks'
  <2>1. bank[Self][terms.token] = raised + pool - taken - refunded
    BY <1>1 DEF CampaignInv, CampaignBooks
  <2>2. bank'[Self][terms'.token] = bank[Self][terms.token] + amt
    BY <1>1, <1>4 DEF setupVars
  <2>3. raised + pool' - taken - refunded = raised + pool - taken - refunded + amt
    BY <1>1, <1>2
  <2> QED BY <1>1, <2>1, <2>2, <2>3 DEF CampaignBooks
<1> QED BY <1>1, <1>5, <1>6
        DEF CampaignInv, Untouched, RefundsAfterEnd, Ended, Initialized, BackersListed,
            setupVars, closeVars

\* Paying the organizer: execute_campaign, and release_milestone.
LEMMA PayOrganizerInv ==
  ASSUME CampaignInv, Initialized, NEW amt \in Int, PayOrganizer(amt),
         UNCHANGED <<now, setupVars, pledgeVars, refundProcessed, milestones, unlocked,
                     ballots, tally>>,
         executed' \in BOOLEAN, released' \subseteq unlocked
  PROVE  CampaignInv'
<1>1. /\ CanPay(bank, Self, terms.token, amt)
      /\ bank' = Moved(bank, Self, terms.organizer, terms.token, amt)
      /\ taken' = taken + amt
      /\ refunded' = refunded
  BY DEF PayOrganizer
<1>2. /\ bank \in LedgerOf(Holder) /\ terms.organizer \in Holder /\ terms.organizer # Self
      /\ terms.token \in Tokens /\ Self \in Holder /\ bank[Self][terms.token] \in Nat
      /\ raised \in Nat /\ taken \in Nat /\ refunded \in Nat /\ pool \in Nat
  BY TermsFacts DEF CampaignInv, CampaignTypeOK, LedgerOf
<1>3. bank' \in LedgerOf(Holder) /\ amt \in Nat /\ taken' \in Nat
  BY <1>1, <1>2, TransferType DEF CanPay
<1>4. bank'[Self][terms.token] = bank[Self][terms.token] - amt
  BY <1>1, <1>2, TransferValue
<1>5. CampaignTypeOK'
  BY <1>1, <1>3 DEF CampaignInv, CampaignTypeOK, LedgerOf, Index, setupVars, pledgeVars
<1>6. CampaignBooks'
  <2>1. bank[Self][terms.token] = raised + pool - taken - refunded
    BY DEF CampaignInv, CampaignBooks
  <2>2. bank'[Self][terms'.token] = bank[Self][terms.token] - amt
    BY <1>4 DEF setupVars
  <2>3. raised + pool - taken' - refunded = (raised + pool - taken - refunded) - amt
    BY <1>1, <1>2, <1>3
  <2>4. raised' = raised /\ pool' = pool
    BY DEF pledgeVars
  <2>5. bank'[Self][terms'.token] = raised' + pool' - taken' - refunded'
    BY <1>1, <2>1, <2>2, <2>3, <2>4
  <2> QED BY <2>5 DEF CampaignBooks
<1> QED BY <1>5, <1>6
        DEF CampaignInv, Untouched, RefundsAfterEnd, Ended, Initialized, BackersListed,
            setupVars, pledgeVars

\* So does a claim after a missed goal.
LEMMA ClaimRefundInv ==
  ASSUME CampaignInv, NEW b \in Backers, ClaimRefund(b)
  PROVE  CampaignInv'
<1> DEFINE amt == pledges[b]
<1>1. /\ Ended /\ Initialized
      /\ CanPay(bank, Self, terms.token, amt) /\ bank' = Moved(bank, Self, b, terms.token, amt)
      /\ refunded' = refunded + amt
      /\ pledges' = [pledges EXCEPT ![b] = 0]
      /\ UNCHANGED <<now, setupVars, raised, contributors, pool, closeVars, voteVars, taken>>
  BY DEF ClaimRefund, Claimed, Ended
<1>2. /\ bank \in LedgerOf(Holder) /\ b \in Holder /\ b # Self /\ terms.token \in Tokens
      /\ Self \in Holder /\ bank[Self][terms.token] \in Nat
      /\ raised \in Nat /\ taken \in Nat /\ refunded \in Nat /\ pool \in Nat
      /\ pledges \in [Backers -> Nat] /\ amt \in Nat
  BY <1>1, TermsFacts, HoldersAssumption DEF CampaignInv, CampaignTypeOK, LedgerOf
<1> HIDE DEF amt
<1>3. bank' \in LedgerOf(Holder) /\ refunded' \in Nat
  BY <1>1, <1>2, TransferType
<1>4. bank'[Self][terms.token] = bank[Self][terms.token] - amt
  BY <1>1, <1>2, TransferValue
<1>5. CampaignTypeOK'
  BY <1>1, <1>2, <1>3
  DEF CampaignInv, CampaignTypeOK, LedgerOf, Index, setupVars, closeVars, voteVars
<1>6. CampaignBooks'
  <2>1. bank[Self][terms.token] = raised + pool - taken - refunded
    BY <1>1 DEF CampaignInv, CampaignBooks
  <2>2. bank'[Self][terms'.token] = bank[Self][terms.token] - amt
    BY <1>1, <1>4 DEF setupVars
  <2>3. raised + pool - taken - refunded' = (raised + pool - taken - refunded) - amt
    BY <1>1, <1>2
  <2>4. raised' = raised /\ pool' = pool /\ taken' = taken
    BY <1>1
  <2>5. bank'[Self][terms'.token] = raised' + pool' - taken' - refunded'
    BY <2>1, <2>2, <2>3, <2>4
  <2> QED BY <2>5 DEF CampaignBooks
<1>7. BackersListed'
  BY <1>1, <1>2 DEF CampaignInv, BackersListed, closeVars
<1> QED BY <1>1, <1>5, <1>6, <1>7
        DEF CampaignInv, Untouched, RefundsAfterEnd, Ended, Initialized, setupVars, closeVars

\* The batch takes the sum of the listed pledges from the campaign; since every backer
\* with a pledge is listed, no pledge is left.
LEMMA BatchRefundInv ==
  ASSUME CampaignInv, BatchRefund
  PROVE  CampaignInv'
<1> DEFINE backers == Range(contributors)
           amt == PledgedBy(backers)
<1>1. /\ Ended /\ Initialized
      /\ amt \in 0 .. bank[Self][terms.token]
      /\ refundProcessed' = TRUE
      /\ bank' = [h \in Holder |-> [bank[h] EXCEPT ![terms.token] =
                        CASE h = Self         -> @ - amt
                          [] h \in backers    -> @ + pledges[h]
                          [] OTHER            -> @]]
      /\ refunded' = refunded + amt
      /\ pledges' = [b \in Backers |-> IF b \in backers THEN 0 ELSE pledges[b]]
      /\ UNCHANGED <<now, setupVars, raised, contributors, pool, executed, voteVars, taken>>
  BY DEF BatchRefund, Ended
<1>2. /\ bank \in [Holder -> [Tokens -> Nat]] /\ terms.token \in Tokens
      /\ Self \in Holder /\ bank[Self][terms.token] \in Nat
      /\ raised \in Nat /\ taken \in Nat /\ refunded \in Nat /\ pool \in Nat
      /\ pledges \in [Backers -> Nat]
  BY <1>1, TermsFacts DEF CampaignInv, CampaignTypeOK
<1>3. backers \subseteq Backers /\ Self \notin backers
  BY HoldersAssumption DEF CampaignInv, CampaignTypeOK, Range
<1> HIDE DEF amt, backers
<1>4. amt \in Nat /\ bank[Self][terms.token] - amt \in Nat /\ refunded' \in Nat
  BY <1>1, <1>2
<1>5. bank' \in [Holder -> [Tokens -> Nat]]
  <2> SUFFICES ASSUME NEW h \in Holder
               PROVE  bank'[h] \in [Tokens -> Nat]
    BY <1>1
  <2>1. CASE h = Self
    <3>1. bank'[h] = [bank[h] EXCEPT ![terms.token] = @ - amt]
      BY <1>1, <1>3, <2>1
    <3> QED BY <1>2, <1>4, <2>1, <3>1
  <2>2. CASE h # Self /\ h \in backers
    <3>1. bank[h][terms.token] + pledges[h] \in Nat
      BY <1>2, <1>3, <2>2
    <3> QED BY <1>1, <1>2, <2>2, <3>1
  <2>3. CASE h # Self /\ h \notin backers
    BY <1>1, <1>2, <2>3
  <2> QED BY <2>1, <2>2, <2>3
<1>6. bank'[Self][terms.token] = bank[Self][terms.token] - amt
  <2>1. bank'[Self] = [bank[Self] EXCEPT ![terms.token] = @ - amt]
    BY <1>1, <1>2, <1>3
  <2> QED BY <1>2, <2>1
<1>7. \A b \in Backers : pledges'[b] = 0
  <2>1. \A b \in Backers : pledges[b] > 0 => b \in backers
    BY DEF CampaignInv, BackersListed, backers
  <2> QED BY <1>1, <1>2, <2>1
<1>8. CampaignTypeOK'
  BY <1>1, <1>2, <1>4, <1>5
  DEF CampaignInv, CampaignTypeOK, Index, setupVars, voteVars
<1>9. CampaignBooks'
  <2>1. bank[Self][terms.token] = raised + pool - taken - refunded
    BY <1>1 DEF CampaignInv, CampaignBooks
  <2>2. bank'[Self][terms'.token] = bank[Self][terms.token] - amt
    BY <1>1, <1>6 DEF setupVars
  <2>3. raised + pool - taken - refunded' = (raised + pool - taken - refunded) - amt
    BY <1>1, <1>2, <1>4
  <2>4. raised' = raised /\ pool' = pool /\ taken' = taken
    BY <1>1
  <2>5. bank'[Self][terms'.token] = raised' + pool' - taken' - refunded'
    BY <2>1, <2>2, <2>3, <2>4
  <2> QED BY <2>5 DEF CampaignBooks
<1>10. BackersListed'
  BY <1>1, <1>7 DEF CampaignInv, BackersListed
<1> QED BY <1>1, <1>8, <1>9, <1>10
        DEF CampaignInv, Untouched, RefundsAfterEnd, Ended, Initialized, setupVars

-----------------------------------------------------------------------------
(* The invariant is inductive. *)

\* The invariant holds at the start.
LEMMA CampaignInitInv ==
  ASSUME Init
  PROVE  CampaignInv
<1>1. ~Initialized /\ now \in Nat /\ 0 \in Nat
  BY DEF Init, Initialized
<1>2. tally \in [Index -> [BOOLEAN -> Nat]]
  BY <1>1 DEF Init
<1>3. /\ pledges \in [Backers -> Nat] /\ contributors \in Seq(Backers)
      /\ ballots \in [Index -> [Backers -> BOOLEAN \cup {None}]]
      /\ milestones \in Seq(Nat)
  BY <1>1 DEF Init
<1>4. bank \in [Holder -> [Tokens -> Nat]]
  BY HoldersAssumption DEF Init
<1>5. unlocked \subseteq Index /\ released \subseteq unlocked
      /\ {executed, refundProcessed} \subseteq BOOLEAN /\ {taken, refunded} \subseteq Nat
      /\ raised \in Nat /\ pool \in Nat
  BY <1>1 DEF Init
<1>6. CampaignTypeOK
  BY <1>1, <1>2, <1>3, <1>4, <1>5 DEF Init, CampaignTypeOK
<1> QED BY <1>1, <1>6
        DEF Init, CampaignInv, Untouched, CampaignBooks, RefundsAfterEnd, BackersListed

\* Every step keeps the invariant.
LEMMA CampaignNextInv ==
  ASSUME CampaignInv, [Next]_vars
  PROVE  CampaignInv'
<1>1. CASE OrganizerStep
  <2>1. ASSUME NEW o \in Organizers, NEW t \in Tokens, NEW goal \in Goals,
               NEW deadline \in Deadlines, InitCampaign(o, t, goal, deadline)
        PROVE  CampaignInv'
    BY <2>1, InitCampaignInv
  <2>2. CASE \/ \E g \in Gateways : SetShadeGateway(g)
             \/ \E a \in Accounts : SetMerchantAccount(a)
             \/ \E percentages \in MilestoneLists : SetMilestones(percentages)
    BY <2>2, SettingsInv
  <2>3. CASE ExecuteCampaign
    <3>1. /\ Initialized /\ raised \in Int /\ PayOrganizer(raised)
          /\ executed' \in BOOLEAN /\ released' \subseteq unlocked
          /\ UNCHANGED <<now, setupVars, pledgeVars, refundProcessed, milestones, unlocked,
                         ballots, tally>>
      BY <2>3 DEF ExecuteCampaign, Ended, voteVars, CampaignInv, CampaignTypeOK
    <3> QED BY <3>1, PayOrganizerInv
  <2>4. ASSUME NEW i \in Index, UnlockMilestone(i)
        PROVE  CampaignInv'
    BY <2>4, UnlockInv
  <2>5. ASSUME NEW i \in Index, ReleaseMilestone(i)
        PROVE  CampaignInv'
    <3> DEFINE amt == (raised * milestones[i]) \div 10000
    <3>1. /\ Initialized /\ PayOrganizer(amt) /\ i \in DOMAIN milestones
          /\ executed' \in BOOLEAN /\ released' \subseteq unlocked
          /\ UNCHANGED <<now, setupVars, pledgeVars, refundProcessed, milestones, unlocked,
                         ballots, tally>>
      BY <2>5 DEF ReleaseMilestone, Ended, closeVars, CampaignInv, CampaignTypeOK
    <3>2. amt \in Int
      <4>1. raised \in Nat /\ milestones \in Seq(Nat)
        BY DEF CampaignInv, CampaignTypeOK
      <4>2. milestones[i] \in Nat
        BY <3>1, <4>1
      <4>3. raised * milestones[i] \in Int
        BY <4>1, <4>2
      <4> QED BY <4>3
    <3> HIDE DEF amt
    <3> QED BY <3>1, <3>2, PayOrganizerInv
  <2> QED BY <1>1, <2>1, <2>2, <2>3, <2>4, <2>5 DEF OrganizerStep
<1>2. CASE BackerStep
  <2>1. ASSUME NEW b \in Backers, NEW amt \in Contributions, Contribute(b, amt)
        PROVE  CampaignInv'
    BY <2>1, CampaignAssumption, ContributeInv
  <2>2. ASSUME NEW b \in Backers, NEW amt \in Contributions, NEW invoiced \in Invoiced,
               Pledge(b, amt, invoiced)
        PROVE  CampaignInv'
    BY <2>2, CampaignAssumption, PledgeInv
  <2> QED BY <1>2, <2>1, <2>2, ClaimRefundInv, VoteInv DEF BackerStep
<1>3. ASSUME NEW s \in Sponsors, NEW amt \in PoolFunds, FundMatchingPool(s, amt)
      PROVE  CampaignInv'
  BY <1>3, CampaignAssumption, FundMatchingPoolInv
<1>4. CASE UNCHANGED vars
  BY <1>4
  DEF vars, setupVars, pledgeVars, closeVars, voteVars, moneyVars, CampaignInv, CampaignTypeOK,
      Untouched, CampaignBooks, RefundsAfterEnd, BackersListed, Initialized, Ended, Index
<1> QED BY <1>1, <1>2, <1>3, <1>4, BatchRefundInv, TickInv DEF Next

\* The invariant holds in every reachable state.
THEOREM CampaignInvariance == Spec => []CampaignInv
<1>1. Init => CampaignInv
  BY CampaignInitInv
<1>2. CampaignInv /\ [Next]_vars => CampaignInv'
  BY CampaignNextInv
<1> QED BY <1>1, <1>2, PTL DEF Spec

-----------------------------------------------------------------------------
(* The results. *)

\* Whatever the entry points are called with, the stored values keep their types: no
\* total, pledge or balance becomes negative.
THEOREM CampaignTypeCorrect == Spec => []CampaignTypeOK
<1>1. CampaignInv => CampaignTypeOK
  BY DEF CampaignInv
<1> QED BY <1>1, CampaignInvariance, PTL

\* The contract always holds what was raised and pooled less what was paid out, for
\* contributions, gateway pledges, matches, claims, batches and releases alike.
THEOREM CampaignBooksHold == Spec => []CampaignBooks
<1>1. CampaignInv => CampaignBooks
  BY DEF CampaignInv
<1> QED BY <1>1, CampaignInvariance, PTL

\* Every backer with a pledge is on the list of contributors exactly once, and the
\* batch refund leaves no pledge behind.
THEOREM BackersListedHold == Spec => []BackersListed
<1>1. CampaignInv => BackersListed
  BY DEF CampaignInv
<1> QED BY <1>1, CampaignInvariance, PTL

-----------------------------------------------------------------------------
(* Sums of pledges: what the backers can claim, and what voted for a         *)
(* milestone.                                                               *)

Failed == Ended /\ GoalMissed

Yes(i) == {b \in Backers : ballots[i][b] = TRUE}

Approval(i) == tally[i][TRUE]

\* What was raised is the pledges on record and what was given back.
PledgesCounted == gateway = None => PledgedBy(Backers) = raised - refunded

\* Until pledges are given back, a milestone's approval weight is covered by the pledges
\* of those who approved it: they voted once each, and have only added to their pledges.
VotesCovered == Failed \/ \A i \in Index : Approval(i) <= PledgedBy(Yes(i))

\* After a release the total that the majority was counted against stays the same.
ReleasesFinal == released # {} => Ended /\ GoalReached

ReleasesApproved == \A i \in released : 2 * Approval(i) > raised

VotingInv ==
    /\ PledgesCounted
    /\ VotesCovered
    /\ ReleasesFinal
    /\ ReleasesApproved

\* The sums are of natural numbers over finite sets.
LEMMA PledgeFacts ==
  ASSUME CampaignInv
  PROVE  /\ pledges \in [Backers -> Nat] /\ IsFiniteSet(Backers)
         /\ \A B \in SUBSET Backers : IsFiniteSet(B) /\ PledgedBy(B) \in Int
         /\ raised \in Nat /\ refunded \in Nat
         /\ tally \in [Index -> [BOOLEAN -> Nat]]
         /\ \A i \in Index : Approval(i) \in Nat
         /\ ballots \in [Index -> [Backers -> BOOLEAN \cup {None}]]
         /\ released \subseteq Index
<1>1. /\ pledges \in [Backers -> Nat] /\ raised \in Nat /\ refunded \in Nat
      /\ tally \in [Index -> [BOOLEAN -> Nat]]
      /\ ballots \in [Index -> [Backers -> BOOLEAN \cup {None}]]
      /\ released \subseteq Index
  BY DEF CampaignInv, CampaignTypeOK
<1>2. IsFiniteSet(Backers)
  BY HoldersAssumption
<1>3. ASSUME NEW B \in SUBSET Backers
      PROVE  IsFiniteSet(B) /\ PledgedBy(B) \in Int
  <2>1. IsFiniteSet(B)
    BY <1>2, FS_Subset
  <2>2. \A b \in B : pledges[b] \in Int
    BY <1>1
  <2> QED BY <2>1, <2>2, SumInt DEF PledgedBy
<1>4. ASSUME NEW i \in Index
      PROVE  Approval(i) \in Nat
  <2>1. tally[i] \in [BOOLEAN -> Nat]
    BY <1>1
  <2>2. TRUE \in BOOLEAN
    OBVIOUS
  <2> QED BY <2>1, <2>2, Zenon DEF Approval
<1> QED BY <1>1, <1>2, <1>3, <1>4

\* A step that leaves pledges, votes and totals alone keeps the sums.
LEMMA QuietVotes ==
  ASSUME VotingInv, Ended => Ended' /\ terms' = terms, gateway' = None => gateway = None,
         UNCHANGED <<raised, refunded, pledges, released, ballots, tally>>
  PROVE  VotingInv'
<1>1. PledgesCounted'
  BY DEF VotingInv, PledgesCounted, PledgedBy
<1>2. VotesCovered'
  <2>1. CASE Failed
    BY <2>1 DEF Failed, GoalMissed, VotesCovered
  <2>2. CASE ~Failed
    BY <2>2 DEF VotingInv, VotesCovered, PledgedBy, Yes, Approval
  <2> QED BY <2>1, <2>2
<1>3. ReleasesFinal'
  BY DEF VotingInv, ReleasesFinal, GoalReached
<1>4. ReleasesApproved'
  BY DEF VotingInv, ReleasesApproved, Approval
<1> QED BY <1>1, <1>2, <1>3, <1>4 DEF VotingInv

\* A contribution adds to what was raised and to a pledge alike, before any release; a
\* gateway's second entry comes when the gateway is set.
LEMMA CreditVotes ==
  ASSUME CampaignInv, VotingInv, NEW b \in Backers, NEW amt \in Int, amt > 0,
         NEW extra \in Nat, gateway = None => extra = 0, InTime(now), Credit(b, amt, extra),
         UNCHANGED <<now, setupVars, closeVars, voteVars, taken, refunded>>
  PROVE  VotingInv'
<1> DEFINE effective == amt + Matched(amt)
<1>1. /\ ~Ended /\ ~Ended' /\ released = {}
      /\ terms' = terms /\ gateway' = gateway /\ refunded' = refunded
      /\ UNCHANGED <<released, ballots, tally>>
  <2>1. now \in Nat /\ terms.deadline \in Nat
    BY TermsFacts DEF CampaignInv, CampaignTypeOK, InTime
  <2>2. ~Ended /\ ~Ended'
    BY <2>1 DEF Ended, InTime, Initialized, setupVars
  <2> QED BY <2>2 DEF VotingInv, ReleasesFinal, setupVars, voteVars
<1>2. /\ raised' = raised + effective /\ effective \in Nat
      /\ pledges' = [pledges EXCEPT ![b] = @ + effective + extra]
      /\ pledges' \in [Backers -> Nat]
  <2>1. Matched(amt) \in Nat
    <3>1. pool \in Nat /\ Matched(amt) \in 0 .. pool
      BY CreditFacts DEF CampaignInv, CampaignTypeOK
    <3> QED BY <3>1
  <2>2. raised' = raised + effective /\ pledges' \in [Backers -> Nat]
    BY CreditFacts
  <2>3. pledges' = [pledges EXCEPT ![b] = @ + effective + extra]
    BY DEF Credit
  <2> QED BY <2>1, <2>2, <2>3
<1> HIDE DEF effective
<1>3. /\ pledges \in [Backers -> Nat] /\ IsFiniteSet(Backers) /\ raised \in Nat
      /\ refunded \in Nat /\ PledgedBy(Backers) \in Int
  BY PledgeFacts
<1>4. PledgesCounted'
  <2> SUFFICES ASSUME gateway = None
               PROVE  PledgedBy(Backers)' = raised' - refunded'
    BY <1>1 DEF PledgesCounted
  <2>1. pledges'[b] - pledges[b] = effective
    BY <1>2, <1>3
  <2>2. \A c \in Backers : pledges[c] \in Int /\ pledges'[c] \in Int
    BY <1>2, <1>3
  <2>3. \A c \in Backers \ {b} : pledges'[c] = pledges[c]
    BY <1>2, <1>3
  <2>4. SumFunctionOnSet(pledges', Backers)
          = SumFunctionOnSet(pledges, Backers) + (pledges'[b] - pledges[b])
    BY <1>3, <2>2, <2>3, SumChange
  <2>5. PledgedBy(Backers)' = PledgedBy(Backers) + effective
    BY <2>1, <2>4 DEF PledgedBy
  <2>6. PledgedBy(Backers) = raised - refunded
    BY DEF VotingInv, PledgesCounted
  <2> QED BY <1>1, <1>2, <1>3, <2>5, <2>6
<1>5. VotesCovered'
  <2> SUFFICES ASSUME NEW i \in Index
               PROVE  Approval(i) <= SumFunctionOnSet(pledges', Yes(i))
    BY <1>1 DEF VotesCovered, PledgedBy, Yes, Approval
  <2>1. Yes(i) \in SUBSET Backers
    BY DEF Yes
  <2>2. Approval(i) <= PledgedBy(Yes(i))
    BY <1>1 DEF VotingInv, VotesCovered, Failed
  <2>3. IsFiniteSet(Yes(i)) /\ PledgedBy(Yes(i)) \in Int /\ Approval(i) \in Int
    BY <2>1, PledgeFacts
  <2>4. \A c \in Yes(i) : /\ pledges[c] \in Int /\ pledges'[c] \in Int
                          /\ pledges[c] <= pledges'[c]
    BY <1>2, <1>3, <2>1
  <2>5. PledgedBy(Yes(i)) <= SumFunctionOnSet(pledges', Yes(i))
    BY <2>3, <2>4, SumLeq DEF PledgedBy
  <2>6. SumFunctionOnSet(pledges', Yes(i)) \in Int
    BY <2>3, <2>4, SumInt
  <2> QED BY <2>2, <2>3, <2>5, <2>6
<1>6. ReleasesFinal' /\ ReleasesApproved'
  BY <1>1 DEF ReleasesFinal, ReleasesApproved
<1> QED BY <1>4, <1>5, <1>6 DEF VotingInv

\* A refund lowers pledges by what it gives back, and only where nothing is released.
LEMMA RefundVotes ==
  ASSUME CampaignInv, VotingInv, Ended, GoalMissed,
         UNCHANGED <<now, setupVars, raised, voteVars>>,
         PledgedBy(Backers)' = PledgedBy(Backers) - (refunded' - refunded),
         refunded' \in Int
  PROVE  VotingInv'
<1>1. Failed'
  BY DEF Failed, Ended, GoalMissed, Initialized, setupVars
<1>2. released = {} /\ released' = {}
  <2>1. raised \in Nat /\ terms.goal \in Int
    BY TermsFacts, PledgeFacts DEF CampaignInv, Ended
  <2> QED BY <2>1 DEF VotingInv, ReleasesFinal, GoalReached, GoalMissed, voteVars
<1>3. PledgesCounted'
  <2>1. PledgedBy(Backers) \in Int /\ raised \in Int /\ refunded \in Int
    BY PledgeFacts
  <2>2. raised' = raised /\ gateway' = gateway
    BY DEF setupVars
  <2> QED BY <2>1, <2>2 DEF VotingInv, PledgesCounted
<1> QED BY <1>1, <1>2, <1>3 DEF VotingInv, VotesCovered, ReleasesFinal, ReleasesApproved

\* A claim gives one pledge back.
LEMMA ClaimVotes ==
  ASSUME CampaignInv, VotingInv, NEW b \in Backers, ClaimRefund(b)
  PROVE  VotingInv'
<1>1. /\ Ended /\ GoalMissed /\ refunded' = refunded + pledges[b]
      /\ pledges' = [pledges EXCEPT ![b] = 0]
      /\ UNCHANGED <<now, setupVars, raised, voteVars>>
  BY DEF ClaimRefund, Claimed
<1>2. /\ pledges \in [Backers -> Nat] /\ IsFiniteSet(Backers) /\ refunded \in Nat
      /\ PledgedBy(Backers) \in Int
  BY PledgeFacts
<1>3. \A c \in Backers : pledges[c] \in Int /\ pledges'[c] \in Int
  BY <1>1, <1>2
<1>4. \A c \in Backers \ {b} : pledges'[c] = pledges[c]
  BY <1>1, <1>2
<1>5. SumFunctionOnSet(pledges', Backers)
        = SumFunctionOnSet(pledges, Backers) + (pledges'[b] - pledges[b])
  BY <1>2, <1>3, <1>4, SumChange
<1>6. PledgedBy(Backers)' = PledgedBy(Backers) - (refunded' - refunded)
  <2>1. pledges'[b] = 0 /\ pledges[b] \in Nat
    BY <1>1, <1>2
  <2> QED BY <1>1, <1>2, <1>5, <2>1 DEF PledgedBy
<1>7. refunded' \in Int
  BY <1>1, <1>2
<1> QED BY <1>1, <1>6, <1>7, RefundVotes

\* The batch gives all of them back: those who are not listed have none.
LEMMA BatchVotes ==
  ASSUME CampaignInv, VotingInv, BatchRefund
  PROVE  VotingInv'
<1> DEFINE backers == Range(contributors)
<1>1. /\ Ended /\ GoalMissed /\ refunded' = refunded + PledgedBy(backers)
      /\ pledges' = [b \in Backers |-> IF b \in backers THEN 0 ELSE pledges[b]]
      /\ UNCHANGED <<now, setupVars, raised, voteVars>>
  BY DEF BatchRefund
<1>2. /\ pledges \in [Backers -> Nat] /\ IsFiniteSet(Backers) /\ refunded \in Nat
  BY PledgeFacts
<1>3. backers \in SUBSET Backers
  BY DEF CampaignInv, CampaignTypeOK, Range
<1>4. \A b \in Backers \ backers : pledges[b] = 0
  BY <1>2 DEF CampaignInv, BackersListed
<1> HIDE DEF backers
<1>5. PledgedBy(Backers) = PledgedBy(backers) /\ PledgedBy(backers) \in Int
  <2>1. \A b \in Backers : pledges[b] \in Int
    BY <1>2
  <2>2. SumFunctionOnSet(pledges, Backers) = SumFunctionOnSet(pledges, backers)
    BY <1>2, <1>3, <1>4, <2>1, SumRestrict
  <2> QED BY <1>3, <2>2, PledgeFacts DEF PledgedBy
<1>6. PledgedBy(Backers)' = 0
  <2>1. \A b \in Backers : pledges'[b] = 0
    BY <1>1, <1>4
  <2>2. SumFunctionOnSet(pledges', Backers) = 0
    BY <1>2, <2>1, SumZero
  <2> QED BY <2>2 DEF PledgedBy
<1>7. /\ refunded' \in Int
      /\ PledgedBy(Backers)' = PledgedBy(Backers) - (refunded' - refunded)
  BY <1>1, <1>2, <1>5, <1>6
<1> QED BY <1>1, <1>7, RefundVotes

\* A vote counts with the pledge of a backer who had not voted for that milestone.
LEMMA CastVotes ==
  ASSUME CampaignInv, VotingInv, NEW b \in Backers, NEW i \in Index,
         NEW approve \in BOOLEAN, VoteMilestone(b, i, approve)
  PROVE  VotingInv'
<1>1. /\ ballots[i][b] = None
      /\ ballots' = [ballots EXCEPT ![i][b] = approve]
      /\ tally' = [tally EXCEPT ![i][approve] = @ + pledges[b]]
      /\ UNCHANGED <<now, setupVars, pledgeVars, closeVars, milestones, unlocked, released,
                     moneyVars>>
  BY DEF VoteMilestone, HasNotVoted
<1>2. /\ pledges \in [Backers -> Nat] /\ tally \in [Index -> [BOOLEAN -> Nat]]
      /\ ballots \in [Index -> [Backers -> BOOLEAN \cup {None}]]
      /\ released \subseteq Index /\ raised \in Nat
  BY PledgeFacts
<1>3. /\ terms' = terms /\ gateway' = gateway /\ raised' = raised /\ pledges' = pledges
      /\ refunded' = refunded /\ released' = released /\ now' = now
  BY <1>1 DEF setupVars, pledgeVars, moneyVars
<1>4. /\ (Ended' <=> Ended) /\ (GoalReached' <=> GoalReached) /\ (GoalMissed' <=> GoalMissed)
  BY <1>3 DEF Ended, GoalReached, GoalMissed, Initialized
<1>5. PledgesCounted' /\ ReleasesFinal'
  BY <1>3, <1>4 DEF VotingInv, PledgesCounted, ReleasesFinal, PledgedBy
<1>6. ASSUME NEW j \in Index
      PROVE  /\ Approval(j)' = IF j = i /\ approve THEN Approval(j) + pledges[b]
                                                   ELSE Approval(j)
             /\ Yes(j)' = IF j = i /\ approve THEN Yes(j) \cup {b} ELSE Yes(j)
             /\ j = i => b \notin Yes(j)
  <2>1. CASE j # i
    <3>1. tally'[j] = tally[j] /\ ballots'[j] = ballots[j]
      BY <1>1, <1>2, <2>1
    <3> QED BY <2>1, <3>1, Zenon DEF Approval, Yes
  <2>2. CASE j = i
    <3>1. /\ tally'[i] = [tally[i] EXCEPT ![approve] = @ + pledges[b]]
          /\ ballots'[i] = [ballots[i] EXCEPT ![b] = approve]
      BY <1>1, <1>2
    <3>2. /\ tally[i] \in [BOOLEAN -> Nat]
          /\ ballots[i] \in [Backers -> BOOLEAN \cup {None}]
      BY <1>2
    <3>3. /\ ballots'[i][b] = approve
          /\ \A c \in Backers \ {b} : ballots'[i][c] = ballots[i][c]
      BY <3>1, <3>2, Zenon
    <3>4. tally'[i][approve] = tally[i][approve] + pledges[b]
      BY <3>1, <3>2, Zenon
    <3>5. ballots[i][b] # TRUE
      BY <1>1, HoldersAssumption, Zenon
    <3>6. CASE approve = TRUE
      <4>1. Approval(i)' = Approval(i) + pledges[b]
        BY <3>4, <3>6, Zenon DEF Approval
      <4>2. Yes(i)' = Yes(i) \cup {b}
        BY <3>3, <3>6, Zenon DEF Yes
      <4> QED BY <2>2, <3>5, <3>6, <4>1, <4>2, Zenon DEF Yes
    <3>7. CASE approve = FALSE
      <4>1. tally'[i][TRUE] = tally[i][TRUE]
        BY <3>1, <3>2, <3>7, Zenon
      <4>2. Yes(i)' = Yes(i)
        BY <3>3, <3>5, <3>7, Zenon DEF Yes
      <4> QED BY <2>2, <3>5, <3>7, <4>1, <4>2, Zenon DEF Yes, Approval
    <3> QED BY <3>6, <3>7
  <2> QED BY <2>1, <2>2
<1>7. ReleasesApproved'
  <2> SUFFICES ASSUME NEW j \in released
               PROVE  2 * Approval(j)' > raised
    BY <1>3 DEF ReleasesApproved
  <2>1. j \in Index /\ Approval(j) \in Nat /\ pledges[b] \in Nat
    BY <1>2, PledgeFacts
  <2>2. 2 * Approval(j) > raised
    BY DEF VotingInv, ReleasesApproved
  <2>3. Approval(j)' = Approval(j) + pledges[b] \/ Approval(j)' = Approval(j)
    BY <1>6, <2>1
  <2> QED BY <1>2, <2>1, <2>2, <2>3
<1>8. VotesCovered'
  <2> SUFFICES ASSUME ~Failed, NEW j \in Index
               PROVE  Approval(j)' <= SumFunctionOnSet(pledges, Yes(j)')
    BY <1>3, <1>4 DEF VotesCovered, PledgedBy, Failed
  <2>1. Approval(j) <= PledgedBy(Yes(j)) /\ Yes(j) \in SUBSET Backers
    BY DEF VotingInv, VotesCovered, Yes
  <2>2. CASE j = i /\ approve
    <3>1. /\ Yes(j)' = Yes(j) \cup {b} /\ b \notin Yes(j)
          /\ Approval(j)' = Approval(j) + pledges[b]
      BY <1>6, <2>2
    <3>2. IsFiniteSet(Yes(j)) /\ PledgedBy(Yes(j)) \in Int /\ Approval(j) \in Nat
      BY <2>1, PledgeFacts
    <3>3. (\A c \in Yes(j) : pledges[c] \in Int) /\ pledges[b] \in Int
      BY <1>2, <2>1
    <3>4. SumFunctionOnSet(pledges, Yes(j) \cup {b}) = pledges[b] + PledgedBy(Yes(j))
      BY <3>1, <3>2, <3>3, SumAdd DEF PledgedBy
    <3> QED BY <2>1, <3>1, <3>2, <3>3, <3>4
  <2>3. CASE ~(j = i /\ approve)
    <3>1. Yes(j)' = Yes(j) /\ Approval(j)' = Approval(j)
      BY <1>6, <2>3
    <3> QED BY <2>1, <3>1 DEF PledgedBy
  <2> QED BY <2>2, <2>3
<1> QED BY <1>5, <1>7, <1>8 DEF VotingInv

\* A milestone is released when its approval weight is more than half of the total.
LEMMA ReleaseVotes ==
  ASSUME CampaignInv, VotingInv, NEW i \in Index, ReleaseMilestone(i)
  PROVE  VotingInv'
<1>1. /\ Ended /\ GoalReached /\ Approved(i) /\ released' = released \cup {i}
      /\ UNCHANGED <<now, setupVars, pledgeVars, closeVars, milestones, unlocked, ballots,
                     tally>>
      /\ refunded' = refunded
  BY DEF ReleaseMilestone, PayOrganizer
<1>2. /\ terms' = terms /\ gateway' = gateway /\ raised' = raised /\ pledges' = pledges
      /\ now' = now
  BY <1>1 DEF setupVars, pledgeVars
<1>3. (Ended' <=> Ended) /\ (GoalReached' <=> GoalReached) /\ (GoalMissed' <=> GoalMissed)
  BY <1>2 DEF Ended, GoalReached, GoalMissed, Initialized
<1>4. PledgesCounted' /\ VotesCovered' /\ ReleasesFinal'
  BY <1>1, <1>2, <1>3
  DEF VotingInv, PledgesCounted, VotesCovered, ReleasesFinal, PledgedBy, Yes, Failed, Approval
<1>5. 2 * Approval(i) > raised
  <2>1. Approval(i) \in Nat /\ raised \in Nat
    BY PledgeFacts
  <2>2. Approval(i) > raised \div 2
    BY <1>1, Zenon DEF Approved, Approval
  <2> QED BY <2>1, <2>2
<1>6. ReleasesApproved'
  BY <1>1, <1>2, <1>5 DEF VotingInv, ReleasesApproved, Approval
<1> QED BY <1>4, <1>6 DEF VotingInv

\* Every step of the system keeps the sums.
LEMMA VotingNext ==
  ASSUME CampaignInv, VotingInv, [Next]_vars
  PROVE  VotingInv'
<1>1. ASSUME UNCHANGED <<raised, refunded, pledges, released, ballots, tally>>,
             UNCHANGED <<terms, now, gateway>>
      PROVE  VotingInv'
  BY <1>1, QuietVotes DEF Ended, Initialized
<1>2. CASE OrganizerStep
  <2>1. ASSUME NEW o \in Organizers, NEW t \in Tokens, NEW goal \in Goals,
               NEW deadline \in Deadlines, InitCampaign(o, t, goal, deadline)
        PROVE  VotingInv'
    <3>1. ~Ended /\ UNCHANGED <<gateway, raised, refunded, pledges, released, ballots, tally>>
      BY <2>1 DEF InitCampaign, pledgeVars, voteVars, moneyVars, Ended
    <3> QED BY <3>1, QuietVotes
  <2>2. ASSUME NEW g \in Gateways, SetShadeGateway(g)
        PROVE  VotingInv'
    <3>1. /\ gateway' = g /\ g # None
          /\ UNCHANGED <<terms, now, raised, refunded, pledges, released, ballots, tally>>
      BY <2>2, HoldersAssumption DEF SetShadeGateway, pledgeVars, voteVars, moneyVars
    <3>2. Ended => Ended' /\ terms' = terms
      BY <3>1 DEF Ended, Initialized
    <3> QED BY <3>1, <3>2, QuietVotes
  <2>3. CASE \/ \E a \in Accounts : SetMerchantAccount(a)
             \/ \E percentages \in MilestoneLists : SetMilestones(percentages)
             \/ ExecuteCampaign
             \/ \E i \in Index : UnlockMilestone(i)
    BY <1>1, <2>3
    DEF SetMerchantAccount, SetMilestones, ExecuteCampaign, PayOrganizer, UnlockMilestone,
        setupVars, pledgeVars, voteVars, moneyVars
  <2> QED BY <1>2, <2>1, <2>2, <2>3, ReleaseVotes DEF OrganizerStep
<1>3. CASE BackerStep
  <2>1. ASSUME NEW b \in Backers, NEW amt \in Contributions, Contribute(b, amt)
        PROVE  VotingInv'
    <3>1. /\ amt \in Int /\ amt > 0 /\ 0 \in Nat /\ InTime(now) /\ Credit(b, amt, 0)
          /\ UNCHANGED <<now, setupVars, closeVars, voteVars, taken, refunded>>
      BY <2>1, CampaignAssumption DEF Contribute
    <3> QED BY <3>1, CreditVotes
  <2>2. ASSUME NEW b \in Backers, NEW amt \in Contributions, NEW invoiced \in Invoiced,
               Pledge(b, amt, invoiced)
        PROVE  VotingInv'
    <3>1. /\ amt \in Nat /\ amt > 0 /\ gateway # None /\ InTime(now) /\ Credit(b, amt, amt)
          /\ UNCHANGED <<now, setupVars, closeVars, voteVars, taken, refunded>>
      BY <2>2, CampaignAssumption DEF Pledge
    <3> QED BY <3>1, CreditVotes
  <2> QED BY <1>3, <2>1, <2>2, ClaimVotes, CastVotes DEF BackerStep
<1>4. ASSUME NEW s \in Sponsors, NEW amt \in PoolFunds, FundMatchingPool(s, amt)
      PROVE  VotingInv'
  BY <1>1, <1>4 DEF FundMatchingPool, setupVars, voteVars
<1>5. CASE Tick
  <2>1. /\ now' = now + 1 /\ now \in Nat
        /\ UNCHANGED <<terms, gateway, raised, refunded, pledges, released, ballots, tally>>
    BY <1>5 DEF Tick, setupVars, pledgeVars, voteVars, moneyVars, CampaignInv, CampaignTypeOK
  <2>2. Ended => Ended' /\ terms' = terms
    <3> SUFFICES ASSUME Ended PROVE Ended'
      BY <2>1
    <3>1. terms.deadline \in Nat
      BY TermsFacts DEF CampaignInv, Ended
    <3> QED BY <2>1, <3>1 DEF Ended, Initialized
  <2> QED BY <2>1, <2>2, QuietVotes
<1>6. CASE UNCHANGED vars
  BY <1>1, <1>6 DEF vars, setupVars, pledgeVars, voteVars, moneyVars
<1> QED BY <1>2, <1>3, <1>4, <1>5, <1>6, BatchVotes DEF Next

\* The sums start at nothing.
LEMMA VotingInit ==
  ASSUME Init
  PROVE  VotingInv
<1>1. \A b \in Backers : pledges[b] = 0
  BY DEF Init
<1>2. ASSUME NEW B \in SUBSET Backers
      PROVE  PledgedBy(B) = 0
  <2>1. IsFiniteSet(B)
    BY HoldersAssumption, FS_Subset
  <2> QED BY <1>1, <2>1, SumZero DEF PledgedBy
<1>3. ASSUME NEW i \in Index
      PROVE  Approval(i) = 0
  <2>1. tally[i] = [approve \in BOOLEAN |-> 0]
    BY DEF Init
  <2> QED BY <2>1, Zenon DEF Approval
<1>4. \A i \in Index : Yes(i) \in SUBSET Backers
  BY DEF Yes
<1>5. VotesCovered
  BY <1>2, <1>3, <1>4 DEF VotesCovered
<1>6. PledgesCounted
  BY <1>2 DEF PledgesCounted, Init
<1> QED BY <1>5, <1>6 DEF VotingInv, ReleasesFinal, ReleasesApproved, Init

\* What the backers can claim and the weight of their votes agree with the totals in
\* every reachable state.
THEOREM VotingInvariance == Spec => []VotingInv
<1>1. CampaignInv /\ VotingInv /\ [Next]_vars => VotingInv'
  BY VotingNext
<1> QED BY <1>1, VotingInit, CampaignInvariance, PTL DEF Spec

\* Whatever the order of contributions, matches, claims and batches, a campaign that has
\* paid its organizer nothing holds every pledge on record and the pool.
THEOREM RefundsCoveredHolds == Spec => []RefundsCovered
<1>1. ASSUME CampaignInv, VotingInv
      PROVE  RefundsCovered
  <2> SUFFICES ASSUME Initialized, gateway = None, taken = 0
               PROVE  pool + PledgedBy(Backers) <= bank[Self][terms.token]
    BY DEF RefundsCovered
  <2>1. PledgedBy(Backers) = raised - refunded
    BY <1>1 DEF VotingInv, PledgesCounted
  <2>2. bank[Self][terms.token] = raised + pool - 0 - refunded
    BY <1>1 DEF CampaignInv, CampaignBooks
  <2>3. raised \in Nat /\ refunded \in Nat /\ pool \in Nat
    BY <1>1 DEF CampaignInv, CampaignTypeOK
  <2> QED BY <2>1, <2>2, <2>3
<1> QED BY <1>1, CampaignInvariance, VotingInvariance, PTL

\* A released milestone was approved by backers who hold more than half of what was
\* raised, however votes, later contributions and new milestone lists were interleaved.
THEOREM ReleasedByMajorityHolds == Spec => []ReleasedByMajority
<1>1. ASSUME CampaignInv, VotingInv
      PROVE  ReleasedByMajority
  <2> SUFFICES ASSUME NEW i \in released
               PROVE  2 * PledgedBy({b \in Backers : ballots[i][b] = TRUE}) > raised
    BY DEF ReleasedByMajority
  <2>1. i \in Index /\ raised \in Nat /\ Approval(i) \in Int
        /\ PledgedBy(Yes(i)) \in Int
    <3>1. i \in Index /\ Yes(i) \in SUBSET Backers
      BY <1>1, PledgeFacts DEF Yes
    <3> QED BY <1>1, <3>1, PledgeFacts
  <2>2. ~Failed
    <3>1. Ended /\ GoalReached
      BY <1>1 DEF VotingInv, ReleasesFinal
    <3>2. terms.goal \in Int
      BY <1>1, <3>1, TermsFacts DEF CampaignInv, Ended
    <3> QED BY <2>1, <3>1, <3>2 DEF Failed, GoalReached, GoalMissed
  <2>3. Approval(i) <= PledgedBy(Yes(i)) /\ 2 * Approval(i) > raised
    BY <1>1, <2>1, <2>2 DEF VotingInv, VotesCovered, ReleasesApproved
  <2>4. 2 * PledgedBy(Yes(i)) > raised
    BY <2>1, <2>3
  <2> QED BY <2>4 DEF Yes
<1> QED BY <1>1, CampaignInvariance, VotingInvariance, PTL

-----------------------------------------------------------------------------
(* The campaign implements AllOrNothing.                                    *)
(* By the books, what the campaign holds follows from the totals, so every  *)
(* step is judged by what it does to the totals and to the outcome.         *)

\* What the campaign holds, from the books.
LEMMA HeldFacts ==
  ASSUME CampaignInv, CampaignInv', Initialized, Initialized'
  PROVE  /\ Held = bank[Self][terms.token]
         /\ Held = raised + pool - taken - refunded
         /\ Held' = raised' + pool' - taken' - refunded'
  BY DEF CampaignInv, CampaignBooks, Held

\* The outcome depends on the clock, the terms and the total only.
LEMMA SameOutcome ==
  ASSUME UNCHANGED <<now, terms, raised>>
  PROVE  Outcome' = Outcome /\ (Initialized' <=> Initialized)
  BY DEF Outcome, Ended, GoalReached, Initialized

\* A contribution in time is the abstract Collect.
LEMMA CollectStep ==
  ASSUME CampaignInv, CampaignInv', NEW b \in Backers, NEW amt \in Int, amt > 0,
         NEW extra \in Nat, InTime(now), Credit(b, amt, extra),
         UNCHANGED <<now, setupVars, taken, refunded>>
  PROVE  Promise!Collect
<1>1. /\ raised \in Nat /\ pool \in Nat /\ taken \in Nat /\ refunded \in Nat
      /\ now \in Nat /\ terms.deadline \in Nat /\ Initialized
  BY TermsFacts DEF CampaignInv, CampaignTypeOK, InTime
<1>2. /\ Matched(amt) \in Nat
      /\ raised' = raised + (amt + Matched(amt))
      /\ pool' = pool - Matched(amt)
      /\ raised' > raised
  BY <1>1, CreditFacts
<1>3. terms' = terms /\ now' = now /\ taken' = taken /\ refunded' = refunded /\ Initialized'
  BY <1>1 DEF setupVars, Initialized
<1>4. Outcome = "open" /\ Outcome' = "open"
  BY <1>1, <1>3 DEF Outcome, Ended, InTime
<1>5. Held = raised + pool - taken - refunded /\ Held' = raised' + pool' - taken' - refunded'
  BY <1>1, <1>3, HeldFacts
<1>6. Held' > Held
  BY <1>1, <1>2, <1>3, <1>5
<1> QED BY <1>2, <1>3, <1>4, <1>6 DEF Promise!Collect

\* Money for the matching pool is the abstract Sponsor.
LEMMA SponsorStep ==
  ASSUME CampaignInv, CampaignInv', NEW s \in Sponsors, NEW amt \in Int,
         FundMatchingPool(s, amt)
  PROVE  Promise!Sponsor
<1>1. /\ Initialized /\ amt > 0 /\ pool' = pool + amt
      /\ now' = now /\ terms' = terms /\ raised' = raised
      /\ taken' = taken /\ refunded' = refunded
  BY DEF FundMatchingPool, setupVars
<1>2. raised \in Nat /\ pool \in Nat /\ taken \in Nat /\ refunded \in Nat
  BY DEF CampaignInv, CampaignTypeOK
<1>3. Outcome' = Outcome /\ Initialized'
  BY <1>1, SameOutcome
<1>4. Held = raised + pool - taken - refunded /\ Held' = raised' + pool' - taken' - refunded'
  BY <1>1, <1>3, HeldFacts
<1>5. Held' > Held
  BY <1>1, <1>2, <1>4
<1> QED BY <1>1, <1>3, <1>5 DEF Promise!Sponsor

\* execute_campaign and release_milestone are the abstract PayOut, or, for a
\* milestone of nothing, no step.
LEMMA PayOutStep ==
  ASSUME CampaignInv, CampaignInv', NEW amt \in Int, Ended, GoalReached, PayOrganizer(amt),
         UNCHANGED <<now, setupVars, pledgeVars>>
  PROVE  Promise!PayOut \/ UNCHANGED Promise!vars
<1>1. /\ now' = now /\ terms' = terms /\ raised' = raised /\ pool' = pool
      /\ taken' = taken + amt /\ refunded' = refunded /\ Initialized
  BY DEF PayOrganizer, setupVars, pledgeVars, Ended
<1>2. /\ raised \in Nat /\ pool \in Nat /\ taken \in Nat /\ refunded \in Nat
      /\ bank[Self][terms.token] \in Nat
  BY <1>1, TermsFacts DEF CampaignInv, CampaignTypeOK
<1>3. Outcome = "funded" /\ Outcome' = "funded" /\ Initialized'
  BY <1>1, SameOutcome DEF Outcome
<1>4. Held = raised + pool - taken - refunded /\ Held' = raised' + pool' - taken' - refunded'
  BY <1>1, <1>3, HeldFacts
<1>5. Held \in Nat /\ amt \in 0 .. Held
  BY <1>1, <1>2, <1>3, HeldFacts DEF PayOrganizer, CanPay
<1>6. Held' = Held - amt
  BY <1>1, <1>2, <1>4, <1>5
<1>7. CASE amt = 0
  BY <1>1, <1>2, <1>3, <1>5, <1>6, <1>7 DEF Promise!vars
<1>8. CASE amt \in 1 .. Held
  BY <1>1, <1>3, <1>6, <1>8 DEF Promise!PayOut
<1> QED BY <1>5, <1>7, <1>8

\* claim_refund and batch_refund are the abstract GiveBack, or, for a batch that finds
\* everything claimed, no step.
LEMMA GiveBackStep ==
  ASSUME CampaignInv, CampaignInv', NEW amt \in Int, Ended, GoalMissed,
         amt \in 0 .. bank[Self][terms.token],
         refunded' = refunded + amt,
         UNCHANGED <<now, setupVars, raised, pool, taken>>
  PROVE  Promise!GiveBack \/ UNCHANGED Promise!vars
<1>1. /\ now' = now /\ terms' = terms /\ raised' = raised /\ pool' = pool
      /\ taken' = taken /\ Initialized
  BY DEF setupVars, Ended
<1>2. /\ raised \in Nat /\ pool \in Nat /\ taken \in Nat /\ refunded \in Nat
      /\ bank[Self][terms.token] \in Nat /\ terms.goal \in Int
  BY <1>1, TermsFacts DEF CampaignInv, CampaignTypeOK
<1>3. Outcome = "failed" /\ Outcome' = "failed" /\ Initialized'
  BY <1>1, <1>2, SameOutcome DEF Outcome, GoalReached, GoalMissed
<1>4. Held = raised + pool - taken - refunded /\ Held' = raised' + pool' - taken' - refunded'
  BY <1>1, <1>3, HeldFacts
<1>5. Held \in Nat /\ amt \in 0 .. Held
  BY <1>1, <1>2, <1>3, HeldFacts
<1>6. Held' = Held - amt
  BY <1>1, <1>2, <1>4, <1>5
<1>7. CASE amt = 0
  BY <1>1, <1>2, <1>3, <1>5, <1>6, <1>7 DEF Promise!vars
<1>8. CASE amt \in 1 .. Held
  BY <1>1, <1>3, <1>6, <1>8 DEF Promise!GiveBack
<1> QED BY <1>5, <1>7, <1>8

\* The clock may close the campaign.
LEMMA TickStep ==
  ASSUME CampaignInv, Tick
  PROVE  Promise!Close \/ UNCHANGED Promise!vars
<1>1. /\ now' = now + 1 /\ now \in Nat /\ terms' = terms /\ raised' = raised
      /\ bank' = bank /\ taken' = taken /\ refunded' = refunded
  BY DEF Tick, setupVars, pledgeVars, moneyVars, CampaignInv, CampaignTypeOK
<1>2. Held' = Held /\ (Initialized' <=> Initialized) /\ (GoalReached' <=> GoalReached)
  BY <1>1 DEF Held, Initialized, GoalReached
<1>3. Ended => Ended'
  <2> SUFFICES ASSUME Ended PROVE Ended'
    OBVIOUS
  <2>1. terms.deadline \in Nat
    BY TermsFacts DEF CampaignInv, Ended
  <2> QED BY <1>1, <1>2, <2>1 DEF Ended
<1>4. Outcome' = Outcome \/ (Outcome = "open" /\ Outcome' \in {"funded", "failed"})
  BY <1>2, <1>3 DEF Outcome
<1> QED BY <1>1, <1>2, <1>4 DEF Promise!Close, Promise!vars

\* The initial states map to initial states.
LEMMA PromiseInit ==
  ASSUME Init
  PROVE  Promise!Init
  BY DEF Init, Promise!Init, Outcome, Ended, Held, Initialized

\* Every step maps to a step or a stutter.
LEMMA PromiseNext ==
  ASSUME CampaignInv, CampaignInv', [Next]_vars
  PROVE  [Promise!Next]_(Promise!vars)
<1>1. CASE UNCHANGED <<now, terms, raised, bank, taken, refunded>>
  <2>1. Outcome' = Outcome /\ Held' = Held
    BY <1>1, SameOutcome DEF Held
  <2> QED BY <1>1, <2>1 DEF Promise!vars
<1>2. CASE OrganizerStep
  <2>1. ASSUME NEW o \in Organizers, NEW t \in Tokens, NEW goal \in Goals,
               NEW deadline \in Deadlines, InitCampaign(o, t, goal, deadline)
        PROVE  UNCHANGED Promise!vars
    <3>1. /\ ~Initialized /\ now' = now /\ now \in Nat /\ deadline \in Nat /\ deadline > now
          /\ terms'.deadline = deadline
          /\ UNCHANGED <<raised, pool, taken, refunded>>
      BY <2>1, CampaignAssumption
      DEF InitCampaign, pledgeVars, moneyVars, CampaignInv, CampaignTypeOK
    <3>2. raised' = 0 /\ pool' = 0 /\ taken' = 0 /\ refunded' = 0
      BY <3>1 DEF CampaignInv, Untouched
    <3>3. Outcome' = Outcome
      BY <3>1 DEF Outcome, Ended
    <3>4. Held' = 0
      BY <3>2 DEF Held, CampaignInv, CampaignBooks
    <3>5. Held = 0
      BY <3>1 DEF Held
    <3> QED BY <3>1, <3>3, <3>4, <3>5 DEF Promise!vars
  <2>2. CASE \/ \E g \in Gateways : SetShadeGateway(g)
             \/ \E a \in Accounts : SetMerchantAccount(a)
             \/ \E percentages \in MilestoneLists : SetMilestones(percentages)
             \/ \E i \in Index : UnlockMilestone(i)
    BY <1>1, <2>2
    DEF SetShadeGateway, SetMerchantAccount, SetMilestones, UnlockMilestone, setupVars,
        pledgeVars, moneyVars
  <2>3. CASE ExecuteCampaign
    <3>1. /\ Ended /\ GoalReached /\ PayOrganizer(raised) /\ raised \in Int
          /\ UNCHANGED <<now, setupVars, pledgeVars>>
      BY <2>3 DEF ExecuteCampaign, CampaignInv, CampaignTypeOK
    <3> QED BY <3>1, PayOutStep DEF Promise!Next
  <2>4. ASSUME NEW i \in Index, ReleaseMilestone(i)
        PROVE  [Promise!Next]_(Promise!vars)
    <3> DEFINE amt == (raised * milestones[i]) \div 10000
    <3>1. /\ Ended /\ GoalReached /\ PayOrganizer(amt) /\ i \in DOMAIN milestones
          /\ UNCHANGED <<now, setupVars, pledgeVars>>
      BY <2>4 DEF ReleaseMilestone
    <3>2. amt \in Int
      <4>1. raised \in Nat /\ milestones \in Seq(Nat)
        BY DEF CampaignInv, CampaignTypeOK
      <4>2. milestones[i] \in Nat
        BY <3>1, <4>1
      <4>3. raised * milestones[i] \in Int
        BY <4>1, <4>2
      <4> QED BY <4>3
    <3> HIDE DEF amt
    <3> QED BY <3>1, <3>2, PayOutStep DEF Promise!Next
  <2> QED BY <1>2, <2>1, <2>2, <2>3, <2>4 DEF OrganizerStep
<1>3. CASE BackerStep
  <2>1. ASSUME NEW b \in Backers, NEW amt \in Contributions, Contribute(b, amt)
        PROVE  Promise!Next
    <3>1. /\ amt \in Int /\ amt > 0 /\ 0 \in Nat /\ InTime(now) /\ Credit(b, amt, 0)
          /\ UNCHANGED <<now, setupVars, taken, refunded>>
      BY <2>1, CampaignAssumption DEF Contribute
    <3> QED BY <3>1, CollectStep DEF Promise!Next
  <2>2. ASSUME NEW b \in Backers, NEW amt \in Contributions, NEW invoiced \in Invoiced,
               Pledge(b, amt, invoiced)
        PROVE  Promise!Next
    <3>1. /\ amt \in Nat /\ amt > 0 /\ InTime(now) /\ Credit(b, amt, amt)
          /\ UNCHANGED <<now, setupVars, taken, refunded>>
      BY <2>2, CampaignAssumption DEF Pledge
    <3> QED BY <3>1, CollectStep DEF Promise!Next
  <2>3. ASSUME NEW b \in Backers, ClaimRefund(b)
        PROVE  [Promise!Next]_(Promise!vars)
    <3> DEFINE amt == pledges[b]
    <3>1. /\ Ended /\ GoalMissed /\ refunded' = refunded + amt
          /\ CanPay(bank, Self, terms.token, amt)
          /\ UNCHANGED <<now, setupVars, raised, pool, taken>>
      BY <2>3 DEF ClaimRefund
    <3>2. amt \in Int /\ bank[Self][terms.token] \in Nat
      BY <3>1, TermsFacts DEF Ended, CampaignInv, CampaignTypeOK
    <3> HIDE DEF amt
    <3>3. amt \in 0 .. bank[Self][terms.token]
      BY <3>1, <3>2 DEF CanPay
    <3> QED BY <3>1, <3>2, <3>3, GiveBackStep DEF Promise!Next
  <2>4. ASSUME NEW b \in Backers, NEW i \in Index, NEW approve \in BOOLEAN,
               VoteMilestone(b, i, approve)
        PROVE  UNCHANGED <<now, terms, raised, bank, taken, refunded>>
    BY <2>4 DEF VoteMilestone, setupVars, pledgeVars, moneyVars
  <2> QED BY <1>1, <1>3, <2>1, <2>2, <2>3, <2>4 DEF BackerStep
<1>4. ASSUME NEW s \in Sponsors, NEW amt \in PoolFunds, FundMatchingPool(s, amt)
      PROVE  Promise!Next
  BY <1>4, CampaignAssumption, SponsorStep DEF Promise!Next
<1>5. CASE BatchRefund
  <2> DEFINE amt == PledgedBy(Range(contributors))
  <2>1. /\ Ended /\ GoalMissed /\ refunded' = refunded + amt
        /\ amt \in 0 .. bank[Self][terms.token]
        /\ UNCHANGED <<now, setupVars, raised, pool, taken>>
    BY <1>5 DEF BatchRefund
  <2>2. amt \in Int
    BY <2>1, TermsFacts DEF Ended, CampaignInv
  <2> HIDE DEF amt
  <2> QED BY <2>1, <2>2, GiveBackStep DEF Promise!Next
<1>6. CASE Tick
  BY <1>6, TickStep DEF Promise!Next
<1>7. CASE UNCHANGED vars
  BY <1>1, <1>7 DEF vars, setupVars, pledgeVars, moneyVars
<1> QED BY <1>2, <1>3, <1>4, <1>5, <1>6, <1>7 DEF Next

\* A campaign collects only while it is open, closes once, and then pays one side
\* only, never more than it holds: whatever it is called with, it implements
\* AllOrNothing.
THEOREM KeepsPromiseHolds == Spec => KeepsPromise
<1>1. Init => Promise!Init
  BY PromiseInit
<1>2. CampaignInv /\ CampaignInv' /\ [Next]_vars => [Promise!Next]_(Promise!vars)
  BY PromiseNext
<1> QED BY <1>1, <1>2, CampaignInvariance, PTL DEF Spec, KeepsPromise, Promise!Spec
=============================================================================
