------------------------------ MODULE Crowdfund ------------------------------
(***************************************************************************)
(* The crowdfund contract (contracts/crowdfund): one campaign that collects *)
(* contributions until its deadline, doubles them from a sponsor's matching *)
(* pool, and then either pays its organizer -- at once, or milestone by     *)
(* milestone as the backers vote -- or gives the pledges back.              *)
(*                                                                         *)
(* Every entry point is one atomic transaction.  Time passes between them,  *)
(* and nothing but the entry points closes a campaign at its deadline.      *)
(***************************************************************************)
EXTENDS TokenLedger, Sequences, FiniteSets, FiniteSetsExt, Functions

CONSTANTS
    Holder,        \* everything that holds tokens
    Self,          \* the campaign contract
    Organizers,    \* who init_campaign may name as organizer
    Backers,       \* who contributes
    Sponsors,      \* who funds the matching pool
    Gateways,      \* what set_shade_gateway may be called with
    Accounts,      \* what set_merchant_account may be called with
    Goals,         \* the goals init_campaign may be called with
    Deadlines,     \* the deadlines init_campaign may be called with
    Contributions, \* the amounts contribute and pledge may be called with
    Invoiced,      \* external: the amounts of the invoices that a pledge pays
    PoolFunds,     \* the amounts fund_matching_pool may be called with
    MilestoneLists,\* the lists set_milestones may be called with
    MaxMilestones, \* the length of the longest of them
    Funds,         \* the balances at deployment
    MaxTime        \* bound: the clock stops here

ASSUME HoldersAssumption ==
    /\ {Self} \cup Organizers \cup Backers \cup Sponsors \cup Accounts \subseteq Holder
    /\ Self \notin Organizers \cup Backers \cup Sponsors \cup Accounts
    /\ None \notin Holder \cup Gateways \cup BOOLEAN
    /\ IsFiniteSet(Backers)
    /\ Funds \in [Holder -> [Tokens -> Nat]]
    /\ \A t \in Tokens : Funds[Self][t] = 0

ASSUME CampaignAssumption ==
    /\ Goals \cup Contributions \cup PoolFunds \subseteq Int
    /\ Invoiced \subseteq Nat
    /\ Deadlines \subseteq Nat
    /\ MilestoneLists \subseteq Seq(Nat)
    /\ MaxMilestones \in Nat
    /\ \A l \in MilestoneLists : Len(l) <= MaxMilestones
    /\ MaxTime \in Nat

VARIABLES
    now,          \* the ledger timestamp
    terms,        \* DataKey::Organizer, Token, Goal, Deadline
    gateway,      \* DataKey::ShadeGateway
    account,      \* DataKey::MerchantAccount
    raised,       \* DataKey::Raised
    executed,     \* DataKey::Executed
    refundProcessed, \* DataKey::RefundProcessed
    contributors, \* DataKey::Contributors
    pledges,      \* DataKey::Pledge
    pool,         \* DataKey::MatchingPool
    milestones,   \* DataKey::MilestonePercentages; empty when not set
    unlocked,     \* DataKey::MilestoneUnlocked
    released,     \* DataKey::MilestoneReleased
    ballots,      \* DataKey::MilestoneVote
    tally,        \* DataKey::MilestoneApprovalWeight and MilestoneRejectionWeight
    bank,         \* token contracts: the balance of each holder
    taken,        \* history variable: what the organizer received
    refunded      \* history variable: what the backers got back

setupVars == <<terms, gateway, account>>
pledgeVars == <<raised, contributors, pledges, pool>>
closeVars == <<executed, refundProcessed>>
voteVars == <<milestones, unlocked, released, ballots, tally>>
moneyVars == <<bank, taken, refunded>>

vars == <<now, setupVars, pledgeVars, closeVars, voteVars, moneyVars>>

-----------------------------------------------------------------------------
Terms == [organizer : Organizers, token : Tokens, goal : Int, deadline : Nat]

Index == 1 .. MaxMilestones

CampaignTypeOK ==
    /\ now \in Nat
    /\ terms \in Terms \cup {None}
    /\ gateway \in Gateways \cup {None}
    /\ account \in Accounts \cup {None}
    /\ raised \in Nat
    /\ {executed, refundProcessed} \subseteq BOOLEAN
    /\ contributors \in Seq(Backers)
    /\ pledges \in [Backers -> Nat]
    /\ pool \in Nat
    /\ milestones \in Seq(Nat)
    /\ unlocked \subseteq Index
    /\ released \subseteq unlocked
    /\ ballots \in [Index -> [Backers -> BOOLEAN \cup {None}]]
    /\ tally \in [Index -> [BOOLEAN -> Nat]]
    /\ bank \in [Holder -> [Tokens -> Nat]]
    /\ {taken, refunded} \subseteq Nat

Init ==
    /\ now = 0
    /\ terms = None
    /\ gateway = None
    /\ account = None
    /\ raised = 0
    /\ executed = FALSE
    /\ refundProcessed = FALSE
    /\ contributors = << >>
    /\ pledges = [b \in Backers |-> 0]
    /\ pool = 0
    /\ milestones = << >>
    /\ unlocked = {}
    /\ released = {}
    /\ ballots = [i \in Index |-> [b \in Backers |-> None]]
    /\ tally = [i \in Index |-> [approve \in BOOLEAN |-> 0]]
    /\ bank = Funds
    /\ taken = 0
    /\ refunded = 0

Initialized == terms # None

(* The organizer's settings. *)

InitCampaign(o, t, goal, deadline) ==
    /\ ~Initialized
    /\ goal > 0
    /\ deadline > now
    /\ terms' = [organizer |-> o, token |-> t, goal |-> goal, deadline |-> deadline]
    /\ UNCHANGED <<now, gateway, account, pledgeVars, closeVars, voteVars, moneyVars>>

SetShadeGateway(g) ==
    /\ Initialized
    /\ gateway = None
    /\ gateway' = g
    /\ UNCHANGED <<now, terms, account, pledgeVars, closeVars, voteVars, moneyVars>>

SetMerchantAccount(a) ==
    /\ Initialized
    /\ account = None
    /\ account' = a
    /\ UNCHANGED <<now, terms, gateway, pledgeVars, closeVars, voteVars, moneyVars>>

\* A list may be replaced at any time; what was unlocked, voted and released under
\* the old one stays with its index.
SetMilestones(percentages) ==
    /\ Initialized
    /\ \A i \in DOMAIN percentages : percentages[i] # 0
    /\ SumFunction(percentages) = 10000
    /\ milestones' = percentages
    /\ UNCHANGED <<now, setupVars, pledgeVars, closeVars, unlocked, released, ballots,
                   tally, moneyVars>>

UnlockMilestone(i) ==
    /\ i \in DOMAIN milestones
    /\ unlocked' = unlocked \cup {i}
    /\ UNCHANGED <<now, setupVars, pledgeVars, closeVars, milestones, released, ballots,
                   tally, moneyVars>>

-----------------------------------------------------------------------------
(* Contributions. *)

InTime_Late(t) == Initialized  \* fault: the deadline is not checked

InTime(t) == Initialized /\ t <= terms.deadline

Matched(amt) == IF pool >= amt THEN amt ELSE pool

PoolAfter_Kept(amt) == pool  \* fault: the match stays in the pool

PoolAfter(amt) == pool - Matched(amt)

Tracked_FirstOnly(list, b) ==  \* fault: the loop stops at the first entry
    IF list = << >> THEN << b >> ELSE list

\* track_contributor.
Tracked(list, b) == IF b \in Range(list) THEN list ELSE Append(list, b)

\* apply_pledge_with_matching and track_contributor; extra is what the caller adds
\* to the backer's pledge after them.
Credit(b, amt, extra) ==
    LET effective == amt + Matched(amt)
    IN  /\ raised' = raised + effective
        /\ pool' = PoolAfter(amt)
        /\ pledges' = [pledges EXCEPT ![b] = @ + effective + extra]
        /\ contributors' = Tracked(contributors, b)

Contribute(b, amt) ==
    /\ amt > 0
    /\ InTime(now)
    /\ CanPay(bank, b, terms.token, amt)
    /\ bank' = Moved(bank, b, Self, terms.token, amt)
    /\ Credit(b, amt, 0)
    /\ UNCHANGED <<now, setupVars, closeVars, voteVars, taken, refunded>>

\* Through the gateway: the backer pays an invoice, whose amount is not compared
\* with the pledge, and the merchant account passes the pledge on (external: its
\* manager authorises the refund).  The pledge is added to the record a second time.
Pledge(b, amt, invoiced) ==
    LET paid == Moved(bank, b, account, terms.token, invoiced)
    IN  /\ amt > 0
        /\ InTime(now)
        /\ ~executed
        /\ gateway # None
        /\ account # None
        /\ CanPay(bank, b, terms.token, invoiced)
        /\ CanPay(paid, account, terms.token, amt)
        /\ bank' = Moved(paid, account, Self, terms.token, amt)
        /\ Credit(b, amt, amt)
        /\ UNCHANGED <<now, setupVars, closeVars, voteVars, taken, refunded>>

\* A pool may be funded at any time, also after the deadline.
FundMatchingPool(s, amt) ==
    /\ Initialized
    /\ amt > 0
    /\ CanPay(bank, s, terms.token, amt)
    /\ bank' = Moved(bank, s, Self, terms.token, amt)
    /\ pool' = pool + amt
    /\ UNCHANGED <<now, setupVars, raised, contributors, pledges, closeVars,
                   voteVars, taken, refunded>>

-----------------------------------------------------------------------------
(* After the deadline. *)

Ended == Initialized /\ now > terms.deadline

GoalReached == raised >= terms.goal

GoalMissed == raised < terms.goal

PayOrganizer(amt) ==
    /\ CanPay(bank, Self, terms.token, amt)
    /\ bank' = Moved(bank, Self, terms.organizer, terms.token, amt)
    /\ taken' = taken + amt
    /\ UNCHANGED refunded

ExecuteCampaign ==
    /\ Ended
    /\ GoalReached
    /\ ~executed
    /\ milestones = << >>
    /\ executed' = TRUE
    /\ PayOrganizer(raised)
    /\ UNCHANGED <<now, setupVars, pledgeVars, refundProcessed, voteVars>>

Claimed_Again(b) == pledges  \* fault: the pledge is not zeroed

Claimed(b) == [pledges EXCEPT ![b] = 0]

ClaimRefund(b) ==
    /\ Ended
    /\ GoalMissed
    /\ pledges[b] # 0
    /\ CanPay(bank, Self, terms.token, pledges[b])
    /\ bank' = Moved(bank, Self, b, terms.token, pledges[b])
    /\ refunded' = refunded + pledges[b]
    /\ pledges' = Claimed(b)
    /\ UNCHANGED <<now, setupVars, raised, contributors, pool, closeVars,
                   voteVars, taken>>

PledgedBy(B) == SumFunctionOnSet(pledges, B)

\* One transfer that the balance does not cover fails the whole batch.
BatchRefund ==
    LET backers == Range(contributors)
    IN  /\ Ended
        /\ GoalMissed
        /\ ~refundProcessed
        /\ PledgedBy(backers) \in 0 .. bank[Self][terms.token]
        /\ refundProcessed' = TRUE
        /\ bank' = [h \in Holder |-> [bank[h] EXCEPT ![terms.token] =
                        CASE h = Self         -> @ - PledgedBy(backers)
                          [] h \in backers    -> @ + pledges[h]
                          [] OTHER            -> @]]
        /\ refunded' = refunded + PledgedBy(backers)
        /\ pledges' = [b \in Backers |-> IF b \in backers THEN 0 ELSE pledges[b]]
        /\ UNCHANGED <<now, setupVars, raised, contributors, pool, executed,
                       voteVars, taken>>

-----------------------------------------------------------------------------
(* Milestones. *)

HasNotVoted_Ever(i, b) == TRUE  \* fault: a vote may be cast again

HasNotVoted(i, b) == ballots[i][b] = None

\* The weight is the pledge at the time of the vote.
VoteMilestone(b, i, approve) ==
    /\ i \in DOMAIN milestones
    /\ pledges[b] > 0
    /\ HasNotVoted(i, b)
    /\ ballots' = [ballots EXCEPT ![i][b] = approve]
    /\ tally' = [tally EXCEPT ![i][approve] = @ + pledges[b]]
    /\ UNCHANGED <<now, setupVars, pledgeVars, closeVars, milestones, unlocked, released,
                   moneyVars>>

Approved(i) == tally[i][TRUE] > raised \div 2

\* Whether the campaign was executed is not asked.
ReleaseMilestone(i) ==
    /\ Ended
    /\ GoalReached
    /\ i \in DOMAIN milestones
    /\ i \in unlocked
    /\ i \notin released
    /\ Approved(i)
    /\ released' = released \cup {i}
    /\ PayOrganizer((raised * milestones[i]) \div 10000)
    /\ UNCHANGED <<now, setupVars, pledgeVars, closeVars, milestones, unlocked, ballots,
                   tally>>

Tick ==
    /\ now < MaxTime
    /\ now' = now + 1
    /\ UNCHANGED <<setupVars, pledgeVars, closeVars, voteVars, moneyVars>>

-----------------------------------------------------------------------------
OrganizerStep ==
    \/ \E o \in Organizers, t \in Tokens, goal \in Goals, deadline \in Deadlines :
            InitCampaign(o, t, goal, deadline)
    \/ \E g \in Gateways : SetShadeGateway(g)
    \/ \E a \in Accounts : SetMerchantAccount(a)
    \/ \E percentages \in MilestoneLists : SetMilestones(percentages)
    \/ ExecuteCampaign
    \/ \E i \in Index : UnlockMilestone(i) \/ ReleaseMilestone(i)

BackerStep ==
    \E b \in Backers :
        \/ \E amt \in Contributions :
            \/ Contribute(b, amt)
            \/ \E invoiced \in Invoiced : Pledge(b, amt, invoiced)
        \/ ClaimRefund(b)
        \/ \E i \in Index, approve \in BOOLEAN : VoteMilestone(b, i, approve)

Next ==
    \/ OrganizerStep
    \/ BackerStep
    \/ \E s \in Sponsors, amt \in PoolFunds : FundMatchingPool(s, amt)
    \/ BatchRefund
    \/ Tick

Spec == Init /\ [][Next]_vars

\* Time passes, and somebody calls batch_refund once it is possible: anyone may,
\* and no backer is obliged to claim.
FairSpec == Spec /\ WF_vars(Tick) /\ WF_vars(BatchRefund)

-----------------------------------------------------------------------------
(* Properties. *)

\* The contract holds exactly what its books say it does: what was raised and the
\* pool, less what went to the organizer and back to the backers, whichever paths
\* the money came and went by.
CampaignBooks ==
    Initialized =>
        bank[Self][terms.token] = raised + pool - taken - refunded

\* The campaign implements AllOrNothing: its outcome is decided when the deadline
\* passes, no later call moves the total that decides it, and the organizer and the
\* backers are never both paid.
Outcome ==
    IF ~Ended THEN "open" ELSE IF GoalReached THEN "funded" ELSE "failed"

Held == IF Initialized THEN bank[Self][terms.token] ELSE 0

Promise == INSTANCE AllOrNothing WITH outcome <- Outcome, held <- Held

KeepsPromise == Promise!Spec

\* A backer with a pledge is on the list of contributors, once, so that the one
\* batch refund there can be leaves nobody behind.
BackersListed ==
    /\ \A b \in Backers : pledges[b] > 0 => b \in Range(contributors)
    /\ \A i, j \in DOMAIN contributors : contributors[i] = contributors[j] => i = j
    /\ refundProcessed => \A b \in Backers : pledges[b] = 0

\* As long as the campaign paid nothing out to its organizer, it can pay every
\* pledge back, the matched part included, and keeps what is left in the pool.
\* (Stated for campaigns that take contributions only; see PledgesReclaimable.)
RefundsCovered ==
    Initialized /\ gateway = None /\ taken = 0 =>
        pool + PledgedBy(Backers) <= bank[Self][terms.token]

\* A milestone is released only with the consent of backers who hold more than half
\* of what was raised, however the votes, late contributions, and replaced milestone
\* lists were interleaved.
ReleasedByMajority ==
    gateway = None =>
        \A i \in released :
            2 * PledgedBy({b \in Backers : ballots[i][b] = TRUE}) > raised

\* Under FairSpec the backers of a campaign that missed its goal all get their money
\* back: single claims before the batch do not get in its way.
FailedCampaignRefunds ==
    (Ended /\ GoalMissed /\ gateway = None) ~> (\A b \in Backers : pledges[b] = 0)

\* lib.rs, claim_refund: "Allow a backer to reclaim their pledge after deadline if
\* goal was not met"; batch_refund: "Batch refund all contributors after a failed
\* campaign".  Read: a campaign that failed holds enough for every pledge on record.
PledgesReclaimable ==
    Ended /\ GoalMissed => PledgedBy(Backers) <= bank[Self][terms.token]
=============================================================================
