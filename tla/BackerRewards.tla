---------------------------- MODULE BackerRewards ----------------------------
(***************************************************************************)
(* Backer campaigns of the Shade contract                                   *)
(* (shade/src/components/backer_rewards.rs): backers pledge to a merchant's  *)
(* campaign, choose a reward tier with limited places, and claim its perks  *)
(* once the merchant has marked the reward fulfilled.  The merchant may     *)
(* replace the tiers at any time.                                           *)
(*                                                                         *)
(* The pledges stay with the Shade contract: no entry point pays them out.  *)
(* Tiers and perks are numbered from 1 here.                                *)
(***************************************************************************)
EXTENDS Merchants

CONSTANTS
    Backers,       \* the wallets that pledge
    Deadlines,     \* what create_backer_campaign may be called with
    TierLists,     \* what set_backer_reward_tiers may be called with
    Pledges,       \* what pledge_to_campaign may be called with
    MaxCampaigns,  \* bound: campaigns created
    MaxRaised,     \* bound: what a campaign raises
    MaxRewards     \* bound: tiers in a list, and perks in a tier

\* The perks of a tier are a list of names; only how many there are matters.
RewardTier == [min_pledge : Int, max_backers : Nat, perks : 0 .. MaxRewards]

Rewards == 1 .. MaxRewards

ASSUME BackerRewardsAssumption ==
    /\ Backers \subseteq Holder \ (Account \cup {Shade})
    /\ IsFiniteSet(Backers)
    /\ Deadlines \subseteq Nat
    /\ \A list \in TierLists : list \in Seq(RewardTier) /\ Len(list) <= MaxRewards
    /\ Pledges \subseteq Int
    /\ {MaxCampaigns, MaxRaised, MaxRewards} \subseteq Nat

VARIABLE campaigns  \* DataKey::BackerCampaign and the other DataKey::Backer* keys

\* count is BackerTierBackerCount, kept by tier index: it outlives the tier.  No entry
\* point clears a campaign's active flag, so it is left out.
BackerCampaign ==
    [merchant : Seller, token : Tokens, deadline : Nat, raised : Nat,
     tiers : Seq(RewardTier), pledge : [Backers -> Nat],
     selected : [Backers -> Rewards \cup {None}], count : [Rewards -> Nat],
     fulfilled : SUBSET Backers, claimed : SUBSET (Backers \X Rewards)]

BackerRewardsTypeOK == campaigns \in Seq(BackerCampaign)

BackerRewardsInit == campaigns = << >>

-----------------------------------------------------------------------------
(* The merchant's side. *)

CreateBackerCampaign(m, t, deadline) ==
    /\ Len(campaigns) < MaxCampaigns
    /\ ~paused
    /\ deadline > now
    /\ t \in accepted
    /\ IsMerchant(m)
    /\ merchants[m].active
    /\ campaigns' = Append(campaigns,
            [merchant |-> m, token |-> t, deadline |-> deadline, raised |-> 0,
             tiers |-> << >>, pledge |-> [b \in Backers |-> 0],
             selected |-> [b \in Backers |-> None], count |-> [k \in Rewards |-> 0],
             fulfilled |-> {}, claimed |-> {}])
    /\ UNCHANGED <<platformVars, merchantVars>>

\* validate_tier_ordering.
Ascending(list) ==
    /\ list # << >> => list[1].min_pledge > 0
    /\ \A k \in 2 .. Len(list) : list[k].min_pledge > list[k - 1].min_pledge

\* Neither the selections nor their counts are looked at.
SetBackerRewardTiers(c, list) ==
    /\ ~paused
    /\ Ascending(list)
    /\ campaigns' = [campaigns EXCEPT ![c].tiers = list]
    /\ UNCHANGED <<platformVars, merchantVars>>

FulfillBackerReward(c, b) ==
    /\ ~paused
    /\ campaigns[c].pledge[b] > 0
    /\ b \notin campaigns[c].fulfilled
    /\ campaigns' = [campaigns EXCEPT ![c].fulfilled = @ \cup {b}]
    /\ UNCHANGED <<platformVars, merchantVars>>

-----------------------------------------------------------------------------
(* The backers' side. *)

Topped_Last(pledge, amt) == amt  \* fault: the last pledge replaces the earlier ones

Topped(pledge, amt) == pledge + amt

\* Neither the token nor the merchant is asked again.
PledgeToCampaign(c, b, amt) ==
    LET campaign == campaigns[c]
        topped   == [campaign.pledge EXCEPT ![b] = Topped(@, amt)]
    IN  /\ campaign.raised + amt <= MaxRaised
        /\ ~paused
        /\ amt > 0
        /\ now <= campaign.deadline
        /\ CanPay(bank, b, campaign.token, amt)
        /\ bank' = Moved(bank, b, Shade, campaign.token, amt)
        /\ campaigns' = [campaigns EXCEPT ![c] =
                [campaign EXCEPT !.pledge = topped, !.raised = campaign.raised + amt]]
        /\ UNCHANGED <<platformVars, merchants, account, flow>>

HasRoom_ForOldHands(campaign, b, k) ==  \* fault: any earlier selection lets b in
    LET most == campaign.tiers[k].max_backers
    IN  most > 0 /\ campaign.selected[b] = None => campaign.count[k] < most

\* A maximum of 0 means no maximum.
HasRoom(campaign, b, k) ==
    LET most == campaign.tiers[k].max_backers
    IN  most > 0 /\ campaign.selected[b] # k => campaign.count[k] < most

Reseated_NeverLeaves(count, from, to) ==  \* fault: the tier left keeps its count
    IF from = to THEN count ELSE [count EXCEPT ![to] = @ + 1]

\* The counts after a backer moves from tier from, or None, to tier to.
Reseated(count, from, to) ==
    [k \in Rewards |->
        CASE k = to /\ from # to                     -> count[k] + 1
          [] k = from /\ from # to /\ count[k] > 0    -> count[k] - 1
          [] OTHER                                   -> count[k]]

\* Allowed before and after the deadline, and after the reward was fulfilled.
SelectBackerRewardTier(c, b, k) ==
    LET campaign == campaigns[c]
        from     == campaign.selected[b]
    IN  /\ ~paused
        /\ k \in DOMAIN campaign.tiers
        /\ campaign.pledge[b] >= campaign.tiers[k].min_pledge
        /\ HasRoom(campaign, b, k)
        /\ campaigns' = [campaigns EXCEPT ![c] =
                [campaign EXCEPT !.count = Reseated(campaign.count, from, k),
                                 !.selected = [campaign.selected EXCEPT ![b] = k]]]
        /\ UNCHANGED <<platformVars, merchantVars>>

\* The perk is one of the selected tier as it is now; what is remembered is the perk's
\* index, whichever tier it was claimed in.  The pledge is not compared again.
ClaimBackerPerk(c, b, k) ==
    LET campaign == campaigns[c]
    IN  /\ ~paused
        /\ b \in campaign.fulfilled
        /\ campaign.selected[b] \in DOMAIN campaign.tiers
        /\ k <= campaign.tiers[campaign.selected[b]].perks
        /\ <<b, k>> \notin campaign.claimed
        /\ campaigns' = [campaigns EXCEPT ![c].claimed = @ \cup {<<b, k>>}]
        /\ UNCHANGED <<platformVars, merchantVars>>

-----------------------------------------------------------------------------
BackerRewardsNext ==
    \/ \E m \in Seller, t \in Tokens, deadline \in Deadlines :
        CreateBackerCampaign(m, t, deadline)
    \/ \E c \in DOMAIN campaigns :
        \/ \E list \in TierLists : SetBackerRewardTiers(c, list)
        \/ \E b \in Backers :
            \/ \E amt \in Pledges : PledgeToCampaign(c, b, amt)
            \/ \E k \in Rewards : SelectBackerRewardTier(c, b, k) \/ ClaimBackerPerk(c, b, k)
            \/ FulfillBackerReward(c, b)

-----------------------------------------------------------------------------
(* Properties. *)

InTier(campaign, k) == {b \in Backers : campaign.selected[b] = k}

\* The stored count of each tier index is the number of backers whose selection it is,
\* through every change of mind and every replacement of the tiers.
CountsAgree ==
    \A c \in DOMAIN campaigns, k \in Rewards :
        campaigns[c].count[k] = Cardinality(InTier(campaigns[c], k))

\* Whoever enters a limited tier finds a place in it: counted by the selections, not by
\* the stored count, the tier is within its maximum after the step.
CapacityKept ==
    [][\A c \in DOMAIN campaigns, b \in Backers :
            LET was == campaigns[c]
                is  == campaigns'[c]
                k   == is.selected[b]
            IN  k # was.selected[b] /\ is.tiers[k].max_backers > 0 =>
                    Cardinality(InTier(is, k)) <= is.tiers[k].max_backers
      ]_<<platformVars, merchantVars, campaigns>>

\* Shade holds, over what it had, exactly what its campaigns raised, and a campaign has
\* raised what its backers' records add up to.
PledgesHeld ==
    /\ \A c \in DOMAIN campaigns :
        campaigns[c].raised = SumFunction(campaigns[c].pledge)
    /\ \A t \in Tokens :
        bank[Shade][t] - Funds[Shade][t] =
            SumFunction([c \in {d \in DOMAIN campaigns : campaigns[d].token = t} |->
                            campaigns[c].raised])
=============================================================================
