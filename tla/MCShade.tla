------------------------------- MODULE MCShade -------------------------------
(* Instances of Shade for TLC: what its merchants sell, from the wallets, accounts *)
(* and balances of MCInvoice.                                                     *)
EXTENDS Shade, MCInvoice

Show(amt, n, bps) ==
    [price |-> amt, token |-> usd, capacity |-> n, royalty_bps |-> bps, event_date |-> 1]

\* A hall for a group of five and one more, priced to cross a discount tier.
LargeShow == {Show(40000, 6, 1000)}

\* Two seats, royalties of one half; and the offers that create_event refuses.
SmallShows == {Show(2, 2, 5000), Show(0, 2, 0), Show(2, 0, 0), Show(2, 2, 10001),
               [Show(2, 2, 0) EXCEPT !.event_date = 0]}

Pricing(end, discount, markup) ==
    [early_bird_end |-> end, discount_bps |-> discount, markup_bps |-> markup]

\* Half price until 0 and double after, free until 0, none.
EarlyBirds == {Pricing(0, 5000, 10000), Pricing(0, 10000, 0), Pricing(None, 0, 0)}

PerkTier(least, most, n) == [min_pledge |-> least, max_backers |-> most, perks |-> n]

\* Two tiers, the upper one with one place; the lower one alone, limited by now and dear;
\* none; and two out of order, which set_backer_reward_tiers refuses.
Perks == {<<PerkTier(1, 0, 1), PerkTier(2, 1, 2)>>, <<PerkTier(2, 1, 2)>>, << >>,
          <<PerkTier(2, 0, 1), PerkTier(2, 1, 1)>>, <<PerkTier(0, 0, 1)>>}

\* What CancelledClosed, PledgesHeld and TakingsAgree are stated for.
ASSUME SellersOnlySell /\ ShadeOnlyHolds /\ TakingsStay

NothingSold == EventsInit /\ SubscriptionInit

NothingPromised == BackerRewardsInit /\ NftInit

SalesInit == ConfiguredInit /\ NothingSold /\ NothingPromised

SalesSpec == SalesInit /\ [][ShadeNext]_shadeVars

\* One of the merchants was deactivated since: it opens no invoice and no event, but
\* plans, which nothing keeps from charging.
OneInactive == [m \in Seller |-> Routed(m = s1)]

TakingsInit == ConfiguredWith(OneInactive, 0) /\ NothingSold /\ NothingPromised

TakingsSpec == TakingsInit /\ [][ShadeNext]_shadeVars

\* Two starts, each with room for one kind of reward only: the merchant closed
\* its collections before anything was minted, or every deadline for a campaign has passed.
CampaignsFirst ==
    /\ ConfiguredInit
    /\ BackerRewardsInit
    /\ collections = [c \in 1 .. MaxCollections |->
            [merchant |-> s1, max_supply |-> 0, minted |-> 0, active |-> FALSE,
             nfts |-> << >>]]
    /\ nfts = << >>
    /\ userNfts = [p \in Collectors |-> << >>]
    /\ nftClaimed = {}

NftsFirst ==
    /\ ConfiguredWith([m \in Seller |-> Routed(TRUE)], MaxTime)
    /\ NothingPromised

RewardsInit == (CampaignsFirst \/ NftsFirst) /\ NothingSold

RewardsSpec == RewardsInit /\ [][ShadeNext]_shadeVars
=============================================================================
