---------------------------- MODULE MCCrowdfund ----------------------------
(* Instances of Crowdfund for TLC: balances and the lists an organizer sets. *)
EXTENDS Crowdfund

CONSTANTS b1, b2, org, spon, acct, self, gate, usd

BackersHave(n) ==
    [h \in Holder |-> [t \in Tokens |->
        IF h \in Backers THEN n ELSE IF h \in Sponsors THEN 1 ELSE 0]]

TwoAndOne == [BackersHave(1) EXCEPT ![b1] = [t \in Tokens |-> 2]]

\* One milestone or two, and a list that set_milestones refuses.
WholeOrHalves == {<<10000>>, <<5000, 5000>>, <<9000>>}
=============================================================================
