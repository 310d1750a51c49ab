--------------------------- MODULE MCSubscription ---------------------------
(* Instances of Subscription for TLC: the offers and balances of each run. *)
EXTENDS Subscription

CONSTANTS c1, m1, k1, usd, eur

Offer(t, amt, i, k, trial) ==
    [token |-> t, amount |-> amt, interval |-> i, creator |-> k, trial_period |-> trial]

\* One plain offer.
PlainOffers == {Offer(usd, 1, 2, None, 0)}

\* An offer with a trial, paid to a creator, and two that the guards of
\* create_plan refuse.
EditOffers == {Offer(usd, 1, 2, k1, 1),
               Offer(usd, 0, 2, None, 0), Offer(usd, 1, 0, None, 0)}

\* Two prices and one interval: upgrades, downgrades and refunds.
SwitchOffers == {Offer(usd, 2, 2, None, 0), Offer(usd, 4, 2, None, 0)}

\* A short cycle and a long one.
UnevenOffers == {Offer(usd, 1, 1, None, 0), Offer(usd, 2, 4, None, 0)}

Funds(n) == [a \in Address |-> [t \in Tokens |-> IF a \in Customers THEN n ELSE 0]]

TwoEach == Funds(2)
SixEach == Funds(6)
=============================================================================
