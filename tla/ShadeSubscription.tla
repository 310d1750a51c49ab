-------------------------- MODULE ShadeSubscription --------------------------
(***************************************************************************)
(* Subscriptions of the Shade contract                                      *)
(* (shade/src/components/subscription.rs): a merchant's plan, customers that *)
(* subscribe to it, and charges that anyone may trigger once an interval,   *)
(* paid from the allowance a customer gave the contract and split between   *)
(* the merchant's account and the platform.                                 *)
(*                                                                         *)
(* The clock's origin is arbitrary, so the code's last_charged of 0, which  *)
(* means never charged, is None here.                                       *)
(***************************************************************************)
EXTENDS Merchants

CONSTANTS
    Customers,      \* the wallets that subscribe
    PlanAmounts,    \* what create_subscription_plan may be called with
    PlanIntervals,  \* and for which interval
    Allowances,     \* what a customer may approve for the contract
    MaxPlans,       \* bound: plans created
    MaxSubs         \* bound: subscriptions created

ASSUME ShadeSubscriptionAssumption ==
    /\ Customers \subseteq Holder \ Account
    /\ PlanAmounts \subseteq Int
    /\ PlanIntervals \subseteq Nat
    /\ Allowances \subseteq Nat
    /\ {MaxPlans, MaxSubs} \subseteq Nat

VARIABLES
    plans,      \* DataKey::SubscriptionPlan
    subs,       \* DataKey::Subscription
    allowance,  \* token contracts: what Shade may draw from each customer
    charges     \* history variable: when each subscription was charged

subscriptionVars == <<plans, subs, allowance, charges>>

SubscriptionPlan == [merchant : Seller, token : Tokens, amount : Nat,
                     interval : Nat \ {0}, active : BOOLEAN]

SubscriptionRecord == [plan_id : Nat, customer : Customers,
                       status : {"Active", "Cancelled"}, last_charged : Nat \cup {None}]

SubscriptionTypeOK ==
    /\ plans \in Seq(SubscriptionPlan)
    /\ subs \in Seq(SubscriptionRecord)
    /\ allowance \in [Customers -> [Tokens -> Nat]]
    /\ charges \in Seq(Seq(Nat))

SubscriptionInit ==
    /\ plans = << >>
    /\ subs = << >>
    /\ allowance = [c \in Customers |-> [t \in Tokens |-> 0]]
    /\ charges = << >>

-----------------------------------------------------------------------------
\* The merchant need not be active.
CreateSubscriptionPlan(m, t, amt, interval) ==
    /\ Len(plans) < MaxPlans
    /\ ~paused
    /\ amt > 0
    /\ interval > 0
    /\ t \in accepted
    /\ amt >= CalculateFee(stats, m, t, amt)
    /\ IsMerchant(m)
    /\ plans' = Append(plans, [merchant |-> m, token |-> t, amount |-> amt,
                               interval |-> interval, active |-> TRUE])
    /\ UNCHANGED <<platformVars, merchantVars, subs, allowance, charges>>

DeactivatePlan(p) ==
    /\ ~paused
    /\ plans' = [plans EXCEPT ![p].active = FALSE]
    /\ UNCHANGED <<platformVars, merchantVars, subs, allowance, charges>>

Subscribe(c, p) ==
    /\ Len(subs) < MaxSubs
    /\ ~paused
    /\ plans[p].active
    /\ subs' = Append(subs, [plan_id |-> p, customer |-> c, status |-> "Active",
                             last_charged |-> None])
    /\ charges' = Append(charges, << >>)
    /\ UNCHANGED <<platformVars, merchantVars, plans, allowance>>

Live(sub) == sub.status = "Active"

\* Called by the customer or the plan's merchant.
CancelSubscription(s) ==
    /\ ~paused
    /\ Live(subs[s])
    /\ subs' = [subs EXCEPT ![s].status = "Cancelled"]
    /\ UNCHANGED <<platformVars, merchantVars, plans, allowance, charges>>

Due_Always(sub) == TRUE  \* fault: the interval is not asked

Due(sub) ==
    sub.last_charged # None => now >= sub.last_charged + plans[sub.plan_id].interval

\* Called by anyone.  The plan may have been deactivated, its token delisted, its
\* merchant deactivated and its fee raised since the customer subscribed.
ChargeSubscription(s) ==
    LET sub     == subs[s]
        plan    == plans[sub.plan_id]
        c       == sub.customer
        t       == plan.token
        charged == CalculateFee(stats, plan.merchant, t, plan.amount)
    IN  /\ ~paused
        /\ Live(sub)
        /\ Due(sub)
        /\ plan.amount <= allowance[c][t]
        /\ TakePayment(c, plan.merchant, t, plan.amount, charged)
        /\ allowance' = [allowance EXCEPT ![c][t] = @ - plan.amount]
        /\ subs' = [subs EXCEPT ![s].last_charged = now]
        /\ charges' = [charges EXCEPT ![s] = Append(@, now)]
        /\ UNCHANGED <<configVars, merchants, account, plans>>

\* External: a customer sets the allowance of the contract.
ApproveShade(c, t, amt) ==
    /\ allowance' = [allowance EXCEPT ![c][t] = amt]
    /\ UNCHANGED <<platformVars, merchantVars, plans, subs, charges>>

-----------------------------------------------------------------------------
SubscriptionNext ==
    \/ \E m \in Seller, t \in Tokens, amt \in PlanAmounts, interval \in PlanIntervals :
        CreateSubscriptionPlan(m, t, amt, interval)
    \/ \E p \in DOMAIN plans :
        \/ DeactivatePlan(p)
        \/ \E c \in Customers : Subscribe(c, p)
    \/ \E s \in DOMAIN subs : CancelSubscription(s) \/ ChargeSubscription(s)
    \/ \E c \in Customers, t \in Tokens, amt \in Allowances : ApproveShade(c, t, amt)

-----------------------------------------------------------------------------
\* A customer is charged a full interval apart at least, whoever triggers the
\* charges and however often, and the last charge on record is the last one made.
ChargedOncePerInterval ==
    \A s \in DOMAIN subs :
        LET times == charges[s]
        IN  /\ \A k \in 1 .. Len(times) - 1 :
                times[k + 1] - times[k] >= plans[subs[s].plan_id].interval
            /\ subs[s].last_charged =
                IF times = << >> THEN None ELSE times[Len(times)]
=============================================================================
