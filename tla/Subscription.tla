---------------------------- MODULE Subscription ----------------------------
(***************************************************************************)
(* The recurring-billing contract (contracts/subscription).                *)
(*                                                                         *)
(* Every invocation of the contract is one atomic transaction: a panic     *)
(* rolls all of it back.  So an entry point is one action whose guard is   *)
(* the conjunction of everything that must hold for it not to panic, and   *)
(* the concurrency is the interleaving of transactions by merchants,       *)
(* customers and the off-chain scheduler with the passing of time and with *)
(* direct calls to the token contracts.                                    *)
(***************************************************************************)
EXTENDS TokenLedger, Sequences

CONSTANTS
    Address,        \* every account of the ledger
    Admins,         \* the accounts that may call initialize
    Merchants,      \* the accounts that publish plans
    Customers,      \* the accounts that subscribe
    Offers,         \* the terms create_plan may be called with
    NewAmounts,     \* the prices update_plan_amount may be called with
    NewIntervals,   \* the intervals update_plan_interval may be called with
    GracePeriods,   \* the periods set_plan_grace_period may be called with
    Cycles,         \* the cycle counts authorize_billing may be called with
    Preferences,    \* the preferred tokens customers may ask for
    Approvers,      \* the owners that call a token directly
    ApproveAmounts, \* what an owner may approve by calling a token directly
    MoveAmounts,    \* what an owner may transfer by calling a token directly
    InitialBalance, \* the token balances when the contract is deployed
    MinInterval,    \* a lower bound on every interval that may be configured
    MaxTime,        \* bound: the clock stops here
    MaxPlans,       \* bound: plans created
    MaxSubs         \* bound: subscriptions created

Terms == [token : Tokens, amount : Int, interval : Nat,
          creator : Address \cup {None}, trial_period : Nat]

ASSUME PartiesAssumption ==
    /\ Admins \cup Merchants \cup Approvers \subseteq Address
    /\ Customers \subseteq Address
    /\ None \notin Address \cup Tokens
    /\ Preferences \subseteq Tokens \cup {None}

ASSUME TermsAssumption ==
    /\ Offers \subseteq Terms
    /\ NewAmounts \subseteq Int
    /\ NewIntervals \subseteq Nat
    /\ GracePeriods \subseteq Nat
    /\ Cycles \subseteq Nat

ASSUME TokensAssumption ==
    /\ ApproveAmounts \subseteq Nat
    /\ MoveAmounts \subseteq Nat
    /\ InitialBalance \in [Address -> [Tokens -> Nat]]

ASSUME MinIntervalAssumption ==
    /\ MinInterval \in Nat \ {0}
    /\ \A o \in Offers : o.interval > 0 => o.interval >= MinInterval
    /\ \A i \in NewIntervals : i > 0 => i >= MinInterval

ASSUME BoundsAssumption == MaxTime \in Nat /\ MaxPlans \in Nat /\ MaxSubs \in Nat

VARIABLES
    now,            \* the ledger timestamp; 0 is the never-charged sentinel
    admin,          \* DataKey::Admin
    acceptedTokens, \* DataKey::AcceptedTokens
    plans,          \* DataKey::Plan(1..PlanCount)
    subs,           \* DataKey::Subscription(1..SubscriptionCount)
    balance,        \* token contracts: the balance of each account
    allowance,      \* token contracts: what each account lets this contract spend
    history         \* history variable: what each subscription has paid so far

vars == <<now, admin, acceptedTokens, plans, subs, balance, allowance, history>>

-----------------------------------------------------------------------------
(* The stored records. *)

Plan == [merchant : Address, token : Tokens, amount : Int, interval : Nat,
         active : BOOLEAN, grace_period : Nat,
         creator : Address \cup {None}, trial_period : Nat]

Status == {"Active", "Cancelled", "PastDue", "Terminated"}

\* last_charged = 0 is "never charged"; pending_downgrade_plan_id = 0 is "none".
Sub == [plan_id : Nat, customer : Address, status : Status,
        created_at : Nat, last_charged : Nat, past_due_since : Nat,
        pending_downgrade_plan_id : Nat, preferred_token : Tokens \cup {None}]

\* Only the properties read the history: the cycles charged, and what was paid
\* less what was refunded.
History == [charges : Nat, net : Int]

TypeOK ==
    /\ now \in Nat \ {0}
    /\ admin \in Address \cup {None}
    /\ acceptedTokens \subseteq Tokens
    /\ plans \in Seq(Plan)
    /\ subs \in Seq(Sub)
    /\ history \in Seq(History)
    /\ Len(history) = Len(subs)
    /\ balance \in [Address -> [Tokens -> Nat]]
    /\ allowance \in [Address -> [Tokens -> Nat]]

-----------------------------------------------------------------------------
(* Helpers of the contract. *)

Live_NotTerminated(sub) == sub.status # "Terminated"  \* fault: Cancelled passes

Live(sub) == sub.status \in {"Active", "PastDue"}

BillingToken(sub, plan) ==
    IF sub.preferred_token = None THEN plan.token ELSE sub.preferred_token

Payee(plan) == IF plan.creator = None THEN plan.merchant ELSE plan.creator

DueAt_NoInterval(sub, plan) ==  \* fault: forgets the last charge
    sub.created_at + plan.trial_period

\* The instant from which the next cycle of an Active subscription is due.
DueAt(sub, plan) ==
    IF sub.last_charged > 0 THEN sub.last_charged + plan.interval
                            ELSE sub.created_at + plan.trial_period

ApplyDowngrade_Kept(sub) ==  \* fault: the pending downgrade is not cleared
    IF sub.pending_downgrade_plan_id = 0
    THEN sub
    ELSE [sub EXCEPT !.plan_id = sub.pending_downgrade_plan_id]

ApplyDowngrade(sub) ==
    IF sub.pending_downgrade_plan_id = 0
    THEN sub
    ELSE [sub EXCEPT !.plan_id = sub.pending_downgrade_plan_id,
                     !.pending_downgrade_plan_id = 0]

CycleEnd(sub, plan) == sub.last_charged + plan.interval

ProratedRefund_Uncharged(sub, plan, t) ==  \* fault: no never-charged check
    IF t >= CycleEnd(sub, plan) \/ plan.interval = 0
    THEN 0
    ELSE (plan.amount * (CycleEnd(sub, plan) - t)) \div plan.interval

ProratedRefund(sub, plan, t) ==
    IF sub.last_charged = 0 \/ t >= CycleEnd(sub, plan) \/ plan.interval = 0
    THEN 0
    ELSE (plan.amount * (CycleEnd(sub, plan) - t)) \div plan.interval

Quote(s) == ProratedRefund(subs[s], plans[subs[s].plan_id], now)

-----------------------------------------------------------------------------
(* The part of the state that billing changes, as one value, so that the    *)
(* steps of a batch compose inside a single transaction.                    *)

World == [subs |-> subs, balance |-> balance,
          allowance |-> allowance, history |-> history]

Install(w) ==
    /\ subs' = w.subs
    /\ balance' = w.balance
    /\ allowance' = w.allowance
    /\ history' = w.history

\* Storing subscription s, alone or together with its history.
PutSub(w, s, sub) == [w EXCEPT !.subs[s] = sub]
Put(w, s, sub, h) == [w EXCEPT !.subs[s] = sub, !.history[s] = h]

\* External: SEP-41 transfer and transfer_from by the contract.  A call whose
\* allowance or balance is short traps and aborts the transaction.
CanTransferFrom_AnyBalance(w, from, t, amt) ==  \* fault: the balance is not checked
    amt <= w.allowance[from][t]

CanTransferFrom(w, from, t, amt) ==
    amt <= w.allowance[from][t] /\ amt <= w.balance[from][t]

TransferFrom(w, from, to, t, amt) ==
    [w EXCEPT !.balance = Moved(@, from, to, t, amt),
              !.allowance[from][t] = @ - amt]

AllowanceCovers(w, sub, plan) ==
    w.allowance[sub.customer][BillingToken(sub, plan)] >= plan.amount

\* A successful charge of subscription s, whose record is sub, for plan.
Collected(w, s, sub, plan) ==
    Put(TransferFrom(w, sub.customer, Payee(plan), BillingToken(sub, plan), plan.amount),
        s,
        [sub EXCEPT !.status = "Active", !.last_charged = now, !.past_due_since = 0],
        [w.history[s] EXCEPT !.charges = @ + 1, !.net = @ + plan.amount])

InGrace(sub) == [sub EXCEPT !.status = "PastDue", !.past_due_since = now]
Ended(sub) == [sub EXCEPT !.status = "Terminated"]

Missed_NoWindow(w, s, sub, plan) ==  \* fault: a second miss ends it at once
    IF sub.status = "Active" /\ plan.grace_period # 0
    THEN PutSub(w, s, InGrace(sub))
    ELSE PutSub(w, s, Ended(sub))

Missed_Restarts(w, s, sub, plan) ==  \* fault: every miss restarts the window
    IF plan.grace_period # 0
    THEN PutSub(w, s, InGrace(sub))
    ELSE PutSub(w, s, Ended(sub))

\* A failed charge: PastDue on the first miss when the plan gives a grace period,
\* Terminated when it gives none or when the period has run out.
Missed(w, s, sub, plan) ==
    CASE sub.status = "Active" /\ plan.grace_period = 0 -> PutSub(w, s, Ended(sub))
      [] sub.status = "Active" /\ plan.grace_period # 0 -> PutSub(w, s, InGrace(sub))
      [] sub.status = "PastDue" /\ now > sub.past_due_since + plan.grace_period ->
            PutSub(w, s, Ended(sub))
      [] OTHER -> w

\* A PastDue subscription has already missed its due instant.
CycleDue(sub, plan) ==
    \/ sub.status = "Active" /\ now >= DueAt(sub, plan)
    \/ sub.status = "PastDue"

\* The three operators of one billing step of subscription s in world w: what the
\* charge would be made with, whether its transfer traps, and the next world.
Billed(w, s) == ApplyDowngrade(w.subs[s])

StepTraps(w, s) ==
    LET sub  == Billed(w, s)
        plan == plans[sub.plan_id]
    IN  /\ CycleDue(w.subs[s], plans[w.subs[s].plan_id])
        /\ AllowanceCovers(w, sub, plan)
        /\ plan.amount > w.balance[sub.customer][BillingToken(sub, plan)]

StepBillingCycle(w, s) ==
    LET sub  == Billed(w, s)
        plan == plans[sub.plan_id]
    IN  IF ~CycleDue(w.subs[s], plans[w.subs[s].plan_id]) THEN w
        ELSE IF AllowanceCovers(w, sub, plan) THEN Collected(w, s, sub, plan)
        ELSE Missed(w, s, sub, plan)

-----------------------------------------------------------------------------
Init ==
    /\ now = 1
    /\ admin = None
    /\ acceptedTokens = {}
    /\ plans = << >>
    /\ subs = << >>
    /\ history = << >>
    /\ balance = InitialBalance
    /\ allowance = [a \in Address |-> [t \in Tokens |-> 0]]

Initialize(a) ==
    /\ admin = None
    /\ admin' = a
    /\ UNCHANGED <<now, acceptedTokens, plans, subs, balance, allowance, history>>

AddAcceptedToken(t) ==
    /\ admin # None
    /\ acceptedTokens' = acceptedTokens \cup {t}
    /\ UNCHANGED <<now, admin, plans, subs, balance, allowance, history>>

(* Plans. *)

CreatePlan(m, o) ==
    /\ o.amount > 0
    /\ o.interval > 0
    /\ o.token \in acceptedTokens
    /\ Len(plans) < MaxPlans
    /\ plans' = Append(plans, [merchant |-> m, token |-> o.token, amount |-> o.amount,
                               interval |-> o.interval, active |-> TRUE,
                               grace_period |-> 0, creator |-> o.creator,
                               trial_period |-> o.trial_period])
    /\ UNCHANGED <<now, admin, acceptedTokens, subs, balance, allowance, history>>

\* Every edit of a plan is its merchant's.
EditPlan(m, p, edited) ==
    /\ plans[p].merchant = m
    /\ plans' = [plans EXCEPT ![p] = edited]
    /\ UNCHANGED <<now, admin, acceptedTokens, subs, balance, allowance, history>>

SetPlanGracePeriod(m, p, g) ==
    EditPlan(m, p, [plans[p] EXCEPT !.grace_period = g])

UpdatePlanAmount(m, p, amt) ==
    /\ amt > 0
    /\ EditPlan(m, p, [plans[p] EXCEPT !.amount = amt])

UpdatePlanInterval(m, p, i) ==
    /\ i # 0
    /\ EditPlan(m, p, [plans[p] EXCEPT !.interval = i])

DeactivatePlan(m, p) ==
    EditPlan(m, p, [plans[p] EXCEPT !.active = FALSE])

(* Subscriptions. *)

NewSub(c, p, t) ==
    [plan_id |-> p, customer |-> c, status |-> "Active", created_at |-> now,
     last_charged |-> 0, past_due_since |-> 0, pending_downgrade_plan_id |-> 0,
     preferred_token |-> t]

Enroll(c, p, t) ==
    /\ plans[p].active
    /\ Len(subs) < MaxSubs
    /\ subs' = Append(subs, NewSub(c, p, t))
    /\ history' = Append(history, [charges |-> 0, net |-> 0])
    /\ UNCHANGED <<now, admin, acceptedTokens, plans, balance, allowance>>

Subscribe(c, p) == Enroll(c, p, None)

SubscribeWithToken(c, p, t) == t \in acceptedTokens /\ Enroll(c, p, t)

SetPreferredToken(c, s, t) ==
    /\ subs[s].customer = c
    /\ subs[s].status = "Active"
    /\ t # None => t \in acceptedTokens
    /\ subs' = [subs EXCEPT ![s].preferred_token = t]
    /\ UNCHANGED <<now, admin, acceptedTokens, plans, balance, allowance, history>>

\* A customer's own cancellation also zeroes its allowance in the billing token.
CancelSubscription(caller, s) ==
    LET sub  == subs[s]
        plan == plans[sub.plan_id]
    IN  /\ Live(sub)
        /\ caller \in {sub.customer, plan.merchant}
        /\ subs' = [subs EXCEPT ![s].status = "Cancelled"]
        /\ allowance' = IF caller = sub.customer
                        THEN [allowance EXCEPT ![caller][BillingToken(sub, plan)] = 0]
                        ELSE allowance
        /\ UNCHANGED <<now, admin, acceptedTokens, plans, balance, history>>

(* Billing authorisation: an approve overwrites the owner's allowance. *)

AuthorizeBilling(c, s, cycles) ==
    LET plan == plans[subs[s].plan_id]
    IN  /\ subs[s].customer = c
        /\ subs[s].status = "Active"
        /\ allowance' = [allowance EXCEPT ![c][BillingToken(subs[s], plan)] =
                                                plan.amount * cycles]
        /\ UNCHANGED <<now, admin, acceptedTokens, plans, subs, balance, history>>

RevokeBillingAuthorization(c, s) ==
    /\ subs[s].customer = c
    /\ allowance' = [allowance EXCEPT
                        ![c][BillingToken(subs[s], plans[subs[s].plan_id])] = 0]
    /\ UNCHANGED <<now, admin, acceptedTokens, plans, subs, balance, history>>

(* Charging.  Anyone may call these; in practice the off-chain scheduler does. *)

\* The strict form: only an Active subscription that is due and can pay.
Charge(s) ==
    LET sub  == Billed(World, s)
        plan == plans[sub.plan_id]
    IN  /\ subs[s].status = "Active"
        /\ now >= DueAt(subs[s], plans[subs[s].plan_id])
        /\ CanTransferFrom(World, sub.customer, BillingToken(sub, plan), plan.amount)
        /\ Install(Collected(World, s, sub, plan))
        /\ UNCHANGED <<now, admin, acceptedTokens, plans>>

ProcessCharge(s) ==
    /\ Live(subs[s])
    /\ ~StepTraps(World, s)
    /\ Install(StepBillingCycle(World, s))
    /\ UNCHANGED <<now, admin, acceptedTokens, plans>>

\* A sweep over two entries (possibly the same one twice): terminal and undue
\* entries are passed over, a trap in either entry aborts both.
ProcessBillingCycle(s1, s2) ==
    LET first == StepBillingCycle(World, s1)
    IN  /\ ~StepTraps(World, s1)
        /\ ~StepTraps(first, s2)
        /\ Install(StepBillingCycle(first, s2))
        /\ UNCHANGED <<now, admin, acceptedTokens, plans>>

\* On an already Terminated subscription enforce_grace returns without a change.
EnforceGrace(s) ==
    /\ subs[s].status = "PastDue"
    /\ now > subs[s].past_due_since + plans[subs[s].plan_id].grace_period
    /\ subs' = [subs EXCEPT ![s].status = "Terminated"]
    /\ UNCHANGED <<now, admin, acceptedTokens, plans, balance, allowance, history>>

\* The caller and the customer sign, or the customer and the payee; which of them
\* start the call is the caller's choice, so their consent is not a guard here.
CancelWithProratedRefund(caller, s) ==
    LET sub    == subs[s]
        plan   == plans[sub.plan_id]
        refund == ProratedRefund(sub, plan, now)
        token  == BillingToken(sub, plan)
    IN  /\ Live(sub)
        /\ caller \in {sub.customer, plan.merchant} \cup ({plan.creator} \ {None})
        /\ refund > 0
        /\ CanTransferFrom(World, Payee(plan), token, refund)
        /\ Install(Put(TransferFrom(World, Payee(plan), sub.customer, token, refund), s,
                       [sub EXCEPT !.status = "Cancelled"],
                       [history[s] EXCEPT !.net = @ - refund]))
        /\ UNCHANGED <<now, admin, acceptedTokens, plans>>

(* Changing plan. *)

CanSwitch(c, s, p) ==
    /\ subs[s].customer = c
    /\ subs[s].status = "Active"
    /\ plans[p].active
    /\ plans[subs[s].plan_id].token = plans[p].token

UpgradeCost(s, p) ==
    LET due == plans[p].amount - Quote(s) IN IF due < 0 THEN 0 ELSE due

UpgradeSubscription(c, s, p) ==
    LET token == BillingToken(subs[s], plans[p])
        cost  == UpgradeCost(s, p)
    IN  /\ CanSwitch(c, s, p)
        /\ CanTransferFrom(World, c, token, cost)
        /\ Install(Put(TransferFrom(World, c, Payee(plans[p]), token, cost), s,
                       [subs[s] EXCEPT !.plan_id = p,
                                       !.last_charged = now,
                                       !.pending_downgrade_plan_id = 0],
                       [history[s] EXCEPT !.net = @ + cost]))
        /\ UNCHANGED <<now, admin, acceptedTokens, plans>>

DowngradeSubscription(c, s, p) ==
    /\ CanSwitch(c, s, p)
    /\ subs' = [subs EXCEPT ![s].pending_downgrade_plan_id = p]
    /\ UNCHANGED <<now, admin, acceptedTokens, plans, balance, allowance, history>>

(* The environment. *)

Tick ==
    /\ now < MaxTime
    /\ now' = now + 1
    /\ UNCHANGED <<admin, acceptedTokens, plans, subs, balance, allowance, history>>

\* External: an owner approves this contract, or an allowance lapses (amt = 0).
TokenApprove(owner, t, amt) ==
    /\ allowance' = [allowance EXCEPT ![owner][t] = amt]
    /\ UNCHANGED <<now, admin, acceptedTokens, plans, subs, balance, history>>

\* External: an owner spends tokens elsewhere.
TokenTransfer(from, to, t, amt) ==
    /\ CanPay(balance, from, t, amt)
    /\ balance' = Moved(balance, from, to, t, amt)
    /\ UNCHANGED <<now, admin, acceptedTokens, plans, subs, allowance, history>>

-----------------------------------------------------------------------------
AdminStep ==
    \/ \E a \in Admins : Initialize(a)
    \/ \E t \in Tokens : AddAcceptedToken(t)

MerchantStep ==
    \E m \in Merchants :
        \/ \E o \in Offers : CreatePlan(m, o)
        \/ \E p \in DOMAIN plans :
            \/ \E g \in GracePeriods : SetPlanGracePeriod(m, p, g)
            \/ \E amt \in NewAmounts : UpdatePlanAmount(m, p, amt)
            \/ \E i \in NewIntervals : UpdatePlanInterval(m, p, i)
            \/ DeactivatePlan(m, p)

CustomerStep ==
    \E c \in Customers :
        \/ \E p \in DOMAIN plans :
            \/ Subscribe(c, p)
            \/ \E t \in Preferences \ {None} : SubscribeWithToken(c, p, t)
        \/ \E s \in DOMAIN subs :
            \/ \E t \in Preferences : SetPreferredToken(c, s, t)
            \/ \E n \in Cycles : AuthorizeBilling(c, s, n)
            \/ RevokeBillingAuthorization(c, s)
            \/ \E p \in DOMAIN plans :
                \/ UpgradeSubscription(c, s, p)
                \/ DowngradeSubscription(c, s, p)

CancelStep ==
    \E caller \in Address, s \in DOMAIN subs :
        \/ CancelSubscription(caller, s)
        \/ CancelWithProratedRefund(caller, s)

SchedulerStep ==
    \E s \in DOMAIN subs :
        \/ Charge(s)
        \/ ProcessCharge(s)
        \/ EnforceGrace(s)
        \/ \E s2 \in DOMAIN subs : ProcessBillingCycle(s, s2)

TokenStep ==
    \E a \in Approvers, t \in Tokens :
        \/ \E amt \in ApproveAmounts : TokenApprove(a, t, amt)
        \/ \E to \in Address, amt \in MoveAmounts : TokenTransfer(a, to, t, amt)

Next ==
    \/ AdminStep
    \/ MerchantStep
    \/ CustomerStep
    \/ CancelStep
    \/ SchedulerStep
    \/ TokenStep
    \/ Tick

Spec == Init /\ [][Next]_vars

\* The scheduler keeps sweeping every subscription, someone keeps enforcing grace
\* (anyone may) and time passes.  No party is obliged to do anything else.
FairSpec ==
    /\ Spec
    /\ WF_vars(Tick)
    /\ \A s \in 1..MaxSubs :
        /\ WF_vars(s \in DOMAIN subs /\ ProcessCharge(s))
        /\ WF_vars(s \in DOMAIN subs /\ EnforceGrace(s))

-----------------------------------------------------------------------------
(* Properties that hold. *)

\* A subscription has a past-due mark while it is PastDue and not while it is
\* Active; the mark is at least one interval after the last charge, and no
\* downgrade is pending by then (it was applied by the charge that failed).
PastDueMarked ==
    \A s \in DOMAIN subs :
        /\ subs[s].status = "Active" => subs[s].past_due_since = 0
        /\ subs[s].status = "PastDue" =>
            /\ subs[s].past_due_since \in 1..now
            /\ subs[s].pending_downgrade_plan_id = 0
            /\ subs[s].last_charged > 0 =>
                    subs[s].past_due_since >= subs[s].last_charged + MinInterval

\* Whatever mix of strict charges, sweeps, repeated batch entries, recoveries,
\* upgrades and interval edits happens, a subscription is charged for at most one
\* cycle per (shortest configurable) interval of its life.
ChargeRateLimited ==
    \A s \in DOMAIN subs :
        history[s].charges > 0 =>
            (history[s].charges - 1) * MinInterval
                <= subs[s].last_charged - subs[s].created_at

\* If prices are only ever cut and all plans share one interval, what
\* cancel_with_prorated_refund would pay out for a live subscription, and what it
\* did pay out, never exceeds what the subscription paid in, through any sequence
\* of charges, upgrades, downgrades and recoveries.
PricesOnlyCut ==
    \A a \in NewAmounts : /\ \A o \in Offers : a <= o.amount
                          /\ \A b \in NewAmounts : a <= b

OneInterval ==
    /\ \A o \in Offers : o.interval \in {0, MinInterval}
    /\ NewIntervals \subseteq {0, MinInterval}

RefundCovered ==
    PricesOnlyCut /\ OneInterval =>
        \A s \in DOMAIN subs :
            /\ history[s].net >= 0
            /\ Live(subs[s]) => Quote(s) <= history[s].net

\* Cancelled and Terminated are final: no entry point revives, charges or refunds
\* such a subscription again.
EndedStaysEnded ==
    [][\A s \in DOMAIN subs :
            subs[s].status \in {"Cancelled", "Terminated"} =>
                /\ subs'[s] = subs[s]
                /\ history'[s] = history[s]]_vars

\* Non-payment ends a subscription only after the grace period of the plan it is
\* then on: at once from Active if that period is 0, otherwise only from PastDue
\* and strictly after the window, whichever entry point or batch does it.
GraceHonoured ==
    [][\A s \in DOMAIN subs :
            Live(subs[s]) /\ subs'[s].status = "Terminated" =>
                LET grace == plans[subs'[s].plan_id].grace_period
                IN  \/ subs[s].status = "Active" /\ grace = 0
                    \/ subs[s].status = "PastDue"
                       /\ now > subs[s].past_due_since + grace]_vars

\* Under FairSpec a subscription does not stay PastDue: it recovers, is cancelled
\* or is terminated.  (Only windows that close before the clock's bound count.)
GraceEnds(s) ==
    s \in DOMAIN subs => subs[s].status # "PastDue"

GraceResolves ==
    \A s \in 1..MaxSubs :
        (/\ s \in DOMAIN subs
         /\ subs[s].status = "PastDue"
         /\ \A g \in GracePeriods : subs[s].past_due_since + g < MaxTime)
            ~> GraceEnds(s)

-----------------------------------------------------------------------------
(* Statements of the documentation that the code does not keep. *)

\* lib.rs, cancel_with_prorated_refund: "If ... the cycle has fully elapsed, no
\* refund is issued".  A PastDue subscription's paid cycle has elapsed.
ElapsedCycleNotRefundable ==
    \A s \in DOMAIN subs : subs[s].status = "PastDue" => Quote(s) = 0
=============================================================================
