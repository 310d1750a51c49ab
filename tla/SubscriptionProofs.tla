------------------------- MODULE SubscriptionProofs -------------------------
(***************************************************************************)
(* Theorems about the recurring-billing contract, for every value of the   *)
(* constants: its type invariant, the billing-rate bound and the bound on  *)
(* refunds.  All three follow from one inductive invariant, IInv, stated   *)
(* per plan and per subscription so that a step has to be looked at only   *)
(* for the one subscription it changes.                                    *)
(***************************************************************************)
EXTENDS Subscription, SequenceTheorems, TLAPS

-----------------------------------------------------------------------------
(* The inductive invariant. *)

Ledger == [Address -> [Tokens -> Nat]]

\* A stored plan passed the guards of create_plan and of every edit since.
PlanInv(plan) ==
    /\ plan \in Plan
    /\ plan.amount > 0
    /\ plan.interval >= MinInterval
    /\ PricesOnlyCut => \A a \in NewAmounts : a <= plan.amount
    /\ OneInterval => plan.interval = MinInterval

\* The plans a subscription names exist.
SubType(sub, ps) ==
    /\ sub \in Sub
    /\ sub.plan_id \in 1..Len(ps)
    /\ sub.pending_downgrade_plan_id \in 0..Len(ps)

\* What keeps PastDueMarked and ChargeRateLimited true.
RateInv(sub, h, t) ==
    /\ sub.created_at \in 1..t
    /\ sub.last_charged \in 0..t
    /\ sub.last_charged > 0 => sub.created_at <= sub.last_charged
    /\ h.charges > 0 =>
        /\ sub.last_charged > 0
        /\ (h.charges - 1) * MinInterval <= sub.last_charged - sub.created_at
    /\ sub.status = "Active" => sub.past_due_since = 0
    /\ sub.status = "PastDue" =>
        /\ sub.past_due_since \in 1..t
        /\ sub.pending_downgrade_plan_id = 0
        /\ sub.last_charged > 0 => sub.past_due_since >= sub.last_charged + MinInterval

\* What keeps RefundCovered true: an Active, charged subscription has paid at
\* least the price of the plan it is on.
NetInv(sub, h, ps) ==
    PricesOnlyCut /\ OneInterval =>
        /\ h.net >= 0
        /\ sub.status = "Active" /\ sub.last_charged > 0 =>
                ps[sub.plan_id].amount <= h.net

SubInv(sub, h, ps, t) ==
    /\ SubType(sub, ps)
    /\ h \in History
    /\ RateInv(sub, h, t)
    /\ NetInv(sub, h, ps)

WorldType == [subs : Seq(Sub), balance : Ledger, allowance : Ledger,
              history : Seq(History)]

WorldInv(w, ps, t) ==
    /\ w \in WorldType
    /\ Len(w.history) = Len(w.subs)
    /\ \A s \in 1..Len(w.subs) : SubInv(w.subs[s], w.history[s], ps, t)

PlansInv(ps) == ps \in Seq(Plan) /\ \A p \in 1..Len(ps) : PlanInv(ps[p])

IInv ==
    /\ now \in Nat \ {0}
    /\ admin \in Address \cup {None}
    /\ acceptedTokens \subseteq Tokens
    /\ PlansInv(plans)
    /\ WorldInv(World, plans, now)

-----------------------------------------------------------------------------
(* Arithmetic. *)

\* A product grows with its second factor: prorated_refund multiplies the price by
\* the remaining seconds.
LEMMA TimesMonotone ==
    ASSUME NEW a \in Nat, NEW r \in Nat, NEW i \in Nat, r <= i
    PROVE  a * r <= a * i
<1>1. PICK k \in Nat : i = r + k
  <2>1. i - r \in Nat OBVIOUS
  <2> QED BY <2>1
<1>2. a * i = a * r + a * k
  BY <1>1
<1>3. a * k \in Nat /\ a * r \in Nat /\ a * i \in Nat
  OBVIOUS
<1> QED BY <1>2, <1>3

\* Integer division by the interval never exceeds the price it was multiplied by.
LEMMA QuotientBound ==
    ASSUME NEW x \in Nat, NEW a \in Nat, NEW i \in Nat \ {0}, x <= a * i
    PROVE  x \div i \in 0..a
<1> DEFINE q == x \div i
<1>1. q \in Nat /\ i * q <= x
  BY SMT
<1>2. SUFFICES ASSUME q > a PROVE FALSE
  BY <1>1
<1>3. PICK k \in Nat : q = a + 1 + k
  <2>1. q - a - 1 \in Nat BY <1>1, <1>2
  <2> QED BY <2>1
<1>4. i * q = a * i + i + i * k
  BY <1>3
<1>5. i * k \in Nat
  OBVIOUS
<1> QED BY <1>1, <1>4, <1>5

\* One more charge after one more interval keeps the rate bound.
LEMMA OneMoreCycle ==
    ASSUME NEW n \in Nat, NEW m \in Nat, NEW x \in Int, NEW y \in Int,
           (n - 1) * m <= x, y >= x + m
    PROVE  n * m <= y
<1>1. n * m = (n - 1) * m + m
  OBVIOUS
<1> QED BY <1>1

\* What prorated_refund returns: never negative, never more than the price, and
\* nothing for an uncharged subscription or an elapsed cycle.
LEMMA RefundBound ==
    ASSUME NEW sub \in Sub, NEW plan \in Plan, plan.amount > 0,
           NEW t \in Nat, sub.last_charged <= t
    PROVE  /\ ProratedRefund(sub, plan, t) \in 0..plan.amount
           /\ sub.last_charged = 0 => ProratedRefund(sub, plan, t) = 0
           /\ t >= CycleEnd(sub, plan) => ProratedRefund(sub, plan, t) = 0
<1> DEFINE rest == CycleEnd(sub, plan) - t
<1>1. CASE sub.last_charged = 0 \/ t >= CycleEnd(sub, plan) \/ plan.interval = 0
  BY <1>1 DEF ProratedRefund, Plan
<1>2. CASE ~(sub.last_charged = 0 \/ t >= CycleEnd(sub, plan) \/ plan.interval = 0)
  <2>1. plan.amount \in Nat /\ plan.interval \in Nat \ {0}
    BY <1>2 DEF Plan
  <2>2. rest \in Nat /\ rest <= plan.interval
    BY <1>2 DEF CycleEnd, Sub, Plan
  <2>3. plan.amount * rest \in Nat /\ plan.amount * rest <= plan.amount * plan.interval
    BY <2>1, <2>2, TimesMonotone
  <2>4. (plan.amount * rest) \div plan.interval \in 0..plan.amount
    BY <2>1, <2>3, QuotientBound
  <2> QED BY <1>2, <2>4 DEF ProratedRefund
<1> QED BY <1>1, <1>2

-----------------------------------------------------------------------------
(* External transfers. *)

\* A covered transfer leaves every balance a natural number.
LEMMA MovedType ==
    ASSUME NEW b \in Ledger, NEW from \in Address, NEW to \in Address,
           NEW t \in Tokens, NEW amt \in Nat, amt <= b[from][t]
    PROVE  Moved(b, from, to, t, amt) \in Ledger
<1> DEFINE debited == [b EXCEPT ![from][t] = @ - amt]
<1>1. b[from][t] - amt \in Nat
  BY DEF Ledger
<1>2. debited \in Ledger
  BY <1>1 DEF Ledger
<1>3. debited[to][t] + amt \in Nat
  BY <1>2 DEF Ledger
<1>4. [debited EXCEPT ![to][t] = @ + amt] \in Ledger
  <2> HIDE DEF debited
  <2> QED BY <1>2, <1>3 DEF Ledger
<1> QED BY <1>4 DEF Moved

\* A transfer_from that does not trap keeps the world typed and touches only the
\* token ledgers.
LEMMA TransferFromType ==
    ASSUME NEW w \in WorldType, NEW from \in Address, NEW to \in Address,
           NEW t \in Tokens, NEW amt \in Nat, CanTransferFrom(w, from, t, amt)
    PROVE  /\ TransferFrom(w, from, to, t, amt) \in WorldType
           /\ TransferFrom(w, from, to, t, amt).subs = w.subs
           /\ TransferFrom(w, from, to, t, amt).history = w.history
<1>1. Moved(w.balance, from, to, t, amt) \in Ledger
  BY MovedType DEF CanTransferFrom, WorldType
<1>2. [w.allowance EXCEPT ![from][t] = @ - amt] \in Ledger
  BY DEF CanTransferFrom, WorldType, Ledger
<1>3. TransferFrom(w, from, to, t, amt) =
        [w EXCEPT !.balance = Moved(w.balance, from, to, t, amt),
                  !.allowance = [w.allowance EXCEPT ![from][t] = @ - amt]]
  BY DEF TransferFrom, WorldType
<1> QED BY <1>1, <1>2, <1>3 DEF WorldType

\* Replacing one subscription and its history by good ones.
LEMMA Replace ==
    ASSUME NEW ps, NEW t, NEW w, WorldInv(w, ps, t), NEW v \in WorldType,
           v.subs = w.subs, v.history = w.history,
           NEW s \in 1..Len(w.subs), NEW sub, NEW h, SubInv(sub, h, ps, t)
    PROVE  /\ WorldInv(Put(v, s, sub, h), ps, t)
           /\ Len(Put(v, s, sub, h).subs) = Len(w.subs)
<1>1. /\ [v.subs EXCEPT ![s] = sub] \in Seq(Sub)
      /\ Len([v.subs EXCEPT ![s] = sub]) = Len(w.subs)
      /\ \A j \in 1..Len(w.subs) :
            [v.subs EXCEPT ![s] = sub][j] = IF j = s THEN sub ELSE w.subs[j]
  BY ExceptSeq DEF WorldInv, WorldType, SubInv, SubType
<1>2. /\ [v.history EXCEPT ![s] = h] \in Seq(History)
      /\ Len([v.history EXCEPT ![s] = h]) = Len(w.subs)
      /\ \A j \in 1..Len(w.subs) :
            [v.history EXCEPT ![s] = h][j] = IF j = s THEN h ELSE w.history[j]
  BY ExceptSeq DEF WorldInv, WorldType, SubInv
<1> DEFINE ss == [v.subs EXCEPT ![s] = sub]
           hs == [v.history EXCEPT ![s] = h]
           u  == [v EXCEPT !.subs = ss, !.history = hs]
<1>3. Put(v, s, sub, h) = u
  BY DEF WorldType, Put
<1>4. u \in WorldType /\ u.subs = ss /\ u.history = hs
  <2> HIDE DEF ss, hs
  <2> QED BY <1>1, <1>2 DEF WorldType, ss, hs
<1>5. ASSUME NEW j \in 1..Len(ss) PROVE SubInv(ss[j], hs[j], ps, t)
  BY <1>1, <1>2 DEF WorldInv
<1> QED
  <2> HIDE DEF ss, hs, u
  <2>1. Len(hs) = Len(ss) /\ Len(ss) = Len(w.subs)
    BY <1>1, <1>2 DEF ss, hs
  <2>2. WorldInv(u, ps, t)
    BY <1>4, <1>5, <2>1 DEF WorldInv
  <2> QED BY <1>3, <1>4, <2>1, <2>2 DEF u

\* Replacing one subscription and keeping its history.
LEMMA ReplaceSub ==
    ASSUME NEW ps, NEW t, NEW w, WorldInv(w, ps, t), NEW v \in WorldType,
           v.subs = w.subs, v.history = w.history,
           NEW s \in 1..Len(w.subs), NEW sub, SubInv(sub, w.history[s], ps, t)
    PROVE  /\ WorldInv(PutSub(v, s, sub), ps, t)
           /\ Len(PutSub(v, s, sub).subs) = Len(w.subs)
<1>1. [v.history EXCEPT ![s] = w.history[s]] = v.history
  BY LenProperties DEF WorldInv, WorldType
<1>2. PutSub(v, s, sub) = Put(v, s, sub, w.history[s])
  BY <1>1 DEF WorldType, Put, PutSub
<1> QED BY <1>2, Replace

-----------------------------------------------------------------------------
(* One billing step. *)

\* The token and the recipient a charge is made with always exist.
LEMMA BillingParties ==
    ASSUME NEW sub \in Sub, NEW plan \in Plan
    PROVE  BillingToken(sub, plan) \in Tokens /\ Payee(plan) \in Address
BY DEF BillingToken, Payee, Sub, Plan

\* Applying a pending downgrade leaves a good record that differs in the plan only.
LEMMA BilledInv ==
    ASSUME NEW ps, NEW sub, SubType(sub, ps)
    PROVE  LET b == ApplyDowngrade(sub)
           IN  /\ SubType(b, ps)
               /\ b.pending_downgrade_plan_id = 0
               /\ b.customer = sub.customer
               /\ b.status = sub.status
               /\ b.created_at = sub.created_at
               /\ b.last_charged = sub.last_charged
               /\ b.past_due_since = sub.past_due_since
               /\ sub.pending_downgrade_plan_id = 0 => b = sub
<1>1. CASE sub.pending_downgrade_plan_id = 0
  BY <1>1 DEF ApplyDowngrade
<1>2. CASE sub.pending_downgrade_plan_id # 0
  <2> DEFINE b == [sub EXCEPT !.plan_id = sub.pending_downgrade_plan_id,
                              !.pending_downgrade_plan_id = 0]
  <2>1. /\ b \in Sub
        /\ b.plan_id = sub.pending_downgrade_plan_id
        /\ b.pending_downgrade_plan_id = 0
        /\ b.customer = sub.customer
        /\ b.status = sub.status
        /\ b.created_at = sub.created_at
        /\ b.last_charged = sub.last_charged
        /\ b.past_due_since = sub.past_due_since
    BY DEF SubType, Sub
  <2>2. ApplyDowngrade(sub) = b
    BY <1>2 DEF ApplyDowngrade
  <2>3. Len(ps) \in Int /\ 0 \in 0..Len(ps) /\ b.plan_id \in 1..Len(ps)
    BY <1>2, <2>1 DEF SubType
  <2> HIDE DEF b
  <2> QED BY <1>2, <2>1, <2>2, <2>3 DEF SubType
<1> QED BY <1>1, <1>2

Context(w, s) ==
    /\ now \in Nat \ {0}
    /\ PlansInv(plans)
    /\ WorldInv(w, plans, now)
    /\ s \in 1..Len(w.subs)

\* What a good world says of one subscription and of the plan it is billed for.
LEMMA ContextFacts ==
    ASSUME NEW w, NEW s, Context(w, s)
    PROVE  LET sub == Billed(w, s)
           IN  /\ SubInv(w.subs[s], w.history[s], plans, now)
               /\ SubType(w.subs[s], plans)
               /\ SubType(sub, plans)
               /\ sub \in Sub
               /\ PlanInv(plans[sub.plan_id])
               /\ PlanInv(plans[w.subs[s].plan_id])
<1>1. SubInv(w.subs[s], w.history[s], plans, now)
  BY DEF Context, WorldInv
<1>2. SubType(w.subs[s], plans)
  BY <1>1 DEF SubInv
<1>3. SubType(Billed(w, s), plans)
  BY <1>2, BilledInv DEF Billed
<1> QED BY <1>1, <1>2, <1>3 DEF Context, PlansInv, SubType

\* An overdue subscription was last charged at least MinInterval ago.
LEMMA DueSince ==
    ASSUME NEW w, NEW s, Context(w, s),
           CycleDue(w.subs[s], plans[w.subs[s].plan_id])
    PROVE  w.subs[s].last_charged > 0 => now >= w.subs[s].last_charged + MinInterval
<1> DEFINE sub == w.subs[s]
<1>1. SubInv(sub, w.history[s], plans, now) /\ PlanInv(plans[sub.plan_id])
  BY ContextFacts
<1>2. now \in Nat /\ sub.last_charged \in Nat /\ MinInterval \in Nat
  BY <1>1, MinIntervalAssumption DEF Context, SubInv, SubType, Sub
<1>3. CASE sub.status = "Active"
  <2>1. now >= DueAt(sub, plans[sub.plan_id])
    BY <1>3 DEF CycleDue
  <2>2. plans[sub.plan_id].interval \in Nat /\ plans[sub.plan_id].interval >= MinInterval
    BY <1>1 DEF PlanInv, Plan
  <2> QED BY <1>2, <2>1, <2>2 DEF DueAt
<1>4. CASE sub.status = "PastDue"
  <2>1. sub.last_charged > 0 => /\ sub.past_due_since \in 1..now
                                /\ sub.past_due_since >= sub.last_charged + MinInterval
    BY <1>1, <1>4 DEF SubInv, RateInv
  <2> QED BY <1>2, <2>1
<1> QED BY <1>3, <1>4 DEF CycleDue

\* The record a successful charge writes is good.
LEMMA CollectedSub ==
    ASSUME NEW w, NEW s, Context(w, s),
           CycleDue(w.subs[s], plans[w.subs[s].plan_id])
    PROVE  LET sub == Billed(w, s)
           IN  SubInv([sub EXCEPT !.status = "Active", !.last_charged = now,
                                  !.past_due_since = 0],
                      [w.history[s] EXCEPT !.charges = @ + 1,
                                           !.net = @ + plans[sub.plan_id].amount],
                      plans, now)
<1> DEFINE old == w.subs[s]
           sub == Billed(w, s)
           plan == plans[sub.plan_id]
           h   == w.history[s]
           new == [sub EXCEPT !.status = "Active", !.last_charged = now, !.past_due_since = 0]
           hh  == [h EXCEPT !.charges = @ + 1, !.net = @ + plan.amount]
<1>1. SubInv(old, h, plans, now) /\ SubType(sub, plans) /\ PlanInv(plan)
  BY ContextFacts
<1>a. sub \in Sub /\ sub.created_at = old.created_at /\ now \in Nat /\ old \in Sub
  <2>1. SubType(old, plans)
    BY <1>1 DEF SubInv
  <2> QED BY <1>1, <2>1, BilledInv DEF Billed, Context, SubType
<1>b. h \in History /\ plan.amount \in Int
  BY <1>1 DEF SubInv, PlanInv, Plan
<1>2. /\ new \in Sub
      /\ new.status = "Active"
      /\ new.last_charged = now
      /\ new.past_due_since = 0
      /\ new.created_at = old.created_at
      /\ new.plan_id = sub.plan_id
      /\ new.pending_downgrade_plan_id = sub.pending_downgrade_plan_id
  <2> HIDE DEF sub, old
  <2> QED BY <1>a DEF Sub, Status
<1>3. /\ hh \in History
      /\ hh.charges = h.charges + 1
      /\ hh.net = h.net + plan.amount
  <2>1. h.charges + 1 \in Nat /\ h.net + plan.amount \in Int
    BY <1>b DEF History
  <2> HIDE DEF h, plan
  <2> QED BY <1>b, <2>1 DEF History
<1>4. SubType(new, plans)
  BY <1>1, <1>2 DEF SubType
<1>5. RateInv(new, hh, now)
  <2>1. CASE h.charges = 0
    BY <1>1, <1>2, <1>3, <2>1, MinIntervalAssumption
       DEF SubInv, RateInv, Context
  <2>2. CASE h.charges > 0
    <3>1. old.last_charged > 0 /\ old.last_charged \in Nat /\ old.created_at \in Nat
      BY <1>1, <2>2 DEF SubInv, RateInv, SubType, Sub
    <3>2. now - old.created_at >= (old.last_charged - old.created_at) + MinInterval
      BY <3>1, DueSince, MinIntervalAssumption DEF Context
    <3>3. (h.charges - 1) * MinInterval <= old.last_charged - old.created_at
      BY <1>1, <2>2 DEF SubInv, RateInv
    <3>4. h.charges * MinInterval <= now - old.created_at
      <4> DEFINE n == h.charges
                 x == old.last_charged - old.created_at
                 y == now - old.created_at
      <4>1. n \in Nat /\ x \in Int /\ y \in Int /\ MinInterval \in Nat
        BY <1>1, <3>1, MinIntervalAssumption DEF SubInv, History, Context
      <4>2. (n - 1) * MinInterval <= x /\ y >= x + MinInterval
        BY <3>2, <3>3
      <4> HIDE DEF n, x, y
      <4>3. n * MinInterval <= y
        BY <4>1, <4>2, OneMoreCycle
      <4> QED BY <4>3 DEF n, y
    <3>5. (hh.charges - 1) * MinInterval <= new.last_charged - new.created_at
      BY <1>1, <1>2, <1>3, <3>4 DEF SubInv, History
    <3> QED BY <1>1, <1>2, <3>5 DEF SubInv, RateInv, Context
  <2> QED BY <1>1, <2>1, <2>2 DEF SubInv, History
<1>6. NetInv(new, hh, plans)
  BY <1>1, <1>2, <1>3 DEF NetInv, SubInv, PlanInv, Plan, History
<1> QED BY <1>3, <1>4, <1>5, <1>6 DEF SubInv

\* A successful charge of a due subscription leaves a good world.
LEMMA CollectedInv ==
    ASSUME NEW w, NEW s, Context(w, s),
           CycleDue(w.subs[s], plans[w.subs[s].plan_id]),
           LET sub  == Billed(w, s)
               plan == plans[sub.plan_id]
           IN  CanTransferFrom(w, sub.customer, BillingToken(sub, plan), plan.amount)
    PROVE  LET sub == Billed(w, s)
           IN  /\ WorldInv(Collected(w, s, sub, plans[sub.plan_id]), plans, now)
               /\ Len(Collected(w, s, sub, plans[sub.plan_id]).subs) = Len(w.subs)
<1> DEFINE sub == Billed(w, s)
           plan == plans[sub.plan_id]
           v   == TransferFrom(w, sub.customer, Payee(plan), BillingToken(sub, plan), plan.amount)
           new == [sub EXCEPT !.status = "Active", !.last_charged = now, !.past_due_since = 0]
           hh  == [w.history[s] EXCEPT !.charges = @ + 1, !.net = @ + plan.amount]
<1>1. sub \in Sub /\ plan \in Plan /\ plan.amount \in Nat /\ w \in WorldType
  BY ContextFacts DEF PlanInv, Plan, Context, WorldInv
<1>2. v \in WorldType /\ v.subs = w.subs /\ v.history = w.history
  <2>1. sub.customer \in Address
    BY <1>1 DEF Sub
  <2> QED BY <1>1, <2>1, BillingParties, TransferFromType
<1>3. SubInv(new, hh, plans, now)
  BY CollectedSub
<1>4. Collected(w, s, sub, plan) = Put(v, s, new, hh)
  BY DEF Collected
<1>5. WorldInv(w, plans, now) /\ s \in 1..Len(w.subs)
  BY DEF Context
<1>6. WorldInv(Put(v, s, new, hh), plans, now) /\ Len(Put(v, s, new, hh).subs) = Len(w.subs)
  <2> HIDE DEF v, new, hh
  <2> QED BY <1>2, <1>3, <1>5, Replace
<1> QED BY <1>4, <1>6

\* The records a failed charge writes are good.
LEMMA MissedSub ==
    ASSUME NEW w, NEW s, Context(w, s),
           CycleDue(w.subs[s], plans[w.subs[s].plan_id])
    PROVE  LET sub == Billed(w, s)
           IN  /\ SubInv(InGrace(sub), w.history[s], plans, now)
               /\ SubInv(Ended(sub), w.history[s], plans, now)
<1> DEFINE old == w.subs[s]
           sub == Billed(w, s)
           h   == w.history[s]
<1>1. SubInv(old, h, plans, now) /\ SubType(sub, plans) /\ sub \in Sub
  BY ContextFacts
<1>2. /\ sub.pending_downgrade_plan_id = 0
      /\ sub.created_at = old.created_at
      /\ sub.last_charged = old.last_charged
  <2>1. SubType(old, plans)
    BY <1>1 DEF SubInv
  <2> QED BY <2>1, BilledInv DEF Billed
<1>3. now \in Nat \ {0} /\ (old.last_charged > 0 => now >= old.last_charged + MinInterval)
  BY DueSince DEF Context
<1>4. RateInv(old, h, now) /\ NetInv(old, h, plans) /\ h \in History
  BY <1>1 DEF SubInv
<1> HIDE DEF sub, old, h
<1>5. SubInv(InGrace(sub), h, plans, now)
  <2>1. /\ InGrace(sub) \in Sub
        /\ InGrace(sub).status = "PastDue"
        /\ InGrace(sub).past_due_since = now
        /\ InGrace(sub).pending_downgrade_plan_id = 0
        /\ InGrace(sub).created_at = old.created_at
        /\ InGrace(sub).last_charged = old.last_charged
        /\ InGrace(sub).plan_id = sub.plan_id
    BY <1>1, <1>2, <1>3 DEF InGrace, Sub, Status
  <2>2. SubType(InGrace(sub), plans)
    BY <1>1, <1>2, <2>1 DEF SubType
  <2>3. RateInv(InGrace(sub), h, now)
    BY <1>3, <1>4, <2>1 DEF RateInv
  <2>4. NetInv(InGrace(sub), h, plans)
    BY <1>4, <2>1 DEF NetInv
  <2> QED BY <1>4, <2>2, <2>3, <2>4 DEF SubInv
<1>6. SubInv(Ended(sub), h, plans, now)
  <2>1. /\ Ended(sub) \in Sub
        /\ Ended(sub).status = "Terminated"
        /\ Ended(sub).pending_downgrade_plan_id = 0
        /\ Ended(sub).created_at = old.created_at
        /\ Ended(sub).last_charged = old.last_charged
        /\ Ended(sub).plan_id = sub.plan_id
    BY <1>1, <1>2 DEF Ended, Sub, Status
  <2>2. SubType(Ended(sub), plans)
    BY <1>1, <1>2, <2>1 DEF SubType
  <2>3. RateInv(Ended(sub), h, now)
    BY <1>3, <1>4, <2>1 DEF RateInv
  <2>4. NetInv(Ended(sub), h, plans)
    BY <1>4, <2>1 DEF NetInv
  <2> QED BY <1>4, <2>2, <2>3, <2>4 DEF SubInv
<1> QED BY <1>5, <1>6 DEF sub, h

\* A failed charge of a due subscription leaves a good world.
LEMMA MissedInv ==
    ASSUME NEW w, NEW s, Context(w, s),
           CycleDue(w.subs[s], plans[w.subs[s].plan_id])
    PROVE  LET sub == Billed(w, s)
           IN  /\ WorldInv(Missed(w, s, sub, plans[sub.plan_id]), plans, now)
               /\ Len(Missed(w, s, sub, plans[sub.plan_id]).subs) = Len(w.subs)
<1> DEFINE sub == Billed(w, s)
           plan == plans[sub.plan_id]
<1>1. w \in WorldType /\ WorldInv(w, plans, now) /\ s \in 1..Len(w.subs)
  BY DEF Context, WorldInv
<1>2. /\ WorldInv(PutSub(w, s, InGrace(sub)), plans, now)
      /\ Len(PutSub(w, s, InGrace(sub)).subs) = Len(w.subs)
      /\ WorldInv(PutSub(w, s, Ended(sub)), plans, now)
      /\ Len(PutSub(w, s, Ended(sub)).subs) = Len(w.subs)
  BY <1>1, MissedSub, ReplaceSub
<1>3. Missed(w, s, sub, plan) \in {w, PutSub(w, s, InGrace(sub)), PutSub(w, s, Ended(sub))}
  BY DEF Missed
<1> HIDE DEF sub, plan
<1>4. /\ WorldInv(Missed(w, s, sub, plan), plans, now)
      /\ Len(Missed(w, s, sub, plan).subs) = Len(w.subs)
  BY <1>1, <1>2, <1>3
<1> QED BY <1>4 DEF sub, plan

\* One step_billing_cycle that does not trap leaves a good world.
LEMMA StepInv ==
    ASSUME NEW w, NEW s, Context(w, s), ~StepTraps(w, s)
    PROVE  /\ WorldInv(StepBillingCycle(w, s), plans, now)
           /\ Len(StepBillingCycle(w, s).subs) = Len(w.subs)
<1> DEFINE sub == Billed(w, s)
           plan == plans[sub.plan_id]
           due == CycleDue(w.subs[s], plans[w.subs[s].plan_id])
<1>1. CASE ~due
  BY <1>1 DEF StepBillingCycle, Context
<1>2. CASE due /\ AllowanceCovers(w, sub, plan)
  <2>1. sub \in Sub /\ plan \in Plan /\ plan.amount \in Int
    BY ContextFacts DEF PlanInv, Plan
  <2>2. /\ w.allowance[sub.customer][BillingToken(sub, plan)] \in Nat
        /\ w.balance[sub.customer][BillingToken(sub, plan)] \in Nat
    <3>1. sub.customer \in Address /\ BillingToken(sub, plan) \in Tokens
      BY <2>1, BillingParties DEF Sub
    <3> QED BY <3>1 DEF Context, WorldInv, WorldType, Ledger
  <2>3. CanTransferFrom(w, sub.customer, BillingToken(sub, plan), plan.amount)
    BY <1>2, <2>1, <2>2 DEF StepTraps, AllowanceCovers, CanTransferFrom
  <2>4. /\ WorldInv(Collected(w, s, sub, plan), plans, now)
        /\ Len(Collected(w, s, sub, plan).subs) = Len(w.subs)
    BY <1>2, <2>3, CollectedInv
  <2> QED BY <1>2, <2>4 DEF StepBillingCycle
<1>3. CASE due /\ ~AllowanceCovers(w, sub, plan)
  <2>1. /\ WorldInv(Missed(w, s, sub, plan), plans, now)
        /\ Len(Missed(w, s, sub, plan).subs) = Len(w.subs)
    BY <1>3, MissedInv
  <2> QED BY <1>3, <2>1 DEF StepBillingCycle
<1> QED BY <1>1, <1>2, <1>3

-----------------------------------------------------------------------------
(* What the actions have in common. *)

\* A transaction that installs a good world keeps the invariant.
LEMMA InstallInv ==
    ASSUME IInv, NEW w, WorldInv(w, plans, now), Install(w),
           UNCHANGED <<now, admin, acceptedTokens, plans>>
    PROVE  IInv'
<1>1. World' = w
  BY DEF Install, World, WorldInv, WorldType
<1>2. WorldInv(World', plans', now')
  BY <1>1
<1> QED BY <1>2 DEF IInv

\* A transaction that writes one good subscription record keeps the invariant.
LEMMA SubStep ==
    ASSUME IInv, NEW s \in DOMAIN subs, NEW sub, SubInv(sub, history[s], plans, now),
           subs' = [subs EXCEPT ![s] = sub],
           balance' \in Ledger, allowance' \in Ledger,
           UNCHANGED <<now, admin, acceptedTokens, plans, history>>
    PROVE  IInv'
<1> DEFINE v == [subs |-> subs, balance |-> balance',
                 allowance |-> allowance', history |-> history]
<1>1. WorldInv(World, plans, now) /\ World \in WorldType /\ World.subs = subs
      /\ World.history = history
  BY DEF IInv, WorldInv, World
<1>2. v \in WorldType /\ v.subs = subs /\ v.history = history
  BY <1>1 DEF WorldType
<1>3. s \in 1..Len(World.subs)
  BY <1>1, LenProperties DEF WorldType
<1>4. World' = PutSub(v, s, sub)
  BY DEF World, PutSub
<1>5. WorldInv(PutSub(v, s, sub), plans, now)
  <2> HIDE DEF v
  <2> QED BY <1>1, <1>2, <1>3, ReplaceSub
<1>6. WorldInv(World', plans', now')
  BY <1>4, <1>5
<1> QED BY <1>6 DEF IInv

\* A transaction that touches only the token ledgers keeps the invariant.
LEMMA TokenStepInv ==
    ASSUME IInv, balance' \in Ledger, allowance' \in Ledger,
           UNCHANGED <<now, admin, acceptedTokens, plans, subs, history>>
    PROVE  IInv'
<1>1. WorldInv(World', plans', now')
  BY DEF IInv, WorldInv, World, WorldType
<1> QED BY <1>1 DEF IInv

\* A plan edit keeps the invariant if the edited plan is good and no dearer than
\* before whenever prices are only cut.
LEMMA EditPlanInv ==
    ASSUME IInv, NEW m, NEW p \in DOMAIN plans, NEW edited, EditPlan(m, p, edited),
           PlanInv(edited),
           PricesOnlyCut => edited.amount <= plans[p].amount
    PROVE  IInv'
<1>1. /\ plans' \in Seq(Plan)
      /\ Len(plans') = Len(plans)
      /\ \A j \in 1..Len(plans) : plans'[j] = IF j = p THEN edited ELSE plans[j]
  <2>1. edited \in Plan
    BY DEF PlanInv
  <2> QED BY <2>1, ExceptSeq, LenProperties DEF IInv, PlansInv, EditPlan
<1>2. PlansInv(plans')
  BY <1>1 DEF IInv, PlansInv
<1>3. ASSUME NEW sub, NEW h, SubInv(sub, h, plans, now)
      PROVE  SubInv(sub, h, plans', now)
  <2>1. SubType(sub, plans')
    BY <1>1, <1>3 DEF SubInv, SubType
  <2>2. NetInv(sub, h, plans')
    <3>1. sub.plan_id \in 1..Len(plans)
      BY <1>3 DEF SubInv, SubType
    <3>2. plans'[sub.plan_id] \in Plan /\ plans[sub.plan_id] \in Plan
      BY <1>1, <3>1, ElementOfSeq DEF IInv, PlansInv
    <3>3. plans'[sub.plan_id].amount \in Int /\ plans[sub.plan_id].amount \in Int
      BY <3>2 DEF Plan
    <3>4. PricesOnlyCut => plans'[sub.plan_id].amount <= plans[sub.plan_id].amount
      BY <1>1, <3>1, <3>3
    <3> QED BY <1>3, <3>3, <3>4 DEF SubInv, NetInv, History
  <2> QED BY <1>3, <2>1, <2>2 DEF SubInv
<1>4. WorldInv(World', plans', now')
  BY <1>3 DEF IInv, WorldInv, World, EditPlan
<1> QED BY <1>2, <1>4 DEF IInv, EditPlan

-----------------------------------------------------------------------------
(* The actions, grouped as Next groups them. *)

\* The invariant holds when the contract is deployed.
LEMMA InitInv == Init => IInv
<1> SUFFICES ASSUME Init PROVE IInv
  OBVIOUS
<1>1. PlansInv(plans)
  BY EmptySeq DEF Init, PlansInv
<1>2. World \in WorldType
  BY EmptySeq, TokensAssumption DEF Init, World, WorldType, Ledger
<1>3. WorldInv(World, plans, now)
  BY <1>2, EmptySeq DEF Init, WorldInv, World
<1> QED BY <1>1, <1>3 DEF Init, IInv

\* Every stored plan is good.
LEMMA PlanFacts ==
    ASSUME IInv, NEW p \in DOMAIN plans
    PROVE  p \in 1..Len(plans) /\ PlanInv(plans[p]) /\ plans[p] \in Plan
BY LenProperties DEF IInv, PlansInv, PlanInv

\* Every stored subscription and its history are good.
LEMMA SubFacts ==
    ASSUME IInv, NEW s \in DOMAIN subs
    PROVE  /\ s \in 1..Len(subs)
           /\ Context(World, s)
           /\ SubInv(subs[s], history[s], plans, now)
           /\ subs[s] \in Sub
           /\ history[s] \in History
           /\ subs[s].plan_id \in DOMAIN plans
<1>1. /\ World.subs = subs /\ World.history = history /\ World \in WorldType
      /\ WorldInv(World, plans, now)
  BY DEF IInv, WorldInv, World
<1>2. subs \in Seq(Sub) /\ s \in 1..Len(subs)
  BY <1>1, LenProperties DEF WorldType
<1>3. SubInv(subs[s], history[s], plans, now)
  BY <1>1, <1>2 DEF WorldInv
<1>4. subs[s].plan_id \in 1..Len(plans) /\ plans \in Seq(Plan)
  BY <1>3 DEF SubInv, SubType, IInv, PlansInv
<1>5. DOMAIN plans = 1..Len(plans)
  BY <1>4, LenProperties
<1> QED BY <1>1, <1>2, <1>3, <1>4, <1>5 DEF IInv, Context, SubInv, SubType

\* The token ledgers are typed.
LEMMA LedgerFacts ==
    ASSUME IInv
    PROVE  balance \in Ledger /\ allowance \in Ledger /\ World \in WorldType
BY DEF IInv, WorldInv, World, WorldType

\* initialize and add_accepted_token keep the invariant.
LEMMA AdminStepInv == IInv /\ AdminStep => IInv'
<1>1. ASSUME IInv, AdminStep
      PROVE  /\ UNCHANGED <<now, plans, subs, balance, allowance, history>>
             /\ admin' \in Address \cup {None}
             /\ acceptedTokens' \subseteq Tokens
  BY <1>1, PartiesAssumption DEF IInv, AdminStep, Initialize, AddAcceptedToken
<1>2. ASSUME IInv, AdminStep PROVE World' = World
  BY <1>1, <1>2 DEF World
<1> QED BY <1>1, <1>2 DEF IInv

\* A plan that passes the guards of create_plan is good.
LEMMA CreatePlanInv ==
    ASSUME IInv, NEW m \in Merchants, NEW o \in Offers, CreatePlan(m, o)
    PROVE  IInv'
<1> DEFINE plan == [merchant |-> m, token |-> o.token, amount |-> o.amount,
                    interval |-> o.interval, active |-> TRUE,
                    grace_period |-> 0, creator |-> o.creator,
                    trial_period |-> o.trial_period]
<1>1. PlanInv(plan)
  <2>1. o \in Terms /\ m \in Address
    BY TermsAssumption, PartiesAssumption
  <2>2. plan \in Plan
    BY <2>1 DEF Plan, Terms
  <2>3. plan.interval >= MinInterval /\ plan.amount > 0
    BY MinIntervalAssumption DEF CreatePlan
  <2>4. PricesOnlyCut => \A a \in NewAmounts : a <= plan.amount
    BY DEF PricesOnlyCut
  <2>5. OneInterval => plan.interval = MinInterval
    BY DEF OneInterval, CreatePlan
  <2> QED BY <2>2, <2>3, <2>4, <2>5 DEF PlanInv
<1>2. /\ plans' \in Seq(Plan)
      /\ Len(plans') = Len(plans) + 1
      /\ \A j \in 1..Len(plans) : plans'[j] = plans[j]
      /\ plans'[Len(plans) + 1] = plan
      /\ Len(plans) \in Nat
  <2>1. plans' = Append(plans, plan)
    BY DEF CreatePlan
  <2>2. plan \in Plan /\ plans \in Seq(Plan)
    BY <1>1 DEF PlanInv, IInv, PlansInv
  <2> HIDE DEF plan
  <2> QED BY <2>1, <2>2, AppendProperties, LenProperties
<1>3. PlansInv(plans')
  <2> HIDE DEF plan
  <2> QED BY <1>1, <1>2 DEF IInv, PlansInv
<1>4. ASSUME NEW sub, NEW h, SubInv(sub, h, plans, now)
      PROVE  SubInv(sub, h, plans', now)
  BY <1>2, <1>4 DEF SubInv, SubType, NetInv
<1>5. WorldInv(World', plans', now')
  BY <1>4 DEF IInv, WorldInv, World, CreatePlan
<1> QED BY <1>3, <1>5 DEF IInv, CreatePlan

\* Every entry point of the merchant keeps the invariant.
LEMMA MerchantStepInv == IInv /\ MerchantStep => IInv'
<1> SUFFICES ASSUME IInv, MerchantStep PROVE IInv'
  OBVIOUS
<1>1. PICK m \in Merchants :
        \/ \E o \in Offers : CreatePlan(m, o)
        \/ \E p \in DOMAIN plans :
            \/ \E g \in GracePeriods : SetPlanGracePeriod(m, p, g)
            \/ \E amt \in NewAmounts : UpdatePlanAmount(m, p, amt)
            \/ \E i \in NewIntervals : UpdatePlanInterval(m, p, i)
            \/ DeactivatePlan(m, p)
  BY DEF MerchantStep
<1>2. ASSUME NEW o \in Offers, CreatePlan(m, o) PROVE IInv'
  BY <1>2, CreatePlanInv
<1>3. ASSUME NEW p \in DOMAIN plans, NEW g \in GracePeriods, SetPlanGracePeriod(m, p, g)
      PROVE  IInv'
  <2> DEFINE edited == [plans[p] EXCEPT !.grace_period = g]
  <2>1. PlanInv(edited) /\ edited.amount = plans[p].amount
    BY PlanFacts, TermsAssumption DEF PlanInv, Plan
  <2>2. edited.amount \in Int
    BY <2>1 DEF PlanInv, Plan
  <2>3. EditPlan(m, p, edited)
    BY <1>3 DEF SetPlanGracePeriod
  <2> HIDE DEF edited
  <2> QED BY <2>1, <2>2, <2>3, EditPlanInv
<1>4. ASSUME NEW p \in DOMAIN plans, NEW amt \in NewAmounts, UpdatePlanAmount(m, p, amt)
      PROVE  IInv'
  <2> DEFINE edited == [plans[p] EXCEPT !.amount = amt]
  <2>1. plans[p] \in Plan /\ PlanInv(plans[p]) /\ amt \in Int /\ amt > 0
    BY <1>4, PlanFacts, TermsAssumption DEF UpdatePlanAmount
  <2>2. /\ edited \in Plan
        /\ edited.amount = amt
        /\ edited.interval = plans[p].interval
    BY <2>1 DEF Plan
  <2>3. PlanInv(edited)
    BY <2>1, <2>2 DEF PlanInv, PricesOnlyCut
  <2>4. PricesOnlyCut => edited.amount <= plans[p].amount
    BY <2>1, <2>2 DEF PlanInv
  <2>5. EditPlan(m, p, edited)
    BY <1>4 DEF UpdatePlanAmount
  <2> HIDE DEF edited
  <2> QED BY <2>3, <2>4, <2>5, EditPlanInv
<1>5. ASSUME NEW p \in DOMAIN plans, NEW i \in NewIntervals, UpdatePlanInterval(m, p, i)
      PROVE  IInv'
  <2> DEFINE edited == [plans[p] EXCEPT !.interval = i]
  <2>1. plans[p] \in Plan /\ PlanInv(plans[p]) /\ i \in Nat /\ i > 0
    BY <1>5, PlanFacts, TermsAssumption DEF UpdatePlanInterval
  <2>2. /\ edited \in Plan
        /\ edited.amount = plans[p].amount
        /\ edited.interval = i
    BY <2>1 DEF Plan
  <2>3. i >= MinInterval /\ (OneInterval => i = MinInterval)
    BY <2>1, MinIntervalAssumption DEF OneInterval
  <2>4. PlanInv(edited)
    BY <2>1, <2>2, <2>3 DEF PlanInv
  <2>5. edited.amount <= plans[p].amount
    BY <2>1, <2>2 DEF Plan
  <2>6. EditPlan(m, p, edited)
    BY <1>5 DEF UpdatePlanInterval
  <2> HIDE DEF edited
  <2> QED BY <2>4, <2>5, <2>6, EditPlanInv
<1>6. ASSUME NEW p \in DOMAIN plans, DeactivatePlan(m, p)
      PROVE  IInv'
  <2> DEFINE edited == [plans[p] EXCEPT !.active = FALSE]
  <2>1. PlanInv(edited) /\ edited.amount = plans[p].amount
    BY PlanFacts DEF PlanInv, Plan
  <2>2. edited.amount \in Int
    BY <2>1 DEF PlanInv, Plan
  <2>3. EditPlan(m, p, edited)
    BY <1>6 DEF DeactivatePlan
  <2> HIDE DEF edited
  <2> QED BY <2>1, <2>2, <2>3, EditPlanInv
<1> QED BY <1>1, <1>2, <1>3, <1>4, <1>5, <1>6

\* A new subscription is good: it has paid nothing and is due nothing back.
LEMMA EnrollInv ==
    ASSUME IInv, NEW c \in Customers, NEW p \in DOMAIN plans,
           NEW t \in Tokens \cup {None}, Enroll(c, p, t)
    PROVE  IInv'
<1> DEFINE sub == NewSub(c, p, t)
           h == [charges |-> 0, net |-> 0]
<1>1. /\ subs \in Seq(Sub) /\ history \in Seq(History) /\ Len(history) = Len(subs)
      /\ now \in Nat \ {0} /\ c \in Address /\ p \in 1..Len(plans)
      /\ 0 \in 0..Len(plans) /\ Len(plans) \in Nat
  BY PlanFacts, LedgerFacts, PartiesAssumption, LenProperties
     DEF IInv, WorldInv, World, WorldType
<1>2. SubInv(sub, h, plans, now)
  <2>1. sub \in Sub /\ h \in History
    BY <1>1 DEF NewSub, Sub, Status, History
  <2>2. SubType(sub, plans)
    BY <1>1, <2>1 DEF SubType, NewSub
  <2>3. RateInv(sub, h, now) /\ NetInv(sub, h, plans)
    BY <1>1 DEF RateInv, NetInv, NewSub
  <2> QED BY <2>1, <2>2, <2>3 DEF SubInv
<1>3. sub \in Sub /\ h \in History
  BY <1>2 DEF SubInv, SubType
<1>4. subs' = Append(subs, sub) /\ history' = Append(history, h)
  BY DEF Enroll
<1> HIDE DEF sub, h
<1>5. /\ subs' \in Seq(Sub) /\ Len(subs') = Len(subs) + 1
      /\ \A j \in 1..Len(subs) : subs'[j] = subs[j]
      /\ subs'[Len(subs) + 1] = sub
  BY <1>1, <1>3, <1>4, AppendProperties
<1>6. /\ history' \in Seq(History) /\ Len(history') = Len(subs) + 1
      /\ \A j \in 1..Len(subs) : history'[j] = history[j]
      /\ history'[Len(subs) + 1] = h
  BY <1>1, <1>3, <1>4, AppendProperties
<1>7. ASSUME NEW j \in 1..Len(subs') PROVE SubInv(subs'[j], history'[j], plans, now)
  <2>1. CASE j \in 1..Len(subs)
    BY <1>5, <1>6, <2>1 DEF IInv, WorldInv, World
  <2>2. CASE j = Len(subs) + 1
    BY <1>2, <1>5, <1>6, <2>2
  <2> QED BY <1>1, <1>5, <2>1, <2>2, LenProperties
<1>8. World' \in WorldType /\ World'.subs = subs' /\ World'.history = history'
  BY <1>5, <1>6, LedgerFacts DEF World, WorldType, Enroll
<1>9. WorldInv(World', plans, now)
  BY <1>5, <1>6, <1>7, <1>8 DEF WorldInv
<1> QED BY <1>9 DEF IInv, Enroll

\* Zeroing or overwriting one allowance keeps the ledger typed.
LEMMA ApproveType ==
    ASSUME IInv, NEW a \in Address, NEW t \in Tokens, NEW n \in Nat
    PROVE  [allowance EXCEPT ![a][t] = n] \in Ledger
BY LedgerFacts DEF Ledger

\* Every entry point of the customer keeps the invariant; upgrade_subscription pays
\* at least the difference between the new price and the refund it is credited.
LEMMA CustomerStepInv == IInv /\ CustomerStep => IInv'
<1> SUFFICES ASSUME IInv, NEW c \in Customers,
        \/ \E p \in DOMAIN plans :
            \/ Subscribe(c, p)
            \/ \E t \in Preferences \ {None} : SubscribeWithToken(c, p, t)
        \/ \E s \in DOMAIN subs :
            \/ \E t \in Preferences : SetPreferredToken(c, s, t)
            \/ \E n \in Cycles : AuthorizeBilling(c, s, n)
            \/ RevokeBillingAuthorization(c, s)
            \/ \E p \in DOMAIN plans :
                \/ UpgradeSubscription(c, s, p)
                \/ DowngradeSubscription(c, s, p)
             PROVE  IInv'
  BY DEF CustomerStep
<1>1. ASSUME NEW p \in DOMAIN plans, Subscribe(c, p) PROVE IInv'
  BY <1>1, EnrollInv DEF Subscribe
<1>2. ASSUME NEW p \in DOMAIN plans, NEW t \in Preferences \ {None},
             SubscribeWithToken(c, p, t)
      PROVE  IInv'
  BY <1>2, EnrollInv, PartiesAssumption DEF SubscribeWithToken
<1>3. ASSUME NEW s \in DOMAIN subs, NEW t \in Preferences, SetPreferredToken(c, s, t)
      PROVE  IInv'
  <2> DEFINE sub == [subs[s] EXCEPT !.preferred_token = t]
  <2>1. subs[s] \in Sub /\ SubInv(subs[s], history[s], plans, now)
    BY SubFacts
  <2>2. SubInv(sub, history[s], plans, now)
    BY <2>1, PartiesAssumption DEF SubInv, SubType, RateInv, NetInv, Sub
  <2>3. subs' = [subs EXCEPT ![s] = sub]
    BY <1>3 DEF SetPreferredToken
  <2>4. /\ UNCHANGED <<now, admin, acceptedTokens, plans, history>>
        /\ balance' \in Ledger /\ allowance' \in Ledger
    BY <1>3, LedgerFacts DEF SetPreferredToken
  <2> HIDE DEF sub
  <2> QED BY <2>2, <2>3, <2>4, SubStep
<1>4. ASSUME NEW s \in DOMAIN subs, NEW n \in Cycles, AuthorizeBilling(c, s, n)
      PROVE  IInv'
  <2> DEFINE plan == plans[subs[s].plan_id]
             token == BillingToken(subs[s], plan)
  <2>1. plan \in Plan /\ plan.amount > 0 /\ subs[s] \in Sub
    BY SubFacts, PlanFacts DEF PlanInv
  <2>2. plan.amount * n \in Nat
    BY <2>1, TermsAssumption DEF Plan
  <2>3. token \in Tokens /\ c \in Address
    BY <2>1, BillingParties, PartiesAssumption
  <2>4. allowance' = [allowance EXCEPT ![c][token] = plan.amount * n]
    BY <1>4 DEF AuthorizeBilling
  <2>5. allowance' \in Ledger
    <3> HIDE DEF plan, token
    <3> QED BY <2>2, <2>3, <2>4, ApproveType
  <2> QED BY <1>4, <2>5, LedgerFacts, TokenStepInv DEF AuthorizeBilling
<1>5. ASSUME NEW s \in DOMAIN subs, RevokeBillingAuthorization(c, s)
      PROVE  IInv'
  <2> DEFINE token == BillingToken(subs[s], plans[subs[s].plan_id])
  <2>1. token \in Tokens /\ c \in Address
    BY SubFacts, PlanFacts, BillingParties, PartiesAssumption
  <2>2. allowance' = [allowance EXCEPT ![c][token] = 0]
    BY <1>5 DEF RevokeBillingAuthorization
  <2>3. allowance' \in Ledger
    <3> HIDE DEF token
    <3> QED BY <2>1, <2>2, ApproveType
  <2> QED BY <1>5, <2>3, LedgerFacts, TokenStepInv DEF RevokeBillingAuthorization
<1>6. ASSUME NEW s \in DOMAIN subs, NEW p \in DOMAIN plans, UpgradeSubscription(c, s, p)
      PROVE  IInv'
  <2> DEFINE plan == plans[p]
             cost == UpgradeCost(s, p)
             token == BillingToken(subs[s], plan)
             v == TransferFrom(World, c, Payee(plan), token, cost)
             sub == [subs[s] EXCEPT !.plan_id = p, !.last_charged = now,
                                    !.pending_downgrade_plan_id = 0]
             h == [history[s] EXCEPT !.net = @ + cost]
  <2>1. /\ subs[s] \in Sub /\ history[s] \in History
        /\ SubInv(subs[s], history[s], plans, now)
        /\ subs[s].plan_id \in DOMAIN plans
        /\ now \in Nat \ {0}
        /\ subs[s].status = "Active"
    BY <1>6, SubFacts DEF IInv, UpgradeSubscription, CanSwitch
  <2>2. plan \in Plan /\ PlanInv(plan) /\ plan.amount \in Nat /\ p \in 1..Len(plans)
    BY PlanFacts DEF PlanInv, Plan
  <2>3. /\ Quote(s) \in 0..plans[subs[s].plan_id].amount
        /\ subs[s].last_charged = 0 => Quote(s) = 0
        /\ plans[subs[s].plan_id].amount \in Int
    <3>1. plans[subs[s].plan_id] \in Plan /\ plans[subs[s].plan_id].amount > 0
      BY <2>1, PlanFacts DEF PlanInv
    <3>2. subs[s].last_charged <= now
      BY <2>1 DEF SubInv, RateInv
    <3> QED BY <2>1, <3>1, <3>2, RefundBound DEF Quote, Plan
  <2>4. cost \in Nat /\ cost >= plan.amount - Quote(s)
    BY <2>2, <2>3 DEF UpgradeCost
  <2>5. /\ sub \in Sub
        /\ sub.status = "Active"
        /\ sub.plan_id = p
        /\ sub.last_charged = now
        /\ sub.pending_downgrade_plan_id = 0
        /\ sub.created_at = subs[s].created_at
        /\ sub.past_due_since = subs[s].past_due_since
    <3>1. p \in Nat /\ now \in Nat
      BY <2>1, <2>2, LenProperties DEF IInv, PlansInv
    <3> HIDE DEF plan, cost, token
    <3> QED BY <2>1, <3>1 DEF Sub
  <2>6. h \in History /\ h.charges = history[s].charges /\ h.net = history[s].net + cost
    <3>1. history[s].net + cost \in Int
      BY <2>1, <2>4 DEF History
    <3> HIDE DEF cost
    <3> QED BY <2>1, <3>1 DEF History
  <2>7. SubInv(sub, h, plans, now)
    <3> HIDE DEF sub, h, cost, plan
    <3>1. SubType(sub, plans)
      <4>1. 0 \in 0..Len(plans)
        BY <2>2, LenProperties DEF IInv, PlansInv
      <4> QED BY <2>2, <2>5, <4>1 DEF SubType
    <3>2. RateInv(sub, h, now)
      <4>1. RateInv(subs[s], history[s], now)
        BY <2>1 DEF SubInv
      <4>2. history[s].charges > 0 =>
              (history[s].charges - 1) * MinInterval <= now - sub.created_at
        <5> SUFFICES ASSUME history[s].charges > 0
                     PROVE  (history[s].charges - 1) * MinInterval <= now - sub.created_at
          OBVIOUS
        <5> DEFINE x == (history[s].charges - 1) * MinInterval
        <5>1. x \in Int
          BY <2>1, MinIntervalAssumption DEF History
        <5>2. x <= subs[s].last_charged - subs[s].created_at
          BY <4>1 DEF RateInv
        <5>3. subs[s].last_charged <= now /\ subs[s].last_charged \in Nat
              /\ subs[s].created_at \in Nat
          BY <2>1, <4>1 DEF RateInv, Sub
        <5> HIDE DEF x
        <5>4. x <= now - subs[s].created_at
          BY <2>1, <5>1, <5>2, <5>3
        <5> QED BY <2>5, <5>4 DEF x
      <4> QED BY <2>1, <2>5, <2>6, <4>1, <4>2 DEF RateInv
    <3>3. NetInv(sub, h, plans)
      <4>1. PricesOnlyCut /\ OneInterval => Quote(s) <= history[s].net
        BY <2>1, <2>3 DEF SubInv, NetInv, History, Sub
      <4> QED BY <2>1, <2>2, <2>3, <2>4, <2>5, <2>6, <4>1
              DEF SubInv, NetInv, History, plan
    <3> QED BY <2>6, <3>1, <3>2, <3>3 DEF SubInv
  <2>8. v \in WorldType /\ v.subs = subs /\ v.history = history
    <3>1. CanTransferFrom(World, c, token, cost)
      BY <1>6 DEF UpgradeSubscription
    <3>2. token \in Tokens /\ c \in Address /\ Payee(plan) \in Address
      BY <2>1, <2>2, BillingParties, PartiesAssumption
    <3> HIDE DEF token, cost, plan
    <3>3. v \in WorldType /\ v.subs = World.subs /\ v.history = World.history
      BY <2>4, <3>1, <3>2, LedgerFacts, TransferFromType
    <3> QED BY <3>3 DEF World
  <2>9. Install(Put(v, s, sub, h)) /\ UNCHANGED <<now, admin, acceptedTokens, plans>>
    BY <1>6 DEF UpgradeSubscription
  <2>10. WorldInv(World, plans, now) /\ World.subs = subs /\ World.history = history
         /\ s \in 1..Len(World.subs)
    BY SubFacts DEF IInv, World
  <2> HIDE DEF v, sub, h
  <2>11. WorldInv(Put(v, s, sub, h), plans, now)
    BY <2>7, <2>8, <2>10, Replace
  <2> QED BY <2>9, <2>11, InstallInv
<1>7. ASSUME NEW s \in DOMAIN subs, NEW p \in DOMAIN plans, DowngradeSubscription(c, s, p)
      PROVE  IInv'
  <2> DEFINE sub == [subs[s] EXCEPT !.pending_downgrade_plan_id = p]
  <2>1. /\ subs[s] \in Sub /\ SubInv(subs[s], history[s], plans, now)
        /\ subs[s].status = "Active"
    BY <1>7, SubFacts DEF DowngradeSubscription, CanSwitch
  <2>2. p \in 1..Len(plans) /\ Len(plans) \in Nat
    BY PlanFacts, LenProperties DEF IInv, PlansInv
  <2>3. SubInv(sub, history[s], plans, now)
    BY <2>1, <2>2 DEF SubInv, SubType, RateInv, NetInv, Sub
  <2>4. subs' = [subs EXCEPT ![s] = sub]
    BY <1>7 DEF DowngradeSubscription
  <2>5. /\ UNCHANGED <<now, admin, acceptedTokens, plans, history>>
        /\ balance' \in Ledger /\ allowance' \in Ledger
    BY <1>7, LedgerFacts DEF DowngradeSubscription
  <2> HIDE DEF sub
  <2> QED BY <2>3, <2>4, <2>5, SubStep
<1> QED BY <1>1, <1>2, <1>3, <1>4, <1>5, <1>6, <1>7

\* Both ways of cancelling keep the invariant; the refund is covered by what the
\* payer of the subscription has paid in.
LEMMA CancelStepInv == IInv /\ CancelStep => IInv'
<1> SUFFICES ASSUME IInv, NEW caller \in Address, NEW s \in DOMAIN subs,
                    CancelSubscription(caller, s) \/ CancelWithProratedRefund(caller, s)
             PROVE  IInv'
  BY DEF CancelStep
<1> DEFINE plan == plans[subs[s].plan_id]
           token == BillingToken(subs[s], plan)
           sub == [subs[s] EXCEPT !.status = "Cancelled"]
<1>1. /\ subs[s] \in Sub /\ history[s] \in History
      /\ SubInv(subs[s], history[s], plans, now)
      /\ PlanInv(plan) /\ plan \in Plan
      /\ now \in Nat
  BY SubFacts, PlanFacts DEF IInv
<1>2. token \in Tokens /\ Payee(plan) \in Address /\ subs[s].customer \in Address
  BY <1>1, BillingParties DEF Sub
<1>3. /\ sub \in Sub
      /\ sub.status = "Cancelled"
      /\ sub.plan_id = subs[s].plan_id
      /\ sub.pending_downgrade_plan_id = subs[s].pending_downgrade_plan_id
      /\ sub.created_at = subs[s].created_at
      /\ sub.last_charged = subs[s].last_charged
      /\ sub.past_due_since = subs[s].past_due_since
  BY <1>1 DEF Sub, Status
<1> HIDE DEF plan, token, sub
<1>4. ASSUME NEW h \in History, h.charges = history[s].charges,
             PricesOnlyCut /\ OneInterval => h.net >= 0
      PROVE  SubInv(sub, h, plans, now)
  <2>1. SubType(sub, plans)
    BY <1>1, <1>3 DEF SubInv, SubType
  <2>2. RateInv(sub, h, now)
    BY <1>1, <1>3, <1>4 DEF SubInv, RateInv
  <2>3. NetInv(sub, h, plans)
    BY <1>3, <1>4 DEF NetInv
  <2> QED BY <1>4, <2>1, <2>2, <2>3 DEF SubInv
<1>5. CASE CancelSubscription(caller, s)
  <2>1. SubInv(sub, history[s], plans, now)
    BY <1>1, <1>4 DEF SubInv, NetInv
  <2>2. subs' = [subs EXCEPT ![s] = sub]
    BY <1>5 DEF CancelSubscription, sub
  <2>3. allowance' = [allowance EXCEPT ![caller][token] = 0] \/ allowance' = allowance
    BY <1>5 DEF CancelSubscription, token, plan
  <2>4. allowance' \in Ledger
    BY <1>2, <2>3, ApproveType, LedgerFacts
  <2>5. UNCHANGED <<now, admin, acceptedTokens, plans, history>> /\ balance' \in Ledger
    BY <1>5, LedgerFacts DEF CancelSubscription
  <2> QED BY <2>1, <2>2, <2>4, <2>5, SubStep
<1>6. CASE CancelWithProratedRefund(caller, s)
  <2> DEFINE refund == Quote(s)
             v == TransferFrom(World, Payee(plan), subs[s].customer, token, refund)
             h == [history[s] EXCEPT !.net = @ - refund]
  <2>1. /\ Live(subs[s])
        /\ refund > 0
        /\ CanTransferFrom(World, Payee(plan), token, refund)
        /\ Install(Put(v, s, sub, h))
        /\ UNCHANGED <<now, admin, acceptedTokens, plans>>
    BY <1>6 DEF CancelWithProratedRefund, Quote, plan, token, sub
  <2>2. /\ refund \in 0..plan.amount
        /\ subs[s].last_charged = 0 => refund = 0
        /\ now >= CycleEnd(subs[s], plan) => refund = 0
        /\ plan.amount \in Int
    <3>1. subs[s].last_charged <= now /\ plan.amount > 0 /\ plan.amount \in Int
      BY <1>1 DEF SubInv, RateInv, PlanInv, Plan
    <3> QED BY <1>1, <3>1, RefundBound DEF Quote, plan
  <2>3. PricesOnlyCut /\ OneInterval => refund <= history[s].net
    <3> SUFFICES ASSUME PricesOnlyCut, OneInterval PROVE refund <= history[s].net
      OBVIOUS
    <3>1. CASE subs[s].status = "Active"
      <4>1. subs[s].last_charged > 0
        BY <1>1, <2>1, <2>2 DEF Sub
      <4>2. plan.amount <= history[s].net
        BY <1>1, <3>1, <4>1 DEF SubInv, NetInv, plan
      <4> QED BY <1>1, <2>2, <4>2 DEF History
    <3>2. CASE subs[s].status = "PastDue"
      <4>1. subs[s].last_charged > 0
        BY <1>1, <2>1, <2>2 DEF Sub
      <4>2. /\ subs[s].past_due_since \in 1..now
            /\ subs[s].past_due_since >= subs[s].last_charged + MinInterval
            /\ plan.interval = MinInterval
        BY <1>1, <3>2, <4>1 DEF SubInv, RateInv, PlanInv
      <4>3. now >= CycleEnd(subs[s], plan)
        BY <1>1, <4>2, MinIntervalAssumption DEF CycleEnd, Sub
      <4> QED BY <2>1, <2>2, <4>3
    <3> QED BY <2>1, <3>1, <3>2 DEF Live
  <2>5. /\ h \in History
        /\ h.charges = history[s].charges
        /\ h.net = history[s].net - refund
    <3>1. history[s].net - refund \in Int
      BY <1>1, <2>2 DEF History
    <3> HIDE DEF refund
    <3> QED BY <1>1, <3>1 DEF History
  <2>6. SubInv(sub, h, plans, now)
    <3>1. PricesOnlyCut /\ OneInterval => h.net >= 0
      BY <1>1, <2>2, <2>3, <2>5 DEF History
    <3> HIDE DEF h
    <3> QED BY <1>4, <2>5, <3>1
  <2>7. v \in WorldType /\ v.subs = subs /\ v.history = history
    <3>1. refund \in Nat
      BY <2>2
    <3> HIDE DEF refund
    <3>2. v \in WorldType /\ v.subs = World.subs /\ v.history = World.history
      BY <1>2, <2>1, <3>1, LedgerFacts, TransferFromType
    <3> QED BY <3>2 DEF World
  <2>8. WorldInv(World, plans, now) /\ World.subs = subs /\ World.history = history
        /\ s \in 1..Len(World.subs)
    BY SubFacts DEF IInv, World
  <2> HIDE DEF v, h
  <2>9. WorldInv(Put(v, s, sub, h), plans, now)
    BY <2>6, <2>7, <2>8, Replace
  <2> QED BY <2>1, <2>9, InstallInv
<1> QED BY <1>5, <1>6

\* Every entry point of the scheduler keeps the invariant, the two-entry sweep by
\* using what one billing step keeps twice.
LEMMA SchedulerStepInv == IInv /\ SchedulerStep => IInv'
<1> SUFFICES ASSUME IInv, NEW s \in DOMAIN subs,
                    \/ Charge(s)
                    \/ ProcessCharge(s)
                    \/ EnforceGrace(s)
                    \/ \E s2 \in DOMAIN subs : ProcessBillingCycle(s, s2)
             PROVE  IInv'
  BY DEF SchedulerStep
<1>1. Context(World, s) /\ World.subs = subs /\ World.history = history
  BY SubFacts DEF World
<1>2. CASE Charge(s)
  <2> DEFINE sub == Billed(World, s)
             plan == plans[sub.plan_id]
  <2>1. /\ CycleDue(World.subs[s], plans[World.subs[s].plan_id])
        /\ CanTransferFrom(World, sub.customer, BillingToken(sub, plan), plan.amount)
        /\ Install(Collected(World, s, sub, plan))
        /\ UNCHANGED <<now, admin, acceptedTokens, plans>>
    BY <1>1, <1>2 DEF Charge, CycleDue
  <2>2. WorldInv(Collected(World, s, sub, plan), plans, now)
    BY <1>1, <2>1, CollectedInv
  <2> HIDE DEF sub, plan
  <2> QED BY <2>1, <2>2, InstallInv
<1>3. CASE ProcessCharge(s)
  <2>1. WorldInv(StepBillingCycle(World, s), plans, now)
    BY <1>1, <1>3, StepInv DEF ProcessCharge
  <2> QED BY <1>3, <2>1, InstallInv DEF ProcessCharge
<1>4. CASE EnforceGrace(s)
  <2> DEFINE sub == Ended(subs[s])
  <2>1. SubInv(subs[s], history[s], plans, now) /\ subs[s] \in Sub
    BY SubFacts
  <2>2. /\ sub \in Sub
        /\ sub.status = "Terminated"
        /\ sub.plan_id = subs[s].plan_id
        /\ sub.pending_downgrade_plan_id = subs[s].pending_downgrade_plan_id
        /\ sub.created_at = subs[s].created_at
        /\ sub.last_charged = subs[s].last_charged
    BY <2>1 DEF Ended, Sub, Status
  <2>3. subs' = [subs EXCEPT ![s] = sub]
    BY <1>4 DEF EnforceGrace, Ended
  <2> HIDE DEF sub
  <2>4. SubInv(sub, history[s], plans, now)
    BY <2>1, <2>2 DEF SubInv, SubType, RateInv, NetInv
  <2>5. /\ UNCHANGED <<now, admin, acceptedTokens, plans, history>>
        /\ balance' \in Ledger /\ allowance' \in Ledger
    BY <1>4, LedgerFacts DEF EnforceGrace
  <2> QED BY <2>3, <2>4, <2>5, SubStep
<1>5. ASSUME NEW s2 \in DOMAIN subs, ProcessBillingCycle(s, s2) PROVE IInv'
  <2> DEFINE first == StepBillingCycle(World, s)
  <2>1. /\ ~StepTraps(World, s)
        /\ ~StepTraps(first, s2)
        /\ Install(StepBillingCycle(first, s2))
        /\ UNCHANGED <<now, admin, acceptedTokens, plans>>
    BY <1>5 DEF ProcessBillingCycle
  <2>2. WorldInv(first, plans, now) /\ Len(first.subs) = Len(subs)
    BY <1>1, <2>1, StepInv
  <2>3. s2 \in 1..Len(subs)
    BY SubFacts
  <2> HIDE DEF first
  <2>4. Context(first, s2)
    BY <1>1, <2>2, <2>3 DEF Context
  <2>5. WorldInv(StepBillingCycle(first, s2), plans, now)
    BY <2>1, <2>4, StepInv
  <2> QED BY <2>1, <2>5, InstallInv
<1> QED BY <1>2, <1>3, <1>4, <1>5

\* Direct token calls keep the ledgers typed and touch nothing else.
LEMMA TokenCallsInv == IInv /\ TokenStep => IInv'
<1> SUFFICES ASSUME IInv, NEW a \in Approvers, NEW t \in Tokens,
                    \/ \E amt \in ApproveAmounts : TokenApprove(a, t, amt)
                    \/ \E to \in Address, amt \in MoveAmounts :
                            TokenTransfer(a, to, t, amt)
             PROVE  IInv'
  BY DEF TokenStep
<1>1. a \in Address
  BY PartiesAssumption
<1>2. ASSUME NEW amt \in ApproveAmounts, TokenApprove(a, t, amt) PROVE IInv'
  <2>1. allowance' \in Ledger
    BY <1>1, <1>2, TokensAssumption, ApproveType DEF TokenApprove
  <2> QED BY <1>2, <2>1, LedgerFacts, TokenStepInv DEF TokenApprove
<1>3. ASSUME NEW to \in Address, NEW amt \in MoveAmounts, TokenTransfer(a, to, t, amt)
      PROVE  IInv'
  <2>1. balance' \in Ledger
    BY <1>1, <1>3, TokensAssumption, LedgerFacts, MovedType DEF CanPay, TokenTransfer
  <2> QED BY <1>3, <2>1, LedgerFacts, TokenStepInv DEF TokenTransfer
<1> QED BY <1>2, <1>3

\* The invariant only bounds recorded instants by the clock, so it survives time.
LEMMA TickInv == IInv /\ Tick => IInv'
<1> SUFFICES ASSUME IInv, Tick PROVE IInv'
  OBVIOUS
<1>1. now \in Nat \ {0} /\ now' = now + 1
  BY DEF IInv, Tick
<1>2. ASSUME NEW sub, NEW h, SubInv(sub, h, plans, now)
      PROVE  SubInv(sub, h, plans, now')
  <2>1. RateInv(sub, h, now) /\ sub \in Sub
    BY <1>2 DEF SubInv, SubType
  <2>2. RateInv(sub, h, now')
    BY <1>1, <2>1 DEF RateInv, Sub
  <2> QED BY <1>2, <2>2 DEF SubInv
<1>3. WorldInv(World', plans', now')
  BY <1>2 DEF IInv, WorldInv, World, Tick
<1> QED BY <1>1, <1>3 DEF IInv, Tick

-----------------------------------------------------------------------------
(* The theorems. *)

\* The strengthened invariant holds in every reachable state of the contract.
THEOREM Invariance == Spec => []IInv
<1>1. IInv /\ [Next]_vars => IInv'
  <2> SUFFICES ASSUME IInv, [Next]_vars PROVE IInv'
    OBVIOUS
  <2>1. CASE Next
    BY <2>1, AdminStepInv, MerchantStepInv, CustomerStepInv, CancelStepInv,
       SchedulerStepInv, TokenCallsInv, TickInv DEF Next
  <2>2. CASE UNCHANGED vars
    <3>1. World' = World
      BY <2>2 DEF vars, World
    <3> QED BY <2>2, <3>1 DEF vars, IInv
  <2> QED BY <2>1, <2>2
<1> QED BY InitInv, <1>1, PTL DEF Spec

\* Every stored record, balance and allowance keeps its type: no transaction writes
\* a negative balance or allowance, a dangling status or a plan with no merchant.
THEOREM TypeCorrect == Spec => []TypeOK
<1>1. IInv => TypeOK
  BY DEF IInv, PlansInv, WorldInv, World, WorldType, Ledger, TypeOK
<1> QED BY Invariance, <1>1, PTL

\* step_billing_cycle and charge keep past_due_since in step with the status, and
\* never mark a subscription sooner than an interval after its last charge.
THEOREM PastDueMarkedHolds == Spec => []PastDueMarked
<1>1. IInv => PastDueMarked
  <2> SUFFICES ASSUME IInv PROVE PastDueMarked
    OBVIOUS
  <2>1. \A s \in DOMAIN subs : RateInv(subs[s], history[s], now)
    BY SubFacts DEF SubInv
  <2> QED BY <2>1 DEF PastDueMarked, RateInv
<1> QED BY Invariance, <1>1, PTL

\* However the charging entry points, upgrades and plan edits interleave, n charges
\* of a subscription span at least n - 1 of the shortest configurable intervals.
THEOREM RateLimitHolds == Spec => []ChargeRateLimited
<1>1. IInv => ChargeRateLimited
  <2> SUFFICES ASSUME IInv PROVE ChargeRateLimited
    OBVIOUS
  <2>1. \A s \in DOMAIN subs : RateInv(subs[s], history[s], now)
    BY SubFacts DEF SubInv
  <2> QED BY <2>1 DEF ChargeRateLimited, RateInv
<1> QED BY Invariance, <1>1, PTL

\* With prices only cut and one interval, the refund a live subscription is quoted,
\* and any refund it was paid, is covered by what it has paid in.
THEOREM RefundCoveredHolds == Spec => []RefundCovered
<1>1. IInv => RefundCovered
  <2> SUFFICES ASSUME IInv, PricesOnlyCut, OneInterval, NEW s \in DOMAIN subs
               PROVE  history[s].net >= 0 /\ (Live(subs[s]) => Quote(s) <= history[s].net)
    BY DEF RefundCovered
  <2> DEFINE plan == plans[subs[s].plan_id]
  <2>1. /\ SubInv(subs[s], history[s], plans, now)
        /\ subs[s] \in Sub /\ history[s] \in History
        /\ PlanInv(plan) /\ plan \in Plan /\ now \in Nat
    BY SubFacts, PlanFacts DEF IInv
  <2>2. history[s].net >= 0
    BY <2>1 DEF SubInv, NetInv
  <2>3. /\ Quote(s) \in 0..plan.amount
        /\ subs[s].last_charged = 0 => Quote(s) = 0
        /\ now >= CycleEnd(subs[s], plan) => Quote(s) = 0
        /\ plan.amount \in Int
    <3>1. subs[s].last_charged <= now /\ plan.amount > 0 /\ plan.amount \in Int
      BY <2>1 DEF SubInv, RateInv, PlanInv, Plan
    <3> QED BY <2>1, <3>1, RefundBound DEF Quote
  <2>4. CASE subs[s].last_charged = 0
    BY <2>1, <2>2, <2>3, <2>4 DEF History
  <2>5. CASE subs[s].last_charged > 0 /\ subs[s].status = "Active"
    <3>1. plan.amount <= history[s].net
      BY <2>1, <2>5 DEF SubInv, NetInv
    <3> QED BY <2>1, <2>2, <2>3, <3>1 DEF History
  <2>6. CASE subs[s].last_charged > 0 /\ subs[s].status = "PastDue"
    <3>1. /\ subs[s].past_due_since \in 1..now
          /\ subs[s].past_due_since >= subs[s].last_charged + MinInterval
          /\ plan.interval = MinInterval
      BY <2>1, <2>6 DEF SubInv, RateInv, PlanInv
    <3>2. now >= CycleEnd(subs[s], plan)
      BY <2>1, <3>1, MinIntervalAssumption DEF CycleEnd, Sub
    <3> QED BY <2>1, <2>2, <2>3, <3>2 DEF History
  <2> QED BY <2>1, <2>2, <2>4, <2>5, <2>6 DEF Live, Sub
<1> QED BY Invariance, <1>1, PTL

-----------------------------------------------------------------------------
(* How a subscription ends. *)

\* Non-payment ends q, now r, only after the grace period of r's plan.
Graced(q, r) ==
    Live(q) /\ r.status = "Terminated" =>
        LET grace == plans[r.plan_id].grace_period
        IN  \/ q.status = "Active" /\ grace = 0
            \/ q.status = "PastDue" /\ now > q.past_due_since + grace

\* What a billing step makes of subscription q with history h.
Untouched(q, h, r, g) == r = q /\ g = h

Charged(q, r) == Live(q) /\ r.status = "Active" /\ r.last_charged = now

Lapsed(q, r) == q.status = "Active" /\ r.status = "PastDue" /\ r.past_due_since = now

Effect(q, h, r, g) ==
    \/ Untouched(q, h, r, g)
    \/ Charged(q, r)
    \/ Lapsed(q, r)
    \/ Live(q) /\ r.status = "Terminated" /\ Graced(q, r)

Effects(w, v) ==
    \A s \in 1..Len(w.subs) : Effect(w.subs[s], w.history[s], v.subs[s], v.history[s])

\* What the two action properties ask of a transition.
EndsProperly ==
    \A s \in DOMAIN subs :
        /\ Graced(subs[s], subs'[s])
        /\ subs[s].status \in {"Cancelled", "Terminated"} =>
                subs'[s] = subs[s] /\ history'[s] = history[s]

Updated(list, s, x) == [list EXCEPT ![s] = x]

WorldFields == {"subs", "balance", "allowance", "history"}

\* Storing a subscription, with or without a transfer before it.
LEMMA TransferFields ==
    ASSUME NEW w \in WorldType, NEW from, NEW to, NEW t, NEW amt
    PROVE  LET u == TransferFrom(w, from, to, t, amt)
           IN  /\ u.subs = w.subs
               /\ u.history = w.history
               /\ DOMAIN u = WorldFields
<1> DEFINE b == Moved(w.balance, from, to, t, amt)
           a == [w.allowance EXCEPT ![from][t] = @ - amt]
           u == [w EXCEPT !.balance = b, !.allowance = a]
<1>1. TransferFrom(w, from, to, t, amt) = u
  BY DEF TransferFrom, WorldType
<1>2. /\ u.subs = w.subs /\ u.history = w.history
      /\ DOMAIN u = WorldFields
  <2> HIDE DEF a, b
  <2> QED BY DEF WorldType, WorldFields
<1> QED BY <1>1, <1>2

\* Writing a subscription and its history into a world.
LEMMA PutFields ==
    ASSUME NEW u, NEW s, NEW sub, NEW h, DOMAIN u = WorldFields
    PROVE  /\ Put(u, s, sub, h).subs = Updated(u.subs, s, sub)
           /\ Put(u, s, sub, h).history = Updated(u.history, s, h)
<1> DEFINE ss == [u.subs EXCEPT ![s] = sub]
           hs == [u.history EXCEPT ![s] = h]
<1>1. Put(u, s, sub, h) = [u EXCEPT !.subs = ss, !.history = hs]
  BY DEF Put
<1> HIDE DEF ss, hs
<1>2. Put(u, s, sub, h).subs = ss /\ Put(u, s, sub, h).history = hs
  BY <1>1 DEF WorldFields
<1> QED BY <1>2 DEF ss, hs, Updated

\* Writing a subscription alone into a world.
LEMMA PutSubFields ==
    ASSUME NEW w \in WorldType, NEW s, NEW sub, NEW v, v = PutSub(w, s, sub)
    PROVE  v.subs = Updated(w.subs, s, sub) /\ v.history = w.history
<1> DEFINE ss == [w.subs EXCEPT ![s] = sub]
<1>1. PutSub(w, s, sub) = [w EXCEPT !.subs = ss]
  BY DEF PutSub
<1> HIDE DEF ss
<1>2. PutSub(w, s, sub).subs = ss /\ PutSub(w, s, sub).history = w.history
  BY <1>1 DEF WorldType
<1> QED BY <1>2 DEF ss, Updated

\* A subscription charged at this instant is not due again.
LEMMA FreshNotDue ==
    ASSUME NEW w, NEW s, Context(w, s),
           w.subs[s].status = "Active", w.subs[s].last_charged = now
    PROVE  StepBillingCycle(w, s) = w
<1> DEFINE q == w.subs[s]
           plan == plans[q.plan_id]
<1>1. PlanInv(plan) /\ now \in Nat /\ now > 0
  BY ContextFacts DEF Context
<1>2. plan.interval \in Nat /\ plan.interval > 0
  BY <1>1, MinIntervalAssumption DEF PlanInv, Plan
<1>3. DueAt(q, plan) = now + plan.interval
  BY <1>1 DEF DueAt
<1>4. ~CycleDue(q, plan)
  BY <1>1, <1>2, <1>3 DEF CycleDue
<1> QED BY <1>4 DEF StepBillingCycle

\* A billing step charges a live subscription, marks an active one past due or ends
\* one whose grace is over; it leaves all others as they are.
LEMMA StepEffects ==
    ASSUME NEW w, NEW s, Context(w, s)
    PROVE  LET v == StepBillingCycle(w, s)
           IN  /\ Effects(w, v)
               /\ \A j \in 1..Len(w.subs) \ {s} :
                    Untouched(w.subs[j], w.history[j], v.subs[j], v.history[j])
<1> DEFINE q == w.subs[s]
           sub == Billed(w, s)
           plan == plans[sub.plan_id]
           due == CycleDue(q, plans[q.plan_id])
<1> DEFINE Proper(v) ==
        /\ Effects(w, v)
        /\ \A j \in 1..Len(w.subs) \ {s} :
                Untouched(w.subs[j], w.history[j], v.subs[j], v.history[j])
<1> SUFFICES ASSUME NEW v, v = StepBillingCycle(w, s) PROVE Proper(v)
  OBVIOUS
<1>1. /\ w \in WorldType /\ s \in 1..Len(w.subs)
      /\ SubType(q, plans) /\ sub \in Sub
      /\ PlanInv(plan) /\ now \in Nat
  BY ContextFacts DEF Context, WorldInv
<1>2. sub.status = q.status /\ sub.past_due_since = q.past_due_since
  BY <1>1, BilledInv DEF Billed
<1>3. ASSUME NEW r, NEW hs, Effect(q, w.history[s], r, hs[s]),
             v.subs = [w.subs EXCEPT ![s] = r], v.history = hs,
             \A j \in 1..Len(w.subs) \ {s} : hs[j] = w.history[j]
      PROVE  Proper(v)
  <2>1. w.subs \in Seq(Sub)
    BY <1>1 DEF WorldType
  <2>2. /\ v.subs[s] = r
        /\ \A j \in 1..Len(w.subs) \ {s} : v.subs[j] = w.subs[j]
    BY <1>1, <1>3, <2>1
  <2> HIDE DEF q
  <2> QED BY <1>3, <2>2 DEF Effects, Effect, Untouched, q
<1>4. CASE v = w
  BY <1>4 DEF Effects, Effect, Untouched
<1>5. CASE due /\ AllowanceCovers(w, sub, plan)
  <2>a. PICK r : r = [sub EXCEPT !.status = "Active", !.last_charged = now,
                                 !.past_due_since = 0]
    OBVIOUS
  <2>b. PICK h : h = [w.history[s] EXCEPT !.charges = @ + 1, !.net = @ + plan.amount]
    OBVIOUS
  <2>c. PICK u : u = TransferFrom(w, sub.customer, Payee(plan), BillingToken(sub, plan),
                                  plan.amount)
    OBVIOUS
  <2> DEFINE hs == [w.history EXCEPT ![s] = h]
  <2>1. v = Put(u, s, r, h)
    BY <1>5, <2>a, <2>b, <2>c DEF StepBillingCycle, Collected
  <2>2. r.status = "Active" /\ r.last_charged = now
    <3> HIDE DEF sub
    <3> QED BY <1>1, <2>a DEF Sub
  <2>3. v.subs = [w.subs EXCEPT ![s] = r] /\ v.history = hs
    <3>1. /\ u.subs = w.subs /\ u.history = w.history
          /\ DOMAIN u = WorldFields
      BY <1>1, <2>c, TransferFields
    <3>2. v.subs = Updated(w.subs, s, r) /\ v.history = Updated(w.history, s, h)
      BY <2>1, <3>1, PutFields
    <3> QED BY <3>2 DEF Updated
  <2>4. \A j \in 1..Len(w.subs) \ {s} : hs[j] = w.history[j]
    <3>1. w.history \in Seq(History)
      BY <1>1 DEF WorldType
    <3>2. Len(w.history) = Len(w.subs)
      BY DEF Context, WorldInv
    <3> QED BY <3>1, <3>2
  <2>5. Live(q)
    BY <1>5 DEF CycleDue, Live
  <2> HIDE DEF hs
  <2>6. Effect(q, w.history[s], r, hs[s])
    BY <2>2, <2>5 DEF Effect, Charged
  <2> QED BY <1>3, <2>3, <2>4, <2>6
<1>6. CASE due /\ ~AllowanceCovers(w, sub, plan) /\ v # w
  <2>1. v = Missed(w, s, sub, plan)
    BY <1>6 DEF StepBillingCycle
  <2>2. Live(q)
    BY <1>6 DEF CycleDue, Live
  <2>3. ASSUME NEW r, v = PutSub(w, s, r), Effect(q, w.history[s], r, w.history[s])
        PROVE  Proper(v)
    <3> HIDE DEF q
    <3>1. v.subs = Updated(w.subs, s, r) /\ v.history = w.history
      BY <1>1, <2>3, PutSubFields
    <3> QED BY <1>3, <2>3, <3>1 DEF Updated
  <2>4. CASE sub.status = "Active" /\ plan.grace_period = 0
    <3>1. v = PutSub(w, s, Ended(sub))
      BY <2>1, <2>4 DEF Missed
    <3>2. Ended(sub).status = "Terminated" /\ Ended(sub).plan_id = sub.plan_id
      <4> HIDE DEF sub
      <4> QED BY <1>1 DEF Ended, Sub
    <3>3. Graced(q, Ended(sub))
      BY <1>2, <2>4, <3>2 DEF Graced
    <3> HIDE DEF sub
    <3> QED BY <2>2, <2>3, <3>1, <3>2, <3>3 DEF Effect
  <2>5. CASE sub.status = "Active" /\ plan.grace_period # 0
    <3>1. v = PutSub(w, s, InGrace(sub))
      BY <2>1, <2>5 DEF Missed
    <3>2. InGrace(sub).status = "PastDue" /\ InGrace(sub).past_due_since = now
      <4> HIDE DEF sub
      <4> QED BY <1>1 DEF InGrace, Sub
    <3>3. Lapsed(q, InGrace(sub))
      BY <1>2, <2>5, <3>2 DEF Lapsed
    <3> HIDE DEF sub
    <3> QED BY <2>3, <3>1, <3>3 DEF Effect
  <2>6. CASE sub.status = "PastDue" /\ now > sub.past_due_since + plan.grace_period
    <3>1. v = PutSub(w, s, Ended(sub))
      BY <2>1, <2>6 DEF Missed
    <3>2. Ended(sub).status = "Terminated" /\ Ended(sub).plan_id = sub.plan_id
      <4> HIDE DEF sub
      <4> QED BY <1>1 DEF Ended, Sub
    <3>3. Graced(q, Ended(sub))
      BY <1>2, <2>6, <3>2 DEF Graced
    <3> HIDE DEF sub
    <3> QED BY <2>2, <2>3, <3>1, <3>2, <3>3 DEF Effect
  <2>7. \/ v = w
        \/ sub.status = "Active" /\ plan.grace_period = 0
        \/ sub.status = "Active" /\ plan.grace_period # 0
        \/ sub.status = "PastDue" /\ now > sub.past_due_since + plan.grace_period
    BY <2>1 DEF Missed
  <2> HIDE DEF sub
  <2> QED BY <1>4, <2>4, <2>5, <2>6, <2>7
<1>7. ~due => v = w
  BY DEF StepBillingCycle
<1> QED BY <1>4, <1>5, <1>6, <1>7

\* A batch: what one entry charged at this instant the next one leaves alone, and
\* what one entry marked past due at this instant the next one does not end.
LEMMA TwoEffects ==
    ASSUME NEW q, NEW h, NEW r, NEW g, NEW x, NEW k,
           Effect(q, h, r, g), Effect(r, g, x, k),
           r.status = "Active" /\ r.last_charged = now => Untouched(r, g, x, k),
           now \in Nat, plans[x.plan_id].grace_period \in Nat
    PROVE  Effect(q, h, x, k)
<1>1. CASE Untouched(q, h, r, g)
  BY <1>1 DEF Untouched
<1>2. CASE Charged(q, r)
  BY <1>2 DEF Effect, Charged, Untouched
<1>3. CASE Untouched(r, g, x, k)
  BY <1>3 DEF Untouched
<1>4. CASE Lapsed(q, r)
  <2>1. CASE Charged(r, x)
    BY <1>4, <2>1 DEF Effect, Charged, Lapsed, Live
  <2>2. CASE Lapsed(r, x)
    BY <1>4, <2>2 DEF Lapsed
  <2>3. CASE Live(r) /\ x.status = "Terminated" /\ Graced(r, x)
    <3> DEFINE grace == plans[x.plan_id].grace_period
    <3>1. now > now + grace
      BY <1>4, <2>3 DEF Lapsed, Graced
    <3> QED BY <3>1
  <2> QED BY <1>3, <2>1, <2>2, <2>3 DEF Effect
<1>5. CASE Live(q) /\ r.status = "Terminated" /\ Graced(q, r)
  BY <1>3, <1>5 DEF Effect, Charged, Lapsed, Live
<1> QED BY <1>1, <1>2, <1>4, <1>5 DEF Effect

\* Transitions that keep the property: those that leave what there is alone ...
LEMMA KeptEnds ==
    ASSUME \A s \in DOMAIN subs : subs'[s] = subs[s] /\ history'[s] = history[s]
    PROVE  EndsProperly
  BY DEF EndsProperly, Graced, Live

\* ... those that store one live subscription, and end it only after its grace ...
LEMMA StoredEnds ==
    ASSUME IInv, NEW s \in DOMAIN subs, NEW sub, Live(subs[s]), Graced(subs[s], sub),
           subs' = Updated(subs, s, sub),
           \A j \in DOMAIN subs \ {s} : history'[j] = history[j]
    PROVE  EndsProperly
<1>1. subs'[s] = sub /\ \A j \in DOMAIN subs \ {s} : subs'[j] = subs[j]
  BY DEF Updated
<1> QED BY <1>1 DEF EndsProperly, Graced, Live

\* What a stored history leaves of the others.
LEMMA StoredHistory ==
    ASSUME IInv, NEW s \in DOMAIN subs, NEW h, history' = Updated(history, s, h)
    PROVE  \A j \in DOMAIN subs \ {s} : history'[j] = history[j]
<1>1. subs \in Seq(Sub) /\ history \in Seq(History) /\ Len(history) = Len(subs)
  BY DEF IInv, WorldInv, World, WorldType
<1> QED BY <1>1 DEF Updated

\* ... and those that install the world of a billing step, or of two.
LEMMA InstalledEnds ==
    ASSUME IInv, NEW w, Install(w), Effects(World, w)
    PROVE  EndsProperly
<1>1. subs' = w.subs /\ history' = w.history /\ World.subs = subs /\ World.history = history
  BY DEF Install, World
<1>2. \A s \in DOMAIN subs : Effect(subs[s], history[s], subs'[s], history'[s])
  BY <1>1, SubFacts DEF Effects
<1>3. ASSUME NEW q, NEW h, NEW r, NEW g, Effect(q, h, r, g)
      PROVE  /\ Graced(q, r)
             /\ q.status \in {"Cancelled", "Terminated"} => r = q /\ g = h
  BY <1>3 DEF Effect, Untouched, Charged, Lapsed, Graced, Live
<1> QED BY <1>2, <1>3 DEF EndsProperly

\* Both entries of a sweep, the same subscription twice included, end it properly.
LEMMA BatchEnds ==
    ASSUME IInv, NEW s \in DOMAIN subs, NEW s2 \in DOMAIN subs, ProcessBillingCycle(s, s2)
    PROVE  EndsProperly
<1>1. PICK first : first = StepBillingCycle(World, s)
  OBVIOUS
<1>2. PICK last : last = StepBillingCycle(first, s2)
  OBVIOUS
<1>3. ~StepTraps(World, s) /\ ~StepTraps(first, s2) /\ Install(last)
  BY <1>1, <1>2 DEF ProcessBillingCycle
<1>4. Context(World, s) /\ Context(World, s2) /\ World.subs = subs
  BY SubFacts DEF World
<1>5. WorldInv(first, plans, now) /\ Len(first.subs) = Len(subs)
  BY <1>1, <1>3, <1>4, StepInv
<1>6. Context(first, s2)
  BY <1>4, <1>5 DEF Context
<1>7. WorldInv(last, plans, now) /\ Len(last.subs) = Len(subs)
  BY <1>2, <1>3, <1>5, <1>6, StepInv
<1>8. Effects(World, first) /\ Effects(first, last)
  BY <1>1, <1>2, <1>4, <1>6, StepEffects
<1>9. ASSUME NEW j \in 1..Len(subs)
      PROVE  Effect(World.subs[j], World.history[j], last.subs[j], last.history[j])
  <2>1. /\ Effect(World.subs[j], World.history[j], first.subs[j], first.history[j])
        /\ Effect(first.subs[j], first.history[j], last.subs[j], last.history[j])
    BY <1>4, <1>5, <1>8 DEF Effects
  <2>2. first.subs[j].status = "Active" /\ first.subs[j].last_charged = now =>
            Untouched(first.subs[j], first.history[j], last.subs[j], last.history[j])
    <3>1. CASE j = s2
      BY <1>2, <1>6, <3>1, FreshNotDue DEF Untouched
    <3>2. CASE j # s2
      BY <1>2, <1>5, <1>6, <3>2, StepEffects
    <3> QED BY <3>1, <3>2
  <2>3. now \in Nat /\ plans[last.subs[j].plan_id].grace_period \in Nat
    <3>1. SubInv(last.subs[j], last.history[j], plans, now)
      BY <1>7 DEF WorldInv
    <3>2. last.subs[j].plan_id \in 1..Len(plans) /\ PlansInv(plans)
      BY <3>1 DEF SubInv, SubType, IInv
    <3>3. plans[last.subs[j].plan_id] \in Plan
      BY <3>2 DEF PlansInv, PlanInv
    <3> QED BY <3>3 DEF Plan, IInv
  <2> QED BY <2>1, <2>2, <2>3, TwoEffects
<1> QED BY <1>3, <1>4, <1>9, InstalledEnds DEF Effects

\* Enrolment appends; it leaves the subscriptions there are alone.
LEMMA EnrollEnds ==
    ASSUME IInv, NEW c, NEW p, NEW t, Enroll(c, p, t)
    PROVE  EndsProperly
<1>1. PICK sub : sub = NewSub(c, p, t)
  OBVIOUS
<1>2. PICK h : h = [charges |-> 0, net |-> 0]
  OBVIOUS
<1>3. subs' = Append(subs, sub) /\ history' = Append(history, h)
  BY <1>1, <1>2 DEF Enroll
<1>4. subs \in Seq(Sub) /\ history \in Seq(History) /\ Len(history) = Len(subs)
  BY DEF IInv, WorldInv, World, WorldType
<1>5. \A s \in DOMAIN subs : subs'[s] = subs[s] /\ history'[s] = history[s]
  BY <1>3, <1>4
<1> QED BY <1>5, KeptEnds

\* What a customer does to its subscription ends nothing.
LEMMA CustomerEnds ==
    ASSUME IInv, NEW c \in Customers, NEW s \in DOMAIN subs,
           \/ \E t \in Preferences : SetPreferredToken(c, s, t)
           \/ \E p \in DOMAIN plans : DowngradeSubscription(c, s, p)
           \/ \E p \in DOMAIN plans : UpgradeSubscription(c, s, p)
    PROVE  EndsProperly
<1>1. subs[s] \in Sub
  BY SubFacts
<1>2. ASSUME NEW sub, sub.status = "Active", subs[s].status = "Active",
             subs' = Updated(subs, s, sub),
             \A j \in DOMAIN subs \ {s} : history'[j] = history[j]
      PROVE  EndsProperly
  BY <1>2, StoredEnds DEF Graced, Live
<1>3. ASSUME NEW t \in Preferences, SetPreferredToken(c, s, t)
      PROVE  EndsProperly
  <2>1. PICK sub : sub = [subs[s] EXCEPT !.preferred_token = t]
    OBVIOUS
  <2>2. subs[s].status = "Active" /\ history' = history /\ subs' = Updated(subs, s, sub)
    BY <1>3, <2>1 DEF SetPreferredToken, Updated
  <2>3. sub.status = "Active"
    BY <1>1, <2>1, <2>2 DEF Sub
  <2> QED BY <1>2, <2>2, <2>3
<1>4. ASSUME NEW p \in DOMAIN plans, DowngradeSubscription(c, s, p)
      PROVE  EndsProperly
  <2>1. PICK sub : sub = [subs[s] EXCEPT !.pending_downgrade_plan_id = p]
    OBVIOUS
  <2>2. subs[s].status = "Active" /\ history' = history /\ subs' = Updated(subs, s, sub)
    BY <1>4, <2>1 DEF DowngradeSubscription, CanSwitch, Updated
  <2>3. sub.status = "Active"
    BY <1>1, <2>1, <2>2 DEF Sub
  <2> QED BY <1>2, <2>2, <2>3
<1>5. ASSUME NEW p \in DOMAIN plans, UpgradeSubscription(c, s, p)
      PROVE  EndsProperly
  <2>1. PICK sub : sub = [subs[s] EXCEPT !.plan_id = p, !.last_charged = now,
                                         !.pending_downgrade_plan_id = 0]
    OBVIOUS
  <2>2. PICK h : h = [history[s] EXCEPT !.net = @ + UpgradeCost(s, p)]
    OBVIOUS
  <2>3. PICK u : u = TransferFrom(World, c, Payee(plans[p]),
                                  BillingToken(subs[s], plans[p]), UpgradeCost(s, p))
    OBVIOUS
  <2>4. subs[s].status = "Active" /\ Install(Put(u, s, sub, h))
    BY <1>5, <2>1, <2>2, <2>3 DEF UpgradeSubscription, CanSwitch
  <2>5. sub.status = "Active"
    BY <1>1, <2>1, <2>4 DEF Sub
  <2>6. u.subs = World.subs /\ u.history = World.history /\ DOMAIN u = WorldFields
    BY <2>3, LedgerFacts, TransferFields
  <2>7. subs' = Updated(World.subs, s, sub) /\ history' = Updated(World.history, s, h)
    BY <2>4, <2>6, PutFields DEF Install
  <2>8. subs' = Updated(subs, s, sub) /\ \A j \in DOMAIN subs \ {s} : history'[j] = history[j]
    BY <2>7, StoredHistory DEF World
  <2> QED BY <1>2, <2>4, <2>5, <2>8
<1> QED BY <1>3, <1>4, <1>5

\* A cancel ends its subscription as cancelled and touches no ended one.
LEMMA CancelEnds ==
    ASSUME IInv, NEW caller \in Address, NEW s \in DOMAIN subs,
           CancelSubscription(caller, s) \/ CancelWithProratedRefund(caller, s)
    PROVE  EndsProperly
<1>1. subs[s] \in Sub
  BY SubFacts
<1>2. PICK sub : sub = [subs[s] EXCEPT !.status = "Cancelled"]
  OBVIOUS
<1>3. sub.status = "Cancelled"
  BY <1>1, <1>2 DEF Sub
<1>4. Graced(subs[s], sub)
  BY <1>3 DEF Graced
<1>5. CASE CancelSubscription(caller, s)
  <2>1. Live(subs[s]) /\ history' = history /\ subs' = Updated(subs, s, sub)
    BY <1>2, <1>5 DEF CancelSubscription, Updated
  <2> QED BY <1>4, <2>1, StoredEnds
<1>6. CASE CancelWithProratedRefund(caller, s)
  <2> DEFINE plan == plans[subs[s].plan_id]
             refund == ProratedRefund(subs[s], plan, now)
             token == BillingToken(subs[s], plan)
  <2>1. PICK h : h = [history[s] EXCEPT !.net = @ - refund]
    OBVIOUS
  <2>2. PICK u : u = TransferFrom(World, Payee(plan), subs[s].customer, token, refund)
    OBVIOUS
  <2>3. Live(subs[s]) /\ Install(Put(u, s, sub, h))
    BY <1>2, <1>6, <2>1, <2>2 DEF CancelWithProratedRefund
  <2>4. u.subs = World.subs /\ u.history = World.history /\ DOMAIN u = WorldFields
    BY <2>2, LedgerFacts, TransferFields
  <2>5. subs' = Updated(World.subs, s, sub) /\ history' = Updated(World.history, s, h)
    BY <2>3, <2>4, PutFields DEF Install
  <2>6. subs' = Updated(subs, s, sub) /\ \A j \in DOMAIN subs \ {s} : history'[j] = history[j]
    BY <2>5, StoredHistory DEF World
  <2> QED BY <1>4, <2>3, <2>6, StoredEnds
<1> QED BY <1>5, <1>6

\* A charge, a sweep of one or enforce_grace ends its subscription properly.
LEMMA SchedulerEnds ==
    ASSUME IInv, NEW s \in DOMAIN subs,
           Charge(s) \/ ProcessCharge(s) \/ EnforceGrace(s)
    PROVE  EndsProperly
<1>1. Context(World, s) /\ World.subs = subs /\ World.history = history /\ subs[s] \in Sub
  BY SubFacts DEF World
<1>2. CASE ProcessCharge(s)
  <2>1. Install(StepBillingCycle(World, s))
    BY <1>2 DEF ProcessCharge
  <2>2. Effects(World, StepBillingCycle(World, s))
    BY <1>1, StepEffects
  <2> QED BY <2>1, <2>2, InstalledEnds
<1>3. CASE Charge(s)
  <2> DEFINE sub == Billed(World, s)
             plan == plans[sub.plan_id]
  <2>1. /\ CycleDue(World.subs[s], plans[World.subs[s].plan_id])
        /\ CanTransferFrom(World, sub.customer, BillingToken(sub, plan), plan.amount)
        /\ Install(Collected(World, s, sub, plan))
    BY <1>1, <1>3 DEF Charge, CycleDue
  <2>2. /\ World.allowance[sub.customer][BillingToken(sub, plan)] \in Nat
        /\ plan.amount \in Int
    <3>1. sub \in Sub /\ plan \in Plan
      BY <1>1, ContextFacts DEF PlanInv
    <3>2. sub.customer \in Address /\ BillingToken(sub, plan) \in Tokens
      BY <3>1, BillingParties DEF Sub
    <3> QED BY <3>1, <3>2, LedgerFacts DEF World, Ledger, Plan
  <2>3. StepBillingCycle(World, s) = Collected(World, s, sub, plan)
    BY <2>1, <2>2 DEF StepBillingCycle, AllowanceCovers, CanTransferFrom
  <2>4. Effects(World, StepBillingCycle(World, s))
    BY <1>1, StepEffects
  <2> QED BY <2>1, <2>3, <2>4, InstalledEnds
<1>4. CASE EnforceGrace(s)
  <2>1. PICK sub : sub = [subs[s] EXCEPT !.status = "Terminated"]
    OBVIOUS
  <2>2. /\ subs[s].status = "PastDue"
        /\ now > subs[s].past_due_since + plans[subs[s].plan_id].grace_period
        /\ subs' = Updated(subs, s, sub) /\ history' = history
    BY <1>4, <2>1 DEF EnforceGrace, Updated
  <2>3. sub.plan_id = subs[s].plan_id
    BY <1>1, <2>1 DEF Sub
  <2>4. Live(subs[s]) /\ Graced(subs[s], sub)
    BY <2>2, <2>3 DEF Live, Graced
  <2> QED BY <2>2, <2>4, StoredEnds
<1> QED BY <1>2, <1>3, <1>4

\* Every step ends subscriptions properly.
LEMMA EndsStep ==
    ASSUME IInv, [Next]_vars
    PROVE  EndsProperly
<1>1. CASE subs' = subs /\ history' = history
  BY <1>1, KeptEnds
<1>2. CASE AdminStep
  BY <1>1, <1>2 DEF AdminStep, Initialize, AddAcceptedToken
<1>3. CASE MerchantStep
  BY <1>1, <1>3 DEF MerchantStep, CreatePlan, SetPlanGracePeriod, UpdatePlanAmount,
                    UpdatePlanInterval, DeactivatePlan, EditPlan
<1>4. ASSUME NEW c \in Customers, NEW p \in DOMAIN plans,
             Subscribe(c, p) \/ \E t \in Preferences \ {None} : SubscribeWithToken(c, p, t)
      PROVE  EndsProperly
  BY <1>4, EnrollEnds DEF Subscribe, SubscribeWithToken
<1>5. ASSUME NEW c \in Customers, NEW s \in DOMAIN subs,
             RevokeBillingAuthorization(c, s) \/ \E n \in Cycles : AuthorizeBilling(c, s, n)
      PROVE  EndsProperly
  BY <1>1, <1>5 DEF RevokeBillingAuthorization, AuthorizeBilling
<1>6. CASE CustomerStep
  BY <1>4, <1>5, <1>6, CustomerEnds DEF CustomerStep
<1>7. CASE CancelStep
  BY <1>7, CancelEnds DEF CancelStep
<1>8. CASE SchedulerStep
  BY <1>8, SchedulerEnds, BatchEnds DEF SchedulerStep
<1>9. CASE TokenStep
  BY <1>1, <1>9 DEF TokenStep, TokenApprove, TokenTransfer
<1>10. CASE Tick
  BY <1>1, <1>10 DEF Tick
<1>11. CASE UNCHANGED vars
  BY <1>1, <1>11 DEF vars
<1> QED BY <1>2, <1>3, <1>6, <1>7, <1>8, <1>9, <1>10, <1>11 DEF Next

\* No transaction, whichever entry point or batch it is, ends a subscription for
\* non-payment before the grace period of the plan it is then on is over.
THEOREM GraceHonouredHolds == Spec => GraceHonoured
<1> DEFINE Honoured ==
        \A s \in DOMAIN subs :
            Live(subs[s]) /\ subs'[s].status = "Terminated" =>
                LET grace == plans[subs'[s].plan_id].grace_period
                IN  \/ subs[s].status = "Active" /\ grace = 0
                    \/ subs[s].status = "PastDue"
                       /\ now > subs[s].past_due_since + grace
<1>1. IInv /\ [Next]_vars => [Honoured]_vars
  BY EndsStep DEF EndsProperly, Graced
<1> QED BY <1>1, Invariance, PTL DEF Spec, GraceHonoured

\* A subscription that was cancelled or terminated is never written again.
THEOREM EndedStaysEndedHolds == Spec => EndedStaysEnded
<1> DEFINE Stays ==
        \A s \in DOMAIN subs :
            subs[s].status \in {"Cancelled", "Terminated"} =>
                /\ subs'[s] = subs[s]
                /\ history'[s] = history[s]
<1>1. IInv /\ [Next]_vars => [Stays]_vars
  BY EndsStep DEF EndsProperly
<1> QED BY <1>1, Invariance, PTL DEF Spec, EndedStaysEnded
=============================================================================
