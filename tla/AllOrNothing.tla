---------------------------- MODULE AllOrNothing ----------------------------
(***************************************************************************)
(* What a crowdfund campaign promises, without goals, deadlines, votes or   *)
(* matching: it collects while it is open, it closes once, funded or        *)
(* failed, and from then on what it holds goes to its organizer if it was   *)
(* funded and back to its backers if it failed -- never the other way, and  *)
(* never more than it holds.  Sponsors may add money at any time.           *)
(***************************************************************************)
EXTENDS Integers

VARIABLES
    outcome,   \* "open", then "funded" or "failed" for good
    raised,    \* what counts towards the goal
    held,      \* what the campaign holds
    taken,     \* what its organizer received
    refunded   \* what its backers got back

vars == <<outcome, raised, held, taken, refunded>>

Init ==
    /\ outcome = "open"
    /\ raised = 0
    /\ held = 0
    /\ taken = 0
    /\ refunded = 0

Collect ==
    /\ outcome = "open"
    /\ raised' > raised
    /\ held' > held
    /\ UNCHANGED <<outcome, taken, refunded>>

Sponsor ==
    /\ held' > held
    /\ UNCHANGED <<outcome, raised, taken, refunded>>

Close ==
    /\ outcome = "open"
    /\ outcome' \in {"funded", "failed"}
    /\ UNCHANGED <<raised, held, taken, refunded>>

PayOut ==
    /\ outcome = "funded"
    /\ \E amt \in 1 .. held :
        /\ held' = held - amt
        /\ taken' = taken + amt
    /\ UNCHANGED <<outcome, raised, refunded>>

GiveBack ==
    /\ outcome = "failed"
    /\ \E amt \in 1 .. held :
        /\ held' = held - amt
        /\ refunded' = refunded + amt
    /\ UNCHANGED <<outcome, raised, taken>>

Next == Collect \/ Sponsor \/ Close \/ PayOut \/ GiveBack

Spec == Init /\ [][Next]_vars
=============================================================================
