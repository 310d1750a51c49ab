----------------------------- MODULE Ticketing -----------------------------
(***************************************************************************)
(* The ticketing contract (contracts/ticketing): events with a capacity and *)
(* price tiers, tickets that are issued, passed on, resold, refunded and    *)
(* checked in, and a waiting list per event whose head takes the seat that  *)
(* a refund frees, in the same transaction.                                 *)
(*                                                                         *)
(* Every entry point is one atomic transaction.  No entry point compares    *)
(* times, so the model has no clock.                                        *)
(***************************************************************************)
EXTENDS TokenLedger, Sequences, FiniteSets, FiniteSetsExt, Functions

CONSTANTS
    Person,      \* the wallets: holders of tickets and tokens
    Organizers,  \* who creates events
    Capacities,  \* the capacities create_event may be called with; None is no limit
    Supplies,    \* the supplies add_tier may be called with
    Hashes,      \* the QR hashes organizers choose
    Royalties,   \* the basis points set_resale_config may be called with
    Prices,      \* the prices resell_ticket may be called with
    Funds,       \* the balances at deployment
    MaxEvents,   \* bound: events created
    MaxTiers,    \* bound: tiers added
    MaxTickets   \* bound: tickets issued

\* The placeholder hash of a ticket that replaces ticket i.  It is made of i (and the
\* time of the refund), and no hash function that an organizer uses yields it.
Placeholder(i) == <<i>>

ASSUME TicketingAssumption ==
    /\ Organizers \subseteq Person
    /\ None \notin Person \cup Nat
    /\ Capacities \subseteq Nat \cup {None}
    /\ Supplies \subseteq Nat
    /\ Royalties \subseteq Nat
    /\ Prices \subseteq Int
    /\ Funds \in [Person -> [Tokens -> Nat]]
    /\ {MaxEvents, MaxTiers, MaxTickets} \subseteq Nat

ASSUME HashesAssumption == \A i \in 1 .. MaxTickets : Placeholder(i) \notin Hashes

VARIABLES
    events,   \* DataKey::Event, EventTickets, the waiting list, ResaleConfig
    tiers,    \* DataKey::Tier
    tickets,  \* DataKey::Ticket
    bank      \* token contracts: the balance of each holder

vars == <<events, tiers, tickets, bank>>

-----------------------------------------------------------------------------
ResaleConfig == [token : Tokens, royalty_bps : 0 .. 10000]

\* seats is EventTickets as a set: only views show its order.
Event == [organizer : Organizers, max_capacity : Nat \cup {None},
          state : {"Active", "Cancelled"}, seats : SUBSET Nat, waitlist : Seq(Person),
          resale : ResaleConfig \cup {None}]

\* A tier's name and price are shown by views only.
Tier == [event_id : Nat, max_supply : Nat, sold : Nat]

Ticket == [event_id : Nat, holder : Person,
           qr_hash : Hashes \cup {Placeholder(i) : i \in 1 .. MaxTickets},
           checked_in : BOOLEAN, refunded : BOOLEAN, tier_id : Nat \cup {None}]

TicketingTypeOK ==
    /\ events \in Seq(Event)
    /\ tiers \in Seq(Tier)
    /\ tickets \in Seq(Ticket)
    /\ \A k \in DOMAIN tiers : tiers[k].event_id \in DOMAIN events
    /\ \A i \in DOMAIN tickets :
        /\ tickets[i].event_id \in DOMAIN events
        /\ tickets[i].tier_id \in DOMAIN tiers \cup {None}
    /\ bank \in [Person -> [Tokens -> Nat]]

Init ==
    /\ events = << >>
    /\ tiers = << >>
    /\ tickets = << >>
    /\ bank = Funds

-----------------------------------------------------------------------------
(* The organizer's side. *)

CreateEvent(o, capacity) ==
    /\ Len(events) < MaxEvents
    /\ events' = Append(events,
            [organizer |-> o, max_capacity |-> capacity, state |-> "Active",
             seats |-> {}, waitlist |-> << >>, resale |-> None])
    /\ UNCHANGED <<tiers, tickets, bank>>

\* What is already sold, queued or offered for resale stays.
CancelEvent(e) ==
    /\ events[e].state = "Active"
    /\ events' = [events EXCEPT ![e].state = "Cancelled"]
    /\ UNCHANGED <<tiers, tickets, bank>>

TiersOf(e) == {k \in DOMAIN tiers : tiers[k].event_id = e}

MaxSupply(e) == SumFunction([k \in TiersOf(e) |-> tiers[k].max_supply])

AddTier(e, supply) ==
    /\ Len(tiers) < MaxTiers
    /\ supply > 0
    /\ events[e].max_capacity # None => MaxSupply(e) + supply <= events[e].max_capacity
    /\ tiers' = Append(tiers, [event_id |-> e, max_supply |-> supply, sold |-> 0])
    /\ UNCHANGED <<events, tickets, bank>>

SetResaleConfig(e, t, bps) ==
    /\ bps <= 10000
    /\ events' = [events EXCEPT ![e].resale = [token |-> t, royalty_bps |-> bps]]
    /\ UNCHANGED <<tiers, tickets, bank>>

-----------------------------------------------------------------------------
(* Issuing. *)

Full_OneMore(e) ==  \* fault: > for >=
    events[e].max_capacity # None /\ Cardinality(events[e].seats) > events[e].max_capacity

Full(e) ==
    events[e].max_capacity # None /\ Cardinality(events[e].seats) >= events[e].max_capacity

Unused_SameEvent(hash, e) ==  \* fault: only the event's active tickets are compared
    \A i \in events[e].seats : tickets[i].qr_hash # hash

Unused(hash, e) == \A i \in DOMAIN tickets : tickets[i].qr_hash # hash

Issued(e, h, hash, tier) ==
    [event_id |-> e, holder |-> h, qr_hash |-> hash, checked_in |-> FALSE,
     refunded |-> FALSE, tier_id |-> tier]

NextTicket == Len(tickets) + 1

Issue(e, h, hash, tier) ==
    /\ Len(tickets) < MaxTickets
    /\ ~Full(e)
    /\ Unused(hash, e)
    /\ tickets' = Append(tickets, Issued(e, h, hash, tier))
    /\ events' = [events EXCEPT ![e].seats = @ \cup {NextTicket}]

IssueTicket(e, h, hash) ==
    /\ events[e].state = "Active"
    /\ Issue(e, h, hash, None)
    /\ UNCHANGED <<tiers, bank>>

SoldAfter_Kept(tier) == tier.sold  \* fault: the sale is not counted

SoldAfter(tier) == tier.sold + 1

\* Whether the event was cancelled is not asked, here and in a refund's assignment.
IssueTieredTicket(e, h, hash, k) ==
    /\ tiers[k].event_id = e
    /\ tiers[k].sold < tiers[k].max_supply
    /\ Issue(e, h, hash, k)
    /\ tiers' = [tiers EXCEPT ![k].sold = SoldAfter(tiers[k])]
    /\ UNCHANGED bank

-----------------------------------------------------------------------------
(* What holders do. *)

CheckIn(i) ==
    /\ ~tickets[i].checked_in
    /\ tickets' = [tickets EXCEPT ![i].checked_in = TRUE]
    /\ UNCHANGED <<events, tiers, bank>>

Transferable_Used(i) == TRUE  \* fault: a checked-in ticket is passed on

Transferable(i) == ~tickets[i].checked_in

TransferTicket(i, to) ==
    /\ Transferable(i)
    /\ tickets' = [tickets EXCEPT ![i].holder = to]
    /\ UNCHANGED <<events, tiers, bank>>

Royalty(price, bps) == (price * bps) \div 10000

ResellTicket(i, buyer, price) ==
    LET seller  == tickets[i].holder
        event   == events[tickets[i].event_id]
        config  == event.resale
        t       == config.token
        royalty == Royalty(price, config.royalty_bps)
        paid    == Moved(bank, buyer, seller, t, price - royalty)
    IN  /\ price > 0
        /\ buyer # seller
        /\ Transferable(i)
        /\ config # None
        /\ CanPay(bank, buyer, t, price - royalty)
        /\ CanPay(paid, buyer, t, royalty)
        /\ bank' = Moved(paid, buyer, event.organizer, t, royalty)
        /\ tickets' = [tickets EXCEPT ![i].holder = buyer]
        /\ UNCHANGED <<events, tiers>>

Seatless_Kept(seats, i) == seats  \* fault: the refunded ticket stays on the list

\* remove_ticket_from_event.
Seatless(seats, i) == seats \ {i}

Refundable(i) == ~tickets[i].checked_in /\ ~tickets[i].refunded

\* A tier's count of sold tickets is not reduced.
RefundTicket(i) ==
    LET e        == tickets[i].event_id
        left     == Seatless(events[e].seats, i)
        refunded == [tickets EXCEPT ![i].refunded = TRUE]
        waiting  == events[e].waitlist
    IN  /\ Refundable(i)
        /\ \/ /\ waiting = << >>
              /\ tickets' = refunded
              /\ events' = [events EXCEPT ![e].seats = left]
           \/ /\ waiting # << >>
              /\ Len(tickets) < MaxTickets
              /\ tickets' = Append(refunded, Issued(e, Head(waiting), Placeholder(i), None))
              /\ events' = [events EXCEPT ![e].seats = left \cup {NextTicket},
                                          ![e].waitlist = Tail(@)]
        /\ UNCHANGED <<tiers, bank>>

MayQueue_Early(e) == events[e].max_capacity # None  \* fault: seats may be left

MayQueue(e) == Full(e)

JoinWaitlist(e, p) ==
    /\ MayQueue(e)
    /\ p \notin Range(events[e].waitlist)
    /\ events' = [events EXCEPT ![e].waitlist = Append(@, p)]
    /\ UNCHANGED <<tiers, tickets, bank>>

-----------------------------------------------------------------------------
OrganizerStep ==
    \/ \E o \in Organizers, capacity \in Capacities : CreateEvent(o, capacity)
    \/ \E e \in DOMAIN events :
        \/ CancelEvent(e)
        \/ \E supply \in Supplies : AddTier(e, supply)
        \/ \E t \in Tokens, bps \in Royalties : SetResaleConfig(e, t, bps)
        \/ \E h \in Person, hash \in Hashes :
            \/ IssueTicket(e, h, hash)
            \/ \E k \in DOMAIN tiers : IssueTieredTicket(e, h, hash, k)
    \/ \E i \in DOMAIN tickets : CheckIn(i)

HolderStep ==
    \/ \E i \in DOMAIN tickets :
        \/ \E p \in Person :
            \/ TransferTicket(i, p)
            \/ \E price \in Prices : ResellTicket(i, p, price)
        \/ RefundTicket(i)
    \/ \E e \in DOMAIN events, p \in Person : JoinWaitlist(e, p)

Next == OrganizerStep \/ HolderStep

Spec == Init /\ [][Next]_vars

-----------------------------------------------------------------------------
(* Properties. *)

\* The seats an event counts against its capacity are exactly its tickets that were
\* not refunded, and never more than the capacity, whether they were issued, issued
\* from a tier, or handed to the waiting list by a refund.
SeatsAgree ==
    \A e \in DOMAIN events :
        /\ events[e].seats =
                {i \in DOMAIN tickets : tickets[i].event_id = e /\ ~tickets[i].refunded}
        /\ events[e].max_capacity # None =>
                Cardinality(events[e].seats) <= events[e].max_capacity

\* Nobody waits while a seat is free, so the organizer's issues never overtake the
\* waiting list; and nobody waits twice.
NoSeatIdle ==
    \A e \in DOMAIN events :
        LET waiting == events[e].waitlist
        IN  /\ waiting # << >> => Full(e)
            /\ \A x, y \in DOMAIN waiting : waiting[x] = waiting[y] => x = y

\* The tiers promise no more tickets than the event has seats, and a tier's count is
\* the number of its tickets ever issued, all of its own event, within its supply.
TiersHonoured ==
    /\ \A e \in DOMAIN events :
        events[e].max_capacity # None => MaxSupply(e) <= events[e].max_capacity
    /\ \A k \in DOMAIN tiers :
        LET sold == {i \in DOMAIN tickets : tickets[i].tier_id = k}
        IN  /\ tiers[k].sold = Cardinality(sold)
            /\ tiers[k].sold <= tiers[k].max_supply
            /\ \A i \in sold : tickets[i].event_id = tiers[k].event_id

\* No two tickets of the contract, of whatever event, share a QR hash, so a hash
\* shown at the door belongs to one ticket.
HashesUnique ==
    \A i, j \in DOMAIN tickets : tickets[i].qr_hash = tickets[j].qr_hash => i = j

\* A used ticket is used for good: it is not passed on, resold, refunded or checked
\* in again, so its seat is not given away either.
UsedForGood ==
    [][\A i \in DOMAIN tickets :
            tickets[i].checked_in =>
                /\ tickets'[i] = tickets[i]
                /\ i \in events'[tickets[i].event_id].seats
                    <=> i \in events[tickets[i].event_id].seats]_vars
=============================================================================
