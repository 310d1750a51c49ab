----------------------------- MODULE ShadeEvents -----------------------------
(***************************************************************************)
(* Events and tickets of the Shade contract (shade/src/components/event.rs): *)
(* a merchant sells the seats of an event one by one, through the platform's *)
(* fees and analytics, or in bulk; holders resell their tickets at a royalty; *)
(* a cancellation refunds every ticket in the same transaction.             *)
(*                                                                         *)
(* The clock's origin is arbitrary, so the code's early_bird_end of 0, which *)
(* means no dynamic pricing, is None here.                                  *)
(***************************************************************************)
EXTENDS Merchants, Lists, SequencesExt

CONSTANTS
    Buyers,       \* the wallets that buy and resell tickets
    Shows,        \* what create_event may be called with
    Pricings,     \* what configure_dynamic_pricing may be called with
    Resales,      \* the prices resell_ticket may be called with
    Quantities,   \* what purchase_tickets_bulk may be called with
    MaxEvents,    \* bound: events created
    MaxTickets    \* bound: tickets sold one by one

ASSUME EventsAssumption ==
    /\ Buyers \subseteq Holder \ Account
    /\ \A s \in Shows : /\ s.price \in Int /\ s.token \in Tokens
                        /\ {s.capacity, s.royalty_bps, s.event_date} \subseteq Nat
    /\ \A d \in Pricings : /\ d.early_bird_end \in Nat \cup {None}
                           /\ {d.discount_bps, d.markup_bps} \subseteq Nat
    /\ Resales \subseteq Int
    /\ Quantities \subseteq Nat
    /\ {MaxEvents, MaxTickets} \subseteq Nat

VARIABLES
    events,       \* DataKey::Event and EventTickets
    tickets,      \* DataKey::Ticket
    userTickets,  \* DataKey::UserTickets
    bulk,         \* history variable: the seats of each event sold in bulk
    offBooks      \* history variable: what accounts got that no analytics count

eventVars == <<events, tickets, userTickets, bulk, offBooks>>

BasisPoints == 0 .. 10000

Event == [merchant : Seller, price : Nat, token : Tokens, capacity : Nat, sold : Nat,
          event_date : Nat, royalty_bps : BasisPoints, early_bird_end : Nat \cup {None},
          discount_bps : BasisPoints, markup_bps : BasisPoints, cancelled : BOOLEAN,
          refunds_processed : BOOLEAN, tickets : Seq(Nat)]

Ticket == [event_id : Nat, owner : Buyers, purchase_price : Nat]

EventsTypeOK ==
    /\ events \in Seq(Event)
    /\ tickets \in Seq(Ticket)
    /\ userTickets \in [Buyers -> Seq(Nat)]
    /\ bulk \in Seq(Nat)
    /\ offBooks \in [Tokens -> Nat]

EventsInit ==
    /\ events = << >>
    /\ tickets = << >>
    /\ userTickets = [p \in Buyers |-> << >>]
    /\ bulk = << >>
    /\ offBooks = [t \in Tokens |-> 0]

-----------------------------------------------------------------------------
(* The merchant's side. *)

CreateEvent(m, s) ==
    /\ Len(events) < MaxEvents
    /\ ~paused
    /\ s.price > 0
    /\ s.capacity > 0
    /\ s.royalty_bps <= 10000
    /\ s.event_date >= now
    /\ s.token \in accepted
    /\ IsMerchant(m)
    /\ merchants[m].active
    /\ events' = Append(events,
            [merchant |-> m, price |-> s.price, token |-> s.token, capacity |-> s.capacity,
             sold |-> 0, event_date |-> s.event_date, royalty_bps |-> s.royalty_bps,
             early_bird_end |-> None, discount_bps |-> 0, markup_bps |-> 0,
             cancelled |-> FALSE, refunds_processed |-> FALSE, tickets |-> << >>])
    /\ bulk' = Append(bulk, 0)
    /\ UNCHANGED <<platformVars, merchantVars, tickets, userTickets, offBooks>>

ConfigureDynamicPricing(e, d) ==
    /\ ~paused
    /\ ~events[e].cancelled
    /\ d.discount_bps <= 10000
    /\ d.markup_bps <= 10000
    /\ d.early_bird_end # None => d.early_bird_end \in now .. events[e].event_date
    /\ events' = [events EXCEPT ![e] =
            [@ EXCEPT !.early_bird_end = d.early_bird_end,
                      !.discount_bps = d.discount_bps,
                      !.markup_bps = d.markup_bps]]
    /\ UNCHANGED <<platformVars, merchantVars, tickets, userTickets, bulk, offBooks>>

-----------------------------------------------------------------------------
(* Sales. *)

BpsOf(value, bps) == (value * bps) \div 10000

\* resolve_current_ticket_price.
CurrentPrice(event) ==
    CASE event.early_bird_end = None -> event.price
      [] event.early_bird_end # None /\ now <= event.early_bird_end ->
            event.price - BpsOf(event.price, event.discount_bps)
      [] OTHER -> event.price + BpsOf(event.price, event.markup_bps)

SeatsLeft_OneMore(event, n) == event.sold + n <= event.capacity + 1  \* fault: > for >=

SeatsLeft(event, n) == event.sold + n <= event.capacity

\* Neither the merchant's status nor its own token list is asked.
PurchaseTicket(e, p) ==
    LET event   == events[e]
        t       == event.token
        amt     == CurrentPrice(event)
        charged == CalculateFee(stats, event.merchant, t, amt)
        i       == Len(tickets) + 1
    IN  /\ i <= MaxTickets
        /\ ~paused
        /\ ~event.cancelled
        /\ SeatsLeft(event, 1)
        /\ t \in accepted
        /\ charged < amt
        /\ TakePayment(p, event.merchant, t, amt, charged)
        /\ tickets' = Append(tickets, [event_id |-> e, owner |-> p, purchase_price |-> amt])
        /\ userTickets' = [userTickets EXCEPT ![p] = Append(@, i)]
        /\ events' = [events EXCEPT ![e].tickets = Append(@, i), ![e].sold = @ + 1]
        /\ UNCHANGED <<configVars, merchants, account, bulk, offBooks>>

\* The discount on a bulk purchase, in basis points.
GroupDiscount(n) ==
    CASE n >= 20             -> 1500
      [] n >= 10 /\ n < 20   -> 1000
      [] n >= 5 /\ n < 10    -> 500
      [] OTHER               -> 0

BulkPrice(event, n) ==
    LET gross == CurrentPrice(event) * n
    IN  gross - (gross * GroupDiscount(n)) \div 10000

OffBooks(to, t, amt) ==
    IF to \in Account THEN [offBooks EXCEPT ![t] = @ + amt] ELSE offBooks

\* The caller names the token and the payee.  No ticket is written, no fee is
\* charged and nothing is recorded; the count of sold seats is all that remains.
PurchaseTicketsBulk(e, p, n, t, to) ==
    LET paid == BulkPrice(events[e], n)
    IN  /\ ~paused
        /\ n > 0
        /\ ~events[e].cancelled
        /\ SeatsLeft(events[e], n)
        /\ CanPay(bank, p, t, paid)
        /\ bank' = Moved(bank, p, to, t, paid)
        /\ flow' = Received(flow, to, t, paid)
        /\ offBooks' = OffBooks(to, t, paid)
        /\ events' = [events EXCEPT ![e].sold = @ + n]
        /\ bulk' = [bulk EXCEPT ![e] = @ + n]
        /\ UNCHANGED <<platformVars, merchants, account, tickets, userTickets>>

-----------------------------------------------------------------------------
(* Resale and cancellation. *)

WithoutTicket_Last(list, i) ==  \* fault: the list's last ticket goes, whichever it is
    SubSeq(list, 1, Len(list) - 1)

\* remove_user_ticket.
WithoutTicket(list, i) == Sifted(list, Range(list) \ {i})

ResellTicket(i, p, asked) ==
    LET seller  == tickets[i].owner
        event   == events[tickets[i].event_id]
        t       == event.token
        till    == merchants[event.merchant].account
        royalty == BpsOf(asked, event.royalty_bps)
        paid    == Moved(bank, p, seller, t, asked - royalty)
        removed == [userTickets EXCEPT ![seller] = WithoutTicket(@, i)]
    IN  /\ ~paused
        /\ asked > 0
        /\ p # seller
        /\ ~event.cancelled
        /\ t \in accepted
        /\ till # None
        /\ CanPay(bank, p, t, asked - royalty)
        /\ CanPay(paid, p, t, royalty)
        /\ bank' = Moved(paid, p, till, t, royalty)
        /\ flow' = Received(flow, till, t, royalty)
        /\ offBooks' = OffBooks(till, t, royalty)
        /\ tickets' = [tickets EXCEPT ![i].owner = p]
        /\ userTickets' = [removed EXCEPT ![p] = Append(@, i)]
        /\ UNCHANGED <<platformVars, merchants, account, events, bulk>>

RefundNext_Today(w, m, t, i) ==  \* fault: the present price, not the one paid
    LET ticket == tickets[i]
        due    == CurrentPrice(events[ticket.event_id])
    IN  [bank    |-> Moved(w.bank, m, ticket.owner, t, due),
         covered |-> w.covered /\ CanPay(w.bank, m, t, due)]

\* The refund of ticket i by merchant m, on the outcome w of the refunds before it.
RefundNext(w, m, t, i) ==
    LET ticket == tickets[i]
    IN  [bank    |-> Moved(w.bank, m, ticket.owner, t, ticket.purchase_price),
         covered |-> w.covered /\ CanPay(w.bank, m, t, ticket.purchase_price)]

\* The refunds of an event's tickets, in the order of its list.
RefundAll(e) ==
    LET event == events[e]
        after[k \in 0 .. Len(event.tickets)] ==
            IF k = 0 THEN [bank |-> bank, covered |-> TRUE]
            ELSE RefundNext(after[k - 1], event.merchant, event.token, event.tickets[k])
    IN  after[Len(event.tickets)]

Refundable_Cancelled(event) == TRUE  \* fault: refunds_processed is not asked

Refundable(event) == ~event.refunds_processed

\* The merchant pays from its wallet, not from the account that took the money, and
\* whoever holds the ticket gets what its first buyer paid.
CancelEventAndBatchRefund(e) ==
    /\ ~paused
    /\ Refundable(events[e])
    /\ RefundAll(e).covered
    /\ bank' = RefundAll(e).bank
    /\ events' = [events EXCEPT ![e].cancelled = TRUE, ![e].refunds_processed = TRUE]
    /\ UNCHANGED <<platformVars, merchants, account, flow, tickets, userTickets,
                   bulk, offBooks>>

-----------------------------------------------------------------------------
EventsNext ==
    \/ \E m \in Seller, s \in Shows : CreateEvent(m, s)
    \/ \E e \in DOMAIN events :
        \/ \E d \in Pricings : ConfigureDynamicPricing(e, d)
        \/ CancelEventAndBatchRefund(e)
        \/ \E p \in Buyers :
            \/ PurchaseTicket(e, p)
            \/ \E n \in Quantities, t \in Tokens, to \in Routes :
                PurchaseTicketsBulk(e, p, n, t, to)
    \/ \E i \in DOMAIN tickets, p \in Buyers, asked \in Resales : ResellTicket(i, p, asked)

eventsSystemVars == <<platformVars, merchantVars, eventVars>>

EventsSystemInit == MerchantsInit /\ EventsInit

EventsSystemNext ==
    \/ MerchantsNext /\ UNCHANGED eventVars
    \/ EventsNext

EventsSpec == EventsSystemInit /\ [][EventsSystemNext]_eventsSystemVars

-----------------------------------------------------------------------------
(* Properties. *)

TicketsOf(e) == {i \in DOMAIN tickets : tickets[i].event_id = e}

\* No mix of single and bulk sales oversells an event: its count of sold seats is
\* that of its tickets, each listed once, and of the seats sold in bulk, and never
\* exceeds the capacity.
NeverOversold ==
    \A e \in DOMAIN events :
        LET event == events[e]
        IN  /\ event.sold <= event.capacity
            /\ event.sold = Len(event.tickets) + bulk[e]
            /\ IsInjective(event.tickets)
            /\ Range(event.tickets) = TicketsOf(e)

\* A wallet's list of tickets is what it owns, each ticket once, after any chain of
\* sales and resales, also when a ticket comes back to an earlier holder.
HoldersListed ==
    \A p \in Buyers :
        /\ IsInjective(userTickets[p])
        /\ Range(userTickets[p]) = {i \in DOMAIN tickets : tickets[i].owner = p}

\* A cancellation is all or nothing, and each holder gets exactly what the tickets in
\* its hands were first sold for: not today's price, nor what it paid in a resale.
HoldersRefunded ==
    [][\A e \in DOMAIN events :
            LET event  == events[e]
                held(p) == {i \in TicketsOf(e) : tickets[i].owner = p}
            IN  events'[e].refunds_processed /\ ~event.refunds_processed =>
                    \A p \in Buyers \ {event.merchant} :
                        bank'[p][event.token] - bank[p][event.token] =
                            SumFunction([i \in held(p) |-> tickets[i].purchase_price])
      ]_eventsSystemVars

\* Once an event is cancelled nothing of it moves again: no sale, no resale, no new
\* price.  And a merchant's wallet pays out only in the step that cancels one of its
\* events, so no ticket is refunded twice.
CancelledClosed ==
    [][/\ \A e \in DOMAIN events :
            events[e].cancelled =>
                /\ events[e].refunds_processed
                /\ events'[e] = events[e]
                /\ \A i \in TicketsOf(e) : tickets'[i] = tickets[i]
       /\ \A m \in Seller \ Buyers, t \in Tokens :
            bank'[m][t] < bank[m][t] =>
                \E e \in DOMAIN events :
                    /\ events[e].merchant = m
                    /\ ~events[e].cancelled
                    /\ events'[e].cancelled]_eventsSystemVars
=============================================================================
