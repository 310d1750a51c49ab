-------------------------- MODULE TicketingProofs --------------------------
(***************************************************************************)
(* Theorems about the ticketing contract, for every value of the constants: *)
(* its types, that seats and tickets agree and no event is oversold, that   *)
(* nobody waits for a free seat, that hashes are unique, that a used ticket  *)
(* stays used, and that tiers are honoured.  All but the last follow from    *)
(* one inductive invariant; the tiers have one of their own.                 *)
(***************************************************************************)
EXTENDS Ticketing, TokenLedgerProofs, FoldTheorems, SequenceTheorems

-----------------------------------------------------------------------------
(* The inductive invariant. *)

\* A placeholder hash shows that the ticket it is made of was refunded, which happens
\* to a ticket once.
PlaceholdersRefunded ==
    \A i \in 1 .. MaxTickets, j \in DOMAIN tickets :
        tickets[j].qr_hash = Placeholder(i) => i \in DOMAIN tickets /\ tickets[i].refunded

Booked ==
    /\ SeatsAgree
    /\ NoSeatIdle
    /\ HashesUnique
    /\ PlaceholdersRefunded

TicketingInv ==
    /\ TicketingTypeOK
    /\ Len(tickets) <= MaxTickets
    /\ Booked

-----------------------------------------------------------------------------
(* Records kept by number. *)

\* Writing a record leaves the others.
LEMMA Written ==
  ASSUME NEW S, NEW s \in Seq(S), NEW k \in DOMAIN s, NEW x \in S
  PROVE  LET t == [s EXCEPT ![k] = x]
         IN  /\ t \in Seq(S)
             /\ Len(t) = Len(s)
             /\ DOMAIN t = DOMAIN s
             /\ t[k] = x
             /\ \A j \in DOMAIN s \ {k} : t[j] = s[j]
  OBVIOUS

\* A new record takes the next number.
LEMMA Added ==
  ASSUME NEW S, NEW s \in Seq(S), NEW x \in S
  PROVE  LET t == Append(s, x)
             n == Len(s) + 1
         IN  /\ t \in Seq(S)
             /\ Len(t) = n
             /\ DOMAIN s = 1 .. Len(s)
             /\ DOMAIN t = DOMAIN s \cup {n}
             /\ n \in Nat \ DOMAIN s
             /\ t[n] = x
             /\ \A j \in DOMAIN s : t[j] = s[j]
  OBVIOUS

\* The records of a typed state.
LEMMA TypeFacts ==
  ASSUME TicketingTypeOK
  PROVE  /\ \A e \in DOMAIN events : events[e] \in Event /\ e \in Nat
         /\ \A k \in DOMAIN tiers : tiers[k] \in Tier /\ k \in Nat
         /\ \A i \in DOMAIN tickets : tickets[i] \in Ticket /\ i \in Nat
         /\ DOMAIN events = 1 .. Len(events) /\ Len(events) \in Nat
         /\ DOMAIN tiers = 1 .. Len(tiers) /\ Len(tiers) \in Nat
         /\ DOMAIN tickets = 1 .. Len(tickets) /\ Len(tickets) \in Nat
  BY DEF TicketingTypeOK

\* The seats taken are a finite set, and the next ticket is not in it.
LEMMA SeatsFinite ==
  ASSUME TicketingInv, NEW e \in DOMAIN events
  PROVE  /\ IsFiniteSet(events[e].seats)
         /\ Cardinality(events[e].seats) \in Nat
         /\ NextTicket \notin events[e].seats
         /\ events[e].seats \subseteq DOMAIN tickets
         /\ events[e].max_capacity \in Nat \cup {None}
         /\ None \notin Nat
<1>1. /\ DOMAIN tickets = 1 .. Len(tickets) /\ Len(tickets) \in Nat
      /\ events[e] \in Event
  BY TypeFacts DEF TicketingInv
<1>2. events[e].seats \subseteq 1 .. Len(tickets)
  BY <1>1 DEF TicketingInv, Booked, SeatsAgree
<1>3. IsFiniteSet(1 .. Len(tickets))
  BY <1>1, FS_Interval
<1>4. IsFiniteSet(events[e].seats)
  BY <1>2, <1>3, FS_Subset
<1>5. Cardinality(events[e].seats) \in Nat
  BY <1>4, FS_CardinalityType
<1>6. NextTicket \notin events[e].seats
  BY <1>1, <1>2 DEF NextTicket
<1>7. None \notin Nat
  BY TicketingAssumption
<1> QED BY <1>1, <1>2, <1>4, <1>5, <1>6, <1>7 DEF Event

-----------------------------------------------------------------------------
(* Types. *)

\* A ticket just issued is a ticket.
LEMMA NewTicketType ==
  ASSUME TicketingTypeOK, NEW e \in DOMAIN events, NEW h \in Person,
         NEW hash \in Hashes \cup {Placeholder(i) : i \in 1 .. MaxTickets},
         NEW tier \in DOMAIN tiers \cup {None}
  PROVE  Issued(e, h, hash, tier) \in Ticket
  BY TypeFacts DEF Issued, Ticket

\* The seats a step hands out or frees are numbers, so the event keeps its type.
LEMMA SeatsType ==
  ASSUME NEW event \in Event, NEW seats \in SUBSET Nat, NEW queue \in Seq(Person)
  PROVE  /\ [event EXCEPT !.seats = seats] \in Event
         /\ [event EXCEPT !.seats = seats, !.waitlist = queue] \in Event
         /\ [event EXCEPT !.waitlist = queue] \in Event
  BY DEF Event

\* Issuing, by whichever entry point, keeps the types.
LEMMA IssueType ==
  ASSUME TicketingInv, NEW e \in DOMAIN events, NEW h \in Person, NEW hash \in Hashes,
         NEW tier \in DOMAIN tiers \cup {None}, Issue(e, h, hash, tier), DOMAIN tiers' = DOMAIN tiers
  PROVE  /\ events' \in Seq(Event)
         /\ tickets' \in Seq(Ticket)
         /\ Len(tickets') <= MaxTickets
         /\ \A i \in DOMAIN tickets' :
              /\ tickets'[i].event_id \in DOMAIN events'
              /\ tickets'[i].tier_id \in DOMAIN tiers' \cup {None}
<1> DEFINE new == Issued(e, h, hash, tier)
           seats == events[e].seats \cup {NextTicket}
<1>1. TicketingTypeOK
  BY DEF TicketingInv
<1>2. new \in Ticket /\ new.event_id = e /\ new.tier_id = tier
  BY <1>1, NewTicketType DEF Issued
<1>3. events[e] \in Event /\ seats \in SUBSET Nat
  BY <1>1, TypeFacts DEF Event, NextTicket
<1>4. [events[e] EXCEPT !.seats = seats] \in Event
  BY <1>3, SeatsType DEF Event
<1>5. events' = [events EXCEPT ![e] = [events[e] EXCEPT !.seats = seats]]
  BY DEF Issue
<1>6. events' \in Seq(Event) /\ DOMAIN events' = DOMAIN events
  BY <1>1, <1>4, <1>5, Written DEF TicketingTypeOK
<1>7. tickets' = Append(tickets, new) /\ Len(tickets) < MaxTickets
  BY DEF Issue
<1>8. /\ tickets' \in Seq(Ticket)
      /\ Len(tickets') = Len(tickets) + 1
      /\ DOMAIN tickets' = DOMAIN tickets \cup {Len(tickets) + 1}
      /\ tickets'[Len(tickets) + 1] = new
      /\ \A i \in DOMAIN tickets : tickets'[i] = tickets[i]
  BY <1>1, <1>2, <1>7, Added DEF TicketingTypeOK
<1>9. Len(tickets') <= MaxTickets
  BY <1>1, <1>7, <1>8, TypeFacts, TicketingAssumption
<1> HIDE DEF new, seats
<1>10. ASSUME NEW i \in DOMAIN tickets'
       PROVE  /\ tickets'[i].event_id \in DOMAIN events'
              /\ tickets'[i].tier_id \in DOMAIN tiers' \cup {None}
  BY <1>1, <1>2, <1>6, <1>8, <1>10 DEF TicketingTypeOK
<1> QED BY <1>6, <1>8, <1>9, <1>10

\* A ticket is rewritten for the same event and tier.
LEMMA RewriteType ==
  ASSUME TicketingInv, NEW i \in DOMAIN tickets, NEW new \in Ticket,
         new.event_id = tickets[i].event_id, new.tier_id = tickets[i].tier_id,
         tickets' = [tickets EXCEPT ![i] = new], DOMAIN events' = DOMAIN events,
         DOMAIN tiers' = DOMAIN tiers
  PROVE  /\ tickets' \in Seq(Ticket)
         /\ Len(tickets') <= MaxTickets
         /\ \A j \in DOMAIN tickets' :
              /\ tickets'[j].event_id \in DOMAIN events'
              /\ tickets'[j].tier_id \in DOMAIN tiers' \cup {None}
<1>1. TicketingTypeOK /\ Len(tickets) <= MaxTickets
  BY DEF TicketingInv
<1>2. /\ tickets' \in Seq(Ticket)
      /\ Len(tickets') = Len(tickets)
      /\ DOMAIN tickets' = DOMAIN tickets
      /\ tickets'[i] = new
      /\ \A j \in DOMAIN tickets \ {i} : tickets'[j] = tickets[j]
  BY <1>1, Written DEF TicketingTypeOK
<1> QED BY <1>1, <1>2 DEF TicketingTypeOK

\* Resale terms name a token and a share.
LEMMA ConfigFacts ==
  ASSUME NEW config \in ResaleConfig
  PROVE  config.token \in Tokens /\ config.royalty_bps \in 0 .. 10000
  BY DEF ResaleConfig

\* A resale moves money only where there is money.
LEMMA ResellBank ==
  ASSUME TicketingTypeOK, NEW i \in DOMAIN tickets, NEW p \in Person, NEW price \in Prices,
         ResellTicket(i, p, price)
  PROVE  bank' \in [Person -> [Tokens -> Nat]]
<1> DEFINE seller == tickets[i].holder
           event == events[tickets[i].event_id]
           config == event.resale
           t == config.token
           bps == config.royalty_bps
           royalty == Royalty(price, bps)
           paid == Moved(bank, p, seller, t, price - royalty)
<1>1. event \in Event /\ seller \in Person /\ bank \in LedgerOf(Person)
  BY TypeFacts DEF TicketingTypeOK, Ticket, LedgerOf
<1>3. config # None /\ price > 0
  BY DEF ResellTicket
<1>4. price \in Nat
  BY <1>3, TicketingAssumption
<1>5. /\ CanPay(bank, p, t, price - royalty)
      /\ CanPay(paid, p, t, royalty)
      /\ bank' = Moved(paid, p, event.organizer, t, royalty)
  BY DEF ResellTicket
<1> HIDE DEF seller, event
<1>6. event.organizer \in Person
  BY <1>1, TicketingAssumption DEF Event
<1>7. config \in ResaleConfig
  BY <1>1, <1>3 DEF Event
<1> HIDE DEF config
<1>8. t \in Tokens /\ bps \in 0 .. 10000
  BY ONLY <1>7, ConfigFacts
<1> HIDE DEF t, bps
<1>9. royalty \in Nat /\ price - royalty \in Int
  <2>1. royalty \in Nat
    <3> DEFINE scaled == price * bps
    <3>1. scaled \in Nat
      BY <1>4, <1>8
    <3>2. scaled \div 10000 \in Nat
      <4> HIDE DEF scaled
      <4> QED BY <3>1
    <3> QED BY <3>2 DEF Royalty
  <2> QED BY <1>4, <2>1
<1> HIDE DEF royalty
<1>10. paid \in LedgerOf(Person)
  BY <1>1, <1>5, <1>8, <1>9, TransferType
<1>11. royalty \in Int
  BY <1>9
<1> HIDE DEF paid
<1> QED BY <1>5, <1>6, <1>8, <1>10, <1>11, TransferType DEF LedgerOf
\* One event is rewritten.
LEMMA EventType ==
  ASSUME TicketingInv, NEW e \in DOMAIN events, NEW new \in Event,
         events' = [events EXCEPT ![e] = new]
  PROVE  events' \in Seq(Event) /\ DOMAIN events' = DOMAIN events
  BY Written DEF TicketingInv, TicketingTypeOK

\* A refund keeps the types, also when it hands the seat on.
LEMMA RefundType ==
  ASSUME TicketingInv, NEW i \in DOMAIN tickets, RefundTicket(i)
  PROVE  TicketingTypeOK' /\ Len(tickets') <= MaxTickets
<1> DEFINE e == tickets[i].event_id
           left == Seatless(events[e].seats, i)
           spent == [tickets[i] EXCEPT !.refunded = TRUE]
           refunded == [tickets EXCEPT ![i] = spent]
           waiting == events[e].waitlist
<1>1. TicketingTypeOK /\ Len(tickets) <= MaxTickets
  BY DEF TicketingInv
<1>2. e \in DOMAIN events /\ events[e] \in Event /\ tickets[i] \in Ticket
  BY <1>1, TypeFacts DEF TicketingTypeOK
<1>3. waiting \in Seq(Person) /\ left \in SUBSET Nat
  BY <1>2 DEF Event, Seatless
<1>4. spent \in Ticket /\ spent.event_id = e /\ spent.tier_id = tickets[i].tier_id
  BY <1>2 DEF Ticket
<1>5. tiers' = tiers /\ bank' = bank
  BY DEF RefundTicket
<1>6. CASE waiting = << >>
  <2>1. /\ tickets' = refunded
        /\ events' = [events EXCEPT ![e] = [events[e] EXCEPT !.seats = left]]
    BY <1>6 DEF RefundTicket
  <2>2. [events[e] EXCEPT !.seats = left] \in Event
    BY <1>2, <1>3, SeatsType
  <2> HIDE DEF left, spent, e
  <2>3. events' \in Seq(Event) /\ DOMAIN events' = DOMAIN events
    BY <1>2, <2>1, <2>2, EventType
  <2>4. e = tickets[i].event_id
    BY DEF e
  <2>5. /\ tickets' \in Seq(Ticket)
        /\ Len(tickets') <= MaxTickets
        /\ \A j \in DOMAIN tickets' :
             /\ tickets'[j].event_id \in DOMAIN events'
             /\ tickets'[j].tier_id \in DOMAIN tiers' \cup {None}
    BY <1>4, <1>5, <2>1, <2>3, <2>4, RewriteType
  <2> QED BY <1>1, <1>5, <2>3, <2>5 DEF TicketingTypeOK
<1>7. CASE waiting # << >>
  <2> DEFINE hash == Placeholder(i)
             new == Issued(e, Head(waiting), hash, None)
             seats == left \cup {NextTicket}
             event == [events[e] EXCEPT !.seats = seats, !.waitlist = Tail(waiting)]
  <2>1. /\ Len(tickets) < MaxTickets
        /\ tickets' = Append(refunded, new)
        /\ events' = [events EXCEPT ![e] = event]
    BY <1>7 DEF RefundTicket
  <2>2. Head(waiting) \in Person /\ Tail(waiting) \in Seq(Person)
    BY <1>3, <1>7, HeadTailProperties
  <2>3. i \in 1 .. MaxTickets
    BY <1>1, TypeFacts, TicketingAssumption
  <2>4. hash \in Hashes \cup {Placeholder(k) : k \in 1 .. MaxTickets}
    BY <2>3
  <2>5. new \in Ticket
    <3> HIDE DEF hash, waiting, e
    <3> QED BY <1>1, <1>2, <2>2, <2>4, NewTicketType
  <2>6. new.event_id = e /\ new.tier_id = None
    BY DEF Issued
  <2>7. seats \in SUBSET Nat
    BY <1>1, <1>3, TypeFacts DEF NextTicket
  <2>8. event \in Event
    <3> HIDE DEF seats, waiting
    <3> QED BY <1>2, <2>2, <2>7, SeatsType
  <2>9. refunded \in Seq(Ticket) /\ Len(refunded) = Len(tickets) /\ DOMAIN refunded = DOMAIN tickets
        /\ refunded[i] = spent /\ \A j \in DOMAIN tickets \ {i} : refunded[j] = tickets[j]
    <3> HIDE DEF spent
    <3> QED BY <1>1, <1>4, Written DEF TicketingTypeOK
  <2> HIDE DEF event, new, spent, refunded, e
  <2>10. events' \in Seq(Event) /\ DOMAIN events' = DOMAIN events
    BY <1>2, <2>1, <2>8, EventType
  <2>11. /\ tickets' \in Seq(Ticket)
         /\ Len(tickets') = Len(tickets) + 1
         /\ DOMAIN tickets' = DOMAIN tickets \cup {Len(tickets) + 1}
         /\ tickets'[Len(tickets) + 1] = new
         /\ \A j \in DOMAIN tickets : tickets'[j] = refunded[j]
    BY <2>1, <2>5, <2>9, Added
  <2>12. Len(tickets') <= MaxTickets
    BY <1>1, <2>1, <2>11, TypeFacts, TicketingAssumption
  <2>13. ASSUME NEW j \in DOMAIN tickets'
         PROVE  /\ tickets'[j].event_id \in DOMAIN events'
                /\ tickets'[j].tier_id \in DOMAIN tiers' \cup {None}
    <3>1. CASE j = Len(tickets) + 1
      BY <1>2, <2>6, <2>10, <2>11, <3>1
    <3>2. CASE j = i
      BY <1>1, <1>2, <1>4, <1>5, <2>9, <2>10, <2>11, <3>2 DEF TicketingTypeOK
    <3>3. CASE j \in DOMAIN tickets \ {i}
      BY <1>1, <1>5, <2>9, <2>10, <2>11, <3>3 DEF TicketingTypeOK
    <3> QED BY <2>11, <3>1, <3>2, <3>3
  <2> QED BY <1>1, <1>5, <2>10, <2>11, <2>12, <2>13 DEF TicketingTypeOK
<1> QED BY <1>6, <1>7

\* Every entry point keeps the types.
LEMMA TypeStep ==
  ASSUME TicketingInv, Next
  PROVE  TicketingTypeOK' /\ (Len(tickets) <= MaxTickets)'
<1> USE DEF TicketingTypeOK
<1>0. TicketingTypeOK /\ Len(tickets) <= MaxTickets
  BY DEF TicketingInv
<1>1. ASSUME NEW o \in Organizers, NEW c \in Capacities, CreateEvent(o, c)
      PROVE  TicketingTypeOK' /\ (Len(tickets) <= MaxTickets)'
  <2> DEFINE new == [organizer |-> o, max_capacity |-> c, state |-> "Active",
                     seats |-> {}, waitlist |-> << >>, resale |-> None]
  <2>1. events' = Append(events, new) /\ UNCHANGED <<tiers, tickets, bank>>
    BY <1>1 DEF CreateEvent
  <2>2. << >> \in Seq(Person)
    OBVIOUS
  <2>3. new \in Event
    BY <2>2, TicketingAssumption DEF Event
  <2> HIDE DEF new
  <2>4. events' \in Seq(Event) /\ DOMAIN events \subseteq DOMAIN events'
    BY <1>0, <2>1, <2>3, Added
  <2> QED BY <1>0, <2>1, <2>4
<1>2. ASSUME NEW e \in DOMAIN events,
             \/ CancelEvent(e)
             \/ \E t \in Tokens, bps \in Royalties : SetResaleConfig(e, t, bps)
             \/ \E p \in Person : JoinWaitlist(e, p)
      PROVE  TicketingTypeOK' /\ (Len(tickets) <= MaxTickets)'
  <2>1. events[e] \in Event
    BY <1>0, TypeFacts
  <2>2. UNCHANGED <<tiers, tickets, bank>>
    BY <1>2 DEF CancelEvent, SetResaleConfig, JoinWaitlist
  <2>3. \E new \in Event : events' = [events EXCEPT ![e] = new]
    <3>1. CASE CancelEvent(e)
      BY <2>1, <3>1 DEF CancelEvent, Event
    <3>2. ASSUME NEW t \in Tokens, NEW bps \in Royalties, SetResaleConfig(e, t, bps)
          PROVE  \E new \in Event : events' = [events EXCEPT ![e] = new]
      <4> DEFINE config == [token |-> t, royalty_bps |-> bps]
      <4>1. bps \in 0 .. 10000
        <5>1. bps <= 10000
          BY <3>2 DEF SetResaleConfig
        <5>2. bps \in Nat
          BY TicketingAssumption
        <5> QED BY <5>1, <5>2
      <4>2. config \in ResaleConfig
        BY <4>1 DEF ResaleConfig
      <4>3. events' = [events EXCEPT ![e] = [events[e] EXCEPT !.resale = config]]
        BY <3>2 DEF SetResaleConfig
      <4> HIDE DEF config
      <4>4. [events[e] EXCEPT !.resale = config] \in Event
        BY <2>1, <4>2 DEF Event
      <4> QED BY <4>3, <4>4
    <3>3. ASSUME NEW p \in Person, JoinWaitlist(e, p)
          PROVE  \E new \in Event : events' = [events EXCEPT ![e] = new]
      <4> DEFINE queue == Append(events[e].waitlist, p)
      <4>1. queue \in Seq(Person)
        BY <2>1 DEF Event
      <4>2. events' = [events EXCEPT ![e] = [events[e] EXCEPT !.waitlist = queue]]
        BY <3>3 DEF JoinWaitlist
      <4> HIDE DEF queue
      <4>3. [events[e] EXCEPT !.waitlist = queue] \in Event
        BY <2>1, <4>1 DEF Event
      <4> QED BY <4>2, <4>3
    <3> QED BY <1>2, <3>1, <3>2, <3>3
  <2>4. events' \in Seq(Event) /\ DOMAIN events' = DOMAIN events
    BY <2>3, EventType
  <2> QED BY <1>0, <2>2, <2>4
<1>3. ASSUME NEW e \in DOMAIN events, NEW supply \in Supplies, AddTier(e, supply)
      PROVE  TicketingTypeOK' /\ (Len(tickets) <= MaxTickets)'
  <2> DEFINE new == [event_id |-> e, max_supply |-> supply, sold |-> 0]
  <2>1. tiers' = Append(tiers, new) /\ UNCHANGED <<events, tickets, bank>>
    BY <1>3 DEF AddTier
  <2>2. e \in Nat /\ supply \in Nat
    BY <1>0, TypeFacts, TicketingAssumption
  <2>3. new \in Tier /\ new.event_id = e
    BY <2>2 DEF Tier
  <2> HIDE DEF new
  <2>4. /\ tiers' \in Seq(Tier)
        /\ DOMAIN tiers' = DOMAIN tiers \cup {Len(tiers) + 1}
        /\ tiers'[Len(tiers) + 1] = new
        /\ \A k \in DOMAIN tiers : tiers'[k] = tiers[k]
    BY <1>0, <2>1, <2>3, Added
  <2> QED BY <1>0, <2>1, <2>3, <2>4
<1>4. ASSUME NEW e \in DOMAIN events, NEW h \in Person, NEW hash \in Hashes, IssueTicket(e, h, hash)
      PROVE  TicketingTypeOK' /\ (Len(tickets) <= MaxTickets)'
  <2>1. Issue(e, h, hash, None) /\ UNCHANGED <<tiers, bank>>
    BY <1>4 DEF IssueTicket
  <2>2. DOMAIN tiers' = DOMAIN tiers
    BY <2>1
  <2>3. /\ events' \in Seq(Event)
        /\ tickets' \in Seq(Ticket)
        /\ Len(tickets') <= MaxTickets
        /\ \A i \in DOMAIN tickets' :
             /\ tickets'[i].event_id \in DOMAIN events'
             /\ tickets'[i].tier_id \in DOMAIN tiers' \cup {None}
    BY <2>1, <2>2, IssueType
  <2>4. DOMAIN events' = DOMAIN events
    BY <2>1, <1>0 DEF Issue
  <2>5. /\ tiers' \in Seq(Tier)
        /\ \A k \in DOMAIN tiers' : tiers'[k].event_id \in DOMAIN events'
    BY <1>0, <2>1, <2>4
  <2>6. bank' \in [Person -> [Tokens -> Nat]]
    BY <1>0, <2>1
  <2> QED BY <2>3, <2>5, <2>6
<1>5. ASSUME NEW e \in DOMAIN events, NEW h \in Person, NEW hash \in Hashes, NEW k \in DOMAIN tiers,
             IssueTieredTicket(e, h, hash, k)
      PROVE  TicketingTypeOK' /\ (Len(tickets) <= MaxTickets)'
  <2> DEFINE new == [tiers[k] EXCEPT !.sold = SoldAfter(tiers[k])]
  <2>1. Issue(e, h, hash, k) /\ bank' = bank /\ tiers' = [tiers EXCEPT ![k] = new]
    BY <1>5 DEF IssueTieredTicket
  <2>2. tiers[k] \in Tier
    BY <1>0, TypeFacts
  <2>3. new \in Tier /\ new.event_id = tiers[k].event_id
    BY <2>2 DEF Tier, SoldAfter
  <2> HIDE DEF new
  <2>4. /\ tiers' \in Seq(Tier)
        /\ DOMAIN tiers' = DOMAIN tiers
        /\ tiers'[k] = new
        /\ \A j \in DOMAIN tiers \ {k} : tiers'[j] = tiers[j]
    BY <1>0, <2>1, <2>3, Written
  <2>5. /\ events' \in Seq(Event)
        /\ tickets' \in Seq(Ticket)
        /\ Len(tickets') <= MaxTickets
        /\ \A i \in DOMAIN tickets' :
             /\ tickets'[i].event_id \in DOMAIN events'
             /\ tickets'[i].tier_id \in DOMAIN tiers' \cup {None}
    BY <2>1, <2>4, IssueType
  <2>6. DOMAIN events' = DOMAIN events
    BY <2>1, <1>0 DEF Issue
  <2>7. \A j \in DOMAIN tiers' : tiers'[j].event_id \in DOMAIN events'
    BY <1>0, <2>3, <2>4, <2>6
  <2>8. bank' \in [Person -> [Tokens -> Nat]]
    BY <1>0, <2>1
  <2>9. tiers' \in Seq(Tier)
    BY <2>4
  <2> QED BY <2>5, <2>7, <2>8, <2>9
<1>6. ASSUME NEW i \in DOMAIN tickets,
             \/ CheckIn(i)
             \/ \E p \in Person : TransferTicket(i, p)
             \/ \E p \in Person, price \in Prices : ResellTicket(i, p, price)
      PROVE  TicketingTypeOK' /\ (Len(tickets) <= MaxTickets)'
  <2>1. tickets[i] \in Ticket
    BY <1>0, TypeFacts
  <2>2. UNCHANGED <<events, tiers>>
    BY <1>6 DEF CheckIn, TransferTicket, ResellTicket
  <2>3. bank' \in [Person -> [Tokens -> Nat]]
    BY <1>0, <1>6, ResellBank DEF CheckIn, TransferTicket
  <2>4. \E new \in Ticket : /\ new.event_id = tickets[i].event_id
                            /\ new.tier_id = tickets[i].tier_id
                            /\ tickets' = [tickets EXCEPT ![i] = new]
    <3>1. \A p \in Person : LET new == [tickets[i] EXCEPT !.holder = p]
                            IN  /\ new \in Ticket
                                /\ new.event_id = tickets[i].event_id
                                /\ new.tier_id = tickets[i].tier_id
      BY <2>1 DEF Ticket
    <3>2. CASE CheckIn(i)
      BY <2>1, <3>2 DEF CheckIn, Ticket
    <3>3. ASSUME NEW p \in Person, tickets' = [tickets EXCEPT ![i] = [tickets[i] EXCEPT !.holder = p]]
          PROVE  \E new \in Ticket : /\ new.event_id = tickets[i].event_id
                                     /\ new.tier_id = tickets[i].tier_id
                                     /\ tickets' = [tickets EXCEPT ![i] = new]
      BY <3>1, <3>3
    <3> QED BY <1>6, <3>2, <3>3 DEF TransferTicket, ResellTicket
  <2>5. PICK new \in Ticket : /\ new.event_id = tickets[i].event_id
                              /\ new.tier_id = tickets[i].tier_id
                              /\ tickets' = [tickets EXCEPT ![i] = new]
    BY <2>4
  <2> QED BY <1>0, <2>2, <2>3, <2>5, RewriteType
<1>7. ASSUME NEW i \in DOMAIN tickets, RefundTicket(i)
      PROVE  TicketingTypeOK' /\ (Len(tickets) <= MaxTickets)'
  BY <1>7, RefundType
<1> QED BY <1>1, <1>2, <1>3, <1>4, <1>5, <1>6, <1>7 DEF Next, OrganizerStep, HolderStep
-----------------------------------------------------------------------------
(* Seats, queue and hashes. *)

\* A step that touches neither seats nor queues, and no ticket's event, hash or refund.
LEMMA KeptStep ==
  ASSUME TicketingInv,
         DOMAIN events' = DOMAIN events,
         \A e \in DOMAIN events :
            /\ events'[e].seats = events[e].seats
            /\ events'[e].max_capacity = events[e].max_capacity
            /\ events'[e].waitlist = events[e].waitlist,
         DOMAIN tickets' = DOMAIN tickets,
         \A i \in DOMAIN tickets :
            /\ tickets'[i].event_id = tickets[i].event_id
            /\ tickets'[i].refunded = tickets[i].refunded
            /\ tickets'[i].qr_hash = tickets[i].qr_hash
  PROVE  Booked'
<1>1. SeatsAgree'
  <2> SUFFICES ASSUME NEW e \in DOMAIN events
               PROVE  /\ events'[e].seats =
                            {i \in DOMAIN tickets' : tickets'[i].event_id = e /\ ~tickets'[i].refunded}
                      /\ events'[e].max_capacity # None =>
                            Cardinality(events'[e].seats) <= events'[e].max_capacity
    BY DEF SeatsAgree
  <2>1. /\ events[e].seats =
                {i \in DOMAIN tickets : tickets[i].event_id = e /\ ~tickets[i].refunded}
        /\ events[e].max_capacity # None =>
                Cardinality(events[e].seats) <= events[e].max_capacity
    BY DEF TicketingInv, Booked, SeatsAgree
  <2>2. {i \in DOMAIN tickets' : tickets'[i].event_id = e /\ ~tickets'[i].refunded}
            = {i \in DOMAIN tickets : tickets[i].event_id = e /\ ~tickets[i].refunded}
    OBVIOUS
  <2> QED BY <2>1, <2>2
<1>2. NoSeatIdle'
  BY DEF TicketingInv, Booked, NoSeatIdle, Full
<1>3. HashesUnique'
  BY DEF TicketingInv, Booked, HashesUnique
<1>4. PlaceholdersRefunded'
  BY DEF TicketingInv, Booked, PlaceholdersRefunded
<1> QED BY <1>1, <1>2, <1>3, <1>4 DEF Booked

\* A new event has no seat taken and nobody waiting.
LEMMA CreateStep ==
  ASSUME TicketingInv, NEW o \in Organizers, NEW c \in Capacities, CreateEvent(o, c)
  PROVE  Booked'
<1> DEFINE new == [organizer |-> o, max_capacity |-> c, state |-> "Active",
                   seats |-> {}, waitlist |-> << >>, resale |-> None]
           n == Len(events) + 1
<1>1. events' = Append(events, new) /\ UNCHANGED <<tiers, tickets, bank>>
  BY DEF CreateEvent
<1>2. TicketingTypeOK
  BY DEF TicketingInv
<1>3. /\ DOMAIN events' = DOMAIN events \cup {n}
      /\ n \notin DOMAIN events
      /\ events'[n] = new
      /\ \A e \in DOMAIN events : events'[e] = events[e]
  BY <1>1, <1>2 DEF TicketingTypeOK
<1>4. /\ new.seats = {} /\ new.max_capacity = c /\ new.waitlist = << >>
      /\ c # None => c \in Nat
  BY TicketingAssumption
<1> HIDE DEF new, n
<1>5. \A i \in DOMAIN tickets : tickets[i].event_id # n
  BY <1>2, <1>3 DEF TicketingTypeOK
<1>6. SeatsAgree'
  <2>1. Cardinality({}) = 0
    BY FS_EmptySet
  <2> SUFFICES ASSUME NEW e \in DOMAIN events'
               PROVE  /\ events'[e].seats =
                            {i \in DOMAIN tickets' : tickets'[i].event_id = e /\ ~tickets'[i].refunded}
                      /\ events'[e].max_capacity # None =>
                            Cardinality(events'[e].seats) <= events'[e].max_capacity
    BY DEF SeatsAgree
  <2>2. CASE e = n
    <3>1. events'[e].seats = {} /\ events'[e].max_capacity = c
      BY <1>3, <1>4, <2>2
    <3>2. {i \in DOMAIN tickets' : tickets'[i].event_id = e /\ ~tickets'[i].refunded} = {}
      BY <1>1, <1>5, <2>2
    <3>3. c # None => 0 <= c
      BY <1>4
    <3> QED BY <2>1, <3>1, <3>2, <3>3
  <2>3. CASE e \in DOMAIN events
    BY <1>1, <1>3, <2>3 DEF TicketingInv, Booked, SeatsAgree
  <2> QED BY <1>3, <2>2, <2>3
<1>7. NoSeatIdle'
  <2> SUFFICES ASSUME NEW e \in DOMAIN events'
               PROVE  LET waiting == events'[e].waitlist
                      IN  /\ waiting # << >> => Full(e)'
                          /\ \A x, y \in DOMAIN waiting : waiting[x] = waiting[y] => x = y
    BY DEF NoSeatIdle
  <2>1. CASE e = n
    BY <1>3, <1>4, <2>1
  <2>2. CASE e \in DOMAIN events
    BY <1>3, <2>2 DEF TicketingInv, Booked, NoSeatIdle, Full
  <2> QED BY <1>3, <2>1, <2>2
<1>8. HashesUnique' /\ PlaceholdersRefunded'
  BY <1>1 DEF TicketingInv, Booked, HashesUnique, PlaceholdersRefunded
<1> QED BY <1>6, <1>7, <1>8 DEF Booked

\* Whoever joins a queue finds the event full.
LEMMA JoinStep ==
  ASSUME TicketingInv, NEW e \in DOMAIN events, NEW p \in Person, JoinWaitlist(e, p)
  PROVE  Booked'
<1> DEFINE old == events[e].waitlist
           queue == Append(old, p)
<1>1. TicketingTypeOK /\ events[e] \in Event
  BY TypeFacts DEF TicketingInv
<1>2. old \in Seq(Person)
  BY <1>1 DEF Event
<1>3. /\ Full(e) /\ p \notin Range(old)
      /\ events' = [events EXCEPT ![e] = [events[e] EXCEPT !.waitlist = queue]]
      /\ UNCHANGED <<tiers, tickets, bank>>
  BY DEF JoinWaitlist, MayQueue
<1>4. /\ DOMAIN queue = DOMAIN old \cup {Len(old) + 1}
      /\ queue[Len(old) + 1] = p
      /\ \A x \in DOMAIN old : queue[x] = old[x]
  BY <1>2
<1>5. \A x \in DOMAIN old : old[x] # p
  BY <1>3 DEF Range
<1> HIDE DEF queue
<1>6. /\ DOMAIN events' = DOMAIN events
      /\ events'[e].waitlist = queue
      /\ events'[e].seats = events[e].seats
      /\ events'[e].max_capacity = events[e].max_capacity
      /\ \A x \in DOMAIN events \ {e} : events'[x] = events[x]
  BY <1>1, <1>3 DEF TicketingTypeOK, Event
<1>7. SeatsAgree'
  <2> SUFFICES ASSUME NEW x \in DOMAIN events
               PROVE  /\ events'[x].seats =
                            {i \in DOMAIN tickets' : tickets'[i].event_id = x /\ ~tickets'[i].refunded}
                      /\ events'[x].max_capacity # None =>
                            Cardinality(events'[x].seats) <= events'[x].max_capacity
    BY <1>6 DEF SeatsAgree
  <2>1. events'[x].seats = events[x].seats /\ events'[x].max_capacity = events[x].max_capacity
    BY <1>6
  <2> QED BY <1>3, <2>1 DEF TicketingInv, Booked, SeatsAgree
<1>8. NoSeatIdle'
  <2>1. \A x, y \in DOMAIN old : old[x] = old[y] => x = y
    BY DEF TicketingInv, Booked, NoSeatIdle
  <2>2. \A x, y \in DOMAIN queue : queue[x] = queue[y] => x = y
    BY <1>4, <1>5, <2>1
  <2>3. Full(e)'
    BY <1>3, <1>6 DEF Full
  <2> SUFFICES ASSUME NEW x \in DOMAIN events
               PROVE  LET waiting == events'[x].waitlist
                      IN  /\ waiting # << >> => Full(x)'
                          /\ \A a, b \in DOMAIN waiting : waiting[a] = waiting[b] => a = b
    BY <1>6 DEF NoSeatIdle
  <2>4. CASE x = e
    BY <1>6, <2>2, <2>3, <2>4
  <2>5. CASE x # e
    BY <1>6, <2>5 DEF TicketingInv, Booked, NoSeatIdle, Full
  <2> QED BY <2>4, <2>5
<1>9. HashesUnique' /\ PlaceholdersRefunded'
  BY <1>3 DEF TicketingInv, Booked, HashesUnique, PlaceholdersRefunded
<1> QED BY <1>7, <1>8, <1>9 DEF Booked
\* An issue takes a free seat, so nobody was waiting for it, and a hash that no ticket has.
LEMMA IssueStep ==
  ASSUME TicketingInv, NEW e \in DOMAIN events, NEW h \in Person, NEW hash \in Hashes,
         NEW tier \in DOMAIN tiers \cup {None}, Issue(e, h, hash, tier)
  PROVE  Booked'
<1> DEFINE new == Issued(e, h, hash, tier)
           n == NextTicket
           seats == events[e].seats \cup {n}
<1>1. TicketingTypeOK /\ events[e] \in Event /\ Len(tickets) <= MaxTickets
  BY TypeFacts DEF TicketingInv
<1>2. /\ ~Full(e)
      /\ Unused(hash, e)
      /\ tickets' = Append(tickets, new)
      /\ events' = [events EXCEPT ![e] = [events[e] EXCEPT !.seats = seats]]
  BY DEF Issue
<1>3. /\ DOMAIN events' = DOMAIN events
      /\ events'[e].seats = seats
      /\ events'[e].max_capacity = events[e].max_capacity
      /\ events'[e].waitlist = events[e].waitlist
      /\ \A x \in DOMAIN events \ {e} : events'[x] = events[x]
  BY <1>1, <1>2 DEF TicketingTypeOK, Event
<1>4. new.event_id = e /\ ~new.refunded /\ new.qr_hash = hash
  BY DEF Issued
<1>5. new \in Ticket
  BY <1>1, NewTicketType
<1> HIDE DEF new
<1>6. /\ DOMAIN tickets' = DOMAIN tickets \cup {n}
      /\ n \notin DOMAIN tickets
      /\ tickets'[n] = new
      /\ \A j \in DOMAIN tickets : tickets'[j] = tickets[j]
  BY <1>1, <1>2, <1>5, Added DEF TicketingTypeOK, NextTicket
<1>7. /\ IsFiniteSet(events[e].seats)
      /\ Cardinality(events[e].seats) \in Nat
      /\ n \notin events[e].seats
      /\ events[e].max_capacity \in Nat \cup {None}
  BY SeatsFinite
<1>8. Cardinality(seats) = Cardinality(events[e].seats) + 1
  BY <1>7, FS_AddElement
<1> HIDE DEF n
<1>9. SeatsAgree'
  <2> SUFFICES ASSUME NEW x \in DOMAIN events
               PROVE  /\ events'[x].seats =
                            {i \in DOMAIN tickets' : tickets'[i].event_id = x /\ ~tickets'[i].refunded}
                      /\ events'[x].max_capacity # None =>
                            Cardinality(events'[x].seats) <= events'[x].max_capacity
    BY <1>3 DEF SeatsAgree
  <2>1. /\ events[x].seats =
                {i \in DOMAIN tickets : tickets[i].event_id = x /\ ~tickets[i].refunded}
        /\ events[x].max_capacity # None =>
                Cardinality(events[x].seats) <= events[x].max_capacity
    BY DEF TicketingInv, Booked, SeatsAgree
  <2>2. CASE x = e
    <3>1. {i \in DOMAIN tickets' : tickets'[i].event_id = e /\ ~tickets'[i].refunded} = seats
      BY <1>4, <1>6, <2>1, <2>2
    <3>2. events[e].max_capacity # None => Cardinality(seats) <= events[e].max_capacity
      BY <1>2, <1>7, <1>8 DEF Full
    <3> QED BY <1>3, <2>2, <3>1, <3>2
  <2>3. CASE x # e
    <3>1. {i \in DOMAIN tickets' : tickets'[i].event_id = x /\ ~tickets'[i].refunded}
            = {i \in DOMAIN tickets : tickets[i].event_id = x /\ ~tickets[i].refunded}
      BY <1>4, <1>6, <2>3
    <3> QED BY <1>3, <2>1, <2>3, <3>1
  <2> QED BY <2>2, <2>3
<1>10. NoSeatIdle'
  <2> SUFFICES ASSUME NEW x \in DOMAIN events
               PROVE  LET waiting == events'[x].waitlist
                      IN  /\ waiting # << >> => Full(x)'
                          /\ \A a, b \in DOMAIN waiting : waiting[a] = waiting[b] => a = b
    BY <1>3 DEF NoSeatIdle
  <2>1. CASE x = e
    <3>1. events'[e].waitlist = << >>
      BY <1>2, <1>3 DEF TicketingInv, Booked, NoSeatIdle
    <3> QED BY <2>1, <3>1
  <2>2. CASE x # e
    BY <1>3, <2>2 DEF TicketingInv, Booked, NoSeatIdle, Full
  <2> QED BY <2>1, <2>2
<1>11. HashesUnique'
  BY <1>2, <1>4, <1>6 DEF TicketingInv, Booked, HashesUnique, Unused
<1>12. PlaceholdersRefunded'
  BY <1>4, <1>6, HashesAssumption DEF TicketingInv, Booked, PlaceholdersRefunded
<1> QED BY <1>9, <1>10, <1>11, <1>12 DEF Booked

\* A refund frees one seat, or hands it to the head of the queue.
LEMMA RefundStep ==
  ASSUME TicketingInv, NEW i \in DOMAIN tickets, RefundTicket(i)
  PROVE  Booked'
<1> DEFINE e == tickets[i].event_id
           old == events[e].seats
           left == Seatless(old, i)
           spent == [tickets[i] EXCEPT !.refunded = TRUE]
           refunded == [tickets EXCEPT ![i] = spent]
           waiting == events[e].waitlist
           cap == events[e].max_capacity
<1>1. TicketingTypeOK /\ Len(tickets) <= MaxTickets
  BY DEF TicketingInv
<1>2. e \in DOMAIN events /\ events[e] \in Event /\ tickets[i] \in Ticket
  BY <1>1, TypeFacts DEF TicketingTypeOK
<1>3. ~tickets[i].refunded
  BY DEF RefundTicket, Refundable
<1>4. /\ spent \in Ticket
      /\ spent.event_id = e
      /\ spent.refunded
      /\ spent.qr_hash = tickets[i].qr_hash
  BY <1>2 DEF Ticket
<1>5. /\ refunded \in Seq(Ticket)
      /\ Len(refunded) = Len(tickets)
      /\ DOMAIN refunded = DOMAIN tickets
      /\ refunded[i] = spent
      /\ \A j \in DOMAIN tickets \ {i} : refunded[j] = tickets[j]
  <2> HIDE DEF spent
  <2> QED BY <1>1, <1>4, Written DEF TicketingTypeOK
<1>6. /\ old = {j \in DOMAIN tickets : tickets[j].event_id = e /\ ~tickets[j].refunded}
      /\ cap # None => Cardinality(old) <= cap
  BY <1>2 DEF TicketingInv, Booked, SeatsAgree
<1>7. /\ IsFiniteSet(old)
      /\ Cardinality(old) \in Nat
      /\ NextTicket \notin old
      /\ cap \in Nat \cup {None}
  BY <1>2, SeatsFinite
<1>8. i \in old
  BY <1>3, <1>6
<1>9. /\ left = old \ {i}
      /\ IsFiniteSet(left)
      /\ Cardinality(left) = Cardinality(old) - 1
  BY <1>7, <1>8, FS_RemoveElement DEF Seatless
<1>10. \A x \in DOMAIN events \ {e} :
          events[x].seats = {j \in DOMAIN tickets : tickets[j].event_id = x /\ ~tickets[j].refunded}
  BY DEF TicketingInv, Booked, SeatsAgree
<1>11. CASE waiting = << >>
  <2>1. /\ tickets' = refunded
        /\ events' = [events EXCEPT ![e] = [events[e] EXCEPT !.seats = left]]
    BY <1>11 DEF RefundTicket
  <2>2. /\ DOMAIN events' = DOMAIN events
        /\ events'[e].seats = left
        /\ events'[e].max_capacity = cap
        /\ events'[e].waitlist = << >>
        /\ \A x \in DOMAIN events \ {e} : events'[x] = events[x]
    BY <1>1, <1>2, <1>11, <2>1 DEF TicketingTypeOK, Event
  <2> HIDE DEF e, left, spent, refunded, cap
  <2>3. SeatsAgree'
    <3> SUFFICES ASSUME NEW x \in DOMAIN events
                 PROVE  /\ events'[x].seats =
                              {j \in DOMAIN tickets' : tickets'[j].event_id = x /\ ~tickets'[j].refunded}
                        /\ events'[x].max_capacity # None =>
                              Cardinality(events'[x].seats) <= events'[x].max_capacity
      BY <2>2 DEF SeatsAgree
    <3>1. CASE x = e
      <4>1. {j \in DOMAIN tickets' : tickets'[j].event_id = e /\ ~tickets'[j].refunded} = left
        BY <1>4, <1>5, <1>6, <1>9, <2>1
      <4>2. cap # None => Cardinality(left) <= cap
        BY <1>6, <1>7, <1>9
      <4> QED BY <2>2, <3>1, <4>1, <4>2
    <3>2. CASE x # e
      <4>1. {j \in DOMAIN tickets' : tickets'[j].event_id = x /\ ~tickets'[j].refunded}
                = {j \in DOMAIN tickets : tickets[j].event_id = x /\ ~tickets[j].refunded}
        BY <1>4, <1>5, <2>1, <3>2 DEF e
      <4> QED BY <2>2, <3>2, <4>1 DEF TicketingInv, Booked, SeatsAgree
    <3> QED BY <3>1, <3>2
  <2>4. NoSeatIdle'
    <3> SUFFICES ASSUME NEW x \in DOMAIN events
                 PROVE  LET queue == events'[x].waitlist
                        IN  /\ queue # << >> => Full(x)'
                            /\ \A a, b \in DOMAIN queue : queue[a] = queue[b] => a = b
      BY <2>2 DEF NoSeatIdle
    <3>1. CASE x = e
      BY <2>2, <3>1
    <3>2. CASE x # e
      BY <2>2, <3>2 DEF TicketingInv, Booked, NoSeatIdle, Full
    <3> QED BY <3>1, <3>2
  <2>5. DOMAIN tickets' = DOMAIN tickets /\ \A j \in DOMAIN tickets : tickets'[j].qr_hash = tickets[j].qr_hash
    BY <1>4, <1>5, <2>1
  <2>6. \A j \in DOMAIN tickets : tickets[j].refunded => tickets'[j].refunded
    BY <1>4, <1>5, <2>1
  <2>7. HashesUnique' /\ PlaceholdersRefunded'
    BY <2>5, <2>6 DEF TicketingInv, Booked, HashesUnique, PlaceholdersRefunded
  <2> QED BY <2>3, <2>4, <2>7 DEF Booked
<1>12. CASE waiting # << >>
  <2> DEFINE hash == Placeholder(i)
             new == Issued(e, Head(waiting), hash, None)
             n == NextTicket
             seats == left \cup {n}
  <2>1. /\ tickets' = Append(refunded, new)
        /\ events' = [events EXCEPT ![e] = [events[e] EXCEPT !.seats = seats, !.waitlist = Tail(waiting)]]
    BY <1>12 DEF RefundTicket
  <2>2. /\ DOMAIN events' = DOMAIN events
        /\ events'[e].seats = seats
        /\ events'[e].max_capacity = cap
        /\ events'[e].waitlist = Tail(waiting)
        /\ \A x \in DOMAIN events \ {e} : events'[x] = events[x]
    BY <1>1, <1>2, <2>1 DEF TicketingTypeOK, Event
  <2>3. waiting \in Seq(Person)
    BY <1>2 DEF Event
  <2>4. /\ Head(waiting) \in Person
        /\ Tail(waiting) \in Seq(Person)
        /\ Len(Tail(waiting)) = Len(waiting) - 1
        /\ \A a \in 1 .. Len(Tail(waiting)) : Tail(waiting)[a] = waiting[a + 1]
    BY <1>12, <2>3, HeadTailProperties
  <2>5. new.event_id = e /\ ~new.refunded /\ new.qr_hash = hash
    BY DEF Issued
  <2>6. new \in Ticket
    <3>1. i \in 1 .. MaxTickets
      BY <1>1, TypeFacts, TicketingAssumption
    <3>2. hash \in Hashes \cup {Placeholder(k) : k \in 1 .. MaxTickets}
      BY <3>1
    <3> HIDE DEF hash, waiting, e
    <3> QED BY <1>1, <1>2, <2>4, <3>2, NewTicketType
  <2> HIDE DEF new, refunded, spent
  <2>7. /\ DOMAIN tickets' = DOMAIN tickets \cup {n}
        /\ n \notin DOMAIN tickets
        /\ tickets'[n] = new
        /\ tickets'[i] = spent
        /\ \A j \in DOMAIN tickets \ {i} : tickets'[j] = tickets[j]
    BY <1>5, <2>1, <2>6, Added DEF NextTicket
  <2>8. n \notin left /\ Cardinality(seats) = Cardinality(old)
    <3>1. n \notin left
      BY <1>7, <1>9
    <3>2. Cardinality(seats) = Cardinality(left) + 1
      BY <1>9, <3>1, FS_AddElement
    <3> QED BY <1>7, <1>9, <3>1, <3>2
  <2> HIDE DEF n, left, e, cap
  <2>9. SeatsAgree'
    <3> SUFFICES ASSUME NEW x \in DOMAIN events
                 PROVE  /\ events'[x].seats =
                              {j \in DOMAIN tickets' : tickets'[j].event_id = x /\ ~tickets'[j].refunded}
                        /\ events'[x].max_capacity # None =>
                              Cardinality(events'[x].seats) <= events'[x].max_capacity
      BY <2>2 DEF SeatsAgree
    <3>1. CASE x = e
      <4>1. {j \in DOMAIN tickets' : tickets'[j].event_id = e /\ ~tickets'[j].refunded} = seats
        BY <1>4, <1>6, <1>9, <2>5, <2>7
      <4> HIDE DEF seats, old
      <4> QED BY <1>6, <2>2, <2>8, <3>1, <4>1
    <3>2. CASE x # e
      <4>1. {j \in DOMAIN tickets' : tickets'[j].event_id = x /\ ~tickets'[j].refunded}
                = {j \in DOMAIN tickets : tickets[j].event_id = x /\ ~tickets[j].refunded}
        BY <1>4, <2>5, <2>7, <3>2 DEF e
      <4> QED BY <2>2, <3>2, <4>1 DEF TicketingInv, Booked, SeatsAgree
    <3> QED BY <3>1, <3>2
  <2>10. NoSeatIdle'
    <3> SUFFICES ASSUME NEW x \in DOMAIN events
                 PROVE  LET queue == events'[x].waitlist
                        IN  /\ queue # << >> => Full(x)'
                            /\ \A a, b \in DOMAIN queue : queue[a] = queue[b] => a = b
      BY <2>2 DEF NoSeatIdle
    <3>1. CASE x = e
      <4>1. /\ Full(e)
            /\ \A a, b \in DOMAIN waiting : waiting[a] = waiting[b] => a = b
        BY <1>2, <1>12 DEF TicketingInv, Booked, NoSeatIdle
      <4>2. Full(x)'
        <5> HIDE DEF seats, old
        <5>1. Cardinality(old) >= cap /\ cap # None
          BY <4>1 DEF Full, cap, old
        <5>2. events'[x].seats = seats /\ events'[x].max_capacity = cap
          BY <2>2, <3>1
        <5> QED BY <2>8, <5>1, <5>2 DEF Full
      <4>3. \A a, b \in DOMAIN Tail(waiting) : Tail(waiting)[a] = Tail(waiting)[b] => a = b
        <5> HIDE DEF waiting
        <5> QED BY <2>3, <2>4, <4>1
      <4> QED BY <2>2, <3>1, <4>2, <4>3
    <3>2. CASE x # e
      BY <2>2, <3>2 DEF TicketingInv, Booked, NoSeatIdle, Full
    <3> QED BY <3>1, <3>2
  <2>11. HashesUnique'
    <3>1. i \in 1 .. MaxTickets
      BY <1>1, TypeFacts, TicketingAssumption
    <3>2. \A j \in DOMAIN tickets : tickets[j].qr_hash # hash
      BY <1>3, <3>1 DEF TicketingInv, Booked, PlaceholdersRefunded
    <3>3. \A j \in DOMAIN tickets : tickets'[j].qr_hash = tickets[j].qr_hash
      BY <1>4, <2>7
    <3> HIDE DEF hash
    <3> QED BY <2>5, <2>7, <3>2, <3>3 DEF TicketingInv, Booked, HashesUnique
  <2>12. PlaceholdersRefunded'
    <3> SUFFICES ASSUME NEW k \in 1 .. MaxTickets, NEW j \in DOMAIN tickets',
                        tickets'[j].qr_hash = Placeholder(k)
                 PROVE  k \in DOMAIN tickets' /\ tickets'[k].refunded
      BY DEF PlaceholdersRefunded
    <3>1. CASE j = n
      <4>1. k = i
        BY <2>5, <2>7, <3>1 DEF Placeholder
      <4> QED BY <1>4, <2>7, <4>1
    <3>2. CASE j \in DOMAIN tickets
      <4>1. tickets[j].qr_hash = Placeholder(k)
        BY <1>4, <2>7, <3>2
      <4>2. k \in DOMAIN tickets /\ tickets[k].refunded
        BY <3>2, <4>1 DEF TicketingInv, Booked, PlaceholdersRefunded
      <4> QED BY <1>4, <2>7, <4>2
    <3> QED BY <2>7, <3>1, <3>2
  <2> QED BY <2>9, <2>10, <2>11, <2>12 DEF Booked
<1> QED BY <1>11, <1>12

\* Every entry point keeps seats, tickets and queues in agreement.
LEMMA BookedStep ==
  ASSUME TicketingInv, Next
  PROVE  Booked'
<1>0. TicketingTypeOK
  BY DEF TicketingInv
<1>1. ASSUME NEW o \in Organizers, NEW c \in Capacities, CreateEvent(o, c)
      PROVE  Booked'
  BY <1>1, CreateStep
<1>2. ASSUME NEW e \in DOMAIN events, CancelEvent(e)
      PROVE  Booked'
  <2>1. /\ events' = [events EXCEPT ![e] = [events[e] EXCEPT !.state = "Cancelled"]]
        /\ tickets' = tickets
    BY <1>2 DEF CancelEvent
  <2>2. events[e] \in Event
    BY <1>0, TypeFacts
  <2> QED BY <1>0, <2>1, <2>2, KeptStep DEF TicketingTypeOK, Event
<1>3. ASSUME NEW e \in DOMAIN events, NEW t \in Tokens, NEW bps \in Royalties, SetResaleConfig(e, t, bps)
      PROVE  Booked'
  <2> DEFINE config == [token |-> t, royalty_bps |-> bps]
  <2>1. /\ events' = [events EXCEPT ![e] = [events[e] EXCEPT !.resale = config]]
        /\ tickets' = tickets
    BY <1>3 DEF SetResaleConfig
  <2>2. events[e] \in Event
    BY <1>0, TypeFacts
  <2> HIDE DEF config
  <2> QED BY <1>0, <2>1, <2>2, KeptStep DEF TicketingTypeOK, Event
<1>4. ASSUME NEW e \in DOMAIN events, NEW supply \in Supplies, AddTier(e, supply)
      PROVE  Booked'
  BY <1>4, KeptStep DEF AddTier
<1>5. ASSUME NEW e \in DOMAIN events, NEW h \in Person, NEW hash \in Hashes, IssueTicket(e, h, hash)
      PROVE  Booked'
  BY <1>5, IssueStep DEF IssueTicket
<1>6. ASSUME NEW e \in DOMAIN events, NEW h \in Person, NEW hash \in Hashes, NEW k \in DOMAIN tiers,
             IssueTieredTicket(e, h, hash, k)
      PROVE  Booked'
  BY <1>6, IssueStep DEF IssueTieredTicket
<1>7. ASSUME NEW i \in DOMAIN tickets, CheckIn(i)
      PROVE  Booked'
  <2>1. tickets[i] \in Ticket /\ UNCHANGED events
    BY <1>0, <1>7, TypeFacts DEF CheckIn
  <2>2. tickets' = [tickets EXCEPT ![i] = [tickets[i] EXCEPT !.checked_in = TRUE]]
    BY <1>7 DEF CheckIn
  <2> QED BY <1>0, <2>1, <2>2, KeptStep DEF TicketingTypeOK, Ticket
<1>8. ASSUME NEW i \in DOMAIN tickets, NEW p \in Person, UNCHANGED events,
             tickets' = [tickets EXCEPT ![i] = [tickets[i] EXCEPT !.holder = p]]
      PROVE  Booked'
  <2>1. tickets[i] \in Ticket
    BY <1>0, TypeFacts
  <2> QED BY <1>0, <1>8, <2>1, KeptStep DEF TicketingTypeOK, Ticket
<1>9. ASSUME NEW i \in DOMAIN tickets, NEW p \in Person,
             TransferTicket(i, p) \/ \E price \in Prices : ResellTicket(i, p, price)
      PROVE  Booked'
  BY <1>8, <1>9 DEF TransferTicket, ResellTicket
<1>10. ASSUME NEW i \in DOMAIN tickets, RefundTicket(i)
       PROVE  Booked'
  BY <1>10, RefundStep
<1>11. ASSUME NEW e \in DOMAIN events, NEW p \in Person, JoinWaitlist(e, p)
       PROVE  Booked'
  BY <1>11, JoinStep
<1> QED BY <1>1, <1>2, <1>3, <1>4, <1>5, <1>6, <1>7, <1>9, <1>10, <1>11
        DEF Next, OrganizerStep, HolderStep

\* The invariant holds in every reachable state.
LEMMA TicketingInvariance == Spec => []TicketingInv
<1>1. Init => TicketingInv
  <2> SUFFICES ASSUME Init PROVE TicketingInv
    OBVIOUS
  <2>1. events = << >> /\ tiers = << >> /\ tickets = << >> /\ bank = Funds
    BY DEF Init
  <2>2. TicketingTypeOK
    BY <2>1, TicketingAssumption DEF TicketingTypeOK
  <2>3. Len(tickets) <= MaxTickets
    BY <2>1, TicketingAssumption
  <2>4. Booked
    BY <2>1 DEF Booked, SeatsAgree, NoSeatIdle, HashesUnique, PlaceholdersRefunded
  <2> QED BY <2>2, <2>3, <2>4 DEF TicketingInv
<1>2. TicketingInv /\ [Next]_vars => TicketingInv'
  <2> SUFFICES ASSUME TicketingInv, [Next]_vars PROVE TicketingInv'
    OBVIOUS
  <2>1. CASE Next
    BY <2>1, TypeStep, BookedStep DEF TicketingInv
  <2>2. CASE UNCHANGED vars
    BY <2>2 DEF vars, TicketingInv, TicketingTypeOK, Booked, SeatsAgree, NoSeatIdle, Full,
                HashesUnique, PlaceholdersRefunded
  <2> QED BY <2>1, <2>2
<1> QED BY <1>1, <1>2, PTL DEF Spec

-----------------------------------------------------------------------------
(* The theorems. *)

\* Events, tiers, tickets and balances keep their types, whatever is called in whatever
\* order: no resale overdraws its buyer.
THEOREM TicketingTypeCorrect == Spec => []TicketingTypeOK
<1>1. TicketingInv => TicketingTypeOK
  BY DEF TicketingInv
<1> QED BY <1>1, TicketingInvariance, PTL

\* No event is oversold, and its seats are its tickets that were not refunded, however
\* they were issued.
THEOREM SeatsAgreeHolds == Spec => []SeatsAgree
<1>1. TicketingInv => SeatsAgree
  BY DEF TicketingInv, Booked
<1> QED BY <1>1, TicketingInvariance, PTL

\* Nobody waits for an event that has a free seat.
THEOREM NoSeatIdleHolds == Spec => []NoSeatIdle
<1>1. TicketingInv => NoSeatIdle
  BY DEF TicketingInv, Booked
<1> QED BY <1>1, TicketingInvariance, PTL

\* No two tickets share a hash, those included that a refund made a placeholder for.
THEOREM HashesUniqueHolds == Spec => []HashesUnique
<1>1. TicketingInv => HashesUnique
  BY DEF TicketingInv, Booked
<1> QED BY <1>1, TicketingInvariance, PTL

\* Nothing is done with a ticket that was checked in, nor with its seat.
THEOREM UsedForGoodHolds == Spec => UsedForGood
<1> DEFINE Kept(i) == /\ tickets'[i] = tickets[i]
                      /\ i \in events'[tickets[i].event_id].seats
                           <=> i \in events[tickets[i].event_id].seats
           Step == \A i \in DOMAIN tickets : tickets[i].checked_in => Kept(i)
<1>1. TicketingInv /\ [Next]_vars => [Step]_vars
  <2> SUFFICES ASSUME TicketingInv, Next, NEW i \in DOMAIN tickets, tickets[i].checked_in
               PROVE  Kept(i)
    OBVIOUS
  <2>0. /\ TicketingTypeOK
        /\ tickets[i].event_id \in DOMAIN events
        /\ NextTicket # i
    BY TypeFacts DEF TicketingInv, TicketingTypeOK, NextTicket
  <2>1. ASSUME NEW o \in Organizers, NEW c \in Capacities, CreateEvent(o, c)
        PROVE  Kept(i)
    BY <2>0, <2>1 DEF CreateEvent, TicketingTypeOK
  <2>2. ASSUME NEW e \in DOMAIN events, NEW new, new.seats = events[e].seats,
               events' = [events EXCEPT ![e] = new], UNCHANGED tickets
        PROVE  Kept(i)
    BY <2>0, <2>2 DEF TicketingTypeOK
  <2>3. ASSUME NEW e \in DOMAIN events,
               \/ CancelEvent(e)
               \/ \E t \in Tokens, bps \in Royalties : SetResaleConfig(e, t, bps)
               \/ \E p \in Person : JoinWaitlist(e, p)
               \/ \E supply \in Supplies : AddTier(e, supply)
        PROVE  Kept(i)
    <3>1. events[e] \in Event
      BY <2>0, TypeFacts
    <3>2. CASE CancelEvent(e)
      <4> DEFINE new == [events[e] EXCEPT !.state = "Cancelled"]
      <4>1. events' = [events EXCEPT ![e] = new] /\ UNCHANGED tickets
        BY <3>2 DEF CancelEvent
      <4>2. new.seats = events[e].seats
        BY <3>1 DEF Event
      <4> HIDE DEF new
      <4> QED BY <2>2, <4>1, <4>2
    <3>3. ASSUME NEW t \in Tokens, NEW bps \in Royalties, SetResaleConfig(e, t, bps)
          PROVE  Kept(i)
      <4> DEFINE new == [events[e] EXCEPT !.resale = [token |-> t, royalty_bps |-> bps]]
      <4>1. events' = [events EXCEPT ![e] = new] /\ UNCHANGED tickets
        BY <3>3 DEF SetResaleConfig
      <4>2. new.seats = events[e].seats
        BY <3>1 DEF Event
      <4> HIDE DEF new
      <4> QED BY <2>2, <4>1, <4>2
    <3>4. ASSUME NEW p \in Person, JoinWaitlist(e, p)
          PROVE  Kept(i)
      <4> DEFINE new == [events[e] EXCEPT !.waitlist = Append(events[e].waitlist, p)]
      <4>1. events' = [events EXCEPT ![e] = new] /\ UNCHANGED tickets
        BY <3>4 DEF JoinWaitlist
      <4>2. new.seats = events[e].seats
        BY <3>1 DEF Event
      <4> HIDE DEF new
      <4> QED BY <2>2, <4>1, <4>2
    <3>5. ASSUME NEW supply \in Supplies, AddTier(e, supply)
          PROVE  Kept(i)
      BY <3>5 DEF AddTier
    <3> QED BY <2>3, <3>2, <3>3, <3>4, <3>5
  <2>4. ASSUME NEW e \in DOMAIN events, NEW h \in Person, NEW hash \in Hashes,
               NEW tier \in DOMAIN tiers \cup {None}, Issue(e, h, hash, tier)
        PROVE  Kept(i)
    <3>1. tickets'[i] = tickets[i]
      BY <2>0, <2>4 DEF Issue, TicketingTypeOK
    <3>2. events[e] \in Event
      BY <2>0, TypeFacts
    <3>3. events' = [events EXCEPT ![e] = [events[e] EXCEPT !.seats = events[e].seats \cup {NextTicket}]]
      BY <2>4 DEF Issue
    <3> QED BY <2>0, <3>1, <3>2, <3>3 DEF TicketingTypeOK, Event
  <2>5. ASSUME NEW j \in DOMAIN tickets, j # i, NEW new, UNCHANGED events,
               tickets' = [tickets EXCEPT ![j] = new]
        PROVE  Kept(i)
    BY <2>5 DEF TicketingTypeOK
  <2>6. ASSUME NEW j \in DOMAIN tickets,
               \/ CheckIn(j)
               \/ \E p \in Person : TransferTicket(j, p)
               \/ \E p \in Person, price \in Prices : ResellTicket(j, p, price)
        PROVE  Kept(i)
    <3>1. j # i /\ UNCHANGED events
      BY <2>6 DEF CheckIn, TransferTicket, ResellTicket, Transferable
    <3>2. \E new : tickets' = [tickets EXCEPT ![j] = new]
      BY <2>6 DEF CheckIn, TransferTicket, ResellTicket
    <3> QED BY <2>5, <3>1, <3>2
  <2>7. ASSUME NEW j \in DOMAIN tickets, RefundTicket(j)
        PROVE  Kept(i)
    <3> DEFINE e == tickets[j].event_id
               left == Seatless(events[e].seats, j)
               spent == [tickets[j] EXCEPT !.refunded = TRUE]
               refunded == [tickets EXCEPT ![j] = spent]
    <3>1. j # i
      BY <2>7 DEF RefundTicket, Refundable
    <3>2. e \in DOMAIN events /\ events[e] \in Event /\ spent \in Ticket
      <4>1. e \in DOMAIN events /\ tickets[j] \in Ticket
        BY <2>0, TypeFacts DEF TicketingTypeOK
      <4> QED BY <2>0, <4>1, TypeFacts DEF Ticket
    <3>3. refunded \in Seq(Ticket) /\ refunded[i] = tickets[i] /\ i \in DOMAIN refunded
      <4> HIDE DEF spent
      <4> QED BY <2>0, <3>1, <3>2, Written DEF TicketingTypeOK
    <3>4. i \in left <=> i \in events[e].seats
      BY <3>1 DEF Seatless
    <3>5. tickets'[i] = tickets[i]
      <4>1. tickets' = refunded \/ \E new : tickets' = Append(refunded, new)
        BY <2>7 DEF RefundTicket
      <4> HIDE DEF refunded
      <4> QED BY <3>3, <4>1
    <3>6. /\ events'[e].seats \in {left, left \cup {NextTicket}}
          /\ \A x \in DOMAIN events \ {e} : events'[x] = events[x]
      <4>1. \/ events' = [events EXCEPT ![e] = [events[e] EXCEPT !.seats = left]]
            \/ events' = [events EXCEPT ![e] = [events[e] EXCEPT
                    !.seats = left \cup {NextTicket}, !.waitlist = Tail(events[e].waitlist)]]
        BY <2>7 DEF RefundTicket
      <4> DEFINE freed == [events[e] EXCEPT !.seats = left]
                 passed == [events[e] EXCEPT !.seats = left \cup {NextTicket},
                                             !.waitlist = Tail(events[e].waitlist)]
      <4>2. freed.seats = left /\ passed.seats = left \cup {NextTicket}
        <5> HIDE DEF left, e
        <5> QED BY <3>2 DEF Event
      <4>3. events' = [events EXCEPT ![e] = freed] \/ events' = [events EXCEPT ![e] = passed]
        BY <4>1
      <4> HIDE DEF left, e, freed, passed
      <4>4. CASE events' = [events EXCEPT ![e] = freed]
        BY <2>0, <3>2, <4>2, <4>4 DEF TicketingTypeOK
      <4>5. CASE events' = [events EXCEPT ![e] = passed]
        BY <2>0, <3>2, <4>2, <4>5 DEF TicketingTypeOK
      <4> QED BY <4>3, <4>4, <4>5
    <3> HIDE DEF left, e
    <3> QED BY <2>0, <3>4, <3>5, <3>6
  <2> QED BY <2>1, <2>3, <2>4, <2>6, <2>7
          DEF Next, OrganizerStep, HolderStep, IssueTicket, IssueTieredTicket
<1> QED BY <1>1, TicketingInvariance, PTL DEF Spec, UsedForGood

-----------------------------------------------------------------------------
(* Tiers. *)

\* What the tiers of an event promise.
Promised(ts, e) == [k \in {j \in DOMAIN ts : ts[j].event_id = e} |-> ts[k].max_supply]

PromisesKept(ev, ts) ==
    \A e \in DOMAIN ev :
        ev[e].max_capacity # None => SumFunction(Promised(ts, e)) <= ev[e].max_capacity

\* The tickets ever issued from a tier.
SoldFrom(us, k) == {i \in DOMAIN us : us[i].tier_id = k}

Honoured(ts, us, k) ==
    /\ ts[k].sold = Cardinality(SoldFrom(us, k))
    /\ ts[k].sold <= ts[k].max_supply
    /\ \A i \in SoldFrom(us, k) : us[i].event_id = ts[k].event_id

AllHonoured(ts, us) == \A k \in DOMAIN ts : Honoured(ts, us, k)

\* Events stay, with their capacities.
Standing(ev, nx) ==
    /\ DOMAIN ev \subseteq DOMAIN nx
    /\ \A e \in DOMAIN ev : nx[e].max_capacity = ev[e].max_capacity
    /\ \A e \in DOMAIN nx : nx[e].max_capacity \in Nat \cup {None}

\* Tickets stay, with their event and tier, and no ticket of a tier is added.
Labelled(us, vs) ==
    /\ DOMAIN us \subseteq DOMAIN vs
    /\ \A i \in DOMAIN us : vs[i].tier_id = us[i].tier_id /\ vs[i].event_id = us[i].event_id
    /\ \A i \in DOMAIN vs \ DOMAIN us : vs[i].tier_id = None

\* The tier of ts at number k is added, or written, as r.
Retiered(ts, ns, k, r) ==
    /\ DOMAIN ns = DOMAIN ts \cup {k}
    /\ \A j \in DOMAIN ts \ {k} : ns[j] = ts[j]
    /\ ns[k] = r

\* What a step may do to the tiers and their tickets.
LEMMA TierMoves ==
  ASSUME TicketingInv, Next
  PROVE  /\ Standing(events, events')
         /\ \/ tiers' = tiers /\ Labelled(tickets, tickets')
            \/ \E e \in DOMAIN events, supply \in Supplies :
                  AddTier(e, supply)
            \/ \E e \in DOMAIN events, h \in Person, hash \in Hashes, k \in DOMAIN tiers :
                  IssueTieredTicket(e, h, hash, k)
<1> DEFINE Goal == \/ tiers' = tiers /\ Labelled(tickets, tickets')
                   \/ \E e \in DOMAIN events, supply \in Supplies : AddTier(e, supply)
                   \/ \E e \in DOMAIN events, h \in Person, hash \in Hashes, k \in DOMAIN tiers :
                         IssueTieredTicket(e, h, hash, k)
<1>1. TicketingTypeOK /\ TicketingTypeOK'
  BY TypeStep DEF TicketingInv
<1>2. /\ DOMAIN events = 1 .. Len(events) /\ Len(events) \in Nat
      /\ DOMAIN tickets = 1 .. Len(tickets) /\ Len(tickets) \in Nat
      /\ \A e \in DOMAIN events : events[e] \in Event
      /\ \A i \in DOMAIN tickets : tickets[i] \in Ticket
  BY <1>1, TypeFacts
<1>3. \A e \in DOMAIN events' : events'[e].max_capacity \in Nat \cup {None}
  <2>1. \A e \in DOMAIN events' : events'[e] \in Event
    BY <1>1 DEF TicketingTypeOK
  <2> QED BY <2>1 DEF Event
<1>4. ASSUME UNCHANGED tickets PROVE Labelled(tickets, tickets')
  BY <1>4 DEF Labelled
<1>5. ASSUME UNCHANGED events PROVE Standing(events, events')
  BY <1>3, <1>5 DEF Standing
<1>6. ASSUME NEW e, NEW r, events' = [events EXCEPT ![e] = r],
             e \in DOMAIN events => r.max_capacity = events[e].max_capacity
      PROVE  Standing(events, events')
  BY <1>3, <1>6 DEF Standing
<1>7. ASSUME NEW r, tickets' = Append(tickets, r), r.tier_id = None
      PROVE  Labelled(tickets, tickets')
  BY <1>2, <1>7 DEF Labelled
<1>8. ASSUME NEW i \in DOMAIN tickets, NEW r, tickets' = [tickets EXCEPT ![i] = r],
             r.tier_id = tickets[i].tier_id, r.event_id = tickets[i].event_id
      PROVE  Labelled(tickets, tickets')
  BY <1>8 DEF Labelled
<1>9. ASSUME NEW o, NEW c, CreateEvent(o, c) PROVE Standing(events, events') /\ Goal
  <2>1. DOMAIN events' = DOMAIN events \cup {Len(events) + 1}
        /\ \A e \in DOMAIN events : events'[e] = events[e]
    BY <1>2, <1>9 DEF CreateEvent
  <2>2. Standing(events, events')
    BY <1>3, <2>1 DEF Standing
  <2>3. tiers' = tiers /\ tickets' = tickets
    BY <1>9 DEF CreateEvent
  <2> QED BY <1>4, <2>2, <2>3
<1>10. ASSUME NEW e \in DOMAIN events,
              \/ CancelEvent(e)
              \/ \E t, bps : SetResaleConfig(e, t, bps)
              \/ \E p : JoinWaitlist(e, p)
       PROVE  Standing(events, events') /\ Goal
  <2>1. tiers' = tiers /\ tickets' = tickets
    BY <1>10 DEF CancelEvent, SetResaleConfig, JoinWaitlist
  <2>2. ASSUME CancelEvent(e) PROVE Standing(events, events')
    <3> DEFINE r == [events[e] EXCEPT !.state = "Cancelled"]
    <3>1. events' = [events EXCEPT ![e] = r]
      BY <2>2 DEF CancelEvent
    <3>2. r.max_capacity = events[e].max_capacity
      BY <1>2 DEF Event
    <3> HIDE DEF r
    <3> QED BY <1>6, <3>1, <3>2
  <2>3. ASSUME NEW t, NEW bps, SetResaleConfig(e, t, bps) PROVE Standing(events, events')
    <3> DEFINE r == [events[e] EXCEPT !.resale = [token |-> t, royalty_bps |-> bps]]
    <3>1. events' = [events EXCEPT ![e] = r]
      BY <2>3 DEF SetResaleConfig
    <3>2. r.max_capacity = events[e].max_capacity
      BY <1>2 DEF Event
    <3> HIDE DEF r
    <3> QED BY <1>6, <3>1, <3>2
  <2>4. ASSUME NEW p, JoinWaitlist(e, p) PROVE Standing(events, events')
    <3> DEFINE r == [events[e] EXCEPT !.waitlist = Append(events[e].waitlist, p)]
    <3>1. events' = [events EXCEPT ![e] = r]
      BY <2>4 DEF JoinWaitlist
    <3>2. r.max_capacity = events[e].max_capacity
      BY <1>2 DEF Event
    <3> HIDE DEF r
    <3> QED BY <1>6, <3>1, <3>2
  <2> QED BY <1>4, <1>10, <2>1, <2>2, <2>3, <2>4
<1>11. ASSUME NEW e \in DOMAIN events, NEW supply \in Supplies, AddTier(e, supply)
       PROVE  Standing(events, events') /\ Goal
  BY <1>5, <1>11 DEF AddTier
<1>12. ASSUME NEW e \in DOMAIN events, NEW seats,
              events' = [events EXCEPT ![e].seats = seats]
       PROVE  Standing(events, events')
  <2>1. events' = [events EXCEPT ![e] = [events[e] EXCEPT !.seats = seats]]
    BY <1>12
  <2>2. [events[e] EXCEPT !.seats = seats].max_capacity = events[e].max_capacity
    BY <1>2 DEF Event
  <2> QED BY <1>6, <2>1, <2>2
<1>13. ASSUME NEW e \in DOMAIN events, NEW h, NEW hash, IssueTicket(e, h, hash)
       PROVE  Standing(events, events') /\ Goal
  <2>1. /\ tickets' = Append(tickets, Issued(e, h, hash, None))
        /\ events' = [events EXCEPT ![e].seats = events[e].seats \cup {NextTicket}]
        /\ tiers' = tiers
    BY <1>13 DEF IssueTicket, Issue
  <2>2. Issued(e, h, hash, None).tier_id = None
    BY DEF Issued
  <2> QED BY <1>7, <1>12, <2>1, <2>2
<1>14. ASSUME NEW e \in DOMAIN events, NEW h \in Person, NEW hash \in Hashes,
              NEW k \in DOMAIN tiers, IssueTieredTicket(e, h, hash, k)
       PROVE  Standing(events, events') /\ Goal
  <2>1. events' = [events EXCEPT ![e].seats = events[e].seats \cup {NextTicket}]
    BY <1>14 DEF IssueTieredTicket, Issue
  <2>2. Standing(events, events')
    BY <1>12, <2>1
  <2> QED BY <1>14, <2>2
<1>15. ASSUME NEW i \in DOMAIN tickets, UNCHANGED <<events, tiers>>,
              \/ tickets' = [tickets EXCEPT ![i].checked_in = TRUE]
              \/ \E p : tickets' = [tickets EXCEPT ![i].holder = p]
       PROVE  Standing(events, events') /\ Goal
  <2>1. \E b, p : tickets' = [tickets EXCEPT ![i] = [tickets[i] EXCEPT !.checked_in = b, !.holder = p]]
    <3>1. CASE tickets' = [tickets EXCEPT ![i].checked_in = TRUE]
      <4>1. tickets' = [tickets EXCEPT ![i] =
                [tickets[i] EXCEPT !.checked_in = TRUE, !.holder = tickets[i].holder]]
        BY <1>2, <3>1 DEF Ticket
      <4> QED BY <4>1
    <3>2. ASSUME NEW p, tickets' = [tickets EXCEPT ![i].holder = p]
          PROVE  tickets' = [tickets EXCEPT ![i] =
                    [tickets[i] EXCEPT !.checked_in = tickets[i].checked_in, !.holder = p]]
      BY <1>2, <3>2 DEF Ticket
    <3> QED BY <1>15, <3>1, <3>2
  <2>2. PICK r : /\ tickets' = [tickets EXCEPT ![i] = r]
                 /\ r.tier_id = tickets[i].tier_id /\ r.event_id = tickets[i].event_id
    BY <1>2, <2>1 DEF Ticket
  <2>3. Labelled(tickets, tickets')
    BY <1>8, <2>2
  <2> QED BY <1>5, <1>15, <2>3
<1>16. ASSUME NEW i \in DOMAIN tickets, RefundTicket(i)
       PROVE  Standing(events, events') /\ Goal
  <2> DEFINE e     == tickets[i].event_id
             spent == [tickets[i] EXCEPT !.refunded = TRUE]
             refunded == [tickets EXCEPT ![i] = spent]
  <2>1. e \in DOMAIN events
    BY <1>1 DEF TicketingTypeOK
  <2>2. tiers' = tiers
    BY <1>16 DEF RefundTicket
  <2>3. spent.tier_id = tickets[i].tier_id /\ spent.event_id = tickets[i].event_id
    BY <1>2 DEF Ticket
  <2>4. \/ tickets' = refunded
        \/ \E r : tickets' = Append(refunded, r) /\ r.tier_id = None
    <3>1. \/ tickets' = refunded
          \/ \E h : tickets' = Append(refunded, Issued(e, h, Placeholder(i), None))
      BY <1>16 DEF RefundTicket
    <3>2. \A h : Issued(e, h, Placeholder(i), None).tier_id = None
      BY DEF Issued
    <3> QED BY <3>1, <3>2
  <2>5. \E seats, w : events' = [events EXCEPT ![e] =
                          [events[e] EXCEPT !.seats = seats, !.waitlist = w]]
    <3> DEFINE left == Seatless(events[e].seats, i)
    <3>1. CASE events' = [events EXCEPT ![e].seats = left]
      <4>1. events' = [events EXCEPT ![e] =
                [events[e] EXCEPT !.seats = left, !.waitlist = events[e].waitlist]]
        <5> HIDE DEF left, e
        <5> QED BY <1>2, <2>1, <3>1 DEF Event
      <4> QED BY <4>1
    <3>2. CASE events' = [events EXCEPT ![e].seats = left \cup {NextTicket}, ![e].waitlist = Tail(@)]
      <4>1. events' = [events EXCEPT ![e] =
                [events[e] EXCEPT !.seats = left \cup {NextTicket},
                                  !.waitlist = Tail(events[e].waitlist)]]
        BY <3>2
      <4> QED BY <4>1
    <3> QED BY <1>16, <3>1, <3>2 DEF RefundTicket
  <2> HIDE DEF e, spent
  <2>6. Standing(events, events')
    <3>1. PICK r : events' = [events EXCEPT ![e] = r] /\ r.max_capacity = events[e].max_capacity
      BY <1>2, <2>1, <2>5 DEF Event
    <3> QED BY <1>6, <3>1
  <2>7. /\ DOMAIN refunded = 1 .. Len(tickets) /\ Len(refunded) = Len(tickets)
        /\ \A j \in DOMAIN tickets : /\ refunded[j].tier_id = tickets[j].tier_id
                                     /\ refunded[j].event_id = tickets[j].event_id
    BY <1>2, <2>3
  <2> HIDE DEF refunded
  <2>8. Labelled(tickets, tickets')
    BY <1>2, <2>4, <2>7 DEF Labelled
  <2> QED BY <2>2, <2>6, <2>8
<1> HIDE DEF Goal
<1>17. Standing(events, events') /\ Goal
  BY <1>9, <1>10, <1>11, <1>13, <1>14, <1>15, <1>16
     DEF Next, OrganizerStep, HolderStep, CheckIn, TransferTicket, ResellTicket
<1> QED BY <1>17 DEF Goal

\* One tier added or written moves the promises of events by what it promises of each.
LEMMA PromisesMove ==
  ASSUME NEW ts \in Seq(Tier), NEW ns \in Seq(Tier), NEW k, NEW r, Retiered(ts, ns, k, r), NEW e
  PROVE  /\ SumFunction(Promised(ts, e)) \in Int
         /\ SumFunction(Promised(ns, e)) = SumFunction(Promised(ts, e))
                + (At(Promised(ns, e), k) - At(Promised(ts, e), k))
<1> DEFINE f == Promised(ts, e)  g == Promised(ns, e)
<1>1. \A j \in DOMAIN ts : ts[j].max_supply \in Int
  <2>1. \A j \in DOMAIN ts : ts[j] \in Tier
    OBVIOUS
  <2> QED BY <2>1 DEF Tier
<1>2. \A j \in DOMAIN ns : ns[j].max_supply \in Int
  <2>1. \A j \in DOMAIN ns : ns[j] \in Tier
    OBVIOUS
  <2> QED BY <2>1 DEF Tier
<1>3. IsFiniteSet(DOMAIN ts) /\ IsFiniteSet(DOMAIN ns)
  <2>1. IsFiniteSet(1 .. Len(ts)) /\ IsFiniteSet(1 .. Len(ns))
    BY FS_Interval
  <2> QED BY <2>1
<1>4. /\ DOMAIN f \subseteq DOMAIN ts /\ DOMAIN g \subseteq DOMAIN ns
      /\ \A j \in DOMAIN f : f[j] = ts[j].max_supply
      /\ \A j \in DOMAIN g : g[j] = ns[j].max_supply
      /\ (DOMAIN f) \ {k} = (DOMAIN g) \ {k}
      /\ \A j \in (DOMAIN f) \ {k} : f[j] = g[j]
  BY DEF Promised, Retiered
<1> HIDE DEF f, g
<1>5. IsFiniteSet(DOMAIN f) /\ IsFiniteSet(DOMAIN g)
  BY <1>3, <1>4, FS_Subset
<1>6. (\A j \in DOMAIN f : f[j] \in Int) /\ (\A j \in DOMAIN g : g[j] \in Int)
  BY <1>1, <1>2, <1>4
<1>7. /\ SumFunction(f) \in Int
      /\ SumFunction(g) = SumFunction(f) + (At(g, k) - At(f, k))
  BY <1>4, <1>5, <1>6, SumAtOne
<1> QED BY <1>7 DEF f, g

\* No step promises more than there are seats.
LEMMA PromisesStep ==
  ASSUME TicketingInv, PromisesKept(events, tiers), Next
  PROVE  PromisesKept(events', tiers')
<1>1. TicketingTypeOK /\ TicketingTypeOK'
  BY TypeStep DEF TicketingInv
<1>2. /\ tiers \in Seq(Tier) /\ tiers' \in Seq(Tier)
      /\ \A k \in DOMAIN tiers : tiers[k].event_id \in DOMAIN events
  BY <1>1 DEF TicketingTypeOK
<1>3. Standing(events, events')
  BY TierMoves
<1>4. PICK ns : ns = tiers'
  OBVIOUS
<1>5. ASSUME \A e \in DOMAIN events :
                /\ SumFunction(Promised(ns, e)) = SumFunction(Promised(tiers, e))
             , \A e \in DOMAIN events' \ DOMAIN events : SumFunction(Promised(ns, e)) = 0
      PROVE  PromisesKept(events', ns)
  BY <1>3, <1>5 DEF PromisesKept, Standing
<1>6. ASSUME tiers' = tiers PROVE PromisesKept(events', ns)
  <2>1. ASSUME NEW e, e \notin DOMAIN events PROVE SumFunction(Promised(tiers, e)) = 0
    <3>1. DOMAIN Promised(tiers, e) = {}
      BY <1>2, <2>1 DEF Promised
    <3>2. PICK f : f = Promised(tiers, e)
      OBVIOUS
    <3>3. SumFunction(f) = 0
      BY <3>1, <3>2, SumEmpty DEF SumFunction
    <3> QED BY <3>2, <3>3
  <2> QED BY <1>4, <1>5, <1>6, <2>1
<1>7. ASSUME NEW e \in DOMAIN events, NEW supply \in Supplies, AddTier(e, supply)
      PROVE  PromisesKept(events', ns)
  <2> DEFINE k == Len(tiers) + 1
             r == [event_id |-> e, max_supply |-> supply, sold |-> 0]
  <2>1. /\ tiers' = Append(tiers, r) /\ events' = events
        /\ events[e].max_capacity # None => MaxSupply(e) + supply <= events[e].max_capacity
    BY <1>7 DEF AddTier
  <2>2. r \in Tier /\ supply \in Nat
    BY <1>2, <1>4, <2>1, TicketingAssumption, TypeFacts, <1>1 DEF Tier
  <2>3. r.event_id = e /\ r.max_supply = supply
    OBVIOUS
  <2> HIDE DEF r
  <2>4. Retiered(tiers, ns, k, r) /\ k \notin DOMAIN tiers
    <3>1. /\ DOMAIN ns = DOMAIN tiers \cup {k} /\ k \notin DOMAIN tiers /\ ns[k] = r
          /\ \A j \in DOMAIN tiers : ns[j] = tiers[j]
      BY <1>2, <1>4, <2>1, <2>2, Added
    <3> QED BY <3>1 DEF Retiered
  <2>5. ASSUME NEW x \in DOMAIN events
        PROVE  /\ SumFunction(Promised(tiers, x)) \in Int
               /\ SumFunction(Promised(ns, x)) = SumFunction(Promised(tiers, x))
                    + (IF x = e THEN supply ELSE 0)
    <3>1. /\ SumFunction(Promised(tiers, x)) \in Int
          /\ SumFunction(Promised(ns, x)) = SumFunction(Promised(tiers, x))
                + (At(Promised(ns, x), k) - At(Promised(tiers, x), k))
      BY <1>2, <1>4, <2>4, PromisesMove
    <3>2. At(Promised(tiers, x), k) = 0
      BY <2>4 DEF At, Promised
    <3>3. At(Promised(ns, x), k) = IF x = e THEN supply ELSE 0
      BY <2>3, <2>4 DEF At, Promised, Retiered
    <3>4. \A n \in Int : n - 0 = n
      OBVIOUS
    <3> QED BY <2>2, <3>1, <3>2, <3>3, <3>4
  <2>6. SumFunction(Promised(tiers, e)) = MaxSupply(e)
    BY DEF Promised, MaxSupply, TiersOf
  <2> QED BY <2>1, <2>5, <2>6 DEF PromisesKept
<1>8. ASSUME NEW e \in DOMAIN events, NEW h, NEW hash, NEW k \in DOMAIN tiers,
             IssueTieredTicket(e, h, hash, k)
      PROVE  PromisesKept(events', ns)
  <2> DEFINE r == [tiers[k] EXCEPT !.sold = SoldAfter(tiers[k])]
  <2>1. /\ tiers' = [tiers EXCEPT ![k] = r] /\ DOMAIN events' = DOMAIN events
    <3>1. events' = [events EXCEPT ![e].seats = @ \cup {NextTicket}]
      BY <1>8 DEF IssueTieredTicket, Issue
    <3> QED BY <1>8, <3>1 DEF IssueTieredTicket
  <2>2. r.max_supply = tiers[k].max_supply /\ r.event_id = tiers[k].event_id
    BY <1>2 DEF Tier
  <2> HIDE DEF r
  <2>3. Retiered(tiers, ns, k, r)
    BY <1>2, <1>4, <2>1 DEF Retiered
  <2>4. ASSUME NEW x \in DOMAIN events
        PROVE  SumFunction(Promised(ns, x)) = SumFunction(Promised(tiers, x))
    <3>1. /\ SumFunction(Promised(tiers, x)) \in Int
          /\ SumFunction(Promised(ns, x)) = SumFunction(Promised(tiers, x))
                + (At(Promised(ns, x), k) - At(Promised(tiers, x), k))
      BY <1>2, <1>4, <2>3, PromisesMove
    <3>2. At(Promised(ns, x), k) = At(Promised(tiers, x), k)
      BY <2>2, <2>3 DEF At, Promised, Retiered
    <3>3. At(Promised(tiers, x), k) \in Int
      <4>1. tiers[k] \in Tier
        BY <1>2
      <4>2. tiers[k].max_supply \in Int
        BY <4>1 DEF Tier
      <4> QED BY <4>2 DEF At, Promised
    <3>4. PICK a \in Int, b \in Int : /\ a = At(Promised(tiers, x), k)
                                      /\ b = SumFunction(Promised(tiers, x))
      BY <3>1, <3>3
    <3>5. b + (a - a) = b
      OBVIOUS
    <3> QED BY <3>1, <3>2, <3>4, <3>5
  <2> QED BY <1>5, <2>1, <2>4
<1> QED BY <1>4, <1>6, <1>7, <1>8, TierMoves

\* No step parts a tier's count from its tickets.
LEMMA HonouredStep ==
  ASSUME TicketingInv, AllHonoured(tiers, tickets), Next
  PROVE  AllHonoured(tiers', tickets')
<1>1. TicketingTypeOK /\ TicketingTypeOK'
  BY TypeStep DEF TicketingInv
<1>2. /\ tiers \in Seq(Tier) /\ tickets \in Seq(Ticket)
      /\ DOMAIN tiers = 1 .. Len(tiers) /\ Len(tiers) \in Nat
      /\ DOMAIN tickets = 1 .. Len(tickets) /\ Len(tickets) \in Nat
      /\ \A i \in DOMAIN tickets : tickets[i].tier_id \in DOMAIN tiers \cup {None}
      /\ None \notin Nat
  BY <1>1, TicketingAssumption DEF TicketingTypeOK
<1>3. ASSUME tiers' = tiers, Labelled(tickets, tickets')
      PROVE  AllHonoured(tiers', tickets')
  <2>1. ASSUME NEW k \in DOMAIN tiers PROVE Honoured(tiers, tickets', k)
    <3>1. k # None
      BY <1>2
    <3>2. SoldFrom(tickets', k) = SoldFrom(tickets, k)
      BY <1>3, <3>1 DEF SoldFrom, Labelled
    <3>3. \A i \in SoldFrom(tickets, k) : tickets'[i].event_id = tickets[i].event_id
      BY <1>3 DEF SoldFrom, Labelled
    <3> QED BY <3>2, <3>3 DEF AllHonoured, Honoured
  <2> QED BY <1>3, <2>1 DEF AllHonoured
<1>4. ASSUME NEW e \in DOMAIN events, NEW supply \in Supplies, AddTier(e, supply)
      PROVE  AllHonoured(tiers', tickets')
  <2> DEFINE n == Len(tiers) + 1
             r == [event_id |-> e, max_supply |-> supply, sold |-> 0]
  <2>1. /\ tiers' = Append(tiers, r) /\ tickets' = tickets /\ supply > 0
    BY <1>4 DEF AddTier
  <2>2. r.sold = 0 /\ r.max_supply = supply /\ supply \in Nat
    BY TicketingAssumption
  <2> HIDE DEF r
  <2>3. /\ DOMAIN tiers' = DOMAIN tiers \cup {n} /\ n \notin DOMAIN tiers /\ tiers'[n] = r
        /\ \A j \in DOMAIN tiers : tiers'[j] = tiers[j]
    BY <1>2, <2>1
  <2>4. SoldFrom(tickets, n) = {}
    BY <1>2, <2>3 DEF SoldFrom
  <2>5. Honoured(tiers', tickets', n)
    <3>1. Cardinality(SoldFrom(tickets, n)) = 0
      BY <2>4, FS_EmptySet
    <3>2. 0 <= supply
      BY <2>2
    <3> QED BY <2>1, <2>2, <2>3, <2>4, <3>1, <3>2 DEF Honoured
  <2>6. ASSUME NEW k \in DOMAIN tiers PROVE Honoured(tiers', tickets', k)
    BY <2>1, <2>3 DEF AllHonoured, Honoured
  <2> QED BY <2>3, <2>5, <2>6 DEF AllHonoured
<1>5. ASSUME NEW e \in DOMAIN events, NEW h, NEW hash, NEW k \in DOMAIN tiers,
             IssueTieredTicket(e, h, hash, k)
      PROVE  AllHonoured(tiers', tickets')
  <2> DEFINE n   == Len(tickets) + 1
             new == Issued(e, h, hash, k)
             r   == [tiers[k] EXCEPT !.sold = tiers[k].sold + 1]
  <2>1. /\ tiers' = [tiers EXCEPT ![k] = r] /\ tickets' = Append(tickets, new)
        /\ tiers[k].event_id = e /\ tiers[k].sold < tiers[k].max_supply
    BY <1>5 DEF IssueTieredTicket, Issue, SoldAfter
  <2>2. /\ r.sold = tiers[k].sold + 1 /\ r.max_supply = tiers[k].max_supply
        /\ r.event_id = tiers[k].event_id
        /\ tiers[k].sold \in Nat /\ tiers[k].max_supply \in Nat
    <3>1. tiers[k] \in Tier
      BY <1>2
    <3> QED BY <3>1 DEF Tier
  <2>3. new.tier_id = k /\ new.event_id = e
    BY DEF Issued
  <2> HIDE DEF r, new
  <2>4. /\ DOMAIN tiers' = DOMAIN tiers /\ tiers'[k] = r
        /\ \A j \in DOMAIN tiers \ {k} : tiers'[j] = tiers[j]
    BY <1>2, <2>1
  <2>5. /\ DOMAIN tickets' = DOMAIN tickets \cup {n} /\ n \notin DOMAIN tickets /\ tickets'[n] = new
        /\ \A i \in DOMAIN tickets : tickets'[i] = tickets[i]
    BY <1>2, <2>1
  <2> HIDE DEF n
  <2>6. ASSUME NEW j \in DOMAIN tiers \ {k} PROVE Honoured(tiers', tickets', j)
    <3>1. SoldFrom(tickets', j) = SoldFrom(tickets, j)
      BY <2>3, <2>5 DEF SoldFrom
    <3>2. \A i \in SoldFrom(tickets, j) : tickets'[i] = tickets[i]
      BY <2>5 DEF SoldFrom
    <3> QED BY <2>4, <3>1, <3>2 DEF AllHonoured, Honoured
  <2>7. Honoured(tiers', tickets', k)
    <3>1. SoldFrom(tickets', k) = SoldFrom(tickets, k) \cup {n} /\ n \notin SoldFrom(tickets, k)
      BY <2>3, <2>5 DEF SoldFrom
    <3>2. IsFiniteSet(SoldFrom(tickets, k))
      <4>1. IsFiniteSet(1 .. Len(tickets))
        BY <1>2, FS_Interval
      <4> QED BY <1>2, <4>1, FS_Subset DEF SoldFrom
    <3>3. Cardinality(SoldFrom(tickets', k)) = Cardinality(SoldFrom(tickets, k)) + 1
      BY <3>1, <3>2, FS_AddElement
    <3>4. tiers[k].sold = Cardinality(SoldFrom(tickets, k))
      BY DEF AllHonoured, Honoured
    <3>5. ASSUME NEW i \in SoldFrom(tickets', k) PROVE tickets'[i].event_id = tiers'[k].event_id
      <4>1. CASE i = n
        BY <2>1, <2>2, <2>3, <2>4, <2>5, <4>1
      <4>2. CASE i \in SoldFrom(tickets, k)
        <5>1. i \in DOMAIN tickets /\ tickets[i].event_id = tiers[k].event_id
          BY <4>2 DEF AllHonoured, Honoured, SoldFrom
        <5> QED BY <2>2, <2>4, <2>5, <5>1
      <4> QED BY <3>1, <4>1, <4>2
    <3>6. tiers'[k].sold <= tiers'[k].max_supply
      BY <2>1, <2>2, <2>4
    <3>7. tiers'[k].sold = Cardinality(SoldFrom(tickets', k))
      BY <2>2, <2>4, <3>3, <3>4
    <3> QED BY <3>5, <3>6, <3>7 DEF Honoured
  <2> QED BY <2>4, <2>6, <2>7 DEF AllHonoured
<1> QED BY <1>3, <1>4, <1>5, TierMoves

\* Tiers promise no more than there are seats, and each sells what it promised at most: its
\* count is the number of its tickets, whatever became of them (add_tier,
\* issue_tiered_ticket).
THEOREM TiersHonouredHolds == Spec => []TiersHonoured
<1> DEFINE Inv == /\ TicketingInv
                  /\ PromisesKept(events, tiers)
                  /\ AllHonoured(tiers, tickets)
<1>1. Init => PromisesKept(events, tiers) /\ AllHonoured(tiers, tickets)
  BY DEF Init, PromisesKept, AllHonoured
<1>2. TicketingInv /\ PromisesKept(events, tiers) /\ AllHonoured(tiers, tickets) /\ [Next]_vars
        => PromisesKept(events, tiers)' /\ AllHonoured(tiers, tickets)'
  <2>1. ASSUME TicketingInv, PromisesKept(events, tiers), AllHonoured(tiers, tickets), Next
        PROVE  PromisesKept(events', tiers') /\ AllHonoured(tiers', tickets')
    BY <2>1, PromisesStep, HonouredStep
  <2>2. ASSUME PromisesKept(events, tiers), AllHonoured(tiers, tickets), UNCHANGED vars
        PROVE  PromisesKept(events', tiers') /\ AllHonoured(tiers', tickets')
    BY <2>2 DEF vars
  <2> QED BY <2>1, <2>2
<1>3. PromisesKept(events, tiers) /\ AllHonoured(tiers, tickets) => TiersHonoured
  BY DEF PromisesKept, AllHonoured, Honoured, SoldFrom, Promised, TiersHonoured, MaxSupply, TiersOf
<1> QED BY <1>1, <1>2, <1>3, TicketingInvariance, PTL DEF Spec
=============================================================================
