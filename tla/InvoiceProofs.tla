---------------------------- MODULE InvoiceProofs ----------------------------
(***************************************************************************)
(* Theorems about the invoices of the Shade contract, for every value of    *)
(* the constants: the books of each invoice agree, its money goes one way,  *)
(* the terms of a paid invoice are fixed, payers are out of pocket exactly   *)
(* by what their invoices record, a signed message is redeemed once,         *)
(* and a paused contract changes nothing but by the claim of an expired     *)
(* invoice.  The invariant is stated invoice by invoice, so that a batch is  *)
(* two payments one after the other.                                        *)
(***************************************************************************)
EXTENDS Invoice, MerchantAccountProofs, TokenLedgerProofs, FoldTheorems

-----------------------------------------------------------------------------
(* The inductive invariant. *)

\* The amounts of an invoice as its status tells them.
Tally(status, payer, dated, amount, paid, refunded) ==
    /\ (payer = None) = (paid = 0)
    /\ status \in {"Draft", "Pending", "Cancelled"} => paid = 0
    /\ status = "PartiallyPaid" => paid \in 1 .. amount - 1
    /\ status \in {"Paid", "PartiallyRefunded"} => paid = amount /\ dated # None
    /\ status = "PartiallyRefunded" => refunded \in 1 .. amount - 1
    /\ status = "Refunded" => refunded = paid /\ paid \in 1 .. amount
    /\ status \notin {"PartiallyRefunded", "Refunded"} => refunded = 0

Sound(q) ==
    /\ q \in InvoiceRecord
    /\ Tally(q.status, q.payer, q.date_paid, q.amount, q.amount_paid, q.amount_refunded)

AllSound(list) ==
    /\ list \in Seq(InvoiceRecord)
    /\ \A i \in DOMAIN list : Sound(list[i])

\* What a step may not change of an invoice that somebody has paid for.
TermsKept(q, r) ==
    q.amount_paid > 0 =>
        /\ r.amount_paid > 0
        /\ r.amount = q.amount
        /\ r.token = q.token
        /\ r.merchant = q.merchant
        /\ r.payer = q.payer

\* The way its money goes.  The statuses and the expiry are there for two payments in
\* a row: what the first has closed is closed to the second.
OneWay(q, r) ==
    /\ r.expires_at = q.expires_at
    /\ q.status \in {"Cancelled", "Refunded"} => r = q
    /\ q.status \in {"Paid", "PartiallyRefunded"} =>
            /\ r.status \in {"Paid", "PartiallyRefunded", "Refunded"}
            /\ r.amount_paid = q.amount_paid
    /\ Expired(q) => r.amount_paid = q.amount_paid
    /\ r.amount_refunded >= q.amount_refunded

Keeps(q, r) == TermsKept(q, r) /\ OneWay(q, r)

Follows(list, next) ==
    /\ DOMAIN next = DOMAIN list
    /\ Len(next) = Len(list)
    /\ \A i \in DOMAIN list : Keeps(list[i], next[i])

WorldOK == now \in Nat /\ price \in [Tokens -> Nat]

InvoiceInv == WorldOK /\ AllSound(invoices)

-----------------------------------------------------------------------------
(* What an invoice keeps. *)

\* The fields of an invoice.
LEMMA Fields ==
  ASSUME NEW q \in InvoiceRecord
  PROVE  /\ q.merchant \in Seller /\ q.token \in Tokens /\ q.status \in Status
         /\ q.amount \in Nat /\ q.amount_paid \in Nat /\ q.amount_refunded \in Nat
         /\ q.payer \in Payers \cup {None}
         /\ q.date_paid \in Nat \cup {None}
         /\ q.expires_at \in Nat \cup {None}
         /\ q.fiat \in Nat \cup {None}
  BY DEF InvoiceRecord

\* An invoice left alone keeps all there is to keep.
LEMMA KeepsSelf ==
  ASSUME NEW q, Sound(q)
  PROVE  Keeps(q, q)
<1>1. q.amount_refunded \in Nat
  BY Fields DEF Sound
<1> QED BY <1>1 DEF Keeps, TermsKept, OneWay

\* What two changes in a row keep.
LEMMA KeepsTwice ==
  ASSUME NEW q, NEW r, NEW s, Sound(q), Sound(r), Sound(s), Keeps(q, r), Keeps(r, s)
  PROVE  Keeps(q, s)
<1>1. /\ q.amount_refunded \in Nat /\ r.amount_refunded \in Nat
      /\ s.amount_refunded \in Nat
  BY Fields DEF Sound
<1>2. TermsKept(q, s)
  BY DEF Keeps, TermsKept
<1>3. s.amount_refunded >= q.amount_refunded
  BY <1>1 DEF Keeps, OneWay
<1>4. /\ s.expires_at = q.expires_at
      /\ q.status \in {"Cancelled", "Refunded"} => s = q
      /\ Expired(q) => s.amount_paid = q.amount_paid
  BY DEF Keeps, OneWay, Expired
<1>5. q.status \in {"Paid", "PartiallyRefunded"} =>
            /\ s.status \in {"Paid", "PartiallyRefunded", "Refunded"}
            /\ s.amount_paid = q.amount_paid
  BY DEF Keeps, OneWay
<1> QED BY <1>2, <1>3, <1>4, <1>5 DEF Keeps, OneWay

-----------------------------------------------------------------------------
(* Lists of invoices. *)

\* Replacing an invoice by one that is sound and keeps its fixed terms.
LEMMA Rewritten ==
  ASSUME NEW list, AllSound(list), NEW i \in DOMAIN list, NEW q, Sound(q), Keeps(list[i], q)
  PROVE  LET next == [list EXCEPT ![i] = q]
         IN  AllSound(next) /\ Follows(list, next)
<1> DEFINE next == [list EXCEPT ![i] = q]
<1>1. list \in Seq(InvoiceRecord) /\ q \in InvoiceRecord
  BY DEF AllSound, Sound
<1>2. /\ next \in Seq(InvoiceRecord)
      /\ Len(next) = Len(list)
      /\ DOMAIN next = DOMAIN list
      /\ next[i] = q
      /\ \A j \in DOMAIN list \ {i} : next[j] = list[j]
  BY <1>1
<1> HIDE DEF next
<1>3. AllSound(next)
  BY <1>2 DEF AllSound
<1>4. \A j \in DOMAIN list \ {i} : Keeps(list[j], next[j])
  BY <1>2, KeepsSelf DEF AllSound
<1>5. Follows(list, next)
  BY <1>2, <1>4 DEF Follows
<1> QED BY <1>3, <1>5 DEF next

\* Appending a sound invoice.
LEMMA Extended ==
  ASSUME NEW list, AllSound(list), NEW q, Sound(q)
  PROVE  LET next == Append(list, q)
         IN  /\ AllSound(next)
             /\ \A i \in DOMAIN list : next[i] = list[i]
<1> DEFINE next == Append(list, q)
<1>1. list \in Seq(InvoiceRecord) /\ q \in InvoiceRecord
  BY DEF AllSound, Sound
<1>2. /\ next \in Seq(InvoiceRecord)
      /\ DOMAIN next = DOMAIN list \cup {Len(list) + 1}
      /\ next[Len(list) + 1] = q
      /\ \A j \in DOMAIN list : next[j] = list[j]
  BY <1>1
<1> HIDE DEF next
<1>3. AllSound(next)
  BY <1>2 DEF AllSound
<1> QED BY <1>2, <1>3 DEF next

\* Two steps in a row keep what each of them keeps.
LEMMA FollowsTwice ==
  ASSUME NEW a, NEW b, NEW c, AllSound(a), AllSound(b), AllSound(c),
         Follows(a, b), Follows(b, c)
  PROVE  Follows(a, c)
<1>1. /\ DOMAIN b = DOMAIN a /\ DOMAIN c = DOMAIN a
      /\ Len(b) = Len(a) /\ Len(c) = Len(a)
  BY DEF Follows
<1>2. ASSUME NEW i \in DOMAIN a
      PROVE  Keeps(a[i], c[i])
  <2>1. Keeps(a[i], b[i]) /\ Keeps(b[i], c[i])
    BY <1>1, <1>2 DEF Follows
  <2>2. Sound(a[i]) /\ Sound(b[i]) /\ Sound(c[i])
    BY <1>1, <1>2 DEF AllSound
  <2> QED BY <2>1, <2>2, KeepsTwice
<1> QED BY <1>1, <1>2 DEF Follows

-----------------------------------------------------------------------------
(* Single invoices. *)

\* An invoice just created is sound.
LEMMA NewSound ==
  ASSUME NEW m \in Seller, NEW amt \in Int, NEW t \in Tokens, NEW expiry \in Expiries \cup {None},
         amt > 0, NEW q,
         \/ q = NewInvoice(m, amt, t, expiry)
         \/ q = [NewInvoice(m, amt, t, expiry) EXCEPT !.status = "Draft"]
         \/ \E f \in Nat : q = [NewInvoice(m, amt, t, expiry) EXCEPT !.fiat = f]
  PROVE  Sound(q)
<1> DEFINE new == NewInvoice(m, amt, t, expiry)
<1>1. amt \in Nat /\ expiry \in Nat \cup {None}
  BY InvoiceAssumption
<1>2. /\ new \in InvoiceRecord
      /\ new.status = "Pending" /\ new.payer = None /\ new.date_paid = None
      /\ new.amount_paid = 0 /\ new.amount_refunded = 0
  BY <1>1 DEF NewInvoice, InvoiceRecord, Status
<1> HIDE DEF new
<1>3. /\ q \in InvoiceRecord
      /\ q.status \in {"Pending", "Draft"} /\ q.payer = None /\ q.date_paid = None
      /\ q.amount_paid = 0 /\ q.amount_refunded = 0
  <2>1. CASE q = new
    BY <1>2, <2>1
  <2>2. CASE q = [new EXCEPT !.status = "Draft"]
    BY <1>2, <2>2 DEF InvoiceRecord, Status
  <2>3. CASE \E f \in Nat : q = [new EXCEPT !.fiat = f]
    <3>1. PICK f \in Nat : q = [new EXCEPT !.fiat = f]
      BY <2>3
    <3> QED BY <1>2, <3>1 DEF InvoiceRecord
  <2> QED BY <2>1, <2>2, <2>3 DEF new
<1> QED BY <1>3 DEF Sound, Tally

\* A quote is a positive number.
LEMMA QuoteType ==
  ASSUME WorldOK, NEW amt \in Nat, NEW t \in Tokens, Quotable(amt, t)
  PROVE  Quote(amt, t) \in Nat /\ Quote(amt, t) > 0
<1> DEFINE rate == price[t]
           product == amt * FiatScale
<1>1. rate \in Nat /\ rate > 0
  BY DEF WorldOK, Quotable
<1>2. product \in Nat
  BY InvoiceAssumption
<1> HIDE DEF rate, product
<1>3. product \div rate \in Int
  BY <1>1, <1>2
<1>4. Quote(amt, t) = product \div rate
  BY DEF Quote, product, rate
<1>5. Quote(amt, t) > 0
  BY DEF Quotable
<1> QED BY <1>3, <1>4, <1>5

\* A new quote leaves an open invoice sound: nothing of it is paid.
LEMMA RequotedSound ==
  ASSUME WorldOK, NEW q, Sound(q), q.status \in {"Pending", "PartiallyPaid"},
         FloatsWithPrice(q) => Quotable(q.fiat, q.token)
  PROVE  /\ Sound(Requoted(q))
         /\ Keeps(q, Requoted(q))
         /\ Requoted(q).status = q.status
         /\ Requoted(q).amount_paid = q.amount_paid
<1> DEFINE quote == Quote(q.fiat, q.token)
           r == [q EXCEPT !.amount = quote]
<1>1. q \in InvoiceRecord
  BY DEF Sound
<1>2. CASE ~FloatsWithPrice(q)
  BY <1>2, KeepsSelf DEF Requoted
<1>3. CASE FloatsWithPrice(q)
  <2>1. q.fiat \in Nat /\ q.token \in Tokens /\ q.amount_paid = 0
    BY <1>1, <1>3, Fields DEF FloatsWithPrice
  <2>2. quote \in Nat
    BY <1>3, <2>1, QuoteType
  <2>3. Requoted(q) = r
    BY <1>3 DEF Requoted
  <2> HIDE DEF quote
  <2>4. /\ r \in InvoiceRecord
        /\ r.amount = quote
        /\ r.status = q.status /\ r.payer = q.payer /\ r.date_paid = q.date_paid
        /\ r.amount_paid = q.amount_paid /\ r.amount_refunded = q.amount_refunded
        /\ r.expires_at = q.expires_at
    BY <1>1, <2>2 DEF InvoiceRecord
  <2> HIDE DEF r
  <2>5. q.status # "PartiallyPaid"
    <3> DEFINE paid == q.amount_paid
               last == q.amount - 1
    <3>1. q.status = "PartiallyPaid" => paid \in 1 .. last
      BY DEF Sound, Tally
    <3>2. paid = 0
      BY <2>1
    <3> HIDE DEF paid, last
    <3> QED BY <3>1, <3>2
  <2>6. q.status = "Pending"
    BY <2>5
  <2>7. Tally(r.status, r.payer, r.date_paid, r.amount, r.amount_paid, r.amount_refunded)
    BY <2>1, <2>4, <2>6 DEF Sound, Tally
  <2>8. TermsKept(q, r)
    BY <2>1 DEF TermsKept
  <2>9. OneWay(q, r)
    <3>1. q.amount_refunded \in Nat
      BY <1>1, Fields
    <3> QED BY <2>4, <2>6, <3>1 DEF OneWay
  <2> QED BY <2>3, <2>4, <2>7, <2>8, <2>9 DEF Sound, Keeps
<1> QED BY <1>2, <1>3

\* An instalment within what is owed, before the expiry, by the one payer.
LEMMA CreditedSound ==
  ASSUME now \in Nat, NEW q, Sound(q), q.status \in {"Pending", "PartiallyPaid"},
         NEW p \in Payers, NEW amt \in Int, amt > 0, MayPay(q, p),
         q.amount_paid + amt <= q.amount
  PROVE  Sound(Credited(q, p, amt)) /\ Keeps(q, Credited(q, p, amt))
<1> DEFINE paid == q.amount_paid
           amount == q.amount
           total == paid + amt
           credited == [q EXCEPT !.amount_paid = total, !.payer = p]
           r == Credited(q, p, amt)
<1>1. q \in InvoiceRecord
  BY DEF Sound
<1>2. paid \in Nat /\ amount \in Nat
  BY <1>1, Fields
<1>3. total <= amount
  OBVIOUS
<1>4. /\ q.amount_refunded = 0
      /\ (q.payer = None) = (paid = 0)
  BY DEF Sound, Tally
<1>5. r = IF credited.amount_paid = amount
          THEN [credited EXCEPT !.status = "Paid", !.date_paid = now]
          ELSE [credited EXCEPT !.status = "PartiallyPaid"]
  <2>1. credited.amount = amount
    BY <1>1 DEF InvoiceRecord
  <2> QED BY <2>1 DEF Credited
<1> HIDE DEF amount, r
<1>6. /\ credited \in InvoiceRecord
      /\ credited.amount_paid = total
      /\ credited.amount = q.amount
      /\ credited.payer = p
      /\ credited.amount_refunded = q.amount_refunded
      /\ credited.date_paid = q.date_paid
      /\ credited.expires_at = q.expires_at
      /\ credited.token = q.token /\ credited.merchant = q.merchant
  <2>1. total \in Nat
    BY <1>2
  <2> HIDE DEF total
  <2> QED BY <1>1, <2>1 DEF InvoiceRecord
<1>7. total \in Nat /\ total > 0
  BY <1>2
<1> HIDE DEF total, credited
<1>8. p # None
  BY InvoiceAssumption, AccountAssumption
<1>9. ~Expired(q)
  <2>1. q.expires_at # None => now < q.expires_at /\ q.expires_at \in Nat
    BY <1>1, Fields DEF MayPay
  <2> QED BY <2>1 DEF Expired
<1>10. now # None
  BY PlatformAssumption
<1>11. CASE total = amount
  <2>1. r = [credited EXCEPT !.status = "Paid", !.date_paid = now]
    BY <1>5, <1>6, <1>11
  <2>2. /\ r \in InvoiceRecord
        /\ r.status = "Paid" /\ r.date_paid = now
        /\ r.amount_paid = total /\ r.amount = amount /\ r.payer = p
        /\ r.amount_refunded = 0
        /\ r.expires_at = q.expires_at
        /\ r.token = q.token /\ r.merchant = q.merchant
    BY <1>4, <1>6, <2>1 DEF InvoiceRecord, Status, amount
  <2>3. Tally(r.status, r.payer, r.date_paid, r.amount, r.amount_paid, r.amount_refunded)
    BY <1>7, <1>8, <1>10, <1>11, <2>2 DEF Tally
  <2>4. TermsKept(q, r)
    BY <1>4, <1>7, <2>2 DEF TermsKept, MayPay, amount
  <2>5. OneWay(q, r)
    BY <1>4, <1>9, <2>2 DEF OneWay
  <2> QED BY <2>2, <2>3, <2>4, <2>5 DEF Sound, Keeps, r
<1>12. CASE total # amount
  <2>1. r = [credited EXCEPT !.status = "PartiallyPaid"]
    BY <1>5, <1>6, <1>12
  <2>2. /\ r \in InvoiceRecord
        /\ r.status = "PartiallyPaid" /\ r.date_paid = q.date_paid
        /\ r.amount_paid = total /\ r.amount = amount /\ r.payer = p
        /\ r.amount_refunded = 0
        /\ r.expires_at = q.expires_at
        /\ r.token = q.token /\ r.merchant = q.merchant
    BY <1>4, <1>6, <2>1 DEF InvoiceRecord, Status, amount
  <2>3. total \in 1 .. amount - 1
    BY <1>2, <1>3, <1>7, <1>12
  <2>4. Tally(r.status, r.payer, r.date_paid, r.amount, r.amount_paid, r.amount_refunded)
    BY <1>7, <1>8, <2>2, <2>3 DEF Tally
  <2>5. TermsKept(q, r)
    BY <1>4, <1>7, <2>2 DEF TermsKept, MayPay, amount
  <2>6. OneWay(q, r)
    BY <1>4, <1>9, <2>2 DEF OneWay
  <2> QED BY <2>2, <2>4, <2>5, <2>6 DEF Sound, Keeps, r
<1> QED BY <1>11, <1>12

\* A draft that is issued, and a pending invoice that is voided or amended, have
\* taken no money.
LEMMA RevisedSound ==
  ASSUME NEW q, Sound(q), NEW r,
         \/ q.status = "Draft" /\ r = [q EXCEPT !.status = "Pending"]
         \/ q.status = "Pending" /\ r = [q EXCEPT !.status = "Cancelled"]
         \/ q.status = "Pending" /\ \E amt \in Nat : r = [q EXCEPT !.amount = amt]
  PROVE  Sound(r) /\ Keeps(q, r)
<1>1. q \in InvoiceRecord
  BY DEF Sound
<1>2. q.status \in {"Draft", "Pending"}
  OBVIOUS
<1>3. q.amount_paid = 0 /\ q.payer = None /\ q.amount_refunded = 0
  BY <1>2 DEF Sound, Tally
<1>4. /\ r \in InvoiceRecord
      /\ r.status \in {"Draft", "Pending", "Cancelled"}
      /\ r.payer = q.payer /\ r.date_paid = q.date_paid
      /\ r.amount_paid = q.amount_paid /\ r.amount_refunded = q.amount_refunded
      /\ r.expires_at = q.expires_at
  <2>1. CASE r = [q EXCEPT !.status = "Pending"]
    BY <1>1, <2>1 DEF InvoiceRecord, Status
  <2>2. CASE r = [q EXCEPT !.status = "Cancelled"]
    BY <1>1, <2>2 DEF InvoiceRecord, Status
  <2>3. ASSUME NEW amt \in Nat, q.status = "Pending", r = [q EXCEPT !.amount = amt]
        PROVE  <1>4!:
    BY <1>1, <2>3 DEF InvoiceRecord
  <2> QED BY <2>1, <2>2, <2>3
<1>5. Tally(r.status, r.payer, r.date_paid, r.amount, r.amount_paid, r.amount_refunded)
  BY <1>3, <1>4 DEF Tally
<1>6. TermsKept(q, r) /\ OneWay(q, r)
  BY <1>2, <1>3, <1>4 DEF TermsKept, OneWay
<1> QED BY <1>4, <1>5, <1>6 DEF Sound, Keeps

\* An invoice of which total is paid back: all that was paid, or part of a price
\* that was paid in full.
LEMMA PaidBackSound ==
  ASSUME NEW q, Sound(q), q.status \in {"Paid", "PartiallyPaid", "PartiallyRefunded"},
         q.amount_paid > 0,
         NEW total \in Nat, total >= q.amount_refunded, NEW status,
         \/ status = "Refunded" /\ total = q.amount_paid
         \/ /\ status = "PartiallyRefunded"
            /\ q.status # "PartiallyPaid"
            /\ 0 < total /\ total < q.amount
  PROVE  LET r == [q EXCEPT !.amount_refunded = total, !.status = status]
         IN  Sound(r) /\ Keeps(q, r)
<1> DEFINE r == [q EXCEPT !.amount_refunded = total, !.status = status]
           paid == q.amount_paid
           amount == q.amount
<1>1. q \in InvoiceRecord
  BY DEF Sound
<1>2. paid \in Nat /\ amount \in Nat /\ paid > 0
  BY <1>1, Fields
<1>3. /\ q.status = "PartiallyPaid" => paid \in 1 .. amount - 1
      /\ q.status \in {"Paid", "PartiallyRefunded"} => paid = amount /\ q.date_paid # None
      /\ q.payer # None
  BY <1>2 DEF Sound, Tally
<1>4. status \in Status
  BY DEF Status
<1>5. /\ r \in InvoiceRecord
      /\ r.status = status /\ r.payer = q.payer /\ r.date_paid = q.date_paid
      /\ r.amount = q.amount /\ r.token = q.token /\ r.merchant = q.merchant
      /\ r.amount_paid = q.amount_paid /\ r.amount_refunded = total
      /\ r.expires_at = q.expires_at
  BY <1>1, <1>4 DEF InvoiceRecord
<1>6. /\ status = "Refunded" => total = paid
      /\ status = "PartiallyRefunded" =>
            q.status # "PartiallyPaid" /\ 0 < total /\ total < amount
  OBVIOUS
<1> HIDE DEF r
<1>7. Keeps(q, r)
  <2>1. TermsKept(q, r)
    BY <1>2, <1>5 DEF TermsKept
  <2>2. OneWay(q, r)
    BY <1>5 DEF OneWay
  <2> QED BY <2>1, <2>2 DEF Keeps
<1>8. Tally(status, q.payer, q.date_paid, amount, paid, total)
  <2> HIDE DEF paid, amount
  <2>1. paid \in 1 .. amount
    BY <1>2, <1>3
  <2>2. CASE status = "Refunded"
    BY <1>2, <1>3, <1>6, <2>1, <2>2 DEF Tally
  <2>3. CASE status = "PartiallyRefunded"
    <3>1. total \in 1 .. amount - 1 /\ paid = amount /\ q.date_paid # None
      BY <1>2, <1>3, <1>6, <2>3
    <3> QED BY <1>2, <1>3, <2>3, <3>1 DEF Tally
  <2> QED BY <2>2, <2>3
<1>9. Sound(r)
  BY <1>5, <1>8 DEF Sound
<1> QED BY <1>7, <1>9 DEF r

-----------------------------------------------------------------------------
(* Payments. *)

\* A payment leaves sound invoices and keeps fixed terms.
LEMMA PaySound ==
  ASSUME WorldOK, NEW w, AllSound(w.invoices), NEW i \in DOMAIN w.invoices,
         NEW p \in Payers, NEW amt \in Int, Payable(w, p, i, amt)
  PROVE  /\ AllSound(Pay(w, p, i, amt).invoices)
         /\ Follows(w.invoices, Pay(w, p, i, amt).invoices)
<1> DEFINE list == w.invoices
           q == list[i]
           r == Requoted(q)
           c == Credited(r, p, amt)
<1>1. Sound(q) /\ q \in InvoiceRecord
  BY DEF AllSound, Sound
<1>2. /\ amt > 0
      /\ FloatsWithPrice(q) => Quotable(q.fiat, q.token)
      /\ r.status \in {"Pending", "PartiallyPaid"}
      /\ MayPay(r, p)
      /\ r.amount_paid + amt <= r.amount
  BY DEF Payable
<1>3. Pay(w, p, i, amt).invoices = [list EXCEPT ![i] = c]
  BY DEF Pay
<1>4. AllSound(list) /\ i \in DOMAIN list
  OBVIOUS
<1> HIDE DEF list
<1>5. r.status = q.status
  <2>1. \A x : [q EXCEPT !.amount = x].status = q.status
    BY <1>1 DEF InvoiceRecord
  <2> QED BY <2>1 DEF Requoted
<1> HIDE DEF q
<1>6. Sound(r) /\ Keeps(q, r)
  BY <1>1, <1>2, <1>5, RequotedSound
<1> HIDE DEF r
<1>7. Sound(c) /\ Keeps(r, c)
  BY <1>2, <1>6, CreditedSound DEF WorldOK
<1> HIDE DEF c
<1>8. Keeps(q, c)
  BY <1>1, <1>6, <1>7, KeepsTwice
<1> QED BY <1>3, <1>4, <1>7, <1>8, Rewritten DEF q, list

\* So does paying what is left of it.
LEMMA PayInFullSound ==
  ASSUME WorldOK, NEW w, AllSound(w.invoices), NEW i \in DOMAIN w.invoices,
         NEW p \in Payers, PayableInFull(w, p, i)
  PROVE  /\ AllSound(PayInFull(w, p, i).invoices)
         /\ Follows(w.invoices, PayInFull(w, p, i).invoices)
<1> DEFINE q == w.invoices[i]
           rest == Remaining(q)
<1>1. q \in InvoiceRecord
  BY DEF AllSound, Sound
<1>2. FloatsWithPrice(q) => Quotable(q.fiat, q.token)
  BY DEF PayableInFull
<1>3. Payable(w, p, i, rest)
  BY DEF PayableInFull
<1>4. PayInFull(w, p, i) = Pay(w, p, i, rest)
  BY DEF PayInFull
<1> HIDE DEF q
<1>5. Requoted(q).amount \in Nat
  <2>1. CASE ~FloatsWithPrice(q)
    BY <1>1, <2>1, Fields DEF Requoted
  <2>2. CASE FloatsWithPrice(q)
    <3> DEFINE quote == Quote(q.fiat, q.token)
    <3>1. q.fiat \in Nat /\ q.token \in Tokens
      BY <1>1, <2>2, Fields DEF FloatsWithPrice
    <3>2. quote \in Nat
      BY <1>2, <2>2, <3>1, QuoteType
    <3>3. Requoted(q) = [q EXCEPT !.amount = quote]
      BY <2>2 DEF Requoted
    <3> HIDE DEF quote
    <3> QED BY <1>1, <3>2, <3>3 DEF InvoiceRecord
  <2> QED BY <2>1, <2>2
<1>6. rest \in Int
  BY <1>1, <1>5, Fields DEF Remaining
<1> HIDE DEF rest
<1> QED BY <1>3, <1>4, <1>6, PaySound

-----------------------------------------------------------------------------
(* The steps. *)

\* What a step makes of the invoices there are.
Continues == \A i \in DOMAIN invoices : Keeps(invoices[i], invoices'[i])

\* A step that touches no invoice.
LEMMA Unmoved ==
  ASSUME InvoiceInv, invoices' = invoices
  PROVE  AllSound(invoices)' /\ Continues
<1>1. AllSound(invoices)'
  BY DEF InvoiceInv, AllSound
<1>2. Continues
  BY KeepsSelf DEF InvoiceInv, AllSound, Continues
<1> QED BY <1>1, <1>2

\* Configuration: the clock and the prices stay numbers, the analytics stay as they are.
LEMMA PlatformStep ==
  ASSUME WorldOK, PlatformNext
  PROVE  WorldOK' /\ stats' = stats
<1> USE DEF WorldOK
<1>1. ASSUME NEW a \in Admins, InitializePlatform(a)
      PROVE  WorldOK' /\ stats' = stats
  BY <1>1 DEF InitializePlatform
<1>2. ASSUME NEW a \in Admins, AcceptAdminTransfer(a)
      PROVE  WorldOK' /\ stats' = stats
  BY <1>2 DEF AcceptAdminTransfer
<1>3. ASSUME NEW a \in Successors, ProposeAdminTransfer(a)
      PROVE  WorldOK' /\ stats' = stats
  BY <1>3 DEF ProposeAdminTransfer
<1>4. ASSUME NEW status \in PauseChanges, SetPaused(status)
      PROVE  WorldOK' /\ stats' = stats
  BY <1>4 DEF SetPaused
<1>5. ASSUME NEW t \in Delistable, RemoveAcceptedToken(t)
      PROVE  WorldOK' /\ stats' = stats
  BY <1>5 DEF RemoveAcceptedToken
<1>6. ASSUME NEW t \in Tokens, AddAcceptedToken(t)
      PROVE  WorldOK' /\ stats' = stats
  BY <1>6 DEF AddAcceptedToken
<1>7. ASSUME NEW t \in Tokens, NEW bps \in Fees, SetFee(t, bps) \/ ProposeFee(t, bps)
      PROVE  WorldOK' /\ stats' = stats
  BY <1>7 DEF SetFee, ProposeFee
<1>8. ASSUME NEW t \in Tokens, ExecuteFee(t)
      PROVE  WorldOK' /\ stats' = stats
  BY <1>8 DEF ExecuteFee
<1>9. ASSUME NEW t \in Tokens, NEW p \in Prices, OraclePriceMoves(t, p)
      PROVE  WorldOK' /\ stats' = stats
  BY <1>9, PlatformAssumption DEF OraclePriceMoves
<1>10. ASSUME NEW t \in Priced, SetTokenOracle(t)
       PROVE  WorldOK' /\ stats' = stats
  BY <1>10 DEF SetTokenOracle
<1>11. ASSUME NEW p \in PlatformAccounts, SetPlatformAccount(p)
       PROVE  WorldOK' /\ stats' = stats
  BY <1>11 DEF SetPlatformAccount
<1>12. ASSUME Tick
       PROVE  WorldOK' /\ stats' = stats
  BY <1>12 DEF Tick
<1> QED
  BY <1>1, <1>2, <1>3, <1>4, <1>5, <1>6, <1>7, <1>8, <1>9, <1>10, <1>11, <1>12
  DEF PlatformNext

\* Merchants and their accounts: the clock, the prices and the analytics stay as good as they were.
LEMMA MerchantsStep ==
  ASSUME WorldOK, MerchantsNext
  PROVE  WorldOK' /\ stats' = stats
<1>1. ASSUME platformVars' = platformVars
      PROVE  WorldOK' /\ stats' = stats
  BY <1>1 DEF WorldOK, platformVars, configVars
<1>2. CASE PlatformNext /\ UNCHANGED merchantVars
  BY <1>2, PlatformStep
<1>3. CASE AccountStep
  BY <1>1, <1>3 DEF AccountStep
<1>4. ASSUME NEW m \in Seller,
             \/ RegisterMerchant(m)
             \/ \E status \in Statuses : SetMerchantStatus(m, status)
             \/ \E k \in Keys : SetMerchantKey(m, k)
             \/ \E a \in Routes : SetMerchantAccount(m, a)
             \/ \E ts \in TokenLists : SetMerchantAcceptedTokens(m, ts)
             \/ \E t \in Tokens : RemoveMerchantAcceptedToken(m, t)
             \/ \E status \in Restrictions : RestrictMerchantAccount(m, status)
      PROVE  platformVars' = platformVars
  <2>1. ASSUME NEW status \in Restrictions, RestrictMerchantAccount(m, status)
        PROVE  platformVars' = platformVars
    BY <2>1 DEF RestrictMerchantAccount
  <2>2. ASSUME \/ RegisterMerchant(m)
               \/ \E status \in Statuses : SetMerchantStatus(m, status)
               \/ \E k \in Keys : SetMerchantKey(m, k)
               \/ \E a \in Routes : SetMerchantAccount(m, a)
        PROVE  platformVars' = platformVars
    BY <2>2 DEF RegisterMerchant, SetMerchantStatus, SetMerchantKey, SetMerchantAccount
  <2>3. ASSUME \/ \E ts \in TokenLists : SetMerchantAcceptedTokens(m, ts)
               \/ \E t \in Tokens : RemoveMerchantAcceptedToken(m, t)
        PROVE  platformVars' = platformVars
    BY <2>3 DEF SetMerchantAcceptedTokens, RemoveMerchantAcceptedToken
  <2> QED BY <1>4, <2>1, <2>2, <2>3
<1> QED BY <1>1, <1>2, <1>3, <1>4 DEF MerchantsNext

\* The entry points that create invoices.
LEMMA CreationStep ==
  ASSUME InvoiceInv, Creation
  PROVE  /\ WorldOK' /\ AllSound(invoices)' /\ Continues
         /\ ~paused
<1>1. ASSUME NEW q, Sound(q), Store(q)
      PROVE  WorldOK' /\ AllSound(invoices)' /\ Continues
  <2>1. /\ invoices' = Append(invoices, q)
        /\ UNCHANGED platformVars
    BY <1>1 DEF Store
  <2>2. WorldOK'
    BY <2>1 DEF InvoiceInv, WorldOK, platformVars, configVars
  <2>3. /\ AllSound(Append(invoices, q))
        /\ \A i \in DOMAIN invoices : Append(invoices, q)[i] = invoices[i]
    BY <1>1, Extended DEF InvoiceInv
  <2>4. AllSound(invoices)'
    BY <2>1, <2>3 DEF AllSound
  <2>5. Continues
    BY <2>1, <2>3, KeepsSelf DEF InvoiceInv, AllSound, Continues
  <2> QED BY <2>2, <2>4, <2>5
<1>2. ASSUME NEW m \in Seller, NEW t \in Tokens, NEW expiry \in Expiries, NEW amt \in Amounts,
             CreateInvoice(m, amt, t, expiry)
      PROVE  ~paused /\ \E q : Sound(q) /\ Store(q)
  <2>1. /\ ~paused /\ amt > 0 /\ amt \in Int
        /\ Store(NewInvoice(m, amt, t, expiry))
    BY <1>2, InvoiceAssumption DEF CreateInvoice, Valid
  <2> QED BY <2>1, NewSound
<1>3. ASSUME NEW m \in Seller, NEW t \in Tokens, NEW expiry \in Expiries, NEW amt \in Drafts,
             CreateInvoiceDraft(m, amt, t, expiry)
      PROVE  ~paused /\ \E q : Sound(q) /\ Store(q)
  <2> DEFINE q == [NewInvoice(m, amt, t, expiry) EXCEPT !.status = "Draft"]
  <2>1. ~paused /\ amt > 0 /\ amt \in Int /\ Store(q)
    BY <1>3, InvoiceAssumption DEF CreateInvoiceDraft, Valid
  <2>2. Sound(q)
    BY <2>1, NewSound
  <2> QED BY <2>1, <2>2
<1>4. ASSUME NEW m \in Seller, NEW t \in Tokens, NEW expiry \in Expiries,
             NEW amt \in FiatAmounts, CreateFiatInvoice(m, amt, t, expiry)
      PROVE  ~paused /\ \E q : Sound(q) /\ Store(q)
  <2> DEFINE quote == Quote(amt, t)
             q == [NewInvoice(m, quote, t, expiry) EXCEPT !.fiat = amt]
  <2>1. ~paused /\ amt > 0 /\ amt \in Int /\ Quotable(amt, t) /\ Store(q)
    BY <1>4, InvoiceAssumption DEF CreateFiatInvoice
  <2>2. amt \in Nat
    BY <2>1
  <2>3. quote \in Nat /\ quote > 0
    BY <2>1, <2>2, QuoteType DEF InvoiceInv
  <2> HIDE DEF quote
  <2>4. Sound(q)
    BY <2>2, <2>3, NewSound
  <2> QED BY <2>1, <2>4
<1>5. ASSUME NEW m \in Messages, CreateInvoiceSigned(m)
      PROVE  ~paused /\ \E q : Sound(q) /\ Store(q)
  <2>1. /\ ~paused /\ m.amount > 0 /\ m.amount \in Int
        /\ m.merchant \in Seller /\ m.token \in Tokens
        /\ Store(NewInvoice(m.merchant, m.amount, m.token, None))
    BY <1>5, InvoiceAssumption DEF CreateInvoiceSigned, Valid
  <2> QED BY <2>1, NewSound
<1>6. ~paused /\ \E q : Sound(q) /\ Store(q)
  BY <1>2, <1>3, <1>4, <1>5 DEF Creation
<1> QED BY <1>1, <1>6

\* A step that makes q of invoice i.
LEMMA RewriteStep ==
  ASSUME InvoiceInv, NEW i \in DOMAIN invoices, NEW q, Sound(q), Keeps(invoices[i], q),
         invoices' = [invoices EXCEPT ![i] = q], UNCHANGED platformVars
  PROVE  WorldOK' /\ AllSound(invoices)' /\ Continues
<1> DEFINE next == [invoices EXCEPT ![i] = q]
<1>1. AllSound(next) /\ Follows(invoices, next)
  BY Rewritten DEF InvoiceInv
<1> HIDE DEF next
<1>2. invoices' = next
  BY DEF next
<1>3. WorldOK'
  BY DEF InvoiceInv, WorldOK, platformVars, configVars
<1>4. AllSound(invoices)'
  BY <1>1, <1>2 DEF AllSound
<1>5. Continues
  BY <1>1, <1>2 DEF Continues, Follows
<1> QED BY <1>3, <1>4, <1>5

\* A step that installs a world whose invoices follow these.
LEMMA InstallStep ==
  ASSUME InvoiceInv, NEW w, Install(w), AllSound(w.invoices), Follows(invoices, w.invoices)
  PROVE  WorldOK' /\ AllSound(invoices)' /\ Continues
<1>1. invoices' = w.invoices /\ now' = now /\ price' = price
  BY DEF Install, configVars
<1>2. WorldOK'
  BY <1>1 DEF InvoiceInv, WorldOK
<1>3. AllSound(invoices)'
  BY <1>1 DEF AllSound
<1>4. Continues
  BY <1>1 DEF Continues, Follows
<1> QED BY <1>2, <1>3, <1>4

\* The entry points that pay them.
LEMMA PaymentStep ==
  ASSUME InvoiceInv, NEW p \in Payers, NEW i \in DOMAIN invoices,
         \/ PayInvoice(p, i)
         \/ \E amt \in Instalments : PayInvoicePartial(p, i, amt)
         \/ \E j \in DOMAIN invoices : PayInvoicesBatch(p, i, j)
  PROVE  /\ WorldOK' /\ AllSound(invoices)' /\ Continues
         /\ ~paused
<1>1. WorldOK /\ AllSound(World.invoices) /\ World.invoices = invoices
  BY DEF InvoiceInv, World
<1> DEFINE w == World
<1> HIDE DEF w
<1>2. WorldOK /\ AllSound(w.invoices) /\ w.invoices = invoices
  BY <1>1 DEF w
<1>3. CASE PayInvoice(p, i)
  <2>1. ~paused /\ PayableInFull(w, p, i) /\ Install(PayInFull(w, p, i))
    BY <1>3 DEF PayInvoice, w
  <2>2. /\ AllSound(PayInFull(w, p, i).invoices)
        /\ Follows(invoices, PayInFull(w, p, i).invoices)
    BY <1>2, <2>1, PayInFullSound
  <2> QED BY <2>1, <2>2, InstallStep
<1>4. ASSUME NEW amt \in Instalments, PayInvoicePartial(p, i, amt)
      PROVE  WorldOK' /\ AllSound(invoices)' /\ Continues /\ ~paused
  <2>1. ~paused /\ Payable(w, p, i, amt) /\ Install(Pay(w, p, i, amt)) /\ amt \in Int
    BY <1>4, InvoiceAssumption DEF PayInvoicePartial, w
  <2>2. /\ AllSound(Pay(w, p, i, amt).invoices)
        /\ Follows(invoices, Pay(w, p, i, amt).invoices)
    BY <1>2, <2>1, PaySound
  <2> QED BY <2>1, <2>2, InstallStep
<1>5. ASSUME NEW j \in DOMAIN invoices, PayInvoicesBatch(p, i, j)
      PROVE  WorldOK' /\ AllSound(invoices)' /\ Continues /\ ~paused
  <2> DEFINE v == PayInFull(w, p, i)
             u == PayInFull(v, p, j)
  <2>1. ~paused /\ PayableInFull(w, p, i) /\ PayableInFull(v, p, j) /\ Install(u)
    BY <1>5 DEF PayInvoicesBatch, w
  <2>2. AllSound(v.invoices) /\ Follows(invoices, v.invoices)
    BY <1>2, <2>1, PayInFullSound
  <2> HIDE DEF v
  <2>3. j \in DOMAIN v.invoices
    BY <2>2 DEF Follows
  <2>4. AllSound(u.invoices) /\ Follows(v.invoices, u.invoices)
    BY <1>2, <2>1, <2>2, <2>3, PayInFullSound
  <2> HIDE DEF u
  <2>5. Follows(invoices, u.invoices)
    BY <1>2, <2>2, <2>4, FollowsTwice
  <2> QED BY <2>1, <2>4, <2>5, InstallStep
<1> QED BY <1>3, <1>4, <1>5

\* The entry points by which a merchant revises them.
LEMMA RevisionStep ==
  ASSUME InvoiceInv, NEW i \in DOMAIN invoices,
         \/ FinalizeInvoice(i)
         \/ VoidInvoice(i)
         \/ \E amt \in Amendments : AmendInvoice(i, amt)
  PROVE  /\ WorldOK' /\ AllSound(invoices)' /\ Continues
         /\ ~paused
<1> DEFINE q == invoices[i]
<1>1. Sound(q)
  BY DEF InvoiceInv, AllSound
<1>2. ASSUME NEW r, Revise(i, r), Sound(r), Keeps(q, r)
      PROVE  WorldOK' /\ AllSound(invoices)' /\ Continues
  BY <1>2, RewriteStep DEF Revise
<1>3. ~paused
  BY DEF FinalizeInvoice, VoidInvoice, AmendInvoice
<1>4. CASE FinalizeInvoice(i)
  <2> DEFINE r == [q EXCEPT !.status = "Pending"]
  <2>1. q.status = "Draft" /\ Revise(i, r)
    BY <1>4 DEF FinalizeInvoice
  <2>2. Sound(r) /\ Keeps(q, r)
    BY <1>1, <2>1, RevisedSound
  <2> QED BY <1>2, <1>3, <2>1, <2>2
<1>5. CASE VoidInvoice(i)
  <2> DEFINE r == [q EXCEPT !.status = "Cancelled"]
  <2>1. q.status = "Pending" /\ Revise(i, r)
    BY <1>5 DEF VoidInvoice, Unpaid
  <2>2. Sound(r) /\ Keeps(q, r)
    BY <1>1, <2>1, RevisedSound
  <2> QED BY <1>2, <1>3, <2>1, <2>2
<1>6. ASSUME NEW amt \in Amendments, AmendInvoice(i, amt)
      PROVE  WorldOK' /\ AllSound(invoices)' /\ Continues
  <2> DEFINE r == [q EXCEPT !.amount = amt]
  <2>1. q.status = "Pending" /\ amt > 0 /\ amt \in Int /\ Revise(i, r)
    BY <1>6, InvoiceAssumption DEF AmendInvoice, Unpaid
  <2>2. amt \in Nat
    BY <2>1
  <2>3. Sound(r) /\ Keeps(q, r)
    BY <1>1, <2>1, <2>2, RevisedSound
  <2> QED BY <1>2, <2>1, <2>3
<1> QED BY <1>3, <1>4, <1>5, <1>6

\* The entry points that refund them.
LEMMA RefundStep ==
  ASSUME InvoiceInv, NEW i \in DOMAIN invoices,
         \/ RefundInvoice(i)
         \/ \E amt \in PartRefunds : RefundInvoicePartial(i, amt)
         \/ ClaimRefund(i)
  PROVE  WorldOK' /\ AllSound(invoices)' /\ Continues
<1> DEFINE q == invoices[i]
           paid == q.amount_paid
           amount == q.amount
           refunded == q.amount_refunded
<1>1. Sound(q) /\ q \in InvoiceRecord
  BY DEF InvoiceInv, AllSound, Sound
<1>2. ASSUME NEW r, NEW amt, PayBack(i, r, amt), Sound(r), Keeps(q, r)
      PROVE  WorldOK' /\ AllSound(invoices)' /\ Continues
  BY <1>2, RewriteStep DEF PayBack
<1>3. /\ paid \in Nat /\ amount \in Nat /\ refunded \in Nat
      /\ (q.payer = None) = (paid = 0)
      /\ q.status \in {"Paid", "PartiallyRefunded"} => paid = amount
      /\ q.status \in {"Paid", "PartiallyPaid"} => refunded = 0
      /\ q.status = "PartiallyRefunded" => refunded \in 1 .. amount - 1
  BY <1>1, Fields DEF Sound, Tally
<1>4. CASE RefundInvoice(i)
  <2> DEFINE r == [q EXCEPT !.amount_refunded = amount, !.status = "Refunded"]
  <2>1. q.status = "Paid" /\ amount > refunded /\ PayBack(i, r, amount - refunded)
    BY <1>4 DEF RefundInvoice
  <2>2. amount = paid /\ paid > 0 /\ amount >= refunded
    BY <1>3, <2>1
  <2>3. amount \in Nat
    BY <1>3
  <2> HIDE DEF amount
  <2>4. Sound(r) /\ Keeps(q, r)
    BY <1>1, <2>1, <2>2, <2>3, PaidBackSound
  <2> QED BY <1>2, <2>1, <2>4
<1>5. ASSUME NEW amt \in PartRefunds, RefundInvoicePartial(i, amt)
      PROVE  WorldOK' /\ AllSound(invoices)' /\ Continues
  <2> DEFINE total == refunded + amt
             status == IF total = amount THEN "Refunded" ELSE "PartiallyRefunded"
             r == [q EXCEPT !.amount_refunded = total, !.status = status]
  <2>1. /\ q.status \in {"Paid", "PartiallyRefunded"}
        /\ amt > 0 /\ amt \in Int
        /\ total <= amount
        /\ PayBack(i, r, amt)
    BY <1>5, InvoiceAssumption DEF RefundInvoicePartial, WithinAmount
  <2> HIDE DEF q, amount, refunded
  <2>2. total \in Nat /\ 0 < total /\ total >= refunded /\ paid = amount /\ paid > 0
    BY <1>3, <2>1
  <2>3. \/ status = "Refunded" /\ total = paid
        \/ /\ status = "PartiallyRefunded" /\ q.status # "PartiallyPaid"
           /\ 0 < total /\ total < amount
    <3> HIDE DEF total
    <3> QED BY <1>3, <2>1, <2>2
  <2> HIDE DEF total, status
  <2>4. Sound(r) /\ Keeps(q, r)
    BY <1>1, <2>1, <2>2, <2>3, PaidBackSound DEF amount, refunded
  <2> QED BY <1>2, <2>1, <2>4
<1>6. CASE ClaimRefund(i)
  <2> DEFINE r == [q EXCEPT !.amount_refunded = paid, !.status = "Refunded"]
  <2>1. /\ q.status \in {"Paid", "PartiallyPaid"} /\ q.payer # None
        /\ PayBack(i, r, paid - refunded)
    BY <1>6 DEF ClaimRefund
  <2>2. paid > 0 /\ paid >= refunded
    BY <1>3, <2>1
  <2>3. Sound(r) /\ Keeps(q, r)
    BY <1>1, <1>3, <2>1, <2>2, PaidBackSound
  <2> QED BY <1>2, <2>1, <2>3
<1> QED BY <1>4, <1>5, <1>6

\* Every step keeps the invoices sound and continues those there are.
LEMMA InvoiceStep ==
  ASSUME InvoiceInv, [Next]_vars
  PROVE  InvoiceInv' /\ Continues
<1>1. CASE MerchantsNext /\ UNCHANGED invoiceVars
  BY <1>1, Unmoved, MerchantsStep DEF InvoiceInv, invoiceVars
<1>2. CASE Creation
  BY <1>2, CreationStep DEF InvoiceInv
<1>3. ASSUME NEW p \in Payers, NEW ids \in Batches,
             {ids[1], ids[2]} \subseteq DOMAIN invoices,
             PayInvoicesBatch(p, ids[1], ids[2])
      PROVE  InvoiceInv' /\ Continues
  BY <1>3, PaymentStep DEF InvoiceInv
<1>4. ASSUME NEW i \in DOMAIN invoices,
             \/ FinalizeInvoice(i) \/ VoidInvoice(i)
             \/ \E amt \in Amendments : AmendInvoice(i, amt)
      PROVE  InvoiceInv' /\ Continues
  BY <1>4, RevisionStep DEF InvoiceInv
<1>5. ASSUME NEW i \in DOMAIN invoices, NEW p \in Payers,
             PayInvoice(p, i) \/ \E amt \in Instalments : PayInvoicePartial(p, i, amt)
      PROVE  InvoiceInv' /\ Continues
  BY <1>5, PaymentStep DEF InvoiceInv
<1>6. ASSUME NEW i \in DOMAIN invoices,
             \/ RefundInvoice(i)
             \/ \E amt \in PartRefunds : RefundInvoicePartial(i, amt)
             \/ ClaimRefund(i)
      PROVE  InvoiceInv' /\ Continues
  BY <1>6, RefundStep DEF InvoiceInv
<1>7. CASE UNCHANGED vars
  <2>1. invoices' = invoices /\ now' = now /\ price' = price
    BY <1>7 DEF vars, invoiceVars, platformVars, configVars
  <2> QED BY <2>1, Unmoved DEF InvoiceInv, WorldOK
<1>8. CASE InvoiceNext
  BY <1>2, <1>3, <1>4, <1>5, <1>6, <1>8 DEF InvoiceNext
<1> QED BY <1>1, <1>7, <1>8 DEF Next

\* There are no invoices at the start.
LEMMA InvoiceStart ==
  ASSUME Init
  PROVE  InvoiceInv
<1>1. invoices = << >> /\ now = 0 /\ price \in [Tokens -> Prices \cup {0}]
  BY DEF Init, MerchantsInit, PlatformInit
<1>2. WorldOK
  <2>1. \A x \in Prices \cup {0} : x \in Nat
    BY PlatformAssumption
  <2>2. price \in [Tokens -> Nat]
    BY <1>1, <2>1
  <2> QED BY <1>1, <2>2 DEF WorldOK
<1>3. invoices \in Seq(InvoiceRecord) /\ DOMAIN invoices = {}
  BY <1>1
<1> QED BY <1>2, <1>3 DEF InvoiceInv, AllSound

-----------------------------------------------------------------------------
(* Theorems. *)

\* The invoices' invariant: every invoice's amounts, status, payer and dates agree.
THEOREM InvoiceInvHolds == Spec => []InvoiceInv
<1>1. Init => InvoiceInv
  BY InvoiceStart
<1>2. InvoiceInv /\ [Next]_vars => InvoiceInv'
  BY InvoiceStep
<1> QED BY <1>1, <1>2, PTL DEF Spec

\* The status of an invoice, its amounts, its payer and its date of payment tell
\* the same story, for every sequence of instalments, re-quotes, amendments,
\* refunds and claims, and for every amount the entry points are called with.
THEOREM InvoiceBooksHolds == Spec => []InvoiceBooks
<1>1. InvoiceInv => InvoiceBooks
  BY DEF InvoiceInv, AllSound, Sound, Tally, InvoiceBooks
<1> QED BY <1>1, InvoiceInvHolds, PTL

\* Amount, token, merchant and payer of an invoice stay as they are from its first
\* instalment on, whatever the merchant, the oracle or another payer does.
THEOREM PaidTermsFixedHolds == Spec => PaidTermsFixed
<1> DEFINE Fixed ==
        \A i \in DOMAIN invoices :
            invoices[i].amount_paid > 0 =>
                /\ invoices'[i].amount = invoices[i].amount
                /\ invoices'[i].token = invoices[i].token
                /\ invoices'[i].merchant = invoices[i].merchant
                /\ invoices'[i].payer = invoices[i].payer
<1>1. InvoiceInv /\ [Next]_vars => [Fixed]_vars
  BY InvoiceStep DEF Continues, Keeps, TermsKept
<1> QED BY <1>1, InvoiceInvHolds, PTL DEF Spec, PaidTermsFixed

\* An invoice's money goes one way, for every amount, number of invoices, order of
\* calls and passing of time: a paid, refunding or expired one takes no more, what it
\* gave back it does not take back, and a cancelled or refunded one stays as it is.
THEOREM ClosedForGoodHolds == Spec => ClosedForGood
<1> DEFINE Closed ==
        \A i \in DOMAIN invoices :
            LET q == invoices[i]
            IN  /\ q.status \in {"Cancelled", "Refunded"} => invoices'[i] = q
                /\ q.status \in {"Paid", "PartiallyRefunded"} \/ Expired(q) =>
                        invoices'[i].amount_paid = q.amount_paid
                /\ invoices'[i].amount_refunded >= q.amount_refunded
<1>1. InvoiceInv /\ [Next]_vars => [Closed]_vars
  BY InvoiceStep DEF Continues, Keeps, OneWay
<1> QED BY <1>1, InvoiceInvHolds, PTL DEF Spec, ClosedForGood

\* While the contract is paused the invoices and the analytics stay as they are,
\* but for an expired invoice that its payer claims.
THEOREM PausedFrozenHolds == Spec => PausedFrozen
<1> DEFINE Claimed(i) == /\ invoices[i].expires_at # None
                         /\ now >= invoices[i].expires_at
                         /\ invoices'[i].status = "Refunded"
           Frozen == paused =>
                        /\ Len(invoices') = Len(invoices)
                        /\ stats' = stats
                        /\ \A i \in DOMAIN invoices :
                                invoices'[i] # invoices[i] => Claimed(i)
<1>1. ASSUME InvoiceInv, Next
      PROVE  Frozen
  <2> SUFFICES ASSUME paused PROVE Frozen
    OBVIOUS
  <2>1. CASE MerchantsNext /\ UNCHANGED invoiceVars
    <3>1. invoices' = invoices /\ stats' = stats
      BY <1>1, <2>1, MerchantsStep DEF InvoiceInv, invoiceVars
    <3> QED BY <3>1
  <2>2. CASE Creation
    BY <1>1, <2>2, CreationStep
  <2>3. ASSUME NEW p \in Payers, NEW ids \in Batches,
               {ids[1], ids[2]} \subseteq DOMAIN invoices,
               PayInvoicesBatch(p, ids[1], ids[2])
        PROVE  Frozen
    BY <1>1, <2>3, PaymentStep
  <2>4. ASSUME NEW i \in DOMAIN invoices,
               \/ FinalizeInvoice(i) \/ VoidInvoice(i)
               \/ \E amt \in Amendments : AmendInvoice(i, amt)
        PROVE  Frozen
    BY <1>1, <2>4, RevisionStep
  <2>5. ASSUME NEW i \in DOMAIN invoices, NEW p \in Payers,
               PayInvoice(p, i) \/ \E amt \in Instalments : PayInvoicePartial(p, i, amt)
        PROVE  Frozen
    BY <1>1, <2>5, PaymentStep
  <2>6. ASSUME NEW i \in DOMAIN invoices,
               RefundInvoice(i) \/ \E amt \in PartRefunds : RefundInvoicePartial(i, amt)
        PROVE  Frozen
    BY <2>6 DEF RefundInvoice, RefundInvoicePartial
  <2>7. ASSUME NEW i \in DOMAIN invoices, ClaimRefund(i)
        PROVE  Frozen
    <3> DEFINE q == invoices[i]
               r == [q EXCEPT !.amount_refunded = q.amount_paid, !.status = "Refunded"]
               next == [invoices EXCEPT ![i] = r]
    <3>1. /\ q.expires_at # None
          /\ now >= q.expires_at
          /\ PayBack(i, r, q.amount_paid - q.amount_refunded)
      BY <2>7 DEF ClaimRefund
    <3>2. invoices' = next /\ stats' = stats
      BY <3>1 DEF PayBack, platformVars
    <3>3. invoices \in Seq(InvoiceRecord) /\ q \in InvoiceRecord
      BY <1>1 DEF InvoiceInv, AllSound
    <3>4. r \in InvoiceRecord /\ r.status = "Refunded"
      <4>1. q.amount_paid \in Nat /\ "Refunded" \in Status
        BY <3>3, Fields DEF Status
      <4> HIDE DEF q
      <4> QED BY <3>3, <4>1 DEF InvoiceRecord
    <3> HIDE DEF r
    <3>5. /\ Len(next) = Len(invoices)
          /\ next[i] = r
          /\ \A j \in DOMAIN invoices \ {i} : next[j] = invoices[j]
      BY <3>3, <3>4
    <3> HIDE DEF next
    <3> QED BY <3>1, <3>2, <3>4, <3>5
  <2>8. CASE InvoiceNext
    <3> HIDE DEF Frozen
    <3> QED BY <2>2, <2>3, <2>4, <2>5, <2>6, <2>7, <2>8 DEF InvoiceNext
  <2> QED BY <1>1, <2>1, <2>8 DEF Next
<1>2. InvoiceInv /\ [Next]_vars => [Frozen]_vars
  <2> HIDE DEF Frozen
  <2> QED BY <1>1
<1> QED BY <1>2, InvoiceInvHolds, PTL DEF Spec, PausedFrozen

-----------------------------------------------------------------------------
(* Signed messages.  Every message redeemed has its nonce on record, and no two *)
(* the same: the next one, whose nonce is not on record, differs from them all.  *)

SignedInv ==
    /\ redeemed \in Seq(Messages)
    /\ usedNonces \subseteq {<<q.merchant, q.nonce>> : q \in Messages}
    /\ \A i \in DOMAIN redeemed : <<redeemed[i].merchant, redeemed[i].nonce>> \in usedNonces
    /\ SignedOnce

\* A redeemed message spends its nonce.
LEMMA SignedStep ==
  ASSUME SignedInv, NEW q \in Messages, CreateInvoiceSigned(q)
  PROVE  SignedInv'
<1> DEFINE next == Append(redeemed, q)
           used == usedNonces \cup {<<q.merchant, q.nonce>>}
<1>1. redeemed' = next /\ usedNonces' = used /\ <<q.merchant, q.nonce>> \notin usedNonces
  BY DEF CreateInvoiceSigned, Burnt
<1>2. redeemed \in Seq(Messages)
  BY DEF SignedInv
<1>3. /\ next \in Seq(Messages)
      /\ DOMAIN next = DOMAIN redeemed \cup {Len(redeemed) + 1}
      /\ next[Len(redeemed) + 1] = q
      /\ \A i \in DOMAIN redeemed : next[i] = redeemed[i]
  BY <1>2
<1> HIDE DEF next
<1>4. \A i \in DOMAIN next : <<next[i].merchant, next[i].nonce>> \in used
  BY <1>3 DEF SignedInv
<1>5. ASSUME NEW i \in DOMAIN next, NEW j \in DOMAIN next,
             next[i].merchant = next[j].merchant, next[i].nonce = next[j].nonce
      PROVE  i = j
  <2>1. CASE i \in DOMAIN redeemed /\ j \in DOMAIN redeemed
    BY <1>3, <1>5, <2>1 DEF SignedInv, SignedOnce
  <2>2. \A k \in DOMAIN redeemed :
            ~(next[k].merchant = q.merchant /\ next[k].nonce = q.nonce)
    BY <1>1, <1>3 DEF SignedInv
  <2> QED BY <1>3, <1>5, <2>1, <2>2
<1>6. used \subseteq {<<m.merchant, m.nonce>> : m \in Messages}
  BY DEF SignedInv
<1> QED BY <1>1, <1>3, <1>4, <1>5, <1>6 DEF SignedInv, SignedOnce

\* No message is redeemed at the start.
LEMMA SignedInvInit ==
  ASSUME Init
  PROVE  SignedInv
<1>1. redeemed = << >> /\ usedNonces = {}
  BY DEF Init
<1>2. redeemed \in Seq(Messages) /\ DOMAIN redeemed = {}
  BY <1>1
<1> QED BY <1>1, <1>2 DEF SignedInv, SignedOnce

\* Every step of the invoices keeps the nonces of the messages redeemed.
LEMMA SignedInvStep ==
  ASSUME SignedInv, [Next]_vars
  PROVE  SignedInv'
<1>1. CASE redeemed' = redeemed /\ usedNonces' = usedNonces
  BY <1>1 DEF SignedInv, SignedOnce
<1>2. CASE MerchantsNext /\ UNCHANGED invoiceVars
  BY <1>1, <1>2 DEF invoiceVars
<1>3. CASE Creation
  <2>1. ASSUME NEW m \in Seller, NEW t \in Tokens, NEW expiry \in Expiries,
               \/ \E amt \in Amounts : CreateInvoice(m, amt, t, expiry)
               \/ \E amt \in Drafts : CreateInvoiceDraft(m, amt, t, expiry)
               \/ \E amt \in FiatAmounts : CreateFiatInvoice(m, amt, t, expiry)
        PROVE  SignedInv'
    BY <1>1, <2>1 DEF CreateInvoice, CreateInvoiceDraft, CreateFiatInvoice
  <2>2. ASSUME NEW q \in Messages, CreateInvoiceSigned(q)
        PROVE  SignedInv'
    BY <2>2, SignedStep
  <2> QED BY <1>3, <2>1, <2>2 DEF Creation
<1>4. ASSUME NEW p \in Payers, NEW ids \in Batches, PayInvoicesBatch(p, ids[1], ids[2])
      PROVE  SignedInv'
  BY <1>1, <1>4 DEF PayInvoicesBatch, Install
<1>5. ASSUME NEW i \in DOMAIN invoices,
             \/ FinalizeInvoice(i) \/ VoidInvoice(i)
             \/ \E amt \in Amendments : AmendInvoice(i, amt)
      PROVE  SignedInv'
  BY <1>1, <1>5 DEF FinalizeInvoice, VoidInvoice, AmendInvoice, Revise
<1>6. ASSUME NEW i \in DOMAIN invoices, NEW p \in Payers,
             PayInvoice(p, i) \/ \E amt \in Instalments : PayInvoicePartial(p, i, amt)
      PROVE  SignedInv'
  BY <1>1, <1>6 DEF PayInvoice, PayInvoicePartial, Install
<1>7. ASSUME NEW i \in DOMAIN invoices,
             \/ RefundInvoice(i)
             \/ \E amt \in PartRefunds : RefundInvoicePartial(i, amt)
             \/ ClaimRefund(i)
      PROVE  SignedInv'
  BY <1>1, <1>7 DEF RefundInvoice, RefundInvoicePartial, ClaimRefund, PayBack
<1>8. CASE InvoiceNext
  BY <1>3, <1>4, <1>5, <1>6, <1>7, <1>8 DEF InvoiceNext
<1>9. CASE UNCHANGED vars
  BY <1>1, <1>9 DEF vars, invoiceVars
<1> QED BY <1>2, <1>8, <1>9 DEF Next

\* The messages that became invoices, and the nonces they spent.
THEOREM SignedInvHolds == Spec => []SignedInv
<1>1. SignedInv /\ [Next]_vars => SignedInv'
  BY SignedInvStep
<1>2. Init => SignedInv
  BY SignedInvInit
<1> QED BY <1>1, <1>2, PTL DEF Spec

\* A signed message becomes an invoice at most once, whatever keys the merchants
\* register in between and whoever submits it.
THEOREM SignedOnceHolds == Spec => []SignedOnce
<1>1. SignedInv => SignedOnce
  BY DEF SignedInv
<1> QED BY <1>1, SignedInvHolds, PTL

-----------------------------------------------------------------------------
(* Types.  The steps of every module that composes Merchants keep them through  *)
(* the lemmas of this section.                                                 *)

\* The discount grows with the volume.
LEMMA DiscountGrows ==
  ASSUME NEW v \in Nat, NEW w \in Nat, v <= w
  PROVE  /\ {Discount(v), Discount(w)} \subseteq {0, 10, 25, 50}
         /\ Discount(v) <= Discount(w)
  BY DEF Discount

\* A larger volume never has the higher rate.
LEMMA RateFalls ==
  ASSUME NEW bps \in Nat, NEW v \in Nat, NEW w \in Nat, v <= w
  PROVE  /\ DiscountedBps(bps, v) \in Nat
         /\ DiscountedBps(bps, w) \in Nat
         /\ DiscountedBps(bps, w) <= DiscountedBps(bps, v)
<1> DEFINE less == bps * (100 - Discount(w))
           more == bps * (100 - Discount(v))
<1>1. /\ less \in {bps * 100, bps * 90, bps * 75, bps * 50}
      /\ more \in {bps * 100, bps * 90, bps * 75, bps * 50}
      /\ less <= more
  <2> DEFINE dv == Discount(v)
             dw == Discount(w)
  <2>1. dv \in {0, 10, 25, 50} /\ dw \in {0, 10, 25, 50} /\ dv <= dw
    BY DiscountGrows
  <2> HIDE DEF dv, dw
  <2>2. \/ dw = 0 /\ dv = 0
        \/ dw = 10 /\ dv \in {0, 10}
        \/ dw = 25 /\ dv \in {0, 10, 25}
        \/ dw = 50 /\ dv \in {0, 10, 25, 50}
    BY <2>1
  <2> QED BY <2>2 DEF dv, dw
<1>2. less \in Nat /\ more \in Nat
  BY <1>1
<1> HIDE DEF less, more
<1>3. less \div 100 \in Nat /\ more \div 100 \in Nat /\ less \div 100 <= more \div 100
  BY <1>1, <1>2
<1> QED BY <1>3 DEF DiscountedBps, less, more

\* A fee is a number.
LEMMA FeeType ==
  ASSUME NEW bps \in Nat, NEW volume \in Nat, NEW amount \in Nat
  PROVE  FeeAt(bps, volume, amount) \in Nat
<1> DEFINE rate == DiscountedBps(bps, volume)
           part == amount * rate
<1>1. rate \in Nat
  BY RateFalls
<1> HIDE DEF rate
<1>2. part \in Nat
  BY <1>1
<1> HIDE DEF part
<1>3. part \div 10000 \in Nat
  BY <1>2
<1> QED BY <1>3 DEF FeeAt, part, rate

StatsType == [merchant : [Seller -> [Tokens -> Analysis]], token : [Tokens -> TokenAnalysis]]

\* A row of the analytics after one more payment.
LEMMA CountedFacts ==
  ASSUME NEW row \in Analysis, NEW amt \in Nat, NEW charged \in Int
  PROVE  /\ Counted(row, amt, charged) \in Analysis
         /\ Counted(row, amt, charged).total_volume = row.total_volume + amt
         /\ Counted(row, amt, charged).total_fees = row.total_fees + charged
<1> DEFINE v == row.total_volume
           f == row.total_fees
           n == row.transaction_count
           v2 == v + amt
           f2 == f + charged
           n2 == n + 1
<1>1. row = [total_volume |-> v, total_fees |-> f, transaction_count |-> n]
  BY DEF Analysis
<1>2. v \in Nat /\ f \in Int /\ n \in Nat
  BY DEF Analysis
<1> HIDE DEF v, f, n
<1>3. Counted(row, amt, charged)
        = [total_volume |-> v2, total_fees |-> f2, transaction_count |-> n2]
  <2>1. Counted(row, amt, charged)
            = [row EXCEPT !.total_volume = v2, !.total_fees = f2, !.transaction_count = n2]
    BY DEF Counted, v, f, n
  <2> HIDE DEF v2, f2, n2
  <2> QED BY <1>1, <2>1
<1>4. v2 \in Nat /\ f2 \in Int /\ n2 \in Nat
  BY <1>2
<1> HIDE DEF v2, f2, n2
<1>5. /\ Counted(row, amt, charged) \in Analysis
      /\ Counted(row, amt, charged).total_volume = v2
      /\ Counted(row, amt, charged).total_fees = f2
  BY <1>3, <1>4 DEF Analysis
<1> QED BY <1>5 DEF v, f, v2, f2

\* The token's row likewise, whether or not it counts a merchant.
LEMMA TokenRowFacts ==
  ASSUME NEW row \in TokenAnalysis, NEW amt \in Nat, NEW charged \in Int
  PROVE  /\ RecordTokenPayment(row, amt, charged) \in TokenAnalysis
         /\ RecordTokenPayment(row, amt, charged).total_volume = row.total_volume + amt
         /\ RecordTokenPayment(row, amt, charged).total_fees = row.total_fees + charged
<1> DEFINE v == row.total_volume
           f == row.total_fees
           n == row.transaction_count
           k == row.unique_merchants
           v2 == v + amt
           f2 == f + charged
           n2 == n + 1
           k2 == k + 1
           next == RecordTokenPayment(row, amt, charged)
<1>1. row = [total_volume |-> v, total_fees |-> f, transaction_count |-> n,
             unique_merchants |-> k]
  BY DEF TokenAnalysis
<1>2. v \in Nat /\ f \in Int /\ n \in Nat /\ k \in Nat
  BY DEF TokenAnalysis
<1> HIDE DEF v, f, n, k
<1>3. Counted(row, amt, charged)
        = [total_volume |-> v2, total_fees |-> f2, transaction_count |-> n2,
           unique_merchants |-> k]
  <2>1. Counted(row, amt, charged)
            = [row EXCEPT !.total_volume = v2, !.total_fees = f2, !.transaction_count = n2]
    BY DEF Counted, v, f, n
  <2> HIDE DEF v2, f2, n2
  <2> QED BY <1>1, <2>1
<1>4. v2 \in Nat /\ f2 \in Int /\ n2 \in Nat /\ k2 \in Nat
  BY <1>2
<1> HIDE DEF v2, f2, n2
<1>5. PICK c : c = Counted(row, amt, charged)
  OBVIOUS
<1>6. [c EXCEPT !.unique_merchants = @ + 1]
        = [total_volume |-> v2, total_fees |-> f2, transaction_count |-> n2,
           unique_merchants |-> k2]
  BY <1>3, <1>5
<1> HIDE DEF k2
<1>7. \/ next = [total_volume |-> v2, total_fees |-> f2, transaction_count |-> n2,
                 unique_merchants |-> k]
      \/ next = [total_volume |-> v2, total_fees |-> f2, transaction_count |-> n2,
                 unique_merchants |-> k2]
  BY <1>3, <1>5, <1>6 DEF RecordTokenPayment
<1> HIDE DEF next
<1>8. next \in TokenAnalysis /\ next.total_volume = v2 /\ next.total_fees = f2
  BY <1>2, <1>4, <1>7 DEF TokenAnalysis
<1> QED BY <1>8 DEF v, f, v2, f2, next

\* Recording a payment counts it once in the merchant's row and once in the token's.
LEMMA RecordFacts ==
  ASSUME NEW st \in StatsType, NEW m \in Seller, NEW t \in Tokens, NEW amt \in Nat,
         NEW charged \in Int
  PROVE  LET r == RecordMerchantPayment(st, m, t, amt, charged)
         IN  /\ r \in StatsType
             /\ \A n \in Seller, u \in Tokens :
                  /\ r.merchant[n][u].total_volume =
                        st.merchant[n][u].total_volume + (IF n = m /\ u = t THEN amt ELSE 0)
                  /\ r.merchant[n][u].total_fees =
                        st.merchant[n][u].total_fees + (IF n = m /\ u = t THEN charged ELSE 0)
             /\ \A u \in Tokens :
                  /\ r.token[u].total_volume =
                        st.token[u].total_volume + (IF u = t THEN amt ELSE 0)
                  /\ r.token[u].total_fees =
                        st.token[u].total_fees + (IF u = t THEN charged ELSE 0)
<1> DEFINE ms == st.merchant
           ts == st.token
           x == Counted(ms[m][t], amt, charged)
           y == RecordTokenPayment(ts[t], amt, charged)
           mr == [ms EXCEPT ![m] = [ms[m] EXCEPT ![t] = x]]
           tr == [ts EXCEPT ![t] = y]
           r == RecordMerchantPayment(st, m, t, amt, charged)
<1>1. ms \in [Seller -> [Tokens -> Analysis]] /\ ts \in [Tokens -> TokenAnalysis]
  BY DEF StatsType
<1>2. st = [merchant |-> ms, token |-> ts]
  BY DEF StatsType
<1>3. r = [merchant |-> mr, token |-> tr]
  <2> HIDE DEF ms, ts
  <2>1. r = [st EXCEPT !.merchant[m][t] = x, !.token[t] = y]
    BY <1>2 DEF RecordMerchantPayment
  <2> HIDE DEF x, y
  <2>2. PICK s : s = [st EXCEPT !.merchant[m][t] = x]
    OBVIOUS
  <2>3. s = [merchant |-> mr, token |-> ts]
    BY <1>2, <2>2
  <2>4. r = [s EXCEPT !.token[t] = y]
    BY <2>1, <2>2
  <2> QED BY <2>3, <2>4
<1> HIDE DEF ms, ts, r
<1>4. ms[m][t] \in Analysis /\ ts[t] \in TokenAnalysis
  BY <1>1
<1>5. /\ x \in Analysis
      /\ x.total_volume = ms[m][t].total_volume + amt
      /\ x.total_fees = ms[m][t].total_fees + charged
  BY <1>4, CountedFacts
<1>6. /\ y \in TokenAnalysis
      /\ y.total_volume = ts[t].total_volume + amt
      /\ y.total_fees = ts[t].total_fees + charged
  BY <1>4, TokenRowFacts
<1> HIDE DEF x, y
<1>7. mr \in [Seller -> [Tokens -> Analysis]] /\ tr \in [Tokens -> TokenAnalysis]
  BY <1>1, <1>5, <1>6
<1>8. ASSUME NEW n \in Seller, NEW u \in Tokens
      PROVE  /\ mr[n][u].total_volume =
                    ms[n][u].total_volume + (IF n = m /\ u = t THEN amt ELSE 0)
             /\ mr[n][u].total_fees =
                    ms[n][u].total_fees + (IF n = m /\ u = t THEN charged ELSE 0)
  <2>1. ms[n][u].total_volume \in Nat /\ ms[n][u].total_fees \in Int
    BY <1>1 DEF Analysis
  <2>2. CASE n = m /\ u = t
    <3>1. mr[n][u] = x
      BY <1>1, <2>2
    <3> QED BY <1>5, <2>2, <3>1
  <2>3. CASE ~(n = m /\ u = t)
    <3>1. mr[n][u] = ms[n][u]
      BY <1>1, <2>3
    <3> QED BY <2>1, <2>3, <3>1
  <2> QED BY <2>2, <2>3
<1>9. ASSUME NEW u \in Tokens
      PROVE  /\ tr[u].total_volume = ts[u].total_volume + (IF u = t THEN amt ELSE 0)
             /\ tr[u].total_fees = ts[u].total_fees + (IF u = t THEN charged ELSE 0)
  <2>1. ts[u].total_volume \in Nat /\ ts[u].total_fees \in Int
    BY <1>1 DEF TokenAnalysis
  <2> QED BY <1>1, <1>6, <2>1
<1> HIDE DEF mr, tr
<1>10. r \in StatsType /\ r.merchant = mr /\ r.token = tr
  BY <1>3, <1>7 DEF StatsType
<1> QED BY <1>8, <1>9, <1>10 DEF r, ms, ts

\* A registered merchant; its account on record is one that set_merchant_account set.
RoutedMerchant == {rec \in Merchant : rec.account \in Routes \cup {None}}

TypesInv == MerchantsTypeOK /\ merchants \in [Seller -> RoutedMerchant \cup {None}]

\* The merchants of the entries of a list are registered.
Registered(list) == \A i \in DOMAIN list : merchants[list[i].merchant] \in RoutedMerchant

\* Nothing unregisters a merchant.
RegisteredStay ==
    \A m \in Seller : merchants[m] \in RoutedMerchant => merchants'[m] \in RoutedMerchant

\* The administration keeps its types.
LEMMA PlatformTypes ==
  ASSUME PlatformTypeOK, PlatformNext
  PROVE  PlatformTypeOK'
<1> USE PlatformAssumption
<1>1. ASSUME NEW a \in Admins, InitializePlatform(a)
      PROVE  PlatformTypeOK'
  BY <1>1 DEF InitializePlatform, PlatformTypeOK
<1>2. ASSUME NEW a \in Admins, AcceptAdminTransfer(a)
      PROVE  PlatformTypeOK'
  BY <1>2 DEF AcceptAdminTransfer, PlatformTypeOK
<1>3. ASSUME NEW a \in Successors, ProposeAdminTransfer(a)
      PROVE  PlatformTypeOK'
  BY <1>3 DEF ProposeAdminTransfer, PlatformTypeOK
<1>4. ASSUME NEW status \in PauseChanges, SetPaused(status)
      PROVE  PlatformTypeOK'
  BY <1>4 DEF SetPaused, PlatformTypeOK
<1>5. ASSUME NEW t \in Delistable, RemoveAcceptedToken(t)
      PROVE  PlatformTypeOK'
  BY <1>5 DEF RemoveAcceptedToken, PlatformTypeOK
<1>6. ASSUME NEW t \in Tokens, AddAcceptedToken(t)
      PROVE  PlatformTypeOK'
  BY <1>6 DEF AddAcceptedToken, PlatformTypeOK
<1>7. ASSUME NEW t \in Tokens, NEW bps \in Fees, SetFee(t, bps)
      PROVE  PlatformTypeOK'
  BY <1>7 DEF SetFee, PlatformTypeOK
<1>8. ASSUME NEW t \in Tokens, NEW bps \in Fees, ProposeFee(t, bps)
      PROVE  PlatformTypeOK'
  <2> DEFINE entry == [fee |-> bps, proposed_at |-> now]
  <2>1. entry \in PendingFee
    BY DEF PlatformTypeOK, PendingFee
  <2>2. pendingFee' = [pendingFee EXCEPT ![t] = entry]
    BY <1>8 DEF ProposeFee
  <2> HIDE DEF entry
  <2> QED BY <1>8, <2>1, <2>2 DEF ProposeFee, PlatformTypeOK
<1>9. ASSUME NEW t \in Tokens, ExecuteFee(t)
      PROVE  PlatformTypeOK'
  <2>1. pendingFee[t].fee \in Nat
    BY <1>9 DEF ExecuteFee, PlatformTypeOK, PendingFee
  <2> QED BY <1>9, <2>1 DEF ExecuteFee, PlatformTypeOK
<1>10. ASSUME NEW t \in Tokens, NEW p \in Prices, OraclePriceMoves(t, p)
       PROVE  PlatformTypeOK'
  BY <1>10 DEF OraclePriceMoves, PlatformTypeOK
<1>11. ASSUME NEW t \in Priced, SetTokenOracle(t)
       PROVE  PlatformTypeOK'
  BY <1>11 DEF SetTokenOracle, PlatformTypeOK
<1>12. ASSUME NEW p \in PlatformAccounts, SetPlatformAccount(p)
       PROVE  PlatformTypeOK'
  BY <1>12 DEF SetPlatformAccount, PlatformTypeOK
<1>13. CASE Tick
  BY <1>13 DEF Tick, PlatformTypeOK
<1> QED
  BY <1>1, <1>2, <1>3, <1>4, <1>5, <1>6, <1>7, <1>8, <1>9, <1>10, <1>11, <1>12, <1>13
  DEF PlatformNext

\* So do the account contracts, when they are opened, restricted and withdrawn from.
LEMMA AccountTypes ==
  ASSUME AccountTypeOK, NEW a \in Account
  PROVE  \/ \E m \in Party : Initialize(a, m, Shade)
         \/ \E t \in Tokens, to \in Payees, amt \in Withdrawals : WithdrawTo(a, t, amt, to)
         \/ \E status \in Restrictions : RestrictAccount(a, status)
         => AccountTypeOK'
<1>1. /\ bank \in Ledger /\ account \in [Account -> AccountRecord]
      /\ flow \in [Account -> Flow] /\ account[a] \in AccountRecord /\ a \in Holder
  BY AccountAssumption DEF AccountTypeOK, Ledger
<1>2. ASSUME NEW rec \in AccountRecord, account' = [account EXCEPT ![a] = rec],
             UNCHANGED <<bank, flow>>
      PROVE  AccountTypeOK'
  BY <1>1, <1>2 DEF AccountTypeOK, Ledger
<1>3. ASSUME NEW m \in Party, Initialize(a, m, Shade) PROVE AccountTypeOK'
  <2> DEFINE rec == [account[a] EXCEPT !.merchant = m, !.manager = Shade]
  <2>1. m \in Holder /\ Shade \in Holder
    BY AccountAssumption, MerchantsAssumption
  <2>2. rec \in AccountRecord
    BY <1>1, <2>1 DEF AccountRecord
  <2>3. account' = [account EXCEPT ![a] = rec] /\ UNCHANGED <<bank, flow>>
    BY <1>1, <1>3 DEF Initialize, AccountRecord
  <2> QED BY <1>2, <2>2, <2>3
<1>4. ASSUME NEW status \in Restrictions, RestrictAccount(a, status) PROVE AccountTypeOK'
  <2> DEFINE rec == [account[a] EXCEPT !.restricted = status]
  <2>1. rec \in AccountRecord
    BY <1>1, MerchantsAssumption DEF AccountRecord
  <2>2. account' = [account EXCEPT ![a] = rec] /\ UNCHANGED <<bank, flow>>
    BY <1>1, <1>4 DEF RestrictAccount
  <2> QED BY <1>2, <2>1, <2>2
<1>5. ASSUME NEW t \in Tokens, NEW to \in Payees, NEW amt \in Withdrawals,
             WithdrawTo(a, t, amt, to)
      PROVE  AccountTypeOK'
  <2>1. amt \in Nat /\ to \in Holder
    BY AccountAssumption
  <2>2. CASE NeedsApproval(a, amt)
    <3> DEFINE q == [token |-> t, amount |-> amt, recipient |-> to,
                     approvals |-> {account[a].merchant}, status |-> "Pending"]
               rec == [account[a] EXCEPT !.requests = Append(@, q)]
    <3>1. q \in Request /\ account[a].requests \in Seq(Request)
      BY <1>1, <2>1 DEF Request, AccountRecord
    <3>2. Append(account[a].requests, q) \in Seq(Request)
      BY <3>1
    <3>3. rec \in AccountRecord
      BY <1>1, <3>2 DEF AccountRecord
    <3>4. account' = [account EXCEPT ![a] = rec] /\ UNCHANGED <<bank, flow>>
      BY <1>1, <1>5, <2>2 DEF WithdrawTo, FileRequest
    <3> QED BY <1>2, <3>3, <3>4
  <2>3. CASE ~NeedsApproval(a, amt)
    <3>1. /\ CanPay(bank, a, t, amt) /\ bank' = Moved(bank, a, to, t, amt)
          /\ account' = [account EXCEPT ![a] = Analytics(account[a], t, amt)]
          /\ flow' = Received(flow, to, t, amt)
      BY <1>5, <2>3 DEF WithdrawTo, ExecuteWithdrawal
    <3>2. bank' \in Ledger
      BY <1>1, <2>1, <3>1, MovedType
    <3>3. account' \in [Account -> AccountRecord]
      BY <1>1, <2>1, <3>1, AnalyticsFacts
    <3>4. flow' \in [Account -> Flow]
      BY <1>1, <2>1, <3>1, ReceivedFacts
    <3> QED BY <3>2, <3>3, <3>4 DEF AccountTypeOK, Ledger
  <2> QED BY <2>2, <2>3
<1> QED BY <1>3, <1>4, <1>5

\* Merchants and their accounts.
LEMMA MerchantsTypes ==
  ASSUME TypesInv, MerchantsNext
  PROVE  TypesInv' /\ RegisteredStay
<1> USE DEF TypesInv, MerchantsTypeOK, RegisteredStay
<1>1. ASSUME UNCHANGED platformVars
      PROVE  PlatformTypeOK'
  BY <1>1 DEF PlatformTypeOK, platformVars, configVars
<1>2. ASSUME UNCHANGED accountVars
      PROVE  AccountTypeOK'
  BY <1>2 DEF AccountTypeOK, accountVars
<1>3. CASE PlatformNext /\ UNCHANGED merchantVars
  BY <1>2, <1>3, PlatformTypes DEF merchantVars
<1>4. CASE AccountStep
  BY <1>1, <1>4, AccountTypes DEF AccountStep
<1>5. ASSUME NEW m \in Seller, NEW rec \in RoutedMerchant,
             merchants' = [merchants EXCEPT ![m] = rec], UNCHANGED <<platformVars, accountVars>>
      PROVE  TypesInv' /\ RegisteredStay
  <2>1. rec \in Merchant
    BY DEF RoutedMerchant
  <2>2. merchants' \in [Seller -> Merchant \cup {None}]
    BY <1>5, <2>1
  <2>3. merchants' \in [Seller -> RoutedMerchant \cup {None}] /\ RegisteredStay
    BY <1>5
  <2> QED BY <1>1, <1>2, <1>5, <2>2, <2>3
<1>6. ASSUME NEW m \in Seller, RegisterMerchant(m)
      PROVE  TypesInv' /\ RegisteredStay
  <2> DEFINE rec == [active |-> TRUE, account |-> None, tokens |-> {}, key |-> None]
  <2>1. rec \in RoutedMerchant
    BY DEF RoutedMerchant, Merchant
  <2>2. merchants' = [merchants EXCEPT ![m] = rec] /\ UNCHANGED <<platformVars, accountVars>>
    BY <1>6 DEF RegisterMerchant
  <2> HIDE DEF rec
  <2> QED BY <1>5, <2>1, <2>2
<1>7. ASSUME NEW m \in Seller, merchants[m] # None
      PROVE  merchants[m] \in RoutedMerchant
  BY <1>7
<1>8. ASSUME NEW m \in Seller, NEW status \in Statuses, SetMerchantStatus(m, status)
      PROVE  TypesInv' /\ RegisteredStay
  <2> DEFINE old == merchants[m]
             rec == [old EXCEPT !.active = status]
  <2>1. old # None /\ UNCHANGED <<platformVars, accountVars>>
        /\ merchants' = [merchants EXCEPT ![m] = rec]
    BY <1>8 DEF SetMerchantStatus, IsMerchant
  <2>2. old \in RoutedMerchant
    BY <1>7, <2>1
  <2> HIDE DEF old
  <2>3. rec \in RoutedMerchant
    BY <2>2, MerchantsAssumption DEF RoutedMerchant, Merchant
  <2> HIDE DEF rec
  <2> QED BY <1>5, <2>1, <2>2, <2>3
<1>9. ASSUME NEW m \in Seller, NEW k \in Keys, SetMerchantKey(m, k)
      PROVE  TypesInv' /\ RegisteredStay
  <2> DEFINE old == merchants[m]
             rec == [old EXCEPT !.key = k]
  <2>1. old # None /\ UNCHANGED <<platformVars, accountVars>>
        /\ merchants' = [merchants EXCEPT ![m] = rec]
    BY <1>9 DEF SetMerchantKey, IsMerchant
  <2>2. old \in RoutedMerchant
    BY <1>7, <2>1
  <2> HIDE DEF old
  <2>3. rec \in RoutedMerchant
    BY <2>2 DEF RoutedMerchant, Merchant
  <2> HIDE DEF rec
  <2> QED BY <1>5, <2>1, <2>2, <2>3
<1>10. ASSUME NEW m \in Seller, NEW a \in Routes, SetMerchantAccount(m, a)
       PROVE  TypesInv' /\ RegisteredStay
  <2> DEFINE old == merchants[m]
             rec == [old EXCEPT !.account = a]
  <2>1. old # None /\ UNCHANGED <<platformVars, accountVars>>
        /\ merchants' = [merchants EXCEPT ![m] = rec]
    BY <1>10 DEF SetMerchantAccount, IsMerchant
  <2>2. old \in RoutedMerchant
    BY <1>7, <2>1
  <2> HIDE DEF old
  <2>3. a \in Holder
    BY MerchantsAssumption
  <2>4. rec \in RoutedMerchant
    BY <2>2, <2>3 DEF RoutedMerchant, Merchant
  <2> HIDE DEF rec
  <2> QED BY <1>5, <2>1, <2>4
<1>11. ASSUME NEW m \in Seller, NEW ts \in SUBSET Tokens, IsMerchant(m),
              merchants' = [merchants EXCEPT ![m].tokens = ts],
              UNCHANGED <<platformVars, accountVars>>
       PROVE  TypesInv' /\ RegisteredStay
  <2> DEFINE old == merchants[m]
             rec == [old EXCEPT !.tokens = ts]
  <2>1. old # None /\ merchants' = [merchants EXCEPT ![m] = rec]
    BY <1>11 DEF IsMerchant
  <2>2. old \in RoutedMerchant
    BY <1>7, <2>1
  <2> HIDE DEF old
  <2>3. rec \in RoutedMerchant
    BY <2>2 DEF RoutedMerchant, Merchant
  <2> HIDE DEF rec
  <2> QED BY <1>5, <1>11, <2>1, <2>2, <2>3
<1>12. ASSUME NEW m \in Seller, NEW ts \in TokenLists, SetMerchantAcceptedTokens(m, ts)
       PROVE  TypesInv' /\ RegisteredStay
  <2>1. ts \in SUBSET Tokens
    BY MerchantsAssumption
  <2> QED BY <1>11, <1>12, <2>1 DEF SetMerchantAcceptedTokens
<1>13. ASSUME NEW m \in Seller, NEW t \in Tokens, RemoveMerchantAcceptedToken(m, t)
       PROVE  TypesInv' /\ RegisteredStay
  <2>1. IsMerchant(m) /\ merchants' = [merchants EXCEPT ![m].tokens = @ \ {t}]
        /\ UNCHANGED <<platformVars, accountVars>>
    BY <1>13 DEF RemoveMerchantAcceptedToken
  <2>2. merchants[m].tokens \ {t} \in SUBSET Tokens
    BY <1>7, <2>1 DEF RoutedMerchant, Merchant, IsMerchant
  <2> QED BY <1>11, <2>1, <2>2
<1>14. ASSUME NEW m \in Seller, NEW status \in Restrictions, RestrictMerchantAccount(m, status)
       PROVE  TypesInv' /\ RegisteredStay
  <2>1. AccountTypeOK'
    BY <1>14, AccountTypes DEF RestrictMerchantAccount
  <2> QED BY <1>1, <1>14, <2>1 DEF RestrictMerchantAccount
<1> HIDE DEF TypesInv, MerchantsTypeOK, RegisteredStay
<1> QED BY <1>3, <1>4, <1>6, <1>8, <1>9, <1>10, <1>12, <1>13, <1>14 DEF MerchantsNext

-----------------------------------------------------------------------------
(* Takings: a payment is one transfer to the merchant's account and one of the  *)
(* fee to the platform's.                                                       *)

\* What holder h gains in token u when p pays amt in t, charged of it to to and the
\* rest to till.
SplitChange(h, u, p, till, to, t, amt, charged) ==
    Change(h, u, p, till, t, amt - charged) + Change(h, u, p, to, t, charged)

\* What account a receives of it in token u.
SplitReceipt(a, u, till, to, t, amt, charged) ==
    (IF a = till /\ u = t THEN amt - charged ELSE 0) + (IF a = to /\ u = t THEN charged ELSE 0)

BankSplit(b, c, p, till, to, t, amt, charged) ==
    \A h \in Holder, u \in Tokens :
        c[h][u] = b[h][u] + SplitChange(h, u, p, till, to, t, amt, charged)

FlowSplit(f, g, till, to, t, amt, charged) ==
    \A a \in Account, u \in Tokens :
        /\ g[a].received[u] = f[a].received[u] + SplitReceipt(a, u, till, to, t, amt, charged)
        /\ g[a].refunded[u] = f[a].refunded[u]

\* The two transfers, the second of which is left out or is one of 0 without a fee.
IsSplit(b, f, p, till, to, t, amt, charged, net, paid, g) ==
    /\ b \in Ledger /\ f \in [Account -> Flow]
    /\ p \in Holder /\ till \in Holder /\ to \in Holder \cup {None} /\ t \in Tokens
    /\ amt \in Int /\ charged \in Nat
    /\ CanPay(b, p, t, amt - charged)
    /\ net = Moved(b, p, till, t, amt - charged)
    /\ charged # 0 => CanPay(net, p, t, charged)
    /\ \/ paid = Moved(net, p, to, t, charged)
       \/ paid = net /\ charged = 0
    /\ g = Received(Received(f, till, t, amt - charged), to, t, charged)

\* It moves the amount and receives it, and loses nothing.
LEMMA SplitFacts ==
  ASSUME NEW b, NEW f, NEW p, NEW till, NEW to, NEW t, NEW amt, NEW charged, NEW net, NEW paid,
         NEW g, IsSplit(b, f, p, till, to, t, amt, charged, net, paid, g)
  PROVE  /\ paid \in Ledger
         /\ g \in [Account -> Flow]
         /\ amt \in Nat /\ amt - charged \in Nat
         /\ BankSplit(b, paid, p, till, to, t, amt, charged)
         /\ FlowSplit(f, g, till, to, t, amt, charged)
<1> USE DEF IsSplit
<1> DEFINE rest == amt - charged
           e == Received(f, till, t, rest)
<1>1. /\ net \in LedgerOf(Holder)
      /\ rest \in Nat
      /\ \A h \in Holder, u \in Tokens : net[h][u] = b[h][u] + Change(h, u, p, till, t, rest)
  <2>1. b \in LedgerOf(Holder) /\ rest \in Int
    BY DEF Ledger, LedgerOf
  <2>2. net = Moved(b, p, till, t, rest) /\ CanPay(b, p, t, rest)
    OBVIOUS
  <2> HIDE DEF rest
  <2> QED BY <2>1, <2>2, TransferFacts
<1>2. amt \in Nat
  BY <1>1
<1> HIDE DEF rest
<1>3. CanPay(net, p, t, charged)
  BY <1>1 DEF CanPay, LedgerOf
<1>4. /\ Moved(net, p, to, t, charged) \in LedgerOf(Holder)
      /\ \A h \in Holder, u \in Tokens :
            Moved(net, p, to, t, charged)[h][u] = net[h][u] + Change(h, u, p, to, t, charged)
  BY <1>1, <1>3, TransferFacts
<1>5. /\ paid \in LedgerOf(Holder)
      /\ \A h \in Holder, u \in Tokens : paid[h][u] = net[h][u] + Change(h, u, p, to, t, charged)
  <2>1. CASE paid = Moved(net, p, to, t, charged)
    BY <1>4, <2>1
  <2>2. CASE paid = net /\ charged = 0
    <3>1. \A h \in Holder, u \in Tokens :
            Change(h, u, p, to, t, charged) = 0 /\ net[h][u] \in Nat
      BY <1>1, <2>2 DEF Change, LedgerOf
    <3> QED BY <1>1, <2>2, <3>1
  <2> QED BY <2>1, <2>2
<1>6. ASSUME NEW h \in Holder, NEW u \in Tokens
      PROVE  paid[h][u] = b[h][u] + SplitChange(h, u, p, till, to, t, amt, charged)
  <2> DEFINE x == Change(h, u, p, till, t, rest)
             y == Change(h, u, p, to, t, charged)
  <2>1. x \in Int /\ y \in Int
    BY <1>1 DEF Change
  <2>2. b[h][u] \in Nat
    BY DEF Ledger
  <2>3. net[h][u] = b[h][u] + x /\ paid[h][u] = net[h][u] + y
    BY <1>1, <1>5
  <2>4. SplitChange(h, u, p, till, to, t, amt, charged) = x + y
    BY DEF SplitChange, rest
  <2> HIDE DEF x, y
  <2> QED BY <2>1, <2>2, <2>3, <2>4
<1>7. /\ e \in [Account -> Flow]
      /\ \A a \in Account, u \in Tokens :
            /\ e[a].received[u] = f[a].received[u] + (IF a = till /\ u = t THEN rest ELSE 0)
            /\ e[a].refunded[u] = f[a].refunded[u]
  BY <1>1, ReceivedFacts
<1>8. g = Received(e, to, t, charged)
  BY DEF rest
<1> HIDE DEF e
<1>9. /\ g \in [Account -> Flow]
      /\ \A a \in Account, u \in Tokens :
            /\ g[a].received[u] = e[a].received[u] + (IF a = to /\ u = t THEN charged ELSE 0)
            /\ g[a].refunded[u] = e[a].refunded[u]
  <2>1. CASE to \in Holder
    BY <1>7, <1>8, <2>1, ReceivedFacts
  <2>2. CASE to = None
    <3>1. None \notin Account
      BY AccountAssumption
    <3>2. g = e
      BY <1>8, <2>2, <3>1 DEF Received
    <3>3. \A a \in Account, u \in Tokens : e[a].received[u] \in Nat
      BY <1>7 DEF Flow
    <3> QED BY <1>7, <2>2, <3>1, <3>2, <3>3
  <2> QED BY <2>1, <2>2
<1>10. ASSUME NEW a \in Account, NEW u \in Tokens
       PROVE  g[a].received[u] =
                    f[a].received[u] + SplitReceipt(a, u, till, to, t, amt, charged)
  <2> DEFINE x == IF a = till /\ u = t THEN rest ELSE 0
             y == IF a = to /\ u = t THEN charged ELSE 0
  <2>1. x \in Int /\ y \in Int /\ f[a].received[u] \in Nat
    BY <1>1 DEF Flow
  <2>2. e[a].received[u] = f[a].received[u] + x /\ g[a].received[u] = e[a].received[u] + y
    BY <1>7, <1>9
  <2>3. SplitReceipt(a, u, till, to, t, amt, charged) = x + y
    BY DEF SplitReceipt, rest
  <2> HIDE DEF x, y
  <2> QED BY <2>1, <2>2, <2>3
<1>11. BankSplit(b, paid, p, till, to, t, amt, charged)
  BY <1>6 DEF BankSplit
<1>12. FlowSplit(f, g, till, to, t, amt, charged)
  BY <1>7, <1>9, <1>10 DEF FlowSplit
<1> QED BY <1>1, <1>2, <1>5, <1>9, <1>11, <1>12 DEF Ledger, LedgerOf, rest

\* What a payment of amt credits an invoice with, and what it leaves as it is.
LEMMA CreditedFields ==
  ASSUME NEW q \in InvoiceRecord, NEW p, NEW amt \in Int, NEW r, r = Credited(Requoted(q), p, amt)
  PROVE  /\ r.merchant = q.merchant
         /\ r.token = q.token
         /\ r.payer = p
         /\ r.amount_paid = q.amount_paid + amt
         /\ r.amount_refunded = q.amount_refunded
<1>1. PICK k : k = Requoted(q)
  OBVIOUS
<1>2. \A x : LET n == [q EXCEPT !.amount = x]
             IN  /\ DOMAIN n = DOMAIN q
                 /\ n.merchant = q.merchant /\ n.token = q.token
                 /\ n.amount_paid = q.amount_paid /\ n.amount_refunded = q.amount_refunded
  BY DEF InvoiceRecord
<1>3. /\ DOMAIN k = DOMAIN q
      /\ k.merchant = q.merchant /\ k.token = q.token
      /\ k.amount_paid = q.amount_paid /\ k.amount_refunded = q.amount_refunded
  BY <1>1, <1>2 DEF Requoted
<1>4. DOMAIN q = {"merchant", "token", "amount", "status", "payer", "date_paid", "amount_paid",
                  "amount_refunded", "expires_at", "fiat"}
  BY DEF InvoiceRecord
<1> DEFINE total == k.amount_paid + amt
<1>5. total = q.amount_paid + amt
  BY <1>3
<1>6. PICK c : c = [k EXCEPT !.amount_paid = total, !.payer = p]
  OBVIOUS
<1>7. \/ r = [c EXCEPT !.status = "Paid", !.date_paid = now]
      \/ r = [c EXCEPT !.status = "PartiallyPaid"]
  BY <1>1, <1>6 DEF Credited
<1> HIDE DEF total
<1>8. /\ DOMAIN c = DOMAIN q
      /\ c.merchant = q.merchant /\ c.token = q.token
      /\ c.amount_paid = total /\ c.amount_refunded = q.amount_refunded
      /\ c.payer = p
  BY <1>3, <1>4, <1>6
<1>9. /\ r.merchant = c.merchant /\ r.token = c.token
      /\ r.amount_paid = c.amount_paid /\ r.amount_refunded = c.amount_refunded
      /\ r.payer = c.payer
  BY <1>4, <1>7, <1>8
<1> QED BY <1>5, <1>8, <1>9

WorldType(w) ==
    /\ w.bank \in Ledger
    /\ w.flow \in [Account -> Flow]
    /\ w.stats \in StatsType
    /\ AllSound(w.invoices)
    /\ Registered(w.invoices)

\* World v is w after a payment of amt by p for invoice i, charged of it as the fee.
PaidOne(w, v, i, p, amt, charged) ==
    LET q    == w.invoices[i]
        r    == v.invoices[i]
        t    == q.token
        till == merchants[q.merchant].account
    IN  /\ amt \in Nat \ {0} /\ charged \in Nat /\ amt - charged \in Nat
        /\ till \in Routes
        /\ charged # 0 => fee[t] # 0
        /\ BankSplit(w.bank, v.bank, p, till, platform, t, amt, charged)
        /\ FlowSplit(w.flow, v.flow, till, platform, t, amt, charged)
        /\ v.stats = RecordMerchantPayment(w.stats, q.merchant, t, amt, charged)
        /\ Follows(w.invoices, v.invoices)
        /\ \A j \in DOMAIN w.invoices \ {i} : v.invoices[j] = w.invoices[j]
        /\ q.payer \in {None, p} /\ q.amount_refunded = 0
        /\ r.merchant = q.merchant /\ r.token = q.token /\ r.payer = p
        /\ r.amount_paid = q.amount_paid + amt /\ r.amount_refunded = q.amount_refunded

\* No fee is taken where none is set.
LEMMA NoFee ==
  ASSUME NEW volume \in Nat, NEW amount \in Nat
  PROVE  FeeAt(0, volume, amount) = 0
<1> DEFINE part == 0 * (100 - Discount(volume))
<1>1. Discount(volume) \in Int
  BY DiscountGrows
<1>2. part = 0
  BY <1>1
<1>3. 0 \div 100 = 0 /\ amount * 0 = 0 /\ 0 \div 10000 = 0
  OBVIOUS
<1>4. DiscountedBps(0, volume) = 0
  BY <1>2, <1>3 DEF DiscountedBps
<1> QED BY <1>3, <1>4 DEF FeeAt

\* The fee is a number, 0 where none is set.
LEMMA FeeFacts ==
  ASSUME TypesInv, NEW st \in StatsType, NEW m \in Seller, NEW t \in Tokens, NEW amt \in Nat
  PROVE  /\ CalculateFee(st, m, t, amt) \in Nat
         /\ CalculateFee(st, m, t, amt) # 0 => fee[t] # 0
<1>1. fee[t] \in Nat
  BY DEF TypesInv, MerchantsTypeOK, PlatformTypeOK
<1>2. st.merchant[m][t].total_volume \in Nat
  BY DEF StatsType, Analysis
<1> QED BY <1>1, <1>2, FeeType, NoFee DEF CalculateFee

\* A registered merchant that is routed is routed to one of Routes.
LEMMA RouteFacts ==
  ASSUME TypesInv, NEW m \in Seller, merchants[m] \in RoutedMerchant, merchants[m].account # None
  PROVE  merchants[m].account \in Routes /\ merchants[m].account \in Holder
  BY MerchantsAssumption DEF RoutedMerchant

\* Fees go to an account of the platform, while it has one.
LEMMA PlatformFacts ==
  ASSUME TypesInv
  PROVE  /\ platform \in Admins \cup PlatformAccounts \cup {None}
         /\ platform \in Holder \cup {None}
  BY MerchantsAssumption DEF TypesInv, MerchantsTypeOK, PlatformTypeOK

\* pay_invoice_partial makes the two transfers, records them, and credits the invoice.
LEMMA PayFacts ==
  ASSUME TypesInv, NEW w, WorldType(w), NEW i \in DOMAIN w.invoices, NEW p \in Payers,
         NEW amt \in Int, Payable(w, p, i, amt)
  PROVE  LET v == Pay(w, p, i, amt)
         IN  WorldType(v) /\ \E charged \in Nat : PaidOne(w, v, i, p, amt, charged)
<1> DEFINE q == w.invoices[i]
           k == Requoted(q)
           charged == FeeOn(w, k, amt)
           t == q.token
           m == q.merchant
           till == merchants[m].account
           net == NetPaid(w, k, p, amt)
           v == Pay(w, p, i, amt)
           r == Credited(k, p, amt)
<1>0. WorldOK
  BY DEF TypesInv, MerchantsTypeOK, PlatformTypeOK, WorldOK
<1>1. /\ q \in InvoiceRecord /\ Sound(q) /\ m \in Seller /\ t \in Tokens
      /\ merchants[m] \in RoutedMerchant
      /\ p \in Holder
  <2>1. q \in InvoiceRecord /\ Sound(q) /\ merchants[m] \in RoutedMerchant
    BY DEF WorldType, AllSound, Sound, Registered
  <2> HIDE DEF q
  <2> QED BY <2>1, Fields, InvoiceAssumption
<1>2. /\ k.merchant = m /\ k.token = t /\ k.status = q.status /\ k.payer = q.payer
  <2>1. \A x : LET n == [q EXCEPT !.amount = x]
               IN  n.merchant = q.merchant /\ n.token = q.token /\ n.status = q.status
                   /\ n.payer = q.payer
    BY <1>1 DEF InvoiceRecord
  <2> HIDE DEF q
  <2> QED BY <2>1 DEF Requoted, t, m
<1>3. /\ amt > 0
      /\ k.status \in {"Pending", "PartiallyPaid"}
      /\ MayPay(k, p)
      /\ merchants[k.merchant].account # None
      /\ Funded(w, k, p, amt)
  BY DEF Payable
<1>4. /\ AllSound(v.invoices)
      /\ Follows(w.invoices, v.invoices)
  BY <1>0, PaySound DEF WorldType
<1>5. /\ v.bank = IF charged > 0 THEN Moved(net, p, platform, k.token, charged) ELSE net
      /\ v.flow = Received(Received(w.flow, merchants[k.merchant].account, k.token, amt - charged),
                           platform, k.token, charged)
      /\ v.stats = RecordMerchantPayment(w.stats, k.merchant, k.token, amt, charged)
      /\ v.invoices = [w.invoices EXCEPT ![i] = r]
  BY DEF Pay
<1>6. /\ net = Moved(w.bank, p, merchants[k.merchant].account, k.token, amt - charged)
      /\ CanPay(w.bank, p, k.token, amt - charged)
      /\ charged > 0 => CanPay(net, p, k.token, charged)
  BY <1>3 DEF Funded, NetPaid
<1>7. q.status \in {"Pending", "PartiallyPaid"} /\ q.payer \in {None, p} /\ q.amount_refunded = 0
  <2>1. q.status \in {"Pending", "PartiallyPaid"} /\ q.payer \in {None, p}
    BY <1>2, <1>3 DEF MayPay
  <2> HIDE DEF q
  <2> QED BY <1>1, <2>1 DEF Sound, Tally
<1>8. /\ r.merchant = m /\ r.token = t /\ r.payer = p
      /\ r.amount_paid = q.amount_paid + amt /\ r.amount_refunded = q.amount_refunded
  <2> HIDE DEF q
  <2> QED BY <1>1, CreditedFields DEF t, m
<1>9. w.bank \in Ledger /\ w.flow \in [Account -> Flow] /\ w.stats \in StatsType
  BY DEF WorldType
<1>10. charged = CalculateFee(w.stats, m, t, amt)
  BY <1>2 DEF FeeOn
<1>11. /\ w.invoices \in Seq(InvoiceRecord)
       /\ \A j \in DOMAIN w.invoices : w.invoices[j].merchant \in Seller
       /\ Registered(w.invoices)
  <2>1. w.invoices \in Seq(InvoiceRecord) /\ Registered(w.invoices)
    BY DEF WorldType, AllSound
  <2> QED BY <2>1, Fields
<1> HIDE DEF q, k, net, r, m, t, charged, v
<1>12. amt \in Nat \ {0}
  BY <1>3
<1>13. charged \in Nat /\ (charged # 0 => fee[t] # 0)
  BY <1>1, <1>9, <1>10, <1>12, FeeFacts
<1>14. till \in Routes /\ till \in Holder
  BY <1>1, <1>2, <1>3, RouteFacts
<1>15. /\ net = Moved(w.bank, p, till, t, amt - charged)
       /\ CanPay(w.bank, p, t, amt - charged)
       /\ charged # 0 => CanPay(net, p, t, charged)
  BY <1>2, <1>6, <1>13
<1>16. /\ \/ v.bank = Moved(net, p, platform, t, charged)
          \/ v.bank = net /\ charged = 0
       /\ v.flow = Received(Received(w.flow, till, t, amt - charged), platform, t, charged)
       /\ v.stats = RecordMerchantPayment(w.stats, m, t, amt, charged)
  BY <1>2, <1>5, <1>13
<1> HIDE DEF till
<1>17. /\ v.bank \in Ledger
       /\ v.flow \in [Account -> Flow]
       /\ amt - charged \in Nat
       /\ BankSplit(w.bank, v.bank, p, till, platform, t, amt, charged)
       /\ FlowSplit(w.flow, v.flow, till, platform, t, amt, charged)
  <2>1. IsSplit(w.bank, w.flow, p, till, platform, t, amt, charged, net, v.bank, v.flow)
    BY <1>1, <1>9, <1>13, <1>14, <1>15, <1>16, PlatformFacts DEF IsSplit
  <2> QED BY <2>1, SplitFacts
<1>18. v.stats \in StatsType
  BY <1>1, <1>9, <1>12, <1>13, <1>16, RecordFacts
<1>19. /\ v.invoices[i] = r
       /\ DOMAIN v.invoices = DOMAIN w.invoices
       /\ \A j \in DOMAIN w.invoices \ {i} : v.invoices[j] = w.invoices[j]
  BY <1>5, <1>11
<1>20. Registered(v.invoices)
  BY <1>8, <1>11, <1>19 DEF Registered, m, q
<1>21. WorldType(v)
  BY <1>4, <1>17, <1>18, <1>20 DEF WorldType
<1>22. PaidOne(w, v, i, p, amt, charged)
  BY <1>4, <1>7, <1>8, <1>12, <1>13, <1>14, <1>16, <1>17, <1>19 DEF PaidOne, q, m, t, till
<1> QED BY <1>13, <1>21, <1>22 DEF v

-----------------------------------------------------------------------------
(* What a step of the invoices does to the ledger and to the books, the same for *)
(* every entry point of its kind.                                               *)

\* A new invoice, on which nothing is paid.
CreatedOne(q) ==
    /\ Sound(q) /\ q.payer = None /\ q.amount_paid = 0 /\ q.amount_refunded = 0
    /\ merchants[q.merchant] \in RoutedMerchant
    /\ invoices' = Append(invoices, q)
    /\ UNCHANGED <<platformVars, merchantVars>>

\* Invoice i becomes r, on which the same is paid.
RevisedOne(i, r) ==
    LET q == invoices[i]
    IN  /\ r.merchant = q.merchant /\ r.token = q.token /\ r.payer = q.payer
        /\ r.amount_paid = q.amount_paid /\ r.amount_refunded = q.amount_refunded
        /\ r \in InvoiceRecord
        /\ invoices' = [invoices EXCEPT ![i] = r]
        /\ UNCHANGED <<platformVars, merchantVars>>

\* One payment, or two as the entries of a batch.
PaidSome(p, v) ==
    /\ WorldType(v)
    /\ \/ \E i \in DOMAIN invoices, amt \in Int, charged \in Nat :
            PaidOne(World, v, i, p, amt, charged)
       \/ \E z : /\ WorldType(z)
                 /\ \E i \in DOMAIN invoices, amt \in Int, charged \in Nat :
                        PaidOne(World, z, i, p, amt, charged)
                 /\ \E i \in DOMAIN z.invoices, amt \in Int, charged \in Nat :
                        PaidOne(z, v, i, p, amt, charged)
    /\ Install(v)

\* An account pays amt back to the payer of invoice i, which becomes r.
RefundedOne(i, r, amt) ==
    LET q == invoices[i]
        a == merchants[q.merchant].account
    IN  /\ a \in Account \cap Routes
        /\ r \in InvoiceRecord
        /\ q.payer \in Payers
        /\ r.merchant = q.merchant /\ r.token = q.token /\ r.payer = q.payer
        /\ r.amount_paid = q.amount_paid /\ r.amount_refunded = q.amount_refunded + amt
        /\ amt \in Nat
        /\ CanPay(bank, a, q.token, amt)
        /\ bank' = Moved(bank, a, q.payer, q.token, amt)
        /\ flow' = Refunded(Received(flow, q.payer, q.token, amt), a, q.token, amt)
        /\ invoices' = [invoices EXCEPT ![i] = r]
        /\ UNCHANGED <<platformVars, merchants, account>>

\* Everything the steps of the invoices rely on.
InvoicesInv == TypesInv /\ AllSound(invoices) /\ Registered(invoices)

\* The entry points that create an invoice.
LEMMA CreationMove ==
  ASSUME InvoicesInv, Creation
  PROVE  \E q : CreatedOne(q)
<1>0. WorldOK
  BY DEF InvoicesInv, TypesInv, MerchantsTypeOK, PlatformTypeOK, WorldOK
<1>1. \A m \in Seller : IsMerchant(m) => merchants[m] \in RoutedMerchant
  BY DEF InvoicesInv, TypesInv, IsMerchant
<1>2. ASSUME NEW m \in Seller, NEW amt \in Int, NEW t \in Tokens,
             NEW expiry \in Expiries \cup {None}, amt > 0, IsMerchant(m), NEW q, Store(q),
             \/ q = NewInvoice(m, amt, t, expiry)
             \/ q = [NewInvoice(m, amt, t, expiry) EXCEPT !.status = "Draft"]
             \/ \E f \in Nat : q = [NewInvoice(m, amt, t, expiry) EXCEPT !.fiat = f]
      PROVE  \E r : CreatedOne(r)
  <2>1. Sound(q)
    BY <1>2, NewSound
  <2>2. q.merchant = m /\ q.payer = None /\ q.amount_paid = 0 /\ q.amount_refunded = 0
    BY <1>2 DEF NewInvoice
  <2> QED BY <1>1, <1>2, <2>1, <2>2 DEF CreatedOne, Store
<1>3. ASSUME NEW m \in Seller, NEW t \in Tokens, NEW expiry \in Expiries, NEW amt \in Amounts,
             CreateInvoice(m, amt, t, expiry)
      PROVE  \E r : CreatedOne(r)
  <2>1. /\ amt > 0 /\ amt \in Int /\ IsMerchant(m)
        /\ Store(NewInvoice(m, amt, t, expiry))
    BY <1>3, InvoiceAssumption DEF CreateInvoice, Valid
  <2> QED BY <1>2, <2>1
<1>4. ASSUME NEW m \in Seller, NEW t \in Tokens, NEW expiry \in Expiries, NEW amt \in Drafts,
             CreateInvoiceDraft(m, amt, t, expiry)
      PROVE  \E r : CreatedOne(r)
  <2> DEFINE q == [NewInvoice(m, amt, t, expiry) EXCEPT !.status = "Draft"]
  <2>1. amt > 0 /\ amt \in Int /\ IsMerchant(m) /\ Store(q)
    BY <1>4, InvoiceAssumption DEF CreateInvoiceDraft, Valid
  <2> QED BY <1>2, <2>1
<1>5. ASSUME NEW m \in Seller, NEW t \in Tokens, NEW expiry \in Expiries,
             NEW amt \in FiatAmounts, CreateFiatInvoice(m, amt, t, expiry)
      PROVE  \E r : CreatedOne(r)
  <2> DEFINE quote == Quote(amt, t)
             q == [NewInvoice(m, quote, t, expiry) EXCEPT !.fiat = amt]
  <2>1. amt > 0 /\ amt \in Int /\ Quotable(amt, t) /\ IsMerchant(m) /\ Store(q)
    BY <1>5, InvoiceAssumption DEF CreateFiatInvoice, Valid
  <2>2. amt \in Nat
    BY <2>1
  <2>3. quote \in Nat /\ quote > 0
    BY <1>0, <2>1, <2>2, QuoteType
  <2> HIDE DEF quote
  <2> QED BY <1>2, <2>1, <2>2, <2>3
<1>6. ASSUME NEW m \in Messages, CreateInvoiceSigned(m)
      PROVE  \E r : CreatedOne(r)
  <2>1. /\ m.amount > 0 /\ m.amount \in Int
        /\ m.merchant \in Seller /\ m.token \in Tokens /\ IsMerchant(m.merchant)
        /\ Store(NewInvoice(m.merchant, m.amount, m.token, None))
    BY <1>6, InvoiceAssumption DEF CreateInvoiceSigned, Valid
  <2> QED BY <1>2, <2>1
<1> QED BY <1>3, <1>4, <1>5, <1>6 DEF Creation

\* The entry points by which a merchant revises one.
LEMMA RevisionMove ==
  ASSUME InvoicesInv, NEW i \in DOMAIN invoices,
         \/ FinalizeInvoice(i)
         \/ VoidInvoice(i)
         \/ \E amt \in Amendments : AmendInvoice(i, amt)
  PROVE  \E r : RevisedOne(i, r)
<1> DEFINE q == invoices[i]
<1>1. q \in InvoiceRecord
  BY DEF InvoicesInv, AllSound
<1>2. ASSUME NEW r, Revise(i, r),
             \/ \E s \in Status : r = [q EXCEPT !.status = s]
             \/ \E amt \in Nat : r = [q EXCEPT !.amount = amt]
      PROVE  RevisedOne(i, r)
  <2>1. /\ r.merchant = q.merchant /\ r.token = q.token /\ r.payer = q.payer
        /\ r.amount_paid = q.amount_paid /\ r.amount_refunded = q.amount_refunded
        /\ r \in InvoiceRecord
    <3> HIDE DEF q
    <3> QED BY <1>1, <1>2 DEF InvoiceRecord
  <2> QED BY <1>2, <2>1 DEF RevisedOne, Revise
<1>3. CASE FinalizeInvoice(i)
  BY <1>2, <1>3 DEF FinalizeInvoice, Status
<1>4. CASE VoidInvoice(i)
  BY <1>2, <1>4 DEF VoidInvoice, Status
<1>5. ASSUME NEW amt \in Amendments, AmendInvoice(i, amt)
      PROVE  \E r : RevisedOne(i, r)
  <2>1. amt \in Nat /\ Revise(i, [q EXCEPT !.amount = amt])
    <3>1. amt \in Int /\ amt > 0
      BY <1>5, InvoiceAssumption DEF AmendInvoice
    <3> QED BY <1>5, <3>1 DEF AmendInvoice
  <2> QED BY <1>2, <2>1
<1> QED BY <1>3, <1>4, <1>5

\* What is left to pay of an invoice that can be quoted is a number.
LEMMA RemainingType ==
  ASSUME WorldOK, NEW q \in InvoiceRecord, FloatsWithPrice(q) => Quotable(q.fiat, q.token)
  PROVE  Remaining(q) \in Int
<1>1. Requoted(q).amount \in Nat
  <2>1. CASE ~FloatsWithPrice(q)
    BY <2>1, Fields DEF Requoted
  <2>2. CASE FloatsWithPrice(q)
    <3> DEFINE quote == Quote(q.fiat, q.token)
    <3>1. q.fiat \in Nat /\ q.token \in Tokens
      BY <2>2, Fields DEF FloatsWithPrice
    <3>2. quote \in Nat
      BY <2>2, <3>1, QuoteType
    <3>3. Requoted(q) = [q EXCEPT !.amount = quote]
      BY <2>2 DEF Requoted
    <3> HIDE DEF quote
    <3> QED BY <3>2, <3>3 DEF InvoiceRecord
  <2> QED BY <2>1, <2>2
<1> QED BY <1>1, Fields DEF Remaining

\* The entry points that pay them.
LEMMA PaymentMove ==
  ASSUME InvoicesInv, NEW p \in Payers, NEW i \in DOMAIN invoices,
         \/ PayInvoice(p, i)
         \/ \E amt \in Instalments : PayInvoicePartial(p, i, amt)
         \/ \E j \in DOMAIN invoices : PayInvoicesBatch(p, i, j)
  PROVE  \E v : PaidSome(p, v)
<1>0. WorldOK
  BY DEF InvoicesInv, TypesInv, MerchantsTypeOK, PlatformTypeOK, WorldOK
<1> DEFINE w == World
<1>1. WorldType(w) /\ w.invoices = invoices
  BY DEF InvoicesInv, TypesInv, MerchantsTypeOK, PlatformTypeOK, AccountTypeOK, World, WorldType,
         Ledger, StatsType
<1>2. w = World
  OBVIOUS
<1> HIDE DEF w
<1>3. TypesInv
  BY DEF InvoicesInv
<1>4. ASSUME NEW x, WorldType(x), NEW j \in DOMAIN x.invoices, PayableInFull(x, p, j)
      PROVE  /\ WorldType(PayInFull(x, p, j))
             /\ \E amt \in Int, charged \in Nat :
                    PaidOne(x, PayInFull(x, p, j), j, p, amt, charged)
  <2> DEFINE rest == Remaining(x.invoices[j])
  <2>1. rest \in Int
    BY <1>0, <1>4, RemainingType DEF PayableInFull, WorldType, AllSound
  <2>2. Payable(x, p, j, rest) /\ PayInFull(x, p, j) = Pay(x, p, j, rest)
    BY <1>4 DEF PayableInFull, PayInFull
  <2> HIDE DEF rest
  <2> QED BY <1>3, <1>4, <2>1, <2>2, PayFacts
<1>5. CASE PayInvoice(p, i)
  <2>1. PayableInFull(w, p, i) /\ Install(PayInFull(w, p, i))
    BY <1>2, <1>5 DEF PayInvoice
  <2> QED BY <1>1, <1>2, <1>4, <2>1 DEF PaidSome
<1>6. ASSUME NEW amt \in Instalments, PayInvoicePartial(p, i, amt)
      PROVE  \E v : PaidSome(p, v)
  <2>1. Payable(w, p, i, amt) /\ Install(Pay(w, p, i, amt)) /\ amt \in Int
    BY <1>2, <1>6, InvoiceAssumption DEF PayInvoicePartial
  <2>2. /\ WorldType(Pay(w, p, i, amt))
        /\ \E charged \in Nat : PaidOne(w, Pay(w, p, i, amt), i, p, amt, charged)
    BY <1>1, <1>3, <2>1, PayFacts
  <2> QED BY <1>1, <1>2, <2>1, <2>2 DEF PaidSome
<1>7. ASSUME NEW j \in DOMAIN invoices, PayInvoicesBatch(p, i, j)
      PROVE  \E v : PaidSome(p, v)
  <2> DEFINE z == PayInFull(w, p, i)
             v == PayInFull(z, p, j)
  <2>1. PayableInFull(w, p, i) /\ PayableInFull(z, p, j) /\ Install(v)
    BY <1>2, <1>7 DEF PayInvoicesBatch
  <2>2. /\ WorldType(z)
        /\ \E amt \in Int, charged \in Nat : PaidOne(w, z, i, p, amt, charged)
    BY <1>1, <1>4, <2>1
  <2> HIDE DEF z
  <2>3. DOMAIN z.invoices = DOMAIN invoices
    BY <1>1, <2>2 DEF PaidOne, Follows
  <2>4. /\ WorldType(v)
        /\ \E amt \in Int, charged \in Nat : PaidOne(z, v, j, p, amt, charged)
    BY <1>4, <2>1, <2>2, <2>3
  <2> HIDE DEF v
  <2> QED BY <1>1, <1>2, <2>1, <2>2, <2>3, <2>4 DEF PaidSome
<1> QED BY <1>5, <1>6, <1>7

\* What the three of them pass to PayBack: amt more is refunded, total by then.
IsRefund(i, total, status, amt, r) ==
    LET q == invoices[i]
    IN  /\ total \in Nat /\ status \in Status /\ amt \in Int
        /\ total = q.amount_refunded + amt
        /\ q.amount_paid > 0
        /\ r = [q EXCEPT !.amount_refunded = total, !.status = status]
        /\ PayBack(i, r, amt)

\* The entry points that refund one.
LEMMA RefundMove ==
  ASSUME InvoicesInv, NEW i \in DOMAIN invoices,
         \/ RefundInvoice(i)
         \/ \E amt \in PartRefunds : RefundInvoicePartial(i, amt)
         \/ ClaimRefund(i)
  PROVE  \E r, amt : RefundedOne(i, r, amt)
<1> DEFINE q == invoices[i]
           paid == q.amount_paid
           amount == q.amount
           refunded == q.amount_refunded
<1>1. Sound(q) /\ q \in InvoiceRecord /\ merchants[q.merchant] \in RoutedMerchant
  BY DEF InvoicesInv, AllSound, Sound, Registered
<1>2. /\ paid \in Nat /\ amount \in Nat /\ refunded \in Nat
      /\ q.merchant \in Seller /\ q.token \in Tokens
      /\ q.payer \in Payers \cup {None}
      /\ (q.payer = None) = (paid = 0)
      /\ q.status \in {"Paid", "PartiallyRefunded"} => paid = amount
      /\ q.status = "PartiallyRefunded" => refunded \in 1 .. amount - 1
  <2> HIDE DEF q
  <2> QED BY <1>1, Fields DEF Sound, Tally
<1>3. q.status = "PartiallyRefunded" => amount > 0
  BY <1>2
<1>4. bank \in LedgerOf(Holder)
  BY DEF InvoicesInv, TypesInv, MerchantsTypeOK, AccountTypeOK, LedgerOf
<1>5. ASSUME NEW total, NEW status, NEW amt, NEW r, IsRefund(i, total, status, amt, r)
      PROVE  RefundedOne(i, r, amt)
  <2>0. /\ total \in Nat /\ status \in Status /\ amt \in Int
        /\ total = refunded + amt /\ paid > 0
        /\ r = [q EXCEPT !.amount_refunded = total, !.status = status]
        /\ PayBack(i, r, amt)
    BY <1>5 DEF IsRefund
  <2>1. /\ r \in InvoiceRecord
        /\ r.merchant = q.merchant /\ r.token = q.token /\ r.payer = q.payer
        /\ r.amount_paid = q.amount_paid /\ r.amount_refunded = total
    <3> HIDE DEF q
    <3> QED BY <1>1, <2>0 DEF InvoiceRecord
  <2>2. q.payer \in Payers /\ q.payer \in Holder
    BY <1>2, <2>0, InvoiceAssumption
  <2> DEFINE a == merchants[q.merchant].account
  <2>3. /\ a \in Account
        /\ CanPay(bank, a, q.token, amt)
        /\ bank' = Moved(bank, a, q.payer, q.token, amt)
        /\ flow' = Refunded(Received(flow, q.payer, q.token, amt), a, q.token, amt)
        /\ UNCHANGED account
        /\ invoices' = [invoices EXCEPT ![i] = r]
        /\ UNCHANGED <<platformVars, merchants>>
    BY <2>0, <2>1 DEF PayBack, Refund
  <2>4. a # None
    BY <2>3, AccountAssumption
  <2>5. a \in Routes
    BY <1>1, <2>4 DEF RoutedMerchant
  <2>6. amt \in Nat
    BY <2>0, <2>3 DEF CanPay
  <2> QED BY <2>0, <2>1, <2>2, <2>3, <2>5, <2>6 DEF RefundedOne
<1>6. CASE RefundInvoice(i)
  <2> DEFINE r == [q EXCEPT !.amount_refunded = amount, !.status = "Refunded"]
             amt == amount - refunded
  <2>1. q.status = "Paid" /\ PayBack(i, r, amt) /\ amount > refunded
    BY <1>6 DEF RefundInvoice
  <2>2. paid > 0 /\ amount = refunded + amt /\ amt \in Int
    BY <1>2, <2>1
  <2>3. amount \in Nat /\ "Refunded" \in Status
    BY <1>2 DEF Status
  <2>4. IsRefund(i, amount, "Refunded", amt, r)
    BY <2>1, <2>2, <2>3 DEF IsRefund
  <2> QED BY <1>5, <2>4
<1>7. ASSUME NEW amt \in PartRefunds, RefundInvoicePartial(i, amt)
      PROVE  \E r, n : RefundedOne(i, r, n)
  <2> DEFINE total == refunded + amt
             status == IF total = amount THEN "Refunded" ELSE "PartiallyRefunded"
             r == [q EXCEPT !.amount_refunded = total, !.status = status]
  <2>1. /\ q.status \in {"Paid", "PartiallyRefunded"}
        /\ amt > 0 /\ amt \in Int /\ total <= amount
        /\ PayBack(i, r, amt)
    BY <1>7, InvoiceAssumption DEF RefundInvoicePartial, WithinAmount
  <2>2. total \in Nat /\ paid > 0
    BY <1>2, <2>1
  <2>3. status \in Status /\ total = refunded + amt
    <3>1. {"Refunded", "PartiallyRefunded"} \subseteq Status
      BY DEF Status
    <3> HIDE DEF total
    <3> QED BY <3>1 DEF total
  <2> HIDE DEF total, status
  <2>4. IsRefund(i, total, status, amt, r)
    BY <2>1, <2>2, <2>3 DEF IsRefund
  <2> QED BY <1>5, <2>4
<1>8. CASE ClaimRefund(i)
  <2> DEFINE r == [q EXCEPT !.amount_refunded = paid, !.status = "Refunded"]
             amt == paid - refunded
  <2>1. PayBack(i, r, amt) /\ paid > refunded
    BY <1>8 DEF ClaimRefund
  <2>2. paid > 0 /\ paid = refunded + amt /\ amt \in Int
    BY <1>2, <2>1
  <2>3. paid \in Nat /\ "Refunded" \in Status
    BY <1>2 DEF Status
  <2>4. IsRefund(i, paid, "Refunded", amt, r)
    BY <2>1, <2>2, <2>3 DEF IsRefund
  <2> QED BY <1>5, <2>4
<1> QED BY <1>6, <1>7, <1>8

\* Every step of the invoices is one of the four.
LEMMA InvoiceMoves ==
  ASSUME InvoicesInv, InvoiceNext
  PROVE  \/ \E q : CreatedOne(q)
         \/ \E i \in DOMAIN invoices : \E r : RevisedOne(i, r)
         \/ \E p \in Payers : \E v : PaidSome(p, v)
         \/ \E i \in DOMAIN invoices : \E r, amt : RefundedOne(i, r, amt)
<1>1. ASSUME NEW p \in Payers, NEW ids \in Batches,
             {ids[1], ids[2]} \subseteq DOMAIN invoices,
             PayInvoicesBatch(p, ids[1], ids[2])
      PROVE  \E v : PaidSome(p, v)
  BY <1>1, PaymentMove
<1>2. ASSUME NEW i \in DOMAIN invoices,
             \/ FinalizeInvoice(i) \/ VoidInvoice(i)
             \/ \E amt \in Amendments : AmendInvoice(i, amt)
      PROVE  \E r : RevisedOne(i, r)
  BY <1>2, RevisionMove
<1>3. ASSUME NEW i \in DOMAIN invoices, NEW p \in Payers,
             PayInvoice(p, i) \/ \E amt \in Instalments : PayInvoicePartial(p, i, amt)
      PROVE  \E v : PaidSome(p, v)
  BY <1>3, PaymentMove
<1>4. ASSUME NEW i \in DOMAIN invoices,
             \/ RefundInvoice(i)
             \/ \E amt \in PartRefunds : RefundInvoicePartial(i, amt)
             \/ ClaimRefund(i)
      PROVE  \E r, amt : RefundedOne(i, r, amt)
  BY <1>4, RefundMove
<1> QED BY <1>1, <1>2, <1>3, <1>4, CreationMove DEF InvoiceNext

\* A step that leaves the platform, the merchants and the accounts alone.
LEMMA TypesUnmoved ==
  ASSUME TypesInv, UNCHANGED <<platformVars, merchantVars>>
  PROVE  TypesInv' /\ RegisteredStay
<1>1. PlatformTypeOK'
  BY DEF TypesInv, MerchantsTypeOK, PlatformTypeOK, platformVars, configVars
<1>2. AccountTypeOK' /\ merchants' = merchants
  BY DEF TypesInv, MerchantsTypeOK, AccountTypeOK, merchantVars, accountVars
<1> QED BY <1>1, <1>2 DEF TypesInv, MerchantsTypeOK, RegisteredStay

\* A payment of any kind: the ledger, the receipts and the analytics change.
LEMMA TypesPaid ==
  ASSUME TypesInv, bank' \in Ledger, flow' \in [Account -> Flow], stats' \in StatsType,
         UNCHANGED <<configVars, merchants, account>>
  PROVE  TypesInv' /\ RegisteredStay
<1>1. PlatformTypeOK'
  BY DEF TypesInv, MerchantsTypeOK, PlatformTypeOK, configVars, StatsType
<1>2. AccountTypeOK'
  BY DEF TypesInv, MerchantsTypeOK, AccountTypeOK, Ledger
<1> QED BY <1>1, <1>2 DEF TypesInv, MerchantsTypeOK, RegisteredStay

\* What a refund does to the ledger and to the receipts.
LEMMA RefundedFlow ==
  ASSUME TypesInv, NEW a \in Account, NEW to \in Holder, NEW t \in Tokens, NEW amt \in Nat,
         CanPay(bank, a, t, amt), bank' = Moved(bank, a, to, t, amt),
         flow' = Refunded(Received(flow, to, t, amt), a, t, amt)
  PROVE  /\ bank' \in Ledger
         /\ flow' \in [Account -> Flow]
         /\ \A h \in Holder, u \in Tokens :
                bank'[h][u] = bank[h][u] + Change(h, u, a, to, t, amt)
         /\ \A x \in Account, u \in Tokens :
                flow'[x].received[u] =
                    flow[x].received[u] + (IF x = to /\ u = t THEN amt ELSE 0)
<1>1. bank \in LedgerOf(Holder) /\ flow \in [Account -> Flow] /\ a \in Holder
  BY AccountAssumption DEF TypesInv, MerchantsTypeOK, AccountTypeOK, LedgerOf
<1>2. /\ bank' \in LedgerOf(Holder)
      /\ \A h \in Holder, u \in Tokens : bank'[h][u] = bank[h][u] + Change(h, u, a, to, t, amt)
  BY <1>1, TransferFacts
<1> DEFINE credited == Received(flow, to, t, amt)
<1>3. /\ credited \in [Account -> Flow]
      /\ \A x \in Account, u \in Tokens :
            credited[x].received[u] =
                flow[x].received[u] + (IF x = to /\ u = t THEN amt ELSE 0)
  BY <1>1, ReceivedFacts
<1>4. /\ Refunded(credited, a, t, amt) \in [Account -> Flow]
      /\ \A x \in Account, u \in Tokens :
            Refunded(credited, a, t, amt)[x].received[u] = credited[x].received[u]
  <2> HIDE DEF credited
  <2> QED BY <1>3, RefundedFacts
<1> QED BY <1>2, <1>3, <1>4 DEF Ledger, LedgerOf

\* The steps of the invoices keep the types, and their merchants registered.
LEMMA InvoicesTypes ==
  ASSUME InvoicesInv, InvoiceNext
  PROVE  TypesInv' /\ RegisteredStay /\ Registered(invoices)'
<1>1. /\ TypesInv /\ Registered(invoices)
      /\ invoices \in Seq(InvoiceRecord)
      /\ \A j \in DOMAIN invoices : invoices[j].merchant \in Seller
  <2>1. invoices \in Seq(InvoiceRecord)
    BY DEF InvoicesInv, AllSound
  <2>2. \A j \in DOMAIN invoices : invoices[j] \in InvoiceRecord
    BY <2>1
  <2> QED BY <2>1, <2>2, Fields DEF InvoicesInv
<1>2. ASSUME NEW q, CreatedOne(q)
      PROVE  TypesInv' /\ RegisteredStay /\ Registered(invoices)'
  <2>1. TypesInv' /\ RegisteredStay /\ merchants' = merchants
    BY <1>1, <1>2, TypesUnmoved DEF CreatedOne, merchantVars
  <2>2. PICK next : next = Append(invoices, q)
    OBVIOUS
  <2>3. \A j \in DOMAIN next :
            \/ next[j] = q
            \/ (j \in DOMAIN invoices /\ next[j] = invoices[j])
    BY <1>1, <2>2
  <2>4. \A j \in DOMAIN next : merchants[next[j].merchant] \in RoutedMerchant
    BY <1>1, <1>2, <2>3 DEF CreatedOne, Registered
  <2> QED BY <1>2, <2>1, <2>2, <2>4 DEF CreatedOne, Registered
<1>3. ASSUME NEW i \in DOMAIN invoices, NEW r, r \in InvoiceRecord,
             r.merchant = invoices[i].merchant,
             invoices' = [invoices EXCEPT ![i] = r], merchants' = merchants
      PROVE  Registered(invoices)'
  <2>1. PICK next : next = [invoices EXCEPT ![i] = r]
    OBVIOUS
  <2>2. \A j \in DOMAIN next :
            j \in DOMAIN invoices /\ next[j].merchant = invoices[j].merchant
    BY <1>1, <1>3, <2>1
  <2> QED BY <1>1, <1>3, <2>1, <2>2 DEF Registered
<1>4. ASSUME NEW i \in DOMAIN invoices, NEW r, RevisedOne(i, r)
      PROVE  TypesInv' /\ RegisteredStay /\ Registered(invoices)'
  BY <1>1, <1>3, <1>4, TypesUnmoved DEF RevisedOne, merchantVars
<1>5. ASSUME NEW p \in Payers, NEW v, PaidSome(p, v)
      PROVE  TypesInv' /\ RegisteredStay /\ Registered(invoices)'
  <2>1. WorldType(v) /\ Install(v)
    BY <1>5 DEF PaidSome
  <2> QED BY <1>1, <2>1, TypesPaid DEF WorldType, Install, Registered
<1>6. ASSUME NEW i \in DOMAIN invoices, NEW r, NEW amt, RefundedOne(i, r, amt)
      PROVE  TypesInv' /\ RegisteredStay /\ Registered(invoices)'
  <2>1. PICK q : q = invoices[i]
    OBVIOUS
  <2>2. q \in InvoiceRecord /\ q.token \in Tokens
    BY <1>1, <2>1, Fields
  <2>3. /\ merchants[q.merchant].account \in Account
        /\ r \in InvoiceRecord /\ r.merchant = q.merchant
        /\ q.payer \in Holder /\ amt \in Nat
        /\ CanPay(bank, merchants[q.merchant].account, q.token, amt)
        /\ bank' = Moved(bank, merchants[q.merchant].account, q.payer, q.token, amt)
        /\ flow' = Refunded(Received(flow, q.payer, q.token, amt),
                            merchants[q.merchant].account, q.token, amt)
        /\ invoices' = [invoices EXCEPT ![i] = r]
        /\ UNCHANGED <<platformVars, merchants, account>>
    BY <1>6, <2>1, InvoiceAssumption DEF RefundedOne
  <2>4. bank' \in Ledger /\ flow' \in [Account -> Flow]
    BY <1>1, <2>2, <2>3, RefundedFlow
  <2>5. stats' \in StatsType /\ UNCHANGED configVars
    BY <1>1, <2>3 DEF platformVars, TypesInv, MerchantsTypeOK, PlatformTypeOK, StatsType
  <2>6. TypesInv' /\ RegisteredStay
    BY <1>1, <2>3, <2>4, <2>5, TypesPaid
  <2>7. Registered(invoices)'
    BY <1>3, <2>1, <2>3
  <2> QED BY <2>6, <2>7
<1> QED BY <1>2, <1>4, <1>5, <1>6, InvoiceMoves

\* A list whose merchants are registered, while nothing unregisters one.
LEMMA RegisteredKept ==
  ASSUME RegisteredStay, NEW list, Registered(list),
         \A i \in DOMAIN list : list[i].merchant \in Seller
  PROVE  \A i \in DOMAIN list : merchants'[list[i].merchant] \in RoutedMerchant
  BY DEF RegisteredStay, Registered

\* The invoices' inductive invariant with the types of everything they touch.
LEMMA InvoicesStep ==
  ASSUME InvoicesInv, [Next]_vars
  PROVE  InvoicesInv' /\ RegisteredStay
<1>1. InvoiceInv /\ TypesInv /\ Registered(invoices)
  BY DEF InvoicesInv, InvoiceInv, TypesInv, MerchantsTypeOK, PlatformTypeOK, WorldOK
<1>2. AllSound(invoices)'
  BY <1>1, InvoiceStep DEF InvoiceInv
<1>3. \A j \in DOMAIN invoices : invoices[j].merchant \in Seller
  <2>1. \A j \in DOMAIN invoices : invoices[j] \in InvoiceRecord
    BY DEF InvoicesInv, AllSound
  <2> QED BY <2>1, Fields
<1>4. CASE MerchantsNext /\ UNCHANGED invoiceVars
  <2>1. TypesInv' /\ RegisteredStay
    BY <1>1, <1>4, MerchantsTypes
  <2>2. Registered(invoices)'
    BY <1>1, <1>3, <1>4, <2>1, RegisteredKept DEF Registered, invoiceVars
  <2> QED BY <1>2, <2>1, <2>2 DEF InvoicesInv
<1>5. CASE InvoiceNext
  BY <1>2, <1>5, InvoicesTypes DEF InvoicesInv
<1>6. CASE UNCHANGED vars
  <2>1. UNCHANGED <<platformVars, merchantVars>> /\ invoices' = invoices
    BY <1>6 DEF vars, invoiceVars
  <2>2. TypesInv' /\ RegisteredStay
    BY <1>1, <2>1, TypesUnmoved
  <2>3. Registered(invoices)'
    BY <1>1, <1>3, <2>1, <2>2, RegisteredKept DEF Registered
  <2> QED BY <1>2, <2>2, <2>3 DEF InvoicesInv
<1> QED BY <1>4, <1>5, <1>6 DEF Next

-----------------------------------------------------------------------------
(* The payers' money.  What a payment takes from a payer is what it credits to   *)
(* one invoice, and what a refund gives back is what it debits one with; so the   *)
(* total over the invoices moves with the payer's balance.                       *)

\* What entry i of a list of invoices has of p in t; what all of them have.
OutlayAt(list, i, p, t) ==
    IF i \in DOMAIN list /\ list[i].payer = p /\ list[i].token = t
    THEN list[i].amount_paid - list[i].amount_refunded ELSE 0

Outlay(list, p, t) ==
    [i \in {j \in DOMAIN list : list[j].payer = p /\ list[j].token = t} |->
        list[i].amount_paid - list[i].amount_refunded]

Settled(b, list) ==
    \A p \in Payers, t \in Tokens : Funds[p][t] - b[p][t] = SumFunction(Outlay(list, p, t))

\* Lists that differ in entry i only, which the first may not have.
OnlyAt(list, next, i) ==
    /\ list \in Seq(InvoiceRecord) /\ next \in Seq(InvoiceRecord)
    /\ (DOMAIN list) \ {i} = (DOMAIN next) \ {i}
    /\ \A j \in (DOMAIN list) \ {i} : next[j] = list[j]

\* The total moves by what that entry's part does.
LEMMA OutlayChange ==
  ASSUME NEW list, NEW next, NEW i, OnlyAt(list, next, i), NEW p, NEW t
  PROVE  /\ SumFunction(Outlay(list, p, t)) \in Int
         /\ OutlayAt(list, i, p, t) \in Int /\ OutlayAt(next, i, p, t) \in Int
         /\ SumFunction(Outlay(next, p, t)) = SumFunction(Outlay(list, p, t))
                                            + (OutlayAt(next, i, p, t) - OutlayAt(list, i, p, t))
<1> DEFINE f == Outlay(list, p, t)
           g == Outlay(next, p, t)
<1>1. ASSUME NEW l, l \in Seq(InvoiceRecord)
      PROVE  /\ IsFiniteSet(DOMAIN Outlay(l, p, t))
             /\ \A j \in DOMAIN Outlay(l, p, t) : Outlay(l, p, t)[j] \in Int
             /\ At(Outlay(l, p, t), i) = OutlayAt(l, i, p, t)
             /\ OutlayAt(l, i, p, t) \in Int
  <2>1. IsFiniteSet(DOMAIN l)
    BY <1>1, FS_Interval
  <2>2. \A j \in DOMAIN l : l[j].amount_paid \in Nat /\ l[j].amount_refunded \in Nat
    <3>1. \A j \in DOMAIN l : l[j] \in InvoiceRecord
      BY <1>1
    <3> QED BY <3>1, Fields
  <2>3. DOMAIN Outlay(l, p, t) \subseteq DOMAIN l
    BY DEF Outlay
  <2> QED BY <2>1, <2>2, <2>3, FS_Subset DEF Outlay, OutlayAt, At
<1>2. list \in Seq(InvoiceRecord) /\ next \in Seq(InvoiceRecord)
  BY DEF OnlyAt
<1>3. (DOMAIN f) \ {i} = (DOMAIN g) \ {i} /\ \A j \in (DOMAIN f) \ {i} : f[j] = g[j]
  BY DEF Outlay, OnlyAt
<1>4. /\ IsFiniteSet(DOMAIN f) /\ \A j \in DOMAIN f : f[j] \in Int
      /\ IsFiniteSet(DOMAIN g) /\ \A j \in DOMAIN g : g[j] \in Int
      /\ At(f, i) = OutlayAt(list, i, p, t) /\ At(g, i) = OutlayAt(next, i, p, t)
      /\ OutlayAt(list, i, p, t) \in Int /\ OutlayAt(next, i, p, t) \in Int
  BY <1>1, <1>2
<1> HIDE DEF f, g
<1>5. /\ SumFunction(f) \in Int
      /\ SumFunction(g) = SumFunction(f) + (At(g, i) - At(f, i))
  BY <1>3, <1>4, SumAtOne
<1> QED BY <1>4, <1>5 DEF f, g

\* So the books stay settled when the balances move by as much.
LEMMA SettledMove ==
  ASSUME NEW b \in Ledger, NEW c \in Ledger, NEW list, NEW next, NEW i, OnlyAt(list, next, i),
         Settled(b, list),
         \A p \in Payers, t \in Tokens :
            b[p][t] - c[p][t] = OutlayAt(next, i, p, t) - OutlayAt(list, i, p, t)
  PROVE  Settled(c, next)
<1>1. SUFFICES ASSUME NEW p \in Payers, NEW t \in Tokens
               PROVE  Funds[p][t] - c[p][t] = SumFunction(Outlay(next, p, t))
  BY DEF Settled
<1> DEFINE x == SumFunction(Outlay(list, p, t))
           y == SumFunction(Outlay(next, p, t))
           k == OutlayAt(list, i, p, t)
           l == OutlayAt(next, i, p, t)
<1>2. x \in Int /\ k \in Int /\ l \in Int /\ y = x + (l - k)
  BY OutlayChange
<1>3. Funds[p][t] - b[p][t] = x
  BY DEF Settled
<1>4. Funds[p][t] \in Nat /\ b[p][t] \in Nat /\ c[p][t] \in Nat
  BY InvoiceAssumption, AccountAssumption DEF Ledger
<1>5. b[p][t] - c[p][t] = l - k
  OBVIOUS
<1> HIDE DEF x, y, k, l
<1>6. Funds[p][t] - c[p][t] = y
  BY <1>2, <1>3, <1>4, <1>5
<1> QED BY <1>6 DEF y

\* A withdrawal from an account, the only transfer that Merchants makes.
Withdrawn(a, to, t, amt) ==
    /\ CanPay(bank, a, t, amt)
    /\ bank' = Moved(bank, a, to, t, amt)
    /\ flow' = Received(flow, to, t, amt)

LedgerKept == bank' = bank /\ flow' = flow

\* The steps of the merchants move no money, or withdraw it from an account.
LEMMA MerchantsMoney ==
  ASSUME MerchantsNext
  PROVE  \/ LedgerKept
         \/ \E a \in Account, to \in Payees, t \in Tokens, amt \in Nat : Withdrawn(a, to, t, amt)
<1>1. ASSUME NEW a \in Account, NEW m \in Party, Initialize(a, m, Shade)
      PROVE  LedgerKept
  BY <1>1 DEF Initialize, LedgerKept
<1>2. ASSUME NEW a \in Account, NEW t \in Tokens, NEW to \in Payees, NEW amt \in Withdrawals,
             WithdrawTo(a, t, amt, to)
      PROVE  LedgerKept \/ Withdrawn(a, to, t, amt)
  BY <1>2 DEF WithdrawTo, FileRequest, ExecuteWithdrawal, LedgerKept, Withdrawn
<1>3. \A amt \in Withdrawals : amt \in Nat
  BY AccountAssumption
<1>4. CASE AccountStep
  BY <1>1, <1>2, <1>3, <1>4 DEF AccountStep
<1>5. CASE UNCHANGED merchantVars
  BY <1>5 DEF merchantVars, accountVars, LedgerKept
<1>6. ASSUME NEW m \in Seller,
             \/ RegisterMerchant(m)
             \/ \E status \in Statuses : SetMerchantStatus(m, status)
             \/ \E k \in Keys : SetMerchantKey(m, k)
             \/ \E a \in Routes : SetMerchantAccount(m, a)
             \/ \E ts \in TokenLists : SetMerchantAcceptedTokens(m, ts)
             \/ \E t \in Tokens : RemoveMerchantAcceptedToken(m, t)
      PROVE  LedgerKept
  BY <1>6 DEF RegisterMerchant, SetMerchantStatus, SetMerchantKey, SetMerchantAccount,
              SetMerchantAcceptedTokens, RemoveMerchantAcceptedToken, accountVars, LedgerKept
<1>7. ASSUME NEW m \in Seller, NEW status \in Restrictions, RestrictMerchantAccount(m, status)
      PROVE  LedgerKept
  BY <1>7 DEF RestrictMerchantAccount, RestrictAccount, LedgerKept
<1> QED BY <1>4, <1>5, <1>6, <1>7 DEF MerchantsNext

\* No payer is an end of a withdrawal.
LEMMA WithdrawalApart ==
  ASSUME PayersOnlyPay, TypesInv, NEW a \in Account, NEW to \in Payees, NEW t \in Tokens,
         NEW amt \in Nat, Withdrawn(a, to, t, amt)
  PROVE  bank' \in Ledger /\ \A p \in Payers, u \in Tokens : bank'[p][u] = bank[p][u]
<1>1. bank \in LedgerOf(Holder) /\ a \in Holder
  BY AccountAssumption DEF TypesInv, MerchantsTypeOK, AccountTypeOK, LedgerOf
<1>2. /\ bank' \in LedgerOf(Holder)
      /\ \A h \in Holder, u \in Tokens : bank'[h][u] = bank[h][u] + Change(h, u, a, to, t, amt)
  BY <1>1, TransferFacts DEF Withdrawn
<1>3. ASSUME NEW p \in Payers, NEW u \in Tokens
      PROVE  bank'[p][u] = bank[p][u]
  <2>1. p # a /\ p # to /\ p \in Holder
    BY InvoiceAssumption DEF PayersOnlyPay
  <2>2. bank'[p][u] = bank[p][u] + Change(p, u, a, to, t, amt)
    BY <1>2, <2>1
  <2>3. Change(p, u, a, to, t, amt) = 0 /\ bank[p][u] \in Int
    BY <1>1, <2>1 DEF Change, LedgerOf
  <2> QED BY <2>2, <2>3
<1> QED BY <1>2, <1>3 DEF Ledger, LedgerOf

\* A payment is credited with what it costs its payer.
LEMMA PaidSettled ==
  ASSUME PayersOnlyPay, TypesInv, NEW w, WorldType(w), NEW v, WorldType(v),
         NEW i \in DOMAIN w.invoices, NEW p \in Payers, NEW amt, NEW charged,
         PaidOne(w, v, i, p, amt, charged), Settled(w.bank, w.invoices)
  PROVE  Settled(v.bank, v.invoices)
<1> DEFINE b == w.bank  c == v.bank  list == w.invoices  next == v.invoices
           q == list[i]  r == next[i]  t == q.token
           till == merchants[q.merchant].account
<1>1. /\ b \in Ledger /\ c \in Ledger
      /\ list \in Seq(InvoiceRecord) /\ next \in Seq(InvoiceRecord)
      /\ DOMAIN next = DOMAIN list
      /\ q \in InvoiceRecord /\ Sound(q) /\ r \in InvoiceRecord
  BY DEF WorldType, AllSound, PaidOne, Follows, Sound
<1>2. /\ amt \in Nat /\ charged \in Nat /\ amt - charged \in Nat
      /\ till \in Routes
      /\ BankSplit(b, c, p, till, platform, t, amt, charged)
      /\ \A j \in (DOMAIN list) \ {i} : next[j] = list[j]
      /\ q.payer \in {None, p} /\ q.amount_refunded = 0
      /\ r.token = t /\ r.payer = p
      /\ r.amount_paid = q.amount_paid + amt /\ r.amount_refunded = q.amount_refunded
  BY DEF PaidOne
<1>3. /\ q.amount_paid \in Nat /\ t \in Tokens
      /\ q.payer = None => q.amount_paid = 0
  <2> HIDE DEF q
  <2> QED BY <1>1, Fields DEF Sound, Tally
<1>4. OnlyAt(list, next, i)
  BY <1>1, <1>2 DEF OnlyAt
<1> DEFINE k == q.amount_paid
<1>5. i \in DOMAIN list /\ i \in DOMAIN next
  BY <1>1
<1>6. ASSUME NEW h \in Payers, NEW u \in Tokens
      PROVE  b[h][u] - c[h][u] = OutlayAt(next, i, h, u) - OutlayAt(list, i, h, u)
  <2>1. /\ h # till /\ h # platform /\ h \in Holder /\ h # None
    BY <1>2, InvoiceAssumption, AccountAssumption, PlatformFacts DEF PayersOnlyPay
  <2>2. OutlayAt(list, i, h, u) = IF h = p /\ u = t THEN k ELSE 0
    BY <1>2, <1>3, <1>5, <2>1 DEF OutlayAt
  <2>3. OutlayAt(next, i, h, u) = IF h = p /\ u = t THEN k + amt ELSE 0
    BY <1>2, <1>3, <1>5, <2>1 DEF OutlayAt
  <2>4. c[h][u] = b[h][u] + SplitChange(h, u, p, till, platform, t, amt, charged)
    BY <1>2, <2>1 DEF BankSplit
  <2>5. b[h][u] \in Nat
    BY <1>1, <2>1 DEF Ledger
  <2> HIDE DEF b, c, t, till, k, list, next
  <2>6. SplitChange(h, u, p, till, platform, t, amt, charged) =
            IF h = p /\ u = t THEN -amt ELSE 0
    BY <1>2, <2>1 DEF SplitChange, Change
  <2>7. PICK x \in Nat, y \in Nat, z \in Nat : x = b[h][u] /\ y = amt /\ z = k
    BY <1>2, <1>3, <2>5 DEF k
  <2>8. CASE h = p /\ u = t
    <3>1. c[h][u] = x + (-y)
      BY <2>4, <2>6, <2>7, <2>8
    <3>2. OutlayAt(list, i, h, u) = z /\ OutlayAt(next, i, h, u) = z + y
      BY <2>2, <2>3, <2>7, <2>8
    <3> QED BY <2>7, <3>1, <3>2
  <2>9. CASE ~(h = p /\ u = t)
    <3>1. c[h][u] = x + 0
      BY <2>4, <2>6, <2>7, <2>9
    <3> QED BY <2>2, <2>3, <2>7, <2>9, <3>1
  <2> QED BY <2>8, <2>9
<1> HIDE DEF b, c, list, next
<1>7. Settled(c, next)
  BY <1>1, <1>4, <1>6, SettledMove DEF b, list
<1> QED BY <1>7 DEF c, next

\* So is a refund, for what it gives back.
LEMMA RefundSettled ==
  ASSUME PayersOnlyPay, InvoicesInv, NEW i \in DOMAIN invoices, NEW r, NEW amt,
         RefundedOne(i, r, amt), Settled(bank, invoices)
  PROVE  bank' \in Ledger /\ Settled(bank', invoices')
<1> DEFINE q == invoices[i]  p == q.payer  t == q.token  a == merchants[q.merchant].account
           next == [invoices EXCEPT ![i] = r]
<1>1. TypesInv /\ invoices \in Seq(InvoiceRecord) /\ q \in InvoiceRecord
  BY DEF InvoicesInv, AllSound
<1>2. /\ a \in Account /\ amt \in Nat /\ p \in Payers /\ r \in InvoiceRecord
      /\ CanPay(bank, a, t, amt)
      /\ bank' = Moved(bank, a, p, t, amt)
      /\ flow' = Refunded(Received(flow, p, t, amt), a, t, amt)
      /\ r.token = t /\ r.payer = p
      /\ r.amount_paid = q.amount_paid /\ r.amount_refunded = q.amount_refunded + amt
      /\ invoices' = next
  BY DEF RefundedOne
<1>3. /\ q.amount_paid \in Nat /\ q.amount_refunded \in Nat /\ t \in Tokens
  <2> HIDE DEF q
  <2> QED BY <1>1, Fields
<1>4. /\ next \in Seq(InvoiceRecord) /\ DOMAIN next = DOMAIN invoices
      /\ next[i] = r /\ \A j \in (DOMAIN invoices) \ {i} : next[j] = invoices[j]
  BY <1>1, <1>2
<1>5. OnlyAt(invoices, next, i)
  BY <1>1, <1>4 DEF OnlyAt
<1>6. p \in Holder
  BY <1>2, InvoiceAssumption
<1> HIDE DEF a, p, t
<1>7. /\ bank' \in Ledger
      /\ \A h \in Holder, u \in Tokens : bank'[h][u] = bank[h][u] + Change(h, u, a, p, t, amt)
  BY <1>1, <1>2, <1>3, <1>6, RefundedFlow
<1>8. bank \in Ledger
  BY <1>1 DEF TypesInv, MerchantsTypeOK, AccountTypeOK, Ledger
<1>9. ASSUME NEW h \in Payers, NEW u \in Tokens
      PROVE  bank[h][u] - bank'[h][u] = OutlayAt(next, i, h, u) - OutlayAt(invoices, i, h, u)
  <2>1. h # a /\ h \in Holder
    BY <1>2, InvoiceAssumption DEF PayersOnlyPay
  <2>2. PICK x \in Nat, y \in Nat, k \in Int, z \in {bank'[h][u]} :
            x = bank[h][u] /\ y = amt /\ k = q.amount_paid - q.amount_refunded /\ z = bank'[h][u]
    BY <1>2, <1>3, <1>8, <2>1 DEF Ledger
  <2>3. OutlayAt(invoices, i, h, u) = IF h = p /\ u = t THEN k ELSE 0
    BY <2>2 DEF OutlayAt, p, t
  <2>4. OutlayAt(next, i, h, u) = IF h = p /\ u = t THEN k - y ELSE 0
    <3>1. r.amount_paid - r.amount_refunded = k - y
      <4>1. PICK m \in Nat, n \in Nat : m = q.amount_paid /\ n = q.amount_refunded
        BY <1>3
      <4> QED BY <1>2, <2>2, <4>1
    <3>2. OutlayAt(next, i, h, u) =
            IF r.payer = h /\ r.token = u THEN r.amount_paid - r.amount_refunded ELSE 0
      BY <1>4 DEF OutlayAt
    <3>3. r.payer = p /\ r.token = t
      BY <1>2
    <3> HIDE DEF next
    <3> QED BY <3>1, <3>2, <3>3
  <2>5. z = x + Change(h, u, a, p, t, y)
    BY <1>7, <2>1, <2>2
  <2>6. CASE h = p /\ u = t
    <3>1. z = x + y
      BY <2>1, <2>2, <2>5, <2>6 DEF Change
    <3>2. x - z = (k - y) - k
      BY <2>2, <3>1
    <3> QED BY <2>2, <2>3, <2>4, <2>6, <3>2
  <2>7. CASE ~(h = p /\ u = t)
    <3>1. z = x
      BY <2>1, <2>2, <2>5, <2>7 DEF Change
    <3>2. x - z = 0
      BY <2>2, <3>1
    <3> QED BY <2>2, <2>3, <2>4, <2>7, <3>2
  <2> QED BY <2>6, <2>7
<1> HIDE DEF next
<1>10. PICK c : c = bank'
  OBVIOUS
<1>11. c \in Ledger /\ \A h \in Payers, u \in Tokens :
            bank[h][u] - c[h][u] = OutlayAt(next, i, h, u) - OutlayAt(invoices, i, h, u)
  BY <1>7, <1>9, <1>10
<1>12. Settled(c, next)
  BY <1>5, <1>8, <1>11, SettledMove
<1> QED BY <1>2, <1>7, <1>10, <1>12

\* Nothing is paid on a new invoice, and nothing on a revised one that was not before.
LEMMA UnpaidSettled ==
  ASSUME InvoicesInv, Settled(bank, invoices), bank' = bank, NEW i, NEW next,
         OnlyAt(invoices, next, i), invoices' = next,
         \A p \in Payers, t \in Tokens : OutlayAt(next, i, p, t) = OutlayAt(invoices, i, p, t)
  PROVE  Settled(bank', invoices')
<1>1. bank \in Ledger
  BY DEF InvoicesInv, TypesInv, MerchantsTypeOK, AccountTypeOK, Ledger
<1>2. \A p \in Payers, t \in Tokens :
            bank[p][t] - bank[p][t] = OutlayAt(next, i, p, t) - OutlayAt(invoices, i, p, t)
  <2> TAKE p \in Payers, t \in Tokens
  <2>1. bank[p][t] \in Nat
    BY <1>1, InvoiceAssumption DEF Ledger
  <2>2. OutlayAt(invoices, i, p, t) \in Int
    BY OutlayChange
  <2>3. OutlayAt(next, i, p, t) = OutlayAt(invoices, i, p, t)
    OBVIOUS
  <2> QED BY <2>1, <2>2, <2>3
<1>3. Settled(bank, next)
  BY <1>1, <1>2, SettledMove
<1> QED BY <1>3

\* The steps of the invoices settle what they move.
LEMMA InvoicesSettled ==
  ASSUME PayersOnlyPay, InvoicesInv, InvoiceNext, Settled(bank, invoices)
  PROVE  Settled(bank', invoices')
<1>1. TypesInv /\ invoices \in Seq(InvoiceRecord)
  BY DEF InvoicesInv, AllSound
<1>2. ASSUME NEW q, CreatedOne(q)
      PROVE  Settled(bank', invoices')
  <2> DEFINE i == Len(invoices) + 1
  <2>1. PICK next : next = Append(invoices, q)
    OBVIOUS
  <2>2. q \in InvoiceRecord /\ q.amount_paid - q.amount_refunded = 0
    BY <1>2 DEF CreatedOne, Sound
  <2>3. /\ next \in Seq(InvoiceRecord) /\ i \notin DOMAIN invoices /\ next[i] = q
        /\ (DOMAIN invoices) \ {i} = (DOMAIN next) \ {i}
        /\ \A j \in (DOMAIN invoices) \ {i} : next[j] = invoices[j]
    BY <1>1, <2>1, <2>2
  <2> HIDE DEF i
  <2>4. OnlyAt(invoices, next, i)
    BY <1>1, <2>3 DEF OnlyAt
  <2>5. \A p \in Payers, t \in Tokens : OutlayAt(next, i, p, t) = OutlayAt(invoices, i, p, t)
    BY <2>2, <2>3 DEF OutlayAt
  <2>6. bank' = bank /\ invoices' = next
    BY <1>2, <2>1 DEF CreatedOne, merchantVars, accountVars
  <2> QED BY <2>4, <2>5, <2>6, UnpaidSettled
<1>3. ASSUME NEW i \in DOMAIN invoices, NEW r, RevisedOne(i, r)
      PROVE  Settled(bank', invoices')
  <2>1. PICK next : next = [invoices EXCEPT ![i] = r]
    OBVIOUS
  <2>2. /\ r \in InvoiceRecord
        /\ r.token = invoices[i].token /\ r.payer = invoices[i].payer
        /\ r.amount_paid = invoices[i].amount_paid
        /\ r.amount_refunded = invoices[i].amount_refunded
    BY <1>3 DEF RevisedOne
  <2>3. /\ next \in Seq(InvoiceRecord) /\ DOMAIN next = DOMAIN invoices /\ next[i] = r
        /\ \A j \in (DOMAIN invoices) \ {i} : next[j] = invoices[j]
    BY <1>1, <2>1, <2>2
  <2>4. OnlyAt(invoices, next, i)
    BY <1>1, <2>3 DEF OnlyAt
  <2>5. \A p \in Payers, t \in Tokens : OutlayAt(next, i, p, t) = OutlayAt(invoices, i, p, t)
    BY <2>2, <2>3 DEF OutlayAt
  <2>6. bank' = bank /\ invoices' = next
    BY <1>3, <2>1 DEF RevisedOne, merchantVars, accountVars
  <2> QED BY <2>4, <2>5, <2>6, UnpaidSettled
<1>4. ASSUME NEW p \in Payers, NEW v, PaidSome(p, v)
      PROVE  Settled(bank', invoices')
  <2>1. /\ WorldType(v) /\ bank' = v.bank /\ invoices' = v.invoices
    BY <1>4 DEF PaidSome, Install
  <2>2. PICK w : w = World
    OBVIOUS
  <2>3. WorldType(w) /\ w.bank = bank /\ w.invoices = invoices
    BY <2>2 DEF InvoicesInv, TypesInv, MerchantsTypeOK, PlatformTypeOK, AccountTypeOK, World,
                WorldType, Ledger, StatsType
  <2>4. CASE \E i \in DOMAIN invoices, amt \in Int, charged \in Nat :
                PaidOne(w, v, i, p, amt, charged)
    BY <1>1, <2>1, <2>3, <2>4, PaidSettled
  <2>5. CASE \E z : /\ WorldType(z)
                    /\ \E i \in DOMAIN invoices, amt \in Int, charged \in Nat :
                            PaidOne(w, z, i, p, amt, charged)
                    /\ \E i \in DOMAIN z.invoices, amt \in Int, charged \in Nat :
                            PaidOne(z, v, i, p, amt, charged)
    <3>1. PICK z : /\ WorldType(z)
                   /\ \E i \in DOMAIN invoices, amt \in Int, charged \in Nat :
                            PaidOne(w, z, i, p, amt, charged)
                   /\ \E i \in DOMAIN z.invoices, amt \in Int, charged \in Nat :
                            PaidOne(z, v, i, p, amt, charged)
      BY <2>5
    <3>2. Settled(z.bank, z.invoices)
      BY <1>1, <2>3, <3>1, PaidSettled
    <3>3. Settled(v.bank, v.invoices)
      BY <1>1, <2>1, <3>1, <3>2, PaidSettled
    <3> QED BY <2>1, <3>3
  <2> QED BY <1>4, <2>2, <2>4, <2>5 DEF PaidSome
<1>5. ASSUME NEW i \in DOMAIN invoices, NEW r, NEW amt, RefundedOne(i, r, amt)
      PROVE  Settled(bank', invoices')
  BY <1>5, RefundSettled
<1> QED BY <1>2, <1>3, <1>4, <1>5, InvoiceMoves

-----------------------------------------------------------------------------
(* Theorems about them. *)

\* The types at the start.
LEMMA TypesStart ==
  ASSUME MerchantsInit
  PROVE  TypesInv
<1>1. PlatformTypeOK
  <2>1. NoAnalysis \in Analysis /\ NoTokenAnalysis \in TokenAnalysis
    BY DEF NoAnalysis, NoTokenAnalysis, Analysis, TokenAnalysis
  <2>2. stats \in StatsType
    BY <2>1 DEF MerchantsInit, PlatformInit, StatsType
  <2>3. \A x \in Prices \cup {0} : x \in Nat
    BY PlatformAssumption
  <2>4. price \in [Tokens -> Nat]
    BY <2>3 DEF MerchantsInit, PlatformInit
  <2>5. /\ now \in Nat /\ paused \in BOOLEAN
        /\ {admin, pendingAdmin} \subseteq Admins \cup {None}
        /\ accepted \subseteq Tokens /\ fee \in [Tokens -> Nat]
        /\ pendingFee \in [Tokens -> PendingFee \cup {None}]
        /\ platform \in Admins \cup PlatformAccounts \cup {None}
        /\ oracle \subseteq Tokens
    BY DEF MerchantsInit, PlatformInit
  <2> QED BY <2>2, <2>4, <2>5 DEF PlatformTypeOK, StatsType
<1>2. AccountTypeOK
  <2>1. bank \in [Holder -> [Tokens -> Nat]]
    BY AccountAssumption DEF MerchantsInit, AccountInit
  <2>2. Unopened \in AccountRecord /\ NoFlow \in Flow
    BY DEF Unopened, NoFlow, AccountRecord, Flow
  <2> QED BY <2>1, <2>2 DEF MerchantsInit, AccountInit, AccountTypeOK
<1>3. merchants \in [Seller -> RoutedMerchant \cup {None}]
      /\ merchants \in [Seller -> Merchant \cup {None}]
  BY DEF MerchantsInit
<1> QED BY <1>1, <1>2, <1>3 DEF TypesInv, MerchantsTypeOK

\* The invoices' invariant with types at the start.
LEMMA InvoicesInvInit ==
  ASSUME Init
  PROVE  InvoicesInv
<1>1. TypesInv
  BY TypesStart DEF Init
<1>2. AllSound(invoices) /\ invoices = << >>
  BY InvoiceStart DEF InvoiceInv, Init
<1>3. DOMAIN invoices = {}
  BY <1>2
<1> QED BY <1>1, <1>2, <1>3 DEF InvoicesInv, Registered

\* Everything is well typed, and every invoice is one of a registered merchant.
THEOREM InvoicesInvHolds == Spec => []InvoicesInv
<1>1. Init => InvoicesInv
  BY InvoicesInvInit
<1>2. InvoicesInv /\ [Next]_vars => InvoicesInv'
  BY InvoicesStep
<1> QED BY <1>1, <1>2, PTL DEF Spec

\* What a payer is out of pocket in a token is what its invoices record as paid and not
\* refunded, for every number of invoices, whatever fees, routes and withdrawals there
\* are: the books and the ledger never part.
THEOREM PayersOutOfPocketHolds ==
  ASSUME PayersOnlyPay
  PROVE  Spec => []PayersOutOfPocket
<1> DEFINE Inv == InvoicesInv /\ Settled(bank, invoices)
<1>1. Init => Inv
  <2> SUFFICES ASSUME Init PROVE Inv
    OBVIOUS
  <2>1. InvoicesInv
    <3>1. TypesInv
      BY TypesStart DEF Init
    <3>2. AllSound(invoices) /\ DOMAIN invoices = {}
      BY InvoiceStart DEF InvoiceInv, Init
    <3> QED BY <3>1, <3>2 DEF InvoicesInv, Registered
  <2>2. ASSUME NEW p \in Payers, NEW t \in Tokens
        PROVE  Funds[p][t] - bank[p][t] = SumFunction(Outlay(invoices, p, t))
    <3>1. DOMAIN invoices = {} /\ bank = Funds
      BY DEF Init, MerchantsInit, AccountInit
    <3>2. Funds[p][t] \in Nat
      BY InvoiceAssumption, AccountAssumption
    <3>3. DOMAIN Outlay(invoices, p, t) = {}
      BY <3>1 DEF Outlay
    <3>4. SumFunction(Outlay(invoices, p, t)) = 0
      BY <3>3, SumEmpty DEF SumFunction
    <3> QED BY <3>1, <3>2, <3>4
  <2> QED BY <2>1, <2>2 DEF Settled
<1>2. Inv /\ [Next]_vars => Inv'
  <2> SUFFICES ASSUME Inv, [Next]_vars PROVE Inv'
    OBVIOUS
  <2>1. InvoicesInv'
    BY InvoicesStep
  <2>2. CASE MerchantsNext /\ UNCHANGED invoiceVars
    <3>1. TypesInv /\ bank \in Ledger
      BY DEF InvoicesInv, TypesInv, MerchantsTypeOK, AccountTypeOK, Ledger
    <3>2. invoices' = invoices
      BY <2>2 DEF invoiceVars
    <3>3. \A p \in Payers, t \in Tokens : bank'[p][t] = bank[p][t]
      <4>1. CASE LedgerKept
        BY <4>1 DEF LedgerKept
      <4>2. ASSUME NEW a \in Account, NEW to \in Payees, NEW t \in Tokens, NEW amt \in Nat,
                   Withdrawn(a, to, t, amt)
            PROVE  \A p \in Payers, u \in Tokens : bank'[p][u] = bank[p][u]
        BY <3>1, <4>2, WithdrawalApart
      <4> QED BY <2>2, <4>1, <4>2, MerchantsMoney
    <3>4. Settled(bank', invoices')
      BY <3>2, <3>3 DEF Settled
    <3> QED BY <2>1, <3>4 DEF Settled
  <2>3. CASE InvoiceNext
    <3>1. Settled(bank', invoices')
      BY <2>3, InvoicesSettled
    <3> QED BY <2>1, <3>1 DEF Settled
  <2>4. CASE UNCHANGED vars
    <3>1. bank' = bank /\ invoices' = invoices
      BY <2>4 DEF vars, merchantVars, accountVars, invoiceVars
    <3> QED BY <2>1, <3>1 DEF Settled
  <2> QED BY <2>2, <2>3, <2>4 DEF Next
<1>3. Inv => PayersOutOfPocket
  BY DEF Settled, Outlay, PayersOutOfPocket, InvoicesOf
<1> QED BY <1>1, <1>2, <1>3, PTL DEF Spec

\* Every variable of the invoices and of what they are built on keeps its type.
THEOREM InvoiceTypes == Spec => []InvoiceTypeOK
<1>1. InvoicesInv /\ SignedInv => InvoiceTypeOK
  BY DEF InvoicesInv, TypesInv, AllSound, SignedInv, InvoiceTypeOK
<1> QED BY <1>1, InvoicesInvHolds, SignedInvHolds, PTL
=============================================================================
