------------------------------- MODULE Invoice -------------------------------
(***************************************************************************)
(* Invoices of the Shade contract (shade/src/components/invoice.rs with     *)
(* signature_util.rs): created, drafted, signed off-chain or priced in fiat *)
(* by merchants, paid in full, in part or in a batch, refunded by the       *)
(* merchant or claimed back by the payer.                                   *)
(*                                                                         *)
(* Composes Merchants (with Platform and MerchantAccount).  Every entry     *)
(* point is one atomic transaction: a failed step leaves the state alone.   *)
(***************************************************************************)
EXTENDS Merchants

CONSTANTS
    Payers,       \* the wallets that pay invoices
    Amounts,      \* what create_invoice may be called with
    Drafts,       \* what create_invoice_draft may be called with
    FiatAmounts,  \* what create_fiat_invoice may be called with
    FiatScale,    \* 10^(token decimals + price decimals - fiat decimals)
    Expiries,     \* the expires_at of new invoices, None included if it may be absent
    Messages,     \* the invoices that merchants have signed off-chain
    Instalments,  \* what pay_invoice_partial may be called with
    Batches,      \* the pairs of invoices pay_invoices_batch may be called with
    Amendments,   \* what amend_invoice may be called with
    PartRefunds,  \* what refund_invoice_partial may be called with
    RefundWindow, \* MAX_REFUND_DURATION, in clock units
    MaxInvoices   \* bound: invoices created

ASSUME InvoiceAssumption ==
    /\ Payers \subseteq Holder
    /\ Amounts \cup Drafts \cup FiatAmounts \cup Amendments \subseteq Int
    /\ Instalments \cup PartRefunds \subseteq Int
    /\ FiatScale \in Nat \ {0}
    /\ Expiries \subseteq Nat \cup {None}
    /\ \A q \in Messages : /\ q.key \in Keys /\ q.merchant \in Seller
                           /\ q.token \in Tokens /\ q.amount \in Int
    /\ Batches \subseteq Nat \X Nat
    /\ {RefundWindow, MaxInvoices} \subseteq Nat

VARIABLES
    invoices,    \* DataKey::Invoice
    usedNonces,  \* DataKey::UsedNonce
    redeemed     \* history variable: the signed messages that became invoices

invoiceVars == <<invoices, usedNonces, redeemed>>

vars == <<platformVars, merchantVars, invoiceVars>>

Status == {"Draft", "Pending", "PartiallyPaid", "Paid", "PartiallyRefunded",
           "Refunded", "Cancelled"}

InvoiceRecord ==
    [merchant : Seller, token : Tokens, amount : Nat, status : Status,
     payer : Payers \cup {None}, date_paid : Nat \cup {None}, amount_paid : Nat,
     amount_refunded : Nat, expires_at : Nat \cup {None}, fiat : Nat \cup {None}]

InvoiceTypeOK ==
    /\ MerchantsTypeOK
    /\ invoices \in Seq(InvoiceRecord)
    /\ usedNonces \subseteq {<<q.merchant, q.nonce>> : q \in Messages}
    /\ redeemed \in Seq(Messages)

-----------------------------------------------------------------------------
(* Creation. *)

\* validate_invoice_creation.
Valid(m, amt, t, expiry) ==
    /\ amt > 0
    /\ IsMerchant(m)
    /\ merchants[m].active
    /\ t \in accepted
    /\ AcceptsToken(m, t)
    /\ expiry # None => expiry >= now
    /\ amt > CalculateFee(stats, m, t, amt)

NewInvoice(m, amt, t, expiry) ==
    [merchant |-> m, token |-> t, amount |-> amt, status |-> "Pending", payer |-> None,
     date_paid |-> None, amount_paid |-> 0, amount_refunded |-> 0,
     expires_at |-> expiry, fiat |-> None]

Store(q) ==
    /\ Len(invoices) < MaxInvoices
    /\ invoices' = Append(invoices, q)
    /\ UNCHANGED <<platformVars, merchantVars>>

CreateInvoice(m, amt, t, expiry) ==
    /\ ~paused
    /\ Valid(m, amt, t, expiry)
    /\ Store(NewInvoice(m, amt, t, expiry))
    /\ UNCHANGED <<usedNonces, redeemed>>

CreateInvoiceDraft(m, amt, t, expiry) ==
    /\ ~paused
    /\ Valid(m, amt, t, expiry)
    /\ Store([NewInvoice(m, amt, t, expiry) EXCEPT !.status = "Draft"])
    /\ UNCHANGED <<usedNonces, redeemed>>

\* resolve_fiat_invoice_amount, and when it panics.
Quote(amt, t) == (amt * FiatScale) \div price[t]

Quotable(amt, t) ==
    /\ t \in oracle
    /\ price[t] > 0
    /\ Quote(amt, t) > 0

CreateFiatInvoice(m, amt, t, expiry) ==
    /\ ~paused
    /\ amt > 0
    /\ Quotable(amt, t)
    /\ Valid(m, Quote(amt, t), t, expiry)
    /\ Store([NewInvoice(m, Quote(amt, t), t, expiry) EXCEPT !.fiat = amt])
    /\ UNCHANGED <<usedNonces, redeemed>>

\* The fault forgets the nonce of a message once the invoice exists.
Burnt_NotKept(q) == usedNonces

\* invalidate_nonce.
Burnt(q) == usedNonces \cup {<<q.merchant, q.nonce>>}

\* Called by the admin or a manager with a message signed by the merchant's key.
CreateInvoiceSigned(q) ==
    /\ ~paused
    /\ Valid(q.merchant, q.amount, q.token, None)
    /\ merchants[q.merchant].key = q.key
    /\ <<q.merchant, q.nonce>> \notin usedNonces
    /\ Store(NewInvoice(q.merchant, q.amount, q.token, None))
    /\ usedNonces' = Burnt(q)
    /\ redeemed' = Append(redeemed, q)

-----------------------------------------------------------------------------
(* The merchant's changes to an invoice nobody has paid. *)

Revise(i, q) ==
    /\ invoices' = [invoices EXCEPT ![i] = q]
    /\ UNCHANGED <<platformVars, merchantVars, usedNonces, redeemed>>

\* Nothing Valid asked at creation is asked again.
FinalizeInvoice(i) ==
    /\ ~paused
    /\ invoices[i].status = "Draft"
    /\ Revise(i, [invoices[i] EXCEPT !.status = "Pending"])

Unpaid_Partly(q) == q.status \in {"Pending", "PartiallyPaid"}  \* fault: while open

Unpaid(q) == q.status = "Pending"

VoidInvoice_WhilePaused(i) ==  \* fault: an entry point without assert_not_paused
    /\ Unpaid(invoices[i])
    /\ Revise(i, [invoices[i] EXCEPT !.status = "Cancelled"])

VoidInvoice(i) ==
    /\ ~paused
    /\ Unpaid(invoices[i])
    /\ Revise(i, [invoices[i] EXCEPT !.status = "Cancelled"])

\* The new amount is not compared with the fee, as it was at creation.
AmendInvoice(i, amt) ==
    /\ ~paused
    /\ Unpaid(invoices[i])
    /\ amt > 0
    /\ Revise(i, [invoices[i] EXCEPT !.amount = amt])

-----------------------------------------------------------------------------
(* Payment, on a world that a batch changes invoice by invoice. *)

World == [bank |-> bank, flow |-> flow, stats |-> stats, invoices |-> invoices]

Install(w) ==
    /\ bank' = w.bank
    /\ flow' = w.flow
    /\ stats' = w.stats
    /\ invoices' = w.invoices
    /\ UNCHANGED <<configVars, merchants, account, usedNonces, redeemed>>

FloatsWithPrice(q) == q.fiat # None /\ q.amount_paid = 0

\* refresh_fiat_invoice_quote: a fiat invoice is priced again until its first payment.
Requoted(q) ==
    IF FloatsWithPrice(q) THEN [q EXCEPT !.amount = Quote(q.fiat, q.token)] ELSE q

\* The fee on a payment of amt for invoice q.
FeeOn(w, q, amt) == CalculateFee(w.stats, q.merchant, q.token, amt)

NetPaid(w, q, p, amt) ==
    Moved(w.bank, p, merchants[q.merchant].account, q.token, amt - FeeOn(w, q, amt))

Funded(w, q, p, amt) ==
    /\ CanPay(w.bank, p, q.token, amt - FeeOn(w, q, amt))
    /\ FeeOn(w, q, amt) > 0 => CanPay(NetPaid(w, q, p, amt), p, q.token, FeeOn(w, q, amt))

MayPay_AfterExpiry(q, p) == q.payer \in {None, p}  \* fault: expiry is not checked

\* The merchant need not be active, and its own token list is not asked.
MayPay(q, p) ==
    /\ q.payer \in {None, p}
    /\ q.expires_at # None => now < q.expires_at

Payable(w, p, i, amt) ==
    LET q == Requoted(w.invoices[i])
    IN  /\ amt > 0
        /\ FloatsWithPrice(w.invoices[i]) =>
                Quotable(w.invoices[i].fiat, w.invoices[i].token)
        /\ q.status \in {"Pending", "PartiallyPaid"}
        /\ MayPay(q, p)
        /\ q.amount_paid + amt <= q.amount
        /\ q.token \in accepted
        /\ merchants[q.merchant].account # None
        /\ Funded(w, q, p, amt)

Credited_LastOnly(q, p, amt) ==  \* fault: an instalment replaces the earlier ones
    LET credited == [q EXCEPT !.amount_paid = amt, !.payer = p]
    IN  IF credited.amount_paid = q.amount
        THEN [credited EXCEPT !.status = "Paid", !.date_paid = now]
        ELSE [credited EXCEPT !.status = "PartiallyPaid"]

Credited(q, p, amt) ==
    LET credited == [q EXCEPT !.amount_paid = @ + amt, !.payer = p]
    IN  IF credited.amount_paid = q.amount
        THEN [credited EXCEPT !.status = "Paid", !.date_paid = now]
        ELSE [credited EXCEPT !.status = "PartiallyPaid"]

\* pay_invoice_partial, when Payable.
Pay(w, p, i, amt) ==
    LET q       == Requoted(w.invoices[i])
        charged == FeeOn(w, q, amt)
        paidNet == Received(w.flow, merchants[q.merchant].account, q.token, amt - charged)
        net     == NetPaid(w, q, p, amt)
    IN  [bank     |-> IF charged > 0 THEN Moved(net, p, platform, q.token, charged) ELSE net,
         flow     |-> Received(paidNet, platform, q.token, charged),
         stats    |-> RecordMerchantPayment(w.stats, q.merchant, q.token, amt, charged),
         invoices |-> [w.invoices EXCEPT ![i] = Credited(q, p, amt)]]

\* What pay_invoice pays; evaluated only when the invoice can be quoted.
Remaining(q) == Requoted(q).amount - q.amount_paid

PayableInFull(w, p, i) ==
    /\ FloatsWithPrice(w.invoices[i]) => Quotable(w.invoices[i].fiat, w.invoices[i].token)
    /\ Payable(w, p, i, Remaining(w.invoices[i]))

PayInFull(w, p, i) == Pay(w, p, i, Remaining(w.invoices[i]))

PayInvoice(p, i) ==
    /\ ~paused
    /\ PayableInFull(World, p, i)
    /\ Install(PayInFull(World, p, i))

PayInvoicePartial(p, i, amt) ==
    /\ ~paused
    /\ Payable(World, p, i, amt)
    /\ Install(Pay(World, p, i, amt))

\* One invoice that cannot be paid fails the whole batch.
PayInvoicesBatch(p, i, j) ==
    /\ ~paused
    /\ PayableInFull(World, p, i)
    /\ PayableInFull(PayInFull(World, p, i), p, j)
    /\ Install(PayInFull(PayInFull(World, p, i), p, j))

-----------------------------------------------------------------------------
(* Refunds. *)

\* The merchant's account pays amt back for invoice i, which becomes q.  An account
\* that is no deployed contract has no refund entry point, and the call traps.
PayBack(i, q, amt) ==
    /\ merchants[q.merchant].account \in Account
    /\ account[merchants[q.merchant].account].manager = Shade
    /\ Refund(merchants[q.merchant].account, q.token, amt, q.payer)
    /\ invoices' = [invoices EXCEPT ![i] = q]
    /\ UNCHANGED <<platformVars, merchants, usedNonces, redeemed>>

\* The buyer gets back the fee as well, at the merchant's expense.
RefundInvoice(i) ==
    LET q == invoices[i]
    IN  /\ ~paused
        /\ q.status = "Paid"
        /\ now - q.date_paid <= RefundWindow
        /\ q.amount > q.amount_refunded
        /\ PayBack(i, [q EXCEPT !.amount_refunded = q.amount, !.status = "Refunded"],
                   q.amount - q.amount_refunded)

WithinAmount_PerCall(q, amt) == amt <= q.amount  \* fault: earlier refunds are ignored

WithinAmount(q, amt) == q.amount_refunded + amt <= q.amount

RefundInvoicePartial(i, amt) ==
    LET q     == invoices[i]
        total == q.amount_refunded + amt
    IN  /\ ~paused
        /\ q.status \in {"Paid", "PartiallyRefunded"}
        /\ now - q.date_paid <= RefundWindow
        /\ amt > 0
        /\ WithinAmount(q, amt)
        /\ PayBack(i, [q EXCEPT !.amount_refunded = total,
                                !.status = IF total = q.amount THEN "Refunded"
                                           ELSE "PartiallyRefunded"], amt)

\* Called by the payer, at any time after the expiry.  The tests call it through the
\* client; no entry point of shade.rs reaches it, so no pause is checked.
ClaimRefund(i) ==
    LET q == invoices[i]
    IN  /\ q.payer # None
        /\ q.expires_at # None
        /\ now >= q.expires_at
        /\ q.status \in {"Paid", "PartiallyPaid"}
        /\ q.amount_paid > q.amount_refunded
        /\ PayBack(i, [q EXCEPT !.amount_refunded = q.amount_paid, !.status = "Refunded"],
                   q.amount_paid - q.amount_refunded)

-----------------------------------------------------------------------------
Init ==
    /\ MerchantsInit
    /\ invoices = << >>
    /\ usedNonces = {}
    /\ redeemed = << >>

Creation ==
    \/ \E m \in Seller, t \in Tokens, expiry \in Expiries :
        \/ \E amt \in Amounts : CreateInvoice(m, amt, t, expiry)
        \/ \E amt \in Drafts : CreateInvoiceDraft(m, amt, t, expiry)
        \/ \E amt \in FiatAmounts : CreateFiatInvoice(m, amt, t, expiry)
    \/ \E q \in Messages : CreateInvoiceSigned(q)

InvoiceNext ==
    \/ Creation
    \/ \E p \in Payers, ids \in Batches :
        /\ {ids[1], ids[2]} \subseteq DOMAIN invoices
        /\ PayInvoicesBatch(p, ids[1], ids[2])
    \/ \E i \in DOMAIN invoices :
        \/ FinalizeInvoice(i)
        \/ VoidInvoice(i)
        \/ \E amt \in Amendments : AmendInvoice(i, amt)
        \/ \E p \in Payers :
            \/ PayInvoice(p, i)
            \/ \E amt \in Instalments : PayInvoicePartial(p, i, amt)
        \/ RefundInvoice(i)
        \/ \E amt \in PartRefunds : RefundInvoicePartial(i, amt)
        \/ ClaimRefund(i)

Next ==
    \/ MerchantsNext /\ UNCHANGED invoiceVars
    \/ InvoiceNext

Spec == Init /\ [][Next]_vars

-----------------------------------------------------------------------------
(* Properties. *)

InvoicesOf(P(_)) == {i \in DOMAIN invoices : P(invoices[i])}

\* An invoice's status, its amounts, its payer and its date of payment always tell
\* the same story, through instalments, re-quotes, amendments, refunds and claims:
\* no invoice is over-paid or over-refunded, and the one payer is on record.
InvoiceBooks ==
    \A i \in DOMAIN invoices :
        LET q == invoices[i]
        IN  /\ (q.payer = None) = (q.amount_paid = 0)
            /\ q.status \in {"Draft", "Pending", "Cancelled"} => q.amount_paid = 0
            /\ q.status = "PartiallyPaid" => q.amount_paid \in 1 .. q.amount - 1
            /\ q.status \in {"Paid", "PartiallyRefunded"} =>
                    q.amount_paid = q.amount /\ q.date_paid # None
            /\ q.status = "PartiallyRefunded" => q.amount_refunded \in 1 .. q.amount - 1
            /\ q.status = "Refunded" =>
                    q.amount_refunded = q.amount_paid /\ q.amount_paid \in 1 .. q.amount
            /\ q.status \notin {"PartiallyRefunded", "Refunded"} => q.amount_refunded = 0

\* What a payer is out of pocket in a token is what its invoices record as paid
\* and not refunded: no transfer happens outside the books, and no book entry
\* without its transfer, whichever of the payment and refund paths was taken.
PayersOutOfPocket ==
    \A p \in Payers, t \in Tokens :
        Funds[p][t] - bank[p][t] =
            SumFunction([i \in InvoicesOf(LAMBDA q : q.payer = p /\ q.token = t) |->
                            invoices[i].amount_paid - invoices[i].amount_refunded])

\* The wallets that pay are nobody's account, payout address or treasury: what they
\* gain or lose in another role is not in their invoices.
PayersOnlyPay ==
    Payers \cap (Account \cup Payees \cup Routes \cup Admins \cup PlatformAccounts) = {}

\* Once the first instalment of an invoice is in, its price, token and merchant are
\* fixed, and so is its payer: neither the merchant nor the oracle moves them.
PaidTermsFixed ==
    [][\A i \in DOMAIN invoices :
            invoices[i].amount_paid > 0 =>
                /\ invoices'[i].amount = invoices[i].amount
                /\ invoices'[i].token = invoices[i].token
                /\ invoices'[i].merchant = invoices[i].merchant
                /\ invoices'[i].payer = invoices[i].payer]_vars

\* The time from which the payer may claim.
Expired(q) == q.expires_at # None /\ now >= q.expires_at

\* An invoice's money goes one way, whatever its merchant, its payer and strangers
\* call and in whatever order (a late instalment against the payer's claim, an invoice
\* named twice in a batch, an issue, a void or an amendment after a refund): one that is
\* paid in full, that has begun to give back or that has expired takes no more money,
\* what it gave back it does not take back, and one that is cancelled or refunded
\* never changes again, not in any field.
ClosedForGood ==
    [][\A i \in DOMAIN invoices :
        LET q == invoices[i]
        IN  /\ q.status \in {"Cancelled", "Refunded"} => invoices'[i] = q
            /\ q.status \in {"Paid", "PartiallyRefunded"} \/ Expired(q) =>
                    invoices'[i].amount_paid = q.amount_paid
            /\ invoices'[i].amount_refunded >= q.amount_refunded]_vars

\* While the contract is paused no invoice is created, paid, revised or refunded by
\* its merchant; only the claim of an expired one goes through.
PausedFrozen ==
    [][paused =>
        /\ Len(invoices') = Len(invoices)
        /\ stats' = stats
        /\ \A i \in DOMAIN invoices :
            invoices'[i] # invoices[i] =>
                /\ invoices[i].expires_at # None
                /\ now >= invoices[i].expires_at
                /\ invoices'[i].status = "Refunded"]_vars

\* A merchant's signed message becomes an invoice at most once, and each nonce of a
\* merchant is spent on one message, also across rotations of its key.
SignedOnce ==
    \A i, j \in DOMAIN redeemed :
        /\ redeemed[i].merchant = redeemed[j].merchant
        /\ redeemed[i].nonce = redeemed[j].nonce
        => i = j
=============================================================================
