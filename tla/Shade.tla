-------------------------------- MODULE Shade --------------------------------
(***************************************************************************)
(* The Shade contract as one system (shade/src/shade.rs): invoices, tickets *)
(* and subscriptions are three ways to take money for the same merchants,   *)
(* over the same accounts, fees and analytics.  A payment of any kind moves *)
(* the volume that sets the fee on the next payment of every other kind.    *)
(* Campaigns and reward NFTs serve the same merchants beside them.          *)
(***************************************************************************)
EXTENDS Invoice, ShadeEvents, ShadeSubscription, BackerRewards, Nft

\* An address is a string of fixed length.
ASSUME ShadeAssumption == IsFiniteSet(Holder)

shadeVars == <<platformVars, merchantVars, invoiceVars, eventVars, subscriptionVars,
               campaigns, nftVars>>

ShadeTypeOK ==
    /\ InvoiceTypeOK
    /\ EventsTypeOK
    /\ SubscriptionTypeOK
    /\ BackerRewardsTypeOK
    /\ NftTypeOK

ShadeInit ==
    /\ Init
    /\ EventsInit
    /\ SubscriptionInit
    /\ BackerRewardsInit
    /\ NftInit

ShadeNext ==
    \/ Next /\ UNCHANGED <<eventVars, subscriptionVars, campaigns, nftVars>>
    \/ EventsNext /\ UNCHANGED <<invoiceVars, subscriptionVars, campaigns, nftVars>>
    \/ SubscriptionNext /\ UNCHANGED <<invoiceVars, eventVars, campaigns, nftVars>>
    \/ BackerRewardsNext /\ UNCHANGED <<invoiceVars, eventVars, subscriptionVars, nftVars>>
    \/ NftNext /\ UNCHANGED <<invoiceVars, eventVars, subscriptionVars, campaigns>>

ShadeSpec == ShadeInit /\ [][ShadeNext]_shadeVars

-----------------------------------------------------------------------------
(* Properties. *)

InvoiceVolume(m, t) ==
    SumFunction([i \in InvoicesOf(LAMBDA q : q.merchant = m /\ q.token = t) |->
                    invoices[i].amount_paid])

TicketVolume(m, t) ==
    LET sold == {i \in DOMAIN tickets : /\ events[tickets[i].event_id].merchant = m
                                        /\ events[tickets[i].event_id].token = t}
    IN  SumFunction([i \in sold |-> tickets[i].purchase_price])

ChargeVolume(m, t) ==
    LET due == {s \in DOMAIN subs : /\ plans[subs[s].plan_id].merchant = m
                                    /\ plans[subs[s].plan_id].token = t}
    IN  SumFunction([s \in due |-> Len(charges[s]) * plans[subs[s].plan_id].amount])

\* The analytics that set a merchant's volume discount count every invoice payment,
\* ticket and charge once, and the token's global row is the sum of the merchants'
\* rows.  (Seats sold in bulk count nowhere.)
VolumesAgree ==
    \A t \in Tokens :
        /\ \A m \in Seller :
            stats.merchant[m][t].total_volume =
                InvoiceVolume(m, t) + TicketVolume(m, t) + ChargeVolume(m, t)
        /\ stats.token[t].total_volume =
                SumFunction([m \in Seller |-> stats.merchant[m][t].total_volume])
        /\ stats.token[t].total_fees =
                SumFunction([m \in Seller |-> stats.merchant[m][t].total_fees])

\* Where the money went: the platform's accounts, past and present, received what the
\* analytics record as fees, also while the volume crosses a discount tier or the
\* platform account changes; the merchants' accounts received the volume less the fees,
\* and the bulk sales and royalties, which no analytics count.  (While every merchant is
\* routed to an account.)
TakingsAgree ==
    \A t \in Tokens :
        /\ SumFunction([p \in Admins \cup PlatformAccounts |-> bank[p][t] - Funds[p][t]]) =
                stats.token[t].total_fees
        /\ SumFunction([a \in Account |-> flow[a].received[t]]) =
                stats.token[t].total_volume - stats.token[t].total_fees + offBooks[t]

\* Splitting a payment never costs the payer's merchant more in fees than paying
\* at once: rounding goes down and the discount only grows with the volume.
SplitNeverDearer ==
    \A m \in Seller, t \in Tokens, x \in Instalments \cap Nat, y \in Instalments \cap Nat :
        LET first == CalculateFee(stats, m, t, x)
            after == RecordMerchantPayment(stats, m, t, x, first)
        IN  first + CalculateFee(after, m, t, y) <= CalculateFee(stats, m, t, x + y)

-----------------------------------------------------------------------------
(* What the properties about the money of one kind of holder are stated for.   *)

\* A merchant's wallet buys nothing of what other merchants sell, but for tickets.
SellersOnlySell ==
    Seller \cap (Account \cup Payers \cup Customers \cup Backers) \subseteq Buyers

\* The address of the contract is nobody's wallet, account, payout address or treasury.
ShadeOnlyHolds ==
    Shade \notin UNION {Account, Payees, Routes, Admins, PlatformAccounts, Payers, Buyers,
                        Customers, Seller}

\* Every merchant is routed to an account, nothing but the platform is paid to or from its
\* own accounts, and nobody withdraws or is refunded to a merchant's account.
TakingsStay ==
    /\ Routes \subseteq Account
    /\ (Admins \cup PlatformAccounts) \cap UNION {Account, Payees, Payers, Buyers, Customers,
                                                 Backers, Seller, {Shade}} = {}
    /\ Account \cap (Payees \cup Payers) = {}
=============================================================================
