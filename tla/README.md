# The Shade contracts in TLA+

This directory specifies the Soroban contracts of `src/contracts/`: recurring billing, merchants'
accounts, the Shade contract with everything its merchants sell, crowdfunding and ticketing. The
modules are checked with TLC on small instances, and the properties that matter most are proved
with TLAPS for every value of the constants.

## The system

| part | state | operations | talks to |
|---|---|---|---|
| **subscription** (`subscription/src/lib.rs`) | plans, subscriptions (status, last charge, past-due mark, pending downgrade, preferred token), admin, accepted tokens | create / edit / deactivate a plan; enrol; authorise and revoke; `charge`, `process_charge`, `process_billing_cycle`, `enforce_grace`; upgrade, downgrade, cancel, cancel with refund | token contracts: allowances of customers *and* merchants |
| **merchant account** (`account/src/account.rs`) | merchant, manager, restriction, threshold, withdrawal requests, analytics | initialize, withdraw, approve, refund, restrict, threshold | token contracts; Shade is its manager |
| **shade: platform** (`admin.rs`, `pausable.rs`) | admin and pending admin, pause, accepted tokens, fees and fee proposals, platform account, oracles, analytics | two-step handover, pause, add / remove token, set / propose / execute fee, set oracle | price oracles |
| **shade: merchants** (`merchant.rs`) | registration, status, key, account, token list | register, configure, restrict an account | merchant accounts |
| **shade: invoices** (`invoice.rs`, `signature_util.rs`) | invoices, spent nonces | create (plain, draft, fiat, signed), finalise, amend, void; pay in full, in part, in a batch; refund in full, in part, by claim | token contracts, merchant accounts, oracles, platform analytics |
| **crowdfund** (`crowdfund/src/lib.rs`) | terms, total, pledges, contributors, matching pool, milestones, votes | init, contribute, pledge, fund the pool, execute, claim, batch refund, milestones | token contract; Shade's `pay_invoice` and a merchant account's `refund` |
| **shade: subscriptions** (`subscription.rs`) | plans, subscriptions, last charges | create / deactivate a plan, subscribe, charge, cancel | token allowances, merchant accounts, platform analytics |
| **shade: events** (`event.rs`) | events with prices and a count of sold seats, tickets, each wallet's list | create, dynamic pricing, purchase, bulk purchase, resell, cancel with batch refund | the same; bulk purchases go around them |
| **shade: backer campaigns** (`backer_rewards.rs`) | campaigns, tiers, pledges, selections and their counts, fulfilments, claimed perks | create, set tiers, pledge, select, fulfil, claim | token contracts |
| **shade: reward NFTs** (`nft.rs`) | collections, NFTs, each wallet's list, claims | create, mint, batch mint, transfer, burn, claim, deactivate | nothing |
| **ticketing** (`ticketing/src/lib.rs`) | events, tiers, tickets, waitlists, resale terms | create, cancel, issue, transfer, refund, join waitlist, check in, resell | token contracts |
| **escrow** (`escrow/src/lib.rs`) | one agreement: an amount, how much of it is in, whether it was released | initialize, deposit (raises a counter), release (by the buyer) | nothing: it moves no tokens |
| **factories** | registries of what they deployed | deploy | the contracts they deploy |

**What interacts.** A payment (of an invoice, a ticket or a subscription) is two transfers, to the
merchant's account and to the platform, two rows of analytics and a record of its own; the discount
on its fee is read from analytics that the same payment then writes, so each kind of sale sets the
fee of every other kind. Bulk sales and royalties move money past the analytics. A refund is a call
from Shade, as manager, into the merchant's account, which may be restricted, short of money because
its merchant withdrew, or no account at all because the merchant re-routed its payments to a wallet.
All subscriptions of a customer share one allowance per token. A campaign's backers, sponsor and
organizer share one balance, and all of Shade's backer campaigns share Shade's own.

**What is hard.** An entry point is one transaction and a panic undoes all of it, so nothing runs in
parallel and nothing survives half done. What is left is what tests reach badly: long legal
sequences by several parties in any order (merchant edits against customer upgrades against the
scheduler's sweeps); values cached in one call and used in a later one (past-due marks, volumes,
quoted prices, vote weights, allowances, tier counts, lists of what a wallet owns); deadlines that
one side reads as `<` and the other as `<=`; a batch in which one entry fails; floor divisions done
again and again; retries of what was already done; and two liveness questions: does non-payment end,
does a failed campaign pay back.

**What correct means**, part by part:

- subscription: no cycle charged twice or early by any mix of the charge paths; a coherent grace
  window that is honoured and ends; refunds within what was paid; ended is final.
- merchant account: what leaves is on the books; large withdrawals need two parties.
- invoices: an invoice's fields tell one story; payers are out of pocket exactly by the books; money
  goes one way, and what is settled stays settled; terms are fixed by the first payment; a signed
  message is redeemed once; a pause freezes.
- platform: volumes and fees recorded are the ones charged, by every kind of sale; splitting a
  payment does not pay.
- shade's sales: no event is oversold by single and bulk sales together; a cancellation refunds each
  holder once, what was first paid; a subscription is charged once an interval, whoever asks.
- shade's rewards: a tier has no more backers than places; what is pledged is held; supplies are
  kept; a reward is claimed once; lists show what wallets own.
- ticketing: no event is oversold, nobody waits for a free seat, tiers are honoured, a hash is one
  ticket's, a used ticket stays used.
- crowdfund: all or nothing; the contract holds what its books say; nobody is left out of a refund;
  milestones are released by a majority.

## The modules

| module | models | EXTENDS / uses |
|---|---|---|
| `TokenLedger` | external token contracts: who can pay, balances after a transfer | |
| `Subscription` | the subscription contract | `TokenLedger` |
| `MerchantAccount` | any number of account contracts on one ledger | `TokenLedger` |
| `Lists` | the loop that takes an entry out of a stored list | |
| `Platform` | administration, pause, fees, analytics | `TokenLedger` |
| `Merchants` | merchants, composed with `Platform` and `MerchantAccount`; `TakePayment`, the split every sale shares | both |
| `Invoice` | invoices, a specification of their own on top of `Merchants` | `Merchants` |
| `ShadeEvents` | events and tickets | `Merchants`, `Lists` |
| `ShadeSubscription` | subscriptions | `Merchants` |
| `BackerRewards` | backer campaigns | `Merchants` |
| `Nft` | reward NFTs | `Merchants`, `Lists` |
| `Shade` | the Shade contract as one system: the five above side by side over one platform, one ledger and one pause | all five |
| `AllOrNothing` | abstract: what a campaign promises | |
| `Crowdfund` | a campaign; shown to implement `AllOrNothing` | `TokenLedger`, instantiates `AllOrNothing` |
| `Ticketing` | the ticketing contract | `TokenLedger` |
| `MC*` | balances, offers, messages, lists and starting states of the instances | |
| `FoldTheorems` | lemmas: sums over finite sets, loops over lists | `Lists`, `TLAPS` |
| `*Proofs` | theorems | `TLAPS` |

**Correspondence.** Variables are named in comments after the storage keys they stand for, actions
after the entry points in CamelCase, operators after the helpers. An entry point is one action:
its guard is the conjunction of everything that must hold for the call not to panic, the token's
own refusals included (`CanPay`); its primed variables are its writes. Who may sign is the set the
action's caller is drawn from. Time is an integer that `Tick` advances between transactions.

- Two variables of the payment system are records (`account`, `merchants`) because several
  contracts' storage of the same shape is in them. `Subscription` threads its four changing pieces
  of state through the charge paths as one record, `World`, because a batch applies the same step
  twice to the result of itself.
- `process_billing_cycle` is modelled with two entries, equal ones included: a longer batch is the
  composition of the same step, and the trap of one entry undoes the whole call.
- `history`, `flow`, `redeemed`, `taken`, `refunded`, `bulk`, `offBooks` and `charges` are history
  variables. Nothing reads them but the properties.
- The code writes "never" as 0 in `last_charged` and `early_bird_end`; the model's clock may start
  anywhere, so it is `None` there.
- A single mint and a batch are one operator, `Mint`, on a sequence of recipients: the batch's loop
  calls the single mint, and one refusal undoes all of it.
- A definition whose name ends in a suffix (`InTime_Late`) and whose comment says *fault* is a bug
  that could have been written. No action uses it; it documents what breaks the property it is
  paired with.

**Bounds.** The sets a call's arguments are drawn from are CONSTANTS (`Offers`, `Instalments`,
`Shows`, `Pledges`, ...), as are the bounds: `MaxTime` everywhere; `MaxPlans` and `MaxSubs` in
`Subscription` and `ShadeSubscription`; `MaxRequests` in `MerchantAccount`; `MaxInvoices` in
`Invoice`; `MaxEvents` and `MaxTickets` in `ShadeEvents` and, with `MaxTiers`, in `Ticketing`;
`MaxCampaigns`, `MaxRaised` and `MaxRewards` in `BackerRewards`; `MaxCollections` and `MaxNfts` in
`Nft`; `MaxMilestones` in `Crowdfund`. A bounded clock also bounds every sequence of charges.
Amounts are unbounded integers: `i128` overflow and the saturating arithmetic are not modelled.

**Assumptions about code that is not here.** Tokens are ideal SEP-41 contracts: a transfer succeeds
if the balance covers it, `transfer_from` if the allowance does too. An allowance's expiry is
modelled with `TokenApprove` at amount 0. Oracles answer with any price of a small set, 0 included.
Shade's `pay_invoice` and the merchant account's `refund` that a gateway pledge calls are modelled
by what they move; they are taken to be authorised, which needs an account whose manager signs.
No one sends tokens to a campaign, or to Shade, behind its back.

**Remarks on the source.** The `shade` crate (storage keys in `types.rs`) and the ticketing
contract do not compile as committed; the modules follow the functions as they are written.
The ticketing contract uses five helpers and a field, `refunded`, that it does not define
(`mint_ticket`, `remove_ticket_from_event`, `get_waitlist` and `save_waitlist`,
`active_ticket_count`); they do in the model what their names and callers say.
`claim_refund` of an invoice has tests and no entry point in `shade.rs`; it is modelled as an entry
point, and it is the one operation that does not ask whether the contract is paused. `batch_mint`
calls the single mint, which asks for the merchant's signature a second time in the same call; the
model takes it as given.

## The runs

Each was checked to the end. In brackets: distinct states. A run that has a question of its own has
a configuration of its own; the three `Shade_*` runs are the same specification with different parts
of it awake, because all of it at once is out of reach. The types of the subscription, account,
invoice, crowdfund and ticketing contracts are proved and no run repeats them; a run checks Shade's.

**`Subscription_Billing`** [363,872]. One plan with a trial and a creator as payee, which its
merchant edits and deactivates, two subscriptions of one customer, and token calls behind the
contract's back. Prices 1 and balance 2 make the second cycle the last that can be paid, so every
path through failure, grace, recovery and termination occurs. The clock goes from 1 to 4: with
interval 2 or 3 that holds a first charge, the one due after it and the grace window of 1 that its
failure opens. Checks `PastDueMarked` (mark and status agree),
`ChargeRateLimited` (at most one cycle per interval, for any mix of charge paths), `GraceHonoured`
(non-payment ends nothing before its window has passed) and, under the fairness below, the liveness
property `GraceResolves`: every grace window that closes before the clock's bound comes to an end,
by recovery, cancellation or termination.

**`Subscription_Switch`** [597,632]. One subscription, two plans at prices 2 and 4, both of which
may be cut to 2: upgrades with credit, pending downgrades, refunds. `RefundCovered` states that no
quoted or paid refund exceeds what came in, under its two assumptions, cuts only and one interval.
Both are needed: a raised price raises the refund of a cycle that was paid at the old one, and so
does a shortened interval. `EndedStaysEnded`.

**`Account_Withdrawals`** [2,875]. An account whose merchant and manager may be the same wallet,
with deposits, refunds, restriction and a threshold that moves while requests are pending.
`WithdrawalsAccounted`, `LargeWithdrawalsApproved`.

**`Invoice_Lifecycle`** [608,312]. From an empty contract: two invoices, drafted or not, expiring or
not, two payers, instalments, full and batch payments (either order), amendments, all three refunds,
while the merchant withdraws from its account, re-routes payments to its own wallet and is
restricted. `InvoiceBooks`, `PayersOutOfPocket` and the action property `ClosedForGood`: a cancelled
or refunded invoice never changes again, one that is paid in full, partly refunded or expired takes
no more money, and what went back stays back. The clock goes from 0 to 2 and an invoice that expires
does so at 1, so an instalment, a batch and a claim meet on both sides of the expiry. The payers are
symmetric and no liveness is checked here, so symmetry is sound.

**`Invoice_Desk`** [741,984]. Three signed messages on two nonces and two keys, a fiat invoice under
an oracle that may answer 0, delisting, token lists, deactivation, pause. `SignedOnce`,
`PaidTermsFixed`, `PausedFrozen`.

**`Shade_Takings`** [769,156]. From a configured contract with two merchants, one deactivated since:
an invoice of 120,000 paid at once or in instalments of 40,000, a ticket at 40,000, five seats in
bulk, a subscription at 40,000. Any one of the analytics' sales crosses the first discount tier, any
two the second, and together they cross all three. The fee is set, proposed and executed, the
platform account moves, the admin hands over. `VolumesAgree` (one count of every payment, whatever
was sold), `TakingsAgree` (platform and accounts received what the analytics say, and the sales off
the books on top), `SplitNeverDearer`, `ChargedOncePerInterval`.

**`Shade_Sales`** [731,154]. Two events of two seats at a price of 2, early at half price or free
and late at double; single sales and bulk sales of one; resale at a royalty of one half; the
merchant moves the takings to the wallet it refunds from, or does not, so that a cancellation finds
it short, exactly covered or rich. Also the offers `create_event` refuses. `ShadeTypeOK`,
`NeverOversold`, `HoldersListed`, `HoldersRefunded`, `CancelledClosed`. The two buyers are
symmetric.

**`Shade_Rewards`** [909,017]. Two starts, each with room for one kind of reward. `CampaignsFirst`:
three backers with 3 each pledge to one campaign of two tiers, the upper with one place, which the
merchant replaces by a shorter list with the dear tier first, so that the same index changes meaning
under those who chose it. `NftsFirst`: two collections, limited to one or not, three NFTs minted
singly and by two, two collectors who pass them to and fro, burn and claim. `CountsAgree`,
`CapacityKept`, `PledgesHeld`, `SupplyKept`, `OwnersListed`, `OneRewardEach`. No symmetry here: of
the three backers only two collect.

**`Crowdfund_Campaign`** [834,711]. Two backers with 2 and 1, a sponsor with 1, goal 3, deadline 1,
contributions of 1 and 2 and pledges through a gateway that pay an invoice of 1. The goal is reached
only with the match or with everybody's contribution, so it is both met and missed; the clock passes
the deadline by one, so both sides of it occur. One milestone or two equal ones, replaced at any
time. `CampaignBooks`, `BackersListed`, `RefundsCovered`, `ReleasedByMajority`, the refinement
`KeepsPromise`, and the liveness property `FailedCampaignRefunds`. `RefundsCovered`,
`ReleasedByMajority` and `FailedCampaignRefunds` are stated for campaigns without a gateway, because
a gateway pledge is recorded twice (below); the other three hold with it.

**`Ticketing_BoxOffice`** [1,635,413]. Two events, each with one seat or without a limit, two tiers,
two tickets, two people, two hashes, money for one resale at half royalty. One seat makes every sold
event full, so queues form, and a refund hands the seat on; with two people the queue holds two, and
its second keeps waiting. Supplies of 1 on one seat make the second tier's promise too much. Two
events, so that a tier can be asked for under the wrong one and a hash reused across events.
`SeatsAgree`, `NoSeatIdle`, `TiersHonoured`, `HashesUnique`, `UsedForGood`. The hashes are
symmetric and no liveness is checked, so symmetry is sound.

Deadlock is not checked in the runs in which the system may stop: an invoice contract whose invoices
are all settled, a shop whose bounds are used up, and a campaign that nobody initialised before the
clock's bound.

**Disagreements between the code and its texts.** Two runs end in a counterexample:

- `Subscription_ElapsedRefund`: a failed charge applies the pending downgrade and leaves
  `last_charged`; with a longer interval the elapsed cycle becomes refundable again.
- `Crowdfund_DoublePledge`: `pledge` adds the amount to the backer's record after
  `apply_pledge_with_matching` has already added it. A failed campaign then records more pledges
  than it holds money; the batch refund fails for everybody.

Six more were met while modelling and have no run: a plan edit changes the refund of a cycle already
paid; a sweep entry with allowance but no balance aborts the whole batch; `cancel_subscription`
zeroes the allowance of the token that is preferred at that moment, and one authorised earlier for
another token stays; only the first merchant ever paid in a token is counted by `unique_merchants`;
the ticketing contract's `cancel_event` does not halt the sale of tiered tickets nor the waitlist's
assignments; and Shade's cancellation refunds tickets only, while seats sold in bulk have none.

**Modelled as coded, where no text says otherwise.** A refunded ticket can still be passed on, sold
and checked in, a refund does not give the tier its place back, and a waitlist assignment counts for
no tier (`Ticketing`). The caller of a bulk purchase names the token and the payee; a merchant
refunds a cancelled event from its wallet, not from the account that took the money
(`ShadeEvents`). A deactivated plan, a delisted token and a deactivated merchant do not stop the
charges of a subscription (`ShadeSubscription`). A backer keeps its selection when the tiers are
replaced and claims the perks of whatever has its index by then, and nothing pays the pledges out
(`BackerRewards`). The reward of an NFT belongs to the wallet it was minted for, whoever owns it
(`Nft`). `claim_refund` of an expired invoice asks for status `Paid` or `PartiallyPaid`: once its
merchant has refunded a part of it, the payer can no longer claim the rest (`Invoice`). A milestone
list may be replaced after a release, and what was released is remembered by index: a campaign that
released the whole by one milestone can release a share again by the second of a longer list, as far
as its balance goes (`Crowdfund`).

## Fairness

`Subscription!FairSpec`, which `Subscription_Billing` checks, has weak fairness on `Tick`, on
`ProcessCharge` and on `EnforceGrace` of every subscription. Time passes; the scheduler that the
contract's comments describe sweeps repeatedly; and `enforce_grace` may be called by anyone. Nobody
is obliged to pay, cancel or recover. `Crowdfund!FairSpec` has weak fairness on `Tick` and on
`BatchRefund`, which anyone may call; no backer is obliged to claim. Weak fairness is enough, since
both calls stay possible once they are, until they or something that makes them unnecessary is done.

## The proofs

All are for every value of the constants that satisfies the modules' ASSUMEs. Every invariant and
every action property that a run checks is proved; what is left to TLC is liveness.

**`SubscriptionProofs`**: `TypeCorrect`, `PastDueMarkedHolds`, `RateLimitHolds`,
`RefundCoveredHolds`, `GraceHonouredHolds`, `EndedStaysEndedHolds`. The inductive invariant `IInv`
is stated per plan (`PlanInv`) and per subscription (`SubInv`), so that a step is looked at for the
one subscription it changes. `ChargeRateLimited` needs its history tied to `last_charged`;
`RefundCovered` needs `NetInv`: an active, charged subscription has paid at least its plan's present
price, which is what makes upgrade credit and refund (floor divisions bounded in `RefundBound`) come
out of money that was paid in. The charge paths share `StepInv`, so one lemma covers strict charges,
sweeps and both entries of a batch. The two action properties rest on `Effect`: what one billing
step may do to a subscription is leave it, charge it or end it properly, and two such steps on the
same subscription, as in a batch, amount to one (`TwoEffects`), since a charge makes the second step
premature (`FreshNotDue`) and an end makes it void.

**`MerchantAccountProofs`**: `AccountTypeCorrect`, `WithdrawalsAccountedHolds`,
`LargeWithdrawalsApprovedHolds`, for any number of accounts that may pay one another. The books are
inductive together with the types, since they are sums only among naturals; `BooksFacts` reduces a
transfer to what each account gains. The approvals need `Filed`: a waiting request carries the
merchant's approval and at most the manager's besides, so two approvals are two parties.

**`TokenLedgerProofs`**: what a transfer does to a ledger, for the modules that need it. `Change` is
what one transfer adds to one holder in one token, so that two transfers, a fee and its rest, are a
sum of changes whichever of their ends coincide.

**`FoldTheorems`**: sums and loops. The community modules' sums are folds, of which nothing can be
said before the recursion is shown to have a solution, and the library's induction theorems take an
operator as their parameter. What is used in their place is first order: a set of subsets of a
finite set that is not empty has a least one (`LeastSet`), from well-foundedness of the strict
subset ordering. From it follow that a sum takes its elements in any order (`SumRemove`), what one
more, one changed or one dropped entry does to it (`SumAdd`, `SumChange`, `SumAtOne`), and that zeros
may be left out (`SumRestrict`); and, with numbers in place of sets, that the loop over a stored list
keeps what each of its rounds keeps (`Rounds`, `SiftedFacts`).

**`CrowdfundProofs`**: `CampaignTypeCorrect`, `CampaignBooksHold`, `BackersListedHold` and
`KeepsPromiseHolds`, the refinement. The invariant `CampaignInv` adds two facts: until
`init_campaign` nothing moves (`Untouched`), and a batch refund happens after the deadline
(`RefundsAfterEnd`), so that no later contribution can bring back a pledge that the batch cleared.
The refinement is then judged on totals alone: by the books, what the campaign holds is a function
of them, so a contribution is `Collect` because the totals grow, a release is `PayOut` because they
shrink by what was taken, and the only step that changes the outcome is the clock's.
`RefundsCoveredHolds` and `ReleasedByMajorityHolds` need sums of pledges, in a second invariant,
`VotingInv`: what was raised is the pledges on record and what was given back, which the batch keeps
because backers who are not listed have no pledge; a milestone's approval weight is covered by the
pledges of those who approved it until pledges are given back, since they vote once and only ever
add; and a release happens only after the deadline with the goal reached, when neither the total nor
a pledge moves any more. A vote's weight is therefore never more than what its backer has at stake,
although the code does not update it. (Assumes finitely many backers.)

**`TicketingProofs`**: `TicketingTypeCorrect`, `SeatsAgreeHolds`, `NoSeatIdleHolds`,
`HashesUniqueHolds`, `UsedForGoodHolds`, `TiersHonouredHolds`, for any number of events, people and
tickets. `TicketingInv` adds to the properties that a placeholder hash appears only once its ticket
was refunded (`PlaceholdersRefunded`), which makes the next placeholder new. It assumes that
organizers never choose a placeholder (`HashesAssumption`), which SHA-256 hashes justify and the
contract does not check. Steps that touch no seat share one lemma (`KeptStep`); a refund with a
queue takes one seat out and puts one in, so a full event stays full. The tiers are judged by what a
step may do to them (`TierMoves`): add one within its event's capacity, sell one ticket of one, or
leave them. The first moves the sum of the promised seats (`PromisesStep`), the second a tier's
count and the set of its tickets together (`HonouredStep`).

**`InvoiceProofs`**: `InvoiceBooksHolds`, `ClosedForGoodHolds`, `PaidTermsFixedHolds`,
`PausedFrozenHolds`, `SignedOnceHolds`, `InvoiceTypes` and `PayersOutOfPocketHolds`, for any number
of invoices, merchants, accounts and payers. `InvoiceInv` says that each invoice is `Sound` (its
type and its books) and that clock and prices are numbers; `Follows` says what one list of invoices
keeps of another: the terms of those paid into (`TermsKept`) and the way their money goes
(`OneWay`). `OneWay` is stronger than `ClosedForGood`, because two payments of a batch have to
compose (`FollowsTwice`): it also says that what is closed stays closed and that expiries do not
move.
`SignedOnce` needs that every redeemed message has spent its nonce (`SignedInv`). The types of
accounts and balances need every invoice's merchant to be registered, because a payment goes to an
account that the registration names (`InvoicesInv`). `PayersOutOfPocket` follows a sum over the
invoices of one payer and token through each payment and refund, and through both entries of a batch.
It assumes `PayersOnlyPay`: the wallets that pay are nobody's account, payout address or treasury.

**`ShadeProofs`**: for the Shade contract as one system.

- Components by themselves: `SupplyKeptHolds`, `OneRewardEachHolds`, `OwnersListedHolds`,
  `ChargedOncePerIntervalHolds`, `NeverOversoldHolds`, `HoldersListedHolds`, `CountsAgreeHolds`,
  `CapacityKeptHolds`. Each has an invariant over the variables of one component, and `StepOwners`
  says that the entry points of the others leave those alone; only the clock is shared
  (`ClockStep`). `CountsAgree` needs cardinalities of selections that change one at a time, which
  assumes finitely many backers (`BackerRewardsAssumption`). `NeverOversold` is inductive with the
  types alone. The two list properties need that no entry is in a list twice, so that the loop over
  it drops exactly the one that was passed on.
- The types of everything, `ShadeTypes`, in `ShadeInv`: the components' types with every merchant
  that an invoice, event, plan or campaign names registered. `SplitNeverDearerHolds` combines them
  with `SplitFeeNeverDearer`, the arithmetic of two floors of a falling rate.
- Where the money is. For each entry point one lemma says what it moves (a ticket, a bulk sale, a
  resale with its royalty, a refund, a charge, a pledge), over any coincidence of the parties.
  `HoldersRefundedHolds` follows the loop of a cancellation ticket by ticket. `CancelledClosedHolds`
  assumes `SellersOnlySell`, that a merchant's wallet buys nothing but tickets. `PledgesHeldHolds`
  is a sum over campaigns of sums over backers, and assumes `ShadeOnlyHolds`, that nobody pays Shade
  itself or has it as account.
- The analytics. `VolumesAgreeHolds`: each merchant's volume is the sum over invoices, tickets and
  charges, and each step moves one entry of one of the three sums and the row of one merchant alike.
  `TakingsAgreeHolds`: the same for what platform and accounts gained, in an invariant of two parts:
  a fee is never without a payee (`FeesSet`: whoever sets one is the admin, and with the first admin
  the platform has an account), and gains and takings are equal (`Settles`). It assumes
  `TakingsStay`: every merchant is routed to an account, the platform's accounts are no one's wallet,
  and nobody withdraws or is refunded into a merchant's account, so that what went out does not come
  back as a gain.
  Both assume finitely many addresses (`ShadeAssumption`).

The four hypotheses named above are what the properties mean by the money of one role; the MC
modules ASSUME them of their instances, so TLC evaluates them on the runs that check the same
properties. Besides each module's assumptions about what its calls may be made with, the proofs of
`Shade` and `Invoice` use that `None` is no number (`PlatformAssumption`), and those of `Crowdfund`
that it is no truth value (`HoldersAssumption`), which is what lets it stand for a missing date or
vote.

**Model-checked only.** `GraceResolves` and `FailedCampaignRefunds`: liveness under fairness and
ENABLED are outside what the provers handle. No module declares a RECURSIVE operator.

## Not modelled, and why

- Signatures and roles. A call is made by whoever must sign it; the roles of `access_control.rs`
  gate two calls, which are taken as authorised.
- Fields that no other operation reads: verified flags, webhooks, the wasm hash, the merchant
  summary, the account's token list, the transaction history; of `crowdfund`, stretch goals, reward
  tiers, comments and fulfilment marks. Events.
- Archival of storage, upgrades of code, the re-entrancy flag (set and cleared in one transaction),
  the payment payload (a check without state).
- `account_factory.rs` and `auto_withdrawal.rs`: no entry point reaches them.
- One fiat currency only; `FiatScale` stands for the decimals of price and token.
- A merchant is identified with its wallet.
- Names, descriptions, images and metadata of plans, events, tiers, perks and NFTs; the views.
- Escrow: three guarded assignments, each asserting the one before (an agreement, its amount
  deposited, released); no tokens move and no deadline passes, so nothing can interleave with them.
  The factories append what they deployed to lists that nothing else reads.

## What is left

1. The bookkeeping fields listed above (verified flags, transaction history, stretch goals, reward
   tiers of `crowdfund`): they would widen the model without a property about them.
2. An abstract seat allocation that both `Ticketing` and `ShadeEvents` implement.
