------------------------------ MODULE Platform ------------------------------
(***************************************************************************)
(* The administration of the Shade contract: the pause switch, the admin    *)
(* and its handover, accepted tokens, fees and their two-step update, price *)
(* oracles, and the payment analytics that set the volume discount          *)
(* (shade/src/components admin, pausable, core).                            *)
(*                                                                         *)
(* Every entry point is one atomic transaction; the admin's signature is    *)
(* what makes a step an admin step, so no step names its signer.            *)
(***************************************************************************)
EXTENDS TokenLedger

CONSTANTS
    Admins,          \* who may be the admin
    Successors,      \* the admins propose_admin_transfer may be called with
    Seller,          \* the wallets that register as merchants
    PauseChanges,    \* TRUE: the admin may pause; FALSE: it may unpause
    Delistable,      \* the tokens remove_accepted_token may be called with
    Priced,          \* the tokens set_token_oracle may be called with
    Fees,            \* the basis points set_fee and propose_fee may be called with
    PlatformAccounts,\* what set_platform_account may be called with
    Prices,          \* the prices an oracle may report
    FeeDelay,        \* FEE_UPDATE_DELAY, in clock units
    MaxTime          \* bound: the clock stops here

\* set_fee and propose_fee check no range: Fees is what the admin does call them with.
ASSUME PlatformAssumption ==
    /\ None \notin Nat \cup Admins \cup Seller \cup PlatformAccounts
    /\ Successors \subseteq Admins
    /\ PauseChanges \subseteq BOOLEAN
    /\ Delistable \cup Priced \subseteq Tokens
    /\ Fees \subseteq Nat
    /\ Prices \subseteq Nat
    /\ FeeDelay \in Nat
    /\ MaxTime \in Nat

VARIABLES
    now,          \* the ledger timestamp
    paused,       \* DataKey::Paused
    admin,        \* DataKey::Admin
    pendingAdmin, \* DataKey::PendingAdmin
    accepted,     \* DataKey::AcceptedTokens
    fee,          \* DataKey::TokenFee, 0 when unset
    pendingFee,   \* DataKey::PendingTokenFee
    platform,     \* DataKey::PlatformAccount
    oracle,       \* the tokens with a DataKey::TokenOracle
    price,        \* external: what the oracle of each token reports
    stats         \* DataKey::MerchantAnalytics and TokenAnalytics

configVars == <<now, paused, admin, pendingAdmin, accepted, fee, pendingFee,
                platform, oracle, price>>

platformVars == <<configVars, stats>>

Analysis == [total_volume : Nat, total_fees : Int, transaction_count : Nat]

TokenAnalysis == [total_volume : Nat, total_fees : Int, transaction_count : Nat,
                  unique_merchants : Nat]

PendingFee == [fee : Nat, proposed_at : Nat]

PlatformTypeOK ==
    /\ now \in Nat
    /\ paused \in BOOLEAN
    /\ {admin, pendingAdmin} \subseteq Admins \cup {None}
    /\ accepted \subseteq Tokens
    /\ fee \in [Tokens -> Nat]
    /\ pendingFee \in [Tokens -> PendingFee \cup {None}]
    /\ platform \in Admins \cup PlatformAccounts \cup {None}
    /\ oracle \subseteq Tokens
    /\ price \in [Tokens -> Nat]
    /\ stats \in [merchant : [Seller -> [Tokens -> Analysis]],
                  token    : [Tokens -> TokenAnalysis]]

-----------------------------------------------------------------------------
(* Fees. *)

Discount_Swapped(volume) ==  \* fault: the two upper tiers are exchanged
    CASE volume >= 200000                     -> 25
      [] volume >= 50000 /\ volume < 200000   -> 50
      [] volume >= 10000 /\ volume < 50000    -> 10
      [] OTHER                                -> 0

\* The discount in percent that a merchant's volume in a token has earned.
Discount(volume) ==
    CASE volume >= 200000                     -> 50
      [] volume >= 50000 /\ volume < 200000   -> 25
      [] volume >= 10000 /\ volume < 50000    -> 10
      [] OTHER                                -> 0

DiscountedBps(bps, volume) == (bps * (100 - Discount(volume))) \div 100

FeeAt(bps, volume, amount) == (amount * DiscountedBps(bps, volume)) \div 10000

\* The fee on a payment of amount to merchant m, with the analytics st.
CalculateFee(st, m, t, amount) ==
    FeeAt(fee[t], st.merchant[m][t].total_volume, amount)

(* Analytics. *)

Counted(row, amount, charged) ==
    [row EXCEPT !.total_volume = @ + amount,
                !.total_fees = @ + charged,
                !.transaction_count = @ + 1]

\* A token's first payment counts a merchant.
RecordTokenPayment(row, amount, charged) ==
    LET counted == Counted(row, amount, charged)
    IN  IF row.total_volume = 0
        THEN [counted EXCEPT !.unique_merchants = @ + 1]
        ELSE counted

RecordMerchantPayment_NetVolume(st, m, t, amount, charged) ==  \* fault: the token's
    [st EXCEPT !.merchant[m][t] = Counted(@, amount, charged),  \* row omits the fee
               !.token[t] = RecordTokenPayment(@, amount - charged, charged)]

RecordMerchantPayment(st, m, t, amount, charged) ==
    [st EXCEPT !.merchant[m][t] = Counted(@, amount, charged),
               !.token[t] = RecordTokenPayment(@, amount, charged)]

-----------------------------------------------------------------------------
NoAnalysis == [total_volume |-> 0, total_fees |-> 0, transaction_count |-> 0]

NoTokenAnalysis == [total_volume |-> 0, total_fees |-> 0, transaction_count |-> 0,
                    unique_merchants |-> 0]

PlatformInit ==
    /\ now = 0
    /\ paused = FALSE
    /\ admin = None
    /\ pendingAdmin = None
    /\ accepted = {}
    /\ fee = [t \in Tokens |-> 0]
    /\ pendingFee = [t \in Tokens |-> None]
    /\ platform = None
    /\ oracle = {}
    /\ price \in [Tokens -> Prices \cup {0}]
    /\ stats = [merchant |-> [m \in Seller |-> [t \in Tokens |-> NoAnalysis]],
                token    |-> [t \in Tokens |-> NoTokenAnalysis]]

InitializePlatform(a) ==
    /\ admin = None
    /\ admin' = a
    /\ platform' = a
    /\ UNCHANGED <<now, paused, pendingAdmin, accepted, fee, pendingFee,
                   oracle, price, stats>>

\* pause and unpause; each asserts the other state.
SetPaused(status) ==
    /\ admin # None
    /\ paused # status
    /\ paused' = status
    /\ UNCHANGED <<now, admin, pendingAdmin, accepted, fee, pendingFee,
                   platform, oracle, price, stats>>

(* The admin's configuration, refused while the contract is paused. *)

Configurable == admin # None /\ ~paused

AddAcceptedToken(t) ==
    /\ Configurable
    /\ accepted' = accepted \cup {t}
    /\ UNCHANGED <<now, paused, admin, pendingAdmin, fee, pendingFee,
                   platform, oracle, price, stats>>

RemoveAcceptedToken(t) ==
    /\ Configurable
    /\ accepted' = accepted \ {t}
    /\ UNCHANGED <<now, paused, admin, pendingAdmin, fee, pendingFee,
                   platform, oracle, price, stats>>

SetFee(t, bps) ==
    /\ Configurable
    /\ t \in accepted
    /\ fee' = [fee EXCEPT ![t] = bps]
    /\ UNCHANGED <<now, paused, admin, pendingAdmin, accepted, pendingFee,
                   platform, oracle, price, stats>>

ProposeFee(t, bps) ==
    /\ Configurable
    /\ t \in accepted
    /\ pendingFee' = [pendingFee EXCEPT ![t] = [fee |-> bps, proposed_at |-> now]]
    /\ UNCHANGED <<now, paused, admin, pendingAdmin, accepted, fee,
                   platform, oracle, price, stats>>

\* Whether t is still accepted is not asked again.
ExecuteFee(t) ==
    /\ Configurable
    /\ pendingFee[t] # None
    /\ now - pendingFee[t].proposed_at >= FeeDelay
    /\ fee' = [fee EXCEPT ![t] = pendingFee[t].fee]
    /\ pendingFee' = [pendingFee EXCEPT ![t] = None]
    /\ UNCHANGED <<now, paused, admin, pendingAdmin, accepted,
                   platform, oracle, price, stats>>

SetPlatformAccount(p) ==
    /\ Configurable
    /\ platform' = p
    /\ UNCHANGED <<now, paused, admin, pendingAdmin, accepted, fee,
                   pendingFee, oracle, price, stats>>

SetTokenOracle(t) ==
    /\ Configurable
    /\ t \in accepted
    /\ oracle' = oracle \cup {t}
    /\ UNCHANGED <<now, paused, admin, pendingAdmin, accepted, fee,
                   pendingFee, platform, price, stats>>

(* The handover, which works while the contract is paused. *)

ProposeAdminTransfer(a) ==
    /\ admin # None
    /\ pendingAdmin' = a
    /\ UNCHANGED <<now, paused, admin, accepted, fee, pendingFee,
                   platform, oracle, price, stats>>

\* Fees keep going to the account the old admin chose, or was.
AcceptAdminTransfer(a) ==
    /\ pendingAdmin = a
    /\ admin' = a
    /\ pendingAdmin' = None
    /\ UNCHANGED <<now, paused, accepted, fee, pendingFee,
                   platform, oracle, price, stats>>

\* External: an oracle reports another price.
OraclePriceMoves(t, p) ==
    /\ t \in oracle
    /\ price' = [price EXCEPT ![t] = p]
    /\ UNCHANGED <<now, paused, admin, pendingAdmin, accepted, fee,
                   pendingFee, platform, oracle, stats>>

Tick ==
    /\ now < MaxTime
    /\ now' = now + 1
    /\ UNCHANGED <<paused, admin, pendingAdmin, accepted, fee,
                   pendingFee, platform, oracle, price, stats>>

PlatformNext ==
    \/ \E a \in Admins :
        \/ InitializePlatform(a)
        \/ AcceptAdminTransfer(a)
    \/ \E a \in Successors : ProposeAdminTransfer(a)
    \/ \E status \in PauseChanges : SetPaused(status)
    \/ \E t \in Delistable : RemoveAcceptedToken(t)
    \/ \E t \in Tokens :
        \/ AddAcceptedToken(t)
        \/ \E bps \in Fees : SetFee(t, bps) \/ ProposeFee(t, bps)
        \/ ExecuteFee(t)
        \/ \E p \in Prices : OraclePriceMoves(t, p)
    \/ \E t \in Priced : SetTokenOracle(t)
    \/ \E p \in PlatformAccounts : SetPlatformAccount(p)
    \/ Tick
=============================================================================
