------------------------------ MODULE Merchants ------------------------------
(***************************************************************************)
(* The merchants registered with the Shade contract and the account         *)
(* contracts their takings go to (shade/src/components/merchant.rs, with    *)
(* Platform for the administration and MerchantAccount for the accounts).   *)
(*                                                                         *)
(* A merchant's id is issued once per wallet and its address never changes, *)
(* so a merchant is identified with its wallet.                             *)
(***************************************************************************)
EXTENDS Platform, MerchantAccount, FiniteSetsExt

CONSTANTS
    Shade,        \* the Shade contract, manager of the merchants' accounts
    Statuses,     \* what set_merchant_status may be called with
    Keys,         \* the public keys set_merchant_key may be called with
    Routes,       \* where set_merchant_account may direct payments: any address
    TokenLists,   \* the token lists set_merchant_accepted_tokens may be called with
    Restrictions  \* what restrict_merchant_account may be called with

ASSUME MerchantsAssumption ==
    /\ Seller \cup Admins \cup PlatformAccounts \cup Routes \cup {Shade} \subseteq Holder
    /\ Statuses \cup Restrictions \subseteq BOOLEAN
    /\ TokenLists \subseteq SUBSET Tokens
    /\ None \notin Keys

VARIABLE merchants  \* DataKey::Merchant, MerchantAccount, MerchantTokens, MerchantKey

merchantVars == <<merchants, accountVars>>

Merchant == [active : BOOLEAN, account : Holder \cup {None},
             tokens : SUBSET Tokens, key : Keys \cup {None}]

MerchantsTypeOK ==
    /\ PlatformTypeOK
    /\ AccountTypeOK
    /\ merchants \in [Seller -> Merchant \cup {None}]

MerchantsInit ==
    /\ PlatformInit
    /\ AccountInit
    /\ merchants = [m \in Seller |-> None]

-----------------------------------------------------------------------------
IsMerchant(m) == merchants[m] # None

\* A merchant that lists no token accepts every globally accepted one; a listed
\* token stays listed when the admin delists it.
AcceptsToken(m, t) ==
    IF merchants[m].tokens = {} THEN t \in accepted ELSE t \in merchants[m].tokens

RegisterMerchant(m) ==
    /\ ~paused
    /\ ~IsMerchant(m)
    /\ merchants' = [merchants EXCEPT ![m] =
            [active |-> TRUE, account |-> None, tokens |-> {}, key |-> None]]
    /\ UNCHANGED <<platformVars, accountVars>>

\* Called by the admin.
SetMerchantStatus(m, status) ==
    /\ IsMerchant(m)
    /\ merchants' = [merchants EXCEPT ![m].active = status]
    /\ UNCHANGED <<platformVars, accountVars>>

SetMerchantKey(m, k) ==
    /\ IsMerchant(m)
    /\ merchants' = [merchants EXCEPT ![m].key = k]
    /\ UNCHANGED <<platformVars, accountVars>>

\* Nothing ties the address to a contract, or to this merchant.
SetMerchantAccount(m, a) ==
    /\ IsMerchant(m)
    /\ merchants' = [merchants EXCEPT ![m].account = a]
    /\ UNCHANGED <<platformVars, accountVars>>

SetMerchantAcceptedTokens(m, ts) ==
    /\ ~paused
    /\ IsMerchant(m)
    /\ merchants[m].active
    /\ ts \subseteq accepted
    /\ merchants' = [merchants EXCEPT ![m].tokens = ts]
    /\ UNCHANGED <<platformVars, accountVars>>

RemoveMerchantAcceptedToken(m, t) ==
    /\ ~paused
    /\ IsMerchant(m)
    /\ merchants[m].active
    /\ t \in merchants[m].tokens
    /\ merchants' = [merchants EXCEPT ![m].tokens = @ \ {t}]
    /\ UNCHANGED <<platformVars, accountVars>>

\* Called by the admin or a manager.  Without an account on record the call goes
\* to the merchant's own address, which is no contract, and traps.
RestrictMerchantAccount(m, status) ==
    /\ IsMerchant(m)
    /\ merchants[m].account \in Account
    /\ account[merchants[m].account].manager = Shade
    /\ RestrictAccount(merchants[m].account, status)
    /\ UNCHANGED <<platformVars, merchants>>

TakePayment_Gross(p, m, t, amt, charged) ==  \* fault: the fee comes on top
    LET till    == merchants[m].account
        gross   == Moved(bank, p, till, t, amt)
    IN  /\ till # None
        /\ CanPay(bank, p, t, amt + charged)
        /\ bank' = Moved(gross, p, platform, t, charged)
        /\ flow' = Received(Received(flow, till, t, amt), platform, t, charged)
        /\ stats' = RecordMerchantPayment(stats, m, t, amt, charged)

\* The payment of amt by p for something merchant m sells, of which charged is the
\* fee: the two transfers and the analytics of a ticket sale or a subscription charge.
\* A fee of 0 makes no second transfer, which is a transfer of 0 here.
TakePayment(p, m, t, amt, charged) ==
    LET till    == merchants[m].account
        net     == Moved(bank, p, till, t, amt - charged)
        paidNet == Received(flow, till, t, amt - charged)
    IN  /\ till # None
        /\ CanPay(bank, p, t, amt - charged)
        /\ CanPay(net, p, t, charged)
        /\ bank' = Moved(net, p, platform, t, charged)
        /\ flow' = Received(paidNet, platform, t, charged)
        /\ stats' = RecordMerchantPayment(stats, m, t, amt, charged)

-----------------------------------------------------------------------------
\* Shade has no entry point for the manager's other calls, set_withdrawal_threshold
\* and approve_withdrawal, so its accounts keep the threshold 0.
AccountStep ==
    /\ \E a \in Account :
        \/ \E m \in Party : Initialize(a, m, Shade)
        \/ \E t \in Tokens, to \in Payees, amt \in Withdrawals : WithdrawTo(a, t, amt, to)
    /\ UNCHANGED <<platformVars, merchants>>

MerchantsNext ==
    \/ PlatformNext /\ UNCHANGED merchantVars
    \/ AccountStep
    \/ \E m \in Seller :
        \/ RegisterMerchant(m)
        \/ \E status \in Statuses : SetMerchantStatus(m, status)
        \/ \E k \in Keys : SetMerchantKey(m, k)
        \/ \E a \in Routes : SetMerchantAccount(m, a)
        \/ \E ts \in TokenLists : SetMerchantAcceptedTokens(m, ts)
        \/ \E t \in Tokens : RemoveMerchantAcceptedToken(m, t)
        \/ \E status \in Restrictions : RestrictMerchantAccount(m, status)
=============================================================================
