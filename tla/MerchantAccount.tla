--------------------------- MODULE MerchantAccount ---------------------------
(***************************************************************************)
(* The merchant account contract (contracts/account): it holds a merchant's *)
(* takings, pays refunds when its manager asks, and lets the merchant       *)
(* withdraw -- above a threshold only with the manager's approval.          *)
(*                                                                         *)
(* Several deployed accounts share one token ledger.  Each entry point is   *)
(* one atomic transaction.                                                 *)
(***************************************************************************)
EXTENDS TokenLedger, Sequences, FiniteSets

CONSTANTS
    Holder,       \* everything that holds tokens: wallets and account contracts
    Account,      \* the deployed account contracts
    Party,        \* who initialize may name as merchant or as manager
    Thresholds,   \* what set_withdrawal_threshold may be called with
    Withdrawals,  \* the amounts withdraw_to may be called with
    Refunds,      \* the amounts refund may be called with
    Payees,       \* where withdrawals and refunds may be sent
    Depositors,   \* the third parties that transfer tokens to an account
    Deposits,     \* what they may transfer
    Funds,        \* the balances at deployment
    MaxRequests   \* bound: withdrawal requests per account

ASSUME AccountAssumption ==
    /\ Account \cup Party \cup Payees \subseteq Holder
    /\ Depositors \subseteq Holder \ Account
    /\ None \notin Holder
    /\ Thresholds \subseteq Int
    /\ Withdrawals \cup Refunds \cup Deposits \subseteq Nat
    /\ Funds \in [Holder -> [Tokens -> Nat]]
    /\ \A a \in Account, t \in Tokens : Funds[a][t] = 0
    /\ MaxRequests \in Nat

VARIABLES
    bank,     \* token contracts: the balance of each holder
    account,  \* the storage of each account contract
    flow      \* history variable: what each account has received and refunded

accountVars == <<bank, account, flow>>

Request == [token : Tokens, amount : Nat, recipient : Holder,
            approvals : SUBSET (Holder \cup {None}), status : {"Pending", "Executed"}]

AccountRecord == [merchant : Holder \cup {None}, manager : Holder \cup {None},
                  restricted : BOOLEAN, threshold : Int, requests : Seq(Request),
                  withdrawn : [Tokens -> Nat]]

Flow == [received : [Tokens -> Nat], refunded : [Tokens -> Nat]]

AccountTypeOK ==
    /\ bank \in [Holder -> [Tokens -> Nat]]
    /\ account \in [Account -> AccountRecord]
    /\ flow \in [Account -> Flow]

-----------------------------------------------------------------------------
Unopened == [merchant |-> None, manager |-> None, restricted |-> FALSE,
             threshold |-> 0, requests |-> << >>, withdrawn |-> [t \in Tokens |-> 0]]

NoFlow == [received |-> [t \in Tokens |-> 0], refunded |-> [t \in Tokens |-> 0]]

AccountInit ==
    /\ bank = Funds
    /\ account = [a \in Account |-> Unopened]
    /\ flow = [a \in Account |-> NoFlow]

Opened(a) == account[a].merchant # None

\* What the history records of a transfer of amt in t to y, and of a refund by a.
Received(f, y, t, amt) ==
    IF y \in Account THEN [f EXCEPT ![y].received[t] = @ + amt] ELSE f

Refunded(f, a, t, amt) == [f EXCEPT ![a].refunded[t] = @ + amt]

\* WithdrawalAnalytics counts every executed withdrawal, direct or approved.
Analytics_Direct(rec, t, amt) ==  \* fault: an approved withdrawal is not counted
    IF rec.threshold > 0 /\ amt > rec.threshold
    THEN rec ELSE [rec EXCEPT !.withdrawn[t] = @ + amt]

Analytics(rec, t, amt) == [rec EXCEPT !.withdrawn[t] = @ + amt]

\* execute_withdrawal_internal, from an account whose record is already rec.
ExecuteWithdrawal(a, rec, t, amt, to) ==
    /\ CanPay(bank, a, t, amt)
    /\ bank' = Moved(bank, a, to, t, amt)
    /\ account' = [account EXCEPT ![a] = Analytics(rec, t, amt)]
    /\ flow' = Received(flow, to, t, amt)

-----------------------------------------------------------------------------
Initialize(a, m, g) ==
    /\ ~Opened(a)
    /\ account' = [account EXCEPT ![a].merchant = m, ![a].manager = g]
    /\ UNCHANGED <<bank, flow>>

\* Called by the manager.
Refund(a, t, amt, to) ==
    /\ Opened(a)
    /\ ~account[a].restricted
    /\ CanPay(bank, a, t, amt)
    /\ bank' = Moved(bank, a, to, t, amt)
    /\ flow' = Refunded(Received(flow, to, t, amt), a, t, amt)
    /\ UNCHANGED account

NeedsApproval(a, amt) ==
    /\ account[a].threshold > 0
    /\ amt > account[a].threshold

FileRequest(a, t, amt, to) ==
    /\ Len(account[a].requests) < MaxRequests
    /\ account' = [account EXCEPT ![a].requests = Append(@,
            [token |-> t, amount |-> amt, recipient |-> to,
             approvals |-> {account[a].merchant}, status |-> "Pending"])]
    /\ UNCHANGED <<bank, flow>>

\* Called by the merchant.
WithdrawTo(a, t, amt, to) ==
    /\ Opened(a)
    /\ ~account[a].restricted
    /\ IF NeedsApproval(a, amt)
       THEN FileRequest(a, t, amt, to)
       ELSE ExecuteWithdrawal(a, account[a], t, amt, to)

\* The manager's settings.
SetWithdrawalThreshold(a, x) ==
    /\ Opened(a)
    /\ account' = [account EXCEPT ![a].threshold = x]
    /\ UNCHANGED <<bank, flow>>

RestrictAccount(a, status) ==
    /\ Opened(a)
    /\ account' = [account EXCEPT ![a].restricted = status]
    /\ UNCHANGED <<bank, flow>>

Approvable_Any(q) == q.status \in {"Pending", "Executed"}  \* fault: no status check

Approvable(q) == q.status = "Pending"

\* Called by the manager, whether or not the account is restricted.  A manager
\* that is also the merchant has already approved, and the request stays pending.
ApproveWithdrawal(a, r) ==
    LET q        == account[a].requests[r]
        approved == [q EXCEPT !.approvals = @ \cup {account[a].manager}]
        executed == [approved EXCEPT !.status = "Executed"]
    IN  /\ Approvable(q)
        /\ IF Cardinality(approved.approvals) >= 2
           THEN ExecuteWithdrawal(a, [account[a] EXCEPT !.requests[r] = executed],
                                  q.token, q.amount, q.recipient)
           ELSE /\ account' = [account EXCEPT ![a].requests[r] = approved]
                /\ UNCHANGED <<bank, flow>>

\* External: a third party transfers tokens to an account.
Deposit(from, a, t, amt) ==
    /\ CanPay(bank, from, t, amt)
    /\ bank' = Moved(bank, from, a, t, amt)
    /\ flow' = Received(flow, a, t, amt)
    /\ UNCHANGED account

-----------------------------------------------------------------------------
AccountNext ==
    \E a \in Account :
        \/ \E m \in Party, g \in Party : Initialize(a, m, g)
        \/ \E t \in Tokens, to \in Payees :
            \/ \E amt \in Refunds : Refund(a, t, amt, to)
            \/ \E amt \in Withdrawals : WithdrawTo(a, t, amt, to)
        \/ \E x \in Thresholds : SetWithdrawalThreshold(a, x)
        \/ \E status \in BOOLEAN : RestrictAccount(a, status)
        \/ \E r \in DOMAIN account[a].requests : ApproveWithdrawal(a, r)
        \/ \E from \in Depositors, t \in Tokens, amt \in Deposits :
            Deposit(from, a, t, amt)

AccountSpec == AccountInit /\ [][AccountNext]_accountVars

-----------------------------------------------------------------------------
\* The withdrawal analytics account for every token that left an account and was
\* not a refund, whichever path (direct, approved, to another account) it took.
WithdrawalsAccounted ==
    \A a \in Account, t \in Tokens :
        bank[a][t] + account[a].withdrawn[t] + flow[a].refunded[t]
            = flow[a].received[t]

\* While a threshold is set, a withdrawal above it leaves the account only in the
\* step in which a pending request for exactly that amount becomes executed with
\* the approval of two different parties, the merchant and the manager; so no
\* request above the threshold is paid twice.
LargeWithdrawalsApproved ==
    [][\A a \in Account, t \in Tokens :
            LET out == account'[a].withdrawn[t] - account[a].withdrawn[t]
            IN  account[a].threshold > 0 /\ out > account[a].threshold =>
                    /\ account[a].merchant # account[a].manager
                    /\ \E r \in DOMAIN account[a].requests :
                        /\ account[a].requests[r].status = "Pending"
                        /\ account'[a].requests[r].status = "Executed"
                        /\ account'[a].requests[r].approvals =
                                {account[a].merchant, account[a].manager}
                        /\ account[a].requests[r].token = t
                        /\ account[a].requests[r].amount = out]_accountVars

=============================================================================
