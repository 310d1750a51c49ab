------------------------ MODULE MerchantAccountProofs ------------------------
(* Type correctness of the account contracts and the accounting of withdrawals. *)
EXTENDS MerchantAccount, FiniteSetTheorems, TLAPS

Ledger == [Holder -> [Tokens -> Nat]]

\* The inductive invariant: the books balance only among natural amounts.
AccountInv == AccountTypeOK /\ WithdrawalsAccounted

\* What holder h gains in token u by a transfer of amt in t from x to y.
Gain(h, u, x, y, t, amt) ==
    (IF h = y /\ u = t THEN amt ELSE 0) - (IF h = x /\ u = t THEN amt ELSE 0)

\* A transfer that the token accepts yields a ledger again ...
LEMMA MovedType ==
  ASSUME NEW b \in Ledger, NEW x \in Holder, NEW y \in Holder, NEW t \in Tokens,
         NEW amt \in Nat, CanPay(b, x, t, amt)
  PROVE  Moved(b, x, y, t, amt) \in Ledger
<1> DEFINE d == [b EXCEPT ![x][t] = @ - amt]
<1>1. b[x] \in [Tokens -> Nat] /\ b[x][t] - amt \in Nat
  BY DEF Ledger, CanPay
<1>2. d \in Ledger
  BY <1>1 DEF Ledger
<1>3. d[y] \in [Tokens -> Nat] /\ d[y][t] + amt \in Nat
  BY <1>2 DEF Ledger
<1>4. [d EXCEPT ![y][t] = @ + amt] \in Ledger
  BY <1>2, <1>3 DEF Ledger
<1> QED BY <1>4 DEF Moved

\* ... and changes the balances of its two ends only.
LEMMA MovedValue ==
  ASSUME NEW b \in Ledger, NEW x \in Holder, NEW y \in Holder, NEW t \in Tokens,
         NEW amt \in Nat, CanPay(b, x, t, amt), NEW h \in Holder, NEW u \in Tokens
  PROVE  Moved(b, x, y, t, amt)[h][u] = b[h][u] + Gain(h, u, x, y, t, amt)
<1> DEFINE d == [b EXCEPT ![x][t] = @ - amt]
<1>1. b[x] \in [Tokens -> Nat] /\ b[x][t] - amt \in Nat
  BY DEF Ledger, CanPay
<1>2. d \in Ledger
  BY <1>1 DEF Ledger
<1>3. d[h][u] = b[h][u] - (IF h = x /\ u = t THEN amt ELSE 0)
  BY DEF Ledger
<1>4. [d EXCEPT ![y][t] = @ + amt][h][u] = d[h][u] + (IF h = y /\ u = t THEN amt ELSE 0)
  BY <1>2 DEF Ledger
<1>5. b[h][u] \in Nat /\ d[h][u] \in Nat
  BY <1>2 DEF Ledger
<1>6. Moved(b, x, y, t, amt)[h][u] =
        (b[h][u] - (IF h = x /\ u = t THEN amt ELSE 0))
            + (IF h = y /\ u = t THEN amt ELSE 0)
  BY <1>3, <1>4 DEF Moved
<1> QED BY <1>5, <1>6 DEF Gain

\* A receipt is added to what its account received, and to nothing else.
LEMMA ReceivedFacts ==
  ASSUME NEW f \in [Account -> Flow], NEW y \in Holder, NEW t \in Tokens, NEW amt \in Nat
  PROVE  /\ Received(f, y, t, amt) \in [Account -> Flow]
         /\ \A a \in Account, u \in Tokens :
              /\ Received(f, y, t, amt)[a].received[u] =
                    f[a].received[u] + (IF a = y /\ u = t THEN amt ELSE 0)
              /\ Received(f, y, t, amt)[a].refunded[u] = f[a].refunded[u]
<1>1. CASE y \in Account
  BY <1>1 DEF Received, Flow
<1>2. CASE y \notin Account
  BY <1>2 DEF Received, Flow
<1> QED BY <1>1, <1>2

\* A refund is added to what its account refunded, and to nothing else.
LEMMA RefundedFacts ==
  ASSUME NEW f \in [Account -> Flow], NEW x \in Account, NEW t \in Tokens, NEW amt \in Nat
  PROVE  /\ Refunded(f, x, t, amt) \in [Account -> Flow]
         /\ \A a \in Account, u \in Tokens :
              /\ Refunded(f, x, t, amt)[a].refunded[u] =
                    f[a].refunded[u] + (IF a = x /\ u = t THEN amt ELSE 0)
              /\ Refunded(f, x, t, amt)[a].received[u] = f[a].received[u]
  BY DEF Refunded, Flow

\* Counting a withdrawal adds it to what the record says was withdrawn.
LEMMA AnalyticsFacts ==
  ASSUME NEW rec \in AccountRecord, NEW t \in Tokens, NEW amt \in Nat
  PROVE  /\ Analytics(rec, t, amt) \in AccountRecord
         /\ \A u \in Tokens : Analytics(rec, t, amt).withdrawn[u] =
                rec.withdrawn[u] + (IF u = t THEN amt ELSE 0)
<1> DEFINE w == [rec.withdrawn EXCEPT ![t] = @ + amt]
<1>1. rec.withdrawn \in [Tokens -> Nat]
  BY DEF AccountRecord
<1>2. Analytics(rec, t, amt) = [rec EXCEPT !.withdrawn = w]
  BY DEF Analytics, AccountRecord
<1>3. w \in [Tokens -> Nat]
  BY <1>1
<1>4. Analytics(rec, t, amt) \in AccountRecord /\ Analytics(rec, t, amt).withdrawn = w
  BY <1>2, <1>3 DEF AccountRecord
<1>5. \A u \in Tokens : w[u] = rec.withdrawn[u] + (IF u = t THEN amt ELSE 0)
  BY <1>1
<1> QED BY <1>4, <1>5

\* The books of account x in token u, and the amounts they add up.
Books(x, u) ==
    /\ bank[x][u] \in Nat
    /\ account[x].withdrawn[u] \in Nat
    /\ flow[x].refunded[u] \in Nat
    /\ flow[x].received[u] \in Nat
    /\ bank[x][u] + account[x].withdrawn[u] + flow[x].refunded[u] = flow[x].received[u]

\* They do balance while the invariant holds.
LEMMA BooksFacts ==
  ASSUME AccountInv, NEW x \in Account, NEW u \in Tokens
  PROVE  Books(x, u)
<1>1. bank[x][u] \in Nat
  <2>1. x \in Holder
    BY AccountAssumption
  <2> QED BY <2>1 DEF AccountInv, AccountTypeOK
<1>2. account[x].withdrawn[u] \in Nat
  BY DEF AccountInv, AccountTypeOK, AccountRecord
<1>3. flow[x].refunded[u] \in Nat /\ flow[x].received[u] \in Nat
  BY DEF AccountInv, AccountTypeOK, Flow
<1> QED BY <1>1, <1>2, <1>3 DEF AccountInv, WithdrawalsAccounted, Books

\* Every withdrawal, direct or approved, is execute_withdrawal_internal.
LEMMA ExecuteInv ==
  ASSUME AccountInv, NEW a \in Account, NEW rec \in AccountRecord, NEW t \in Tokens,
         NEW amt \in Nat, NEW to \in Holder, rec.withdrawn = account[a].withdrawn,
         ExecuteWithdrawal(a, rec, t, amt, to)
  PROVE  AccountInv'
<1> DEFINE new == Analytics(rec, t, amt)
<1>1. /\ bank \in Ledger /\ account \in [Account -> AccountRecord]
      /\ flow \in [Account -> Flow] /\ a \in Holder
  BY AccountAssumption DEF AccountInv, AccountTypeOK, Ledger
<1>2. /\ CanPay(bank, a, t, amt) /\ bank' = Moved(bank, a, to, t, amt)
      /\ account' = [account EXCEPT ![a] = new] /\ flow' = Received(flow, to, t, amt)
  BY DEF ExecuteWithdrawal
<1>3. AccountTypeOK'
  <2>1. bank' \in Ledger
    BY <1>1, <1>2, MovedType
  <2>2. account' \in [Account -> AccountRecord]
    BY <1>1, <1>2, AnalyticsFacts
  <2>3. flow' \in [Account -> Flow]
    BY <1>1, <1>2, ReceivedFacts
  <2> QED BY <2>1, <2>2, <2>3 DEF AccountTypeOK, Ledger
<1>4. ASSUME NEW x \in Account, NEW u \in Tokens
      PROVE  bank'[x][u] + account'[x].withdrawn[u] + flow'[x].refunded[u]
                = flow'[x].received[u]
  <2>1. bank'[x][u] = bank[x][u] + Gain(x, u, a, to, t, amt)
    BY <1>1, <1>2, MovedValue, AccountAssumption
  <2>2. account'[x].withdrawn[u] =
            account[x].withdrawn[u] + (IF x = a /\ u = t THEN amt ELSE 0)
    <3>1. CASE x = a
      BY <1>1, <1>2, <3>1, AnalyticsFacts
    <3>2. CASE x # a
      BY <1>1, <1>2, <3>2 DEF AccountRecord
    <3> QED BY <3>1, <3>2
  <2>3. /\ flow'[x].received[u] =
            flow[x].received[u] + (IF x = to /\ u = t THEN amt ELSE 0)
        /\ flow'[x].refunded[u] = flow[x].refunded[u]
    BY <1>1, <1>2, ReceivedFacts
  <2>4. Books(x, u)
    BY BooksFacts
  <2> QED BY <2>1, <2>2, <2>3, <2>4 DEF Gain, Books
<1> QED BY <1>3, <1>4 DEF AccountInv, WithdrawalsAccounted

\* A refund is booked as refunded.
LEMMA RefundInv ==
  ASSUME AccountInv, NEW a \in Account, NEW t \in Tokens, NEW amt \in Nat,
         NEW to \in Holder, Refund(a, t, amt, to)
  PROVE  AccountInv'
<1> DEFINE credited == Received(flow, to, t, amt)
<1>1. /\ bank \in Ledger /\ account \in [Account -> AccountRecord]
      /\ flow \in [Account -> Flow] /\ a \in Holder
  BY AccountAssumption DEF AccountInv, AccountTypeOK, Ledger
<1>2. /\ CanPay(bank, a, t, amt) /\ bank' = Moved(bank, a, to, t, amt)
      /\ account' = account /\ flow' = Refunded(credited, a, t, amt)
  BY DEF Refund
<1>3. credited \in [Account -> Flow] /\ flow' \in [Account -> Flow]
  BY <1>1, <1>2, ReceivedFacts, RefundedFacts
<1>4. AccountTypeOK'
  BY <1>1, <1>2, <1>3, MovedType DEF AccountTypeOK, Ledger
<1>5. ASSUME NEW x \in Account, NEW u \in Tokens
      PROVE  bank'[x][u] + account'[x].withdrawn[u] + flow'[x].refunded[u]
                = flow'[x].received[u]
  <2>1. bank'[x][u] = bank[x][u] + Gain(x, u, a, to, t, amt)
    BY <1>1, <1>2, MovedValue, AccountAssumption
  <2>2. /\ credited[x].received[u] =
            flow[x].received[u] + (IF x = to /\ u = t THEN amt ELSE 0)
        /\ credited[x].refunded[u] = flow[x].refunded[u]
    BY <1>1, ReceivedFacts
  <2>3. /\ flow'[x].received[u] = credited[x].received[u]
        /\ flow'[x].refunded[u] =
            credited[x].refunded[u] + (IF x = a /\ u = t THEN amt ELSE 0)
    BY <1>2, <1>3, RefundedFacts
  <2>4. Books(x, u)
    BY BooksFacts
  <2> QED BY <1>2, <2>1, <2>2, <2>3, <2>4 DEF Gain, Books
<1> QED BY <1>4, <1>5 DEF AccountInv, WithdrawalsAccounted

\* A deposit comes from outside the accounts.
LEMMA DepositInv ==
  ASSUME AccountInv, NEW from \in Depositors, NEW a \in Account, NEW t \in Tokens,
         NEW amt \in Nat, Deposit(from, a, t, amt)
  PROVE  AccountInv'
<1>1. /\ bank \in Ledger /\ account \in [Account -> AccountRecord]
      /\ flow \in [Account -> Flow] /\ a \in Holder /\ from \in Holder \ Account
  BY AccountAssumption DEF AccountInv, AccountTypeOK, Ledger
<1>2. /\ CanPay(bank, from, t, amt) /\ bank' = Moved(bank, from, a, t, amt)
      /\ account' = account /\ flow' = Received(flow, a, t, amt)
  BY DEF Deposit
<1>3. AccountTypeOK'
  BY <1>1, <1>2, MovedType, ReceivedFacts DEF AccountTypeOK, Ledger
<1>4. ASSUME NEW x \in Account, NEW u \in Tokens
      PROVE  bank'[x][u] + account'[x].withdrawn[u] + flow'[x].refunded[u]
                = flow'[x].received[u]
  <2>1. bank'[x][u] = bank[x][u] + Gain(x, u, from, a, t, amt)
    BY <1>1, <1>2, MovedValue, AccountAssumption
  <2>2. /\ flow'[x].received[u] =
            flow[x].received[u] + (IF x = a /\ u = t THEN amt ELSE 0)
        /\ flow'[x].refunded[u] = flow[x].refunded[u]
    BY <1>1, <1>2, ReceivedFacts
  <2>3. Books(x, u)
    BY BooksFacts
  <2> QED BY <1>1, <1>2, <2>1, <2>2, <2>3 DEF Gain, Books
<1> QED BY <1>3, <1>4 DEF AccountInv, WithdrawalsAccounted

\* A step that moves no tokens and keeps what each account has withdrawn.
LEMMA RecordInv ==
  ASSUME AccountInv, NEW a \in Account, NEW rec \in AccountRecord,
         rec.withdrawn = account[a].withdrawn,
         account' = [account EXCEPT ![a] = rec], UNCHANGED <<bank, flow>>
  PROVE  AccountInv'
<1>1. \A x \in Account : account'[x].withdrawn = account[x].withdrawn
  BY DEF AccountInv, AccountTypeOK
<1>2. AccountTypeOK'
  BY DEF AccountInv, AccountTypeOK
<1> QED BY <1>1, <1>2 DEF AccountInv, WithdrawalsAccounted


\* Filing, approving and executing keep a request well-formed.
LEMMA RequestType ==
  ASSUME NEW q \in Request, NEW g \in Holder \cup {None}
  PROVE  /\ [q EXCEPT !.approvals = @ \cup {g}] \in Request
         /\ [[q EXCEPT !.approvals = @ \cup {g}] EXCEPT !.status = "Executed"] \in Request
  BY DEF Request

\* A withdrawal by the merchant is filed or executed.
LEMMA WithdrawToInv ==
  ASSUME AccountInv, NEW a \in Account, NEW t \in Tokens, NEW amt \in Nat,
         NEW to \in Holder, WithdrawTo(a, t, amt, to)
  PROVE  AccountInv'
<1> DEFINE q == [token |-> t, amount |-> amt, recipient |-> to,
                 approvals |-> {account[a].merchant}, status |-> "Pending"]
           rec == [account[a] EXCEPT !.requests = Append(@, q)]
<1>1. account[a] \in AccountRecord /\ account[a].merchant \in Holder
  BY DEF WithdrawTo, Opened, AccountInv, AccountTypeOK, AccountRecord
<1>2. CASE NeedsApproval(a, amt)
  <2>1. q \in Request /\ account[a].requests \in Seq(Request)
    BY <1>1 DEF Request, AccountRecord
  <2>2. Append(account[a].requests, q) \in Seq(Request)
    BY <2>1
  <2>3. rec \in AccountRecord /\ rec.withdrawn = account[a].withdrawn
    BY <1>1, <2>2 DEF AccountRecord
  <2>4. account' = [account EXCEPT ![a] = rec] /\ UNCHANGED <<bank, flow>>
    BY <1>2 DEF WithdrawTo, FileRequest, AccountInv, AccountTypeOK
  <2> QED BY <2>3, <2>4, RecordInv
<1>3. CASE ~NeedsApproval(a, amt)
  BY <1>1, <1>3, ExecuteInv DEF WithdrawTo
<1> QED BY <1>2, <1>3

\* An approval by the manager waits or executes.
LEMMA ApproveWithdrawalInv ==
  ASSUME AccountInv, NEW a \in Account, NEW r \in DOMAIN account[a].requests,
         ApproveWithdrawal(a, r)
  PROVE  AccountInv'
<1> DEFINE q        == account[a].requests[r]
           approved == [q EXCEPT !.approvals = @ \cup {account[a].manager}]
           executed == [approved EXCEPT !.status = "Executed"]
           waiting  == [account[a] EXCEPT !.requests[r] = approved]
           closed   == [account[a] EXCEPT !.requests[r] = executed]
<1>1. /\ account[a] \in AccountRecord /\ account[a].requests \in Seq(Request)
      /\ q \in Request
  BY DEF AccountInv, AccountTypeOK, AccountRecord
<1>2. approved \in Request /\ executed \in Request
  BY <1>1, RequestType DEF AccountRecord
<1>3. ASSUME NEW n \in Request
      PROVE  /\ [account[a] EXCEPT !.requests[r] = n] \in AccountRecord
             /\ [account[a] EXCEPT !.requests[r] = n].withdrawn = account[a].withdrawn
  <2>1. [account[a].requests EXCEPT ![r] = n] \in Seq(Request)
    BY <1>1
  <2> QED BY <1>1, <2>1 DEF AccountRecord
<1>4. CASE Cardinality(approved.approvals) >= 2
  <2>1. ExecuteWithdrawal(a, closed, q.token, q.amount, q.recipient)
    BY <1>4 DEF ApproveWithdrawal
  <2>2. q.token \in Tokens /\ q.amount \in Nat /\ q.recipient \in Holder
    BY <1>1 DEF Request
  <2>3. closed \in AccountRecord /\ closed.withdrawn = account[a].withdrawn
    BY <1>2, <1>3
  <2> QED BY <2>1, <2>2, <2>3, ExecuteInv
<1>5. CASE ~(Cardinality(approved.approvals) >= 2)
  <2>1. account' = [account EXCEPT ![a].requests[r] = approved] /\ UNCHANGED <<bank, flow>>
    BY <1>5 DEF ApproveWithdrawal
  <2>2. account' = [account EXCEPT ![a] = waiting]
    BY <2>1 DEF AccountInv, AccountTypeOK
  <2>3. waiting \in AccountRecord /\ waiting.withdrawn = account[a].withdrawn
    BY <1>2, <1>3
  <2> QED BY <2>1, <2>2, <2>3, RecordInv
<1> QED BY <1>4, <1>5

\* Opening an account and changing the manager's settings touch no tokens.
LEMMA SettingsInv ==
  ASSUME AccountInv, NEW a \in Account,
         \/ \E m \in Party, g \in Party : Initialize(a, m, g)
         \/ \E x \in Thresholds : SetWithdrawalThreshold(a, x)
         \/ \E status \in BOOLEAN : RestrictAccount(a, status)
  PROVE  AccountInv'
<1>1. account[a] \in AccountRecord /\ account \in [Account -> AccountRecord]
  BY DEF AccountInv, AccountTypeOK
<1>2. ASSUME NEW m \in Party, NEW g \in Party, Initialize(a, m, g) PROVE AccountInv'
  <2> DEFINE rec == [account[a] EXCEPT !.merchant = m, !.manager = g]
  <2>1. rec \in AccountRecord /\ rec.withdrawn = account[a].withdrawn
    BY <1>1, AccountAssumption DEF AccountRecord
  <2>2. account' = [account EXCEPT ![a] = rec] /\ UNCHANGED <<bank, flow>>
    BY <1>1, <1>2 DEF Initialize, AccountRecord
  <2> QED BY <2>1, <2>2, RecordInv
<1>3. ASSUME NEW x \in Thresholds, SetWithdrawalThreshold(a, x) PROVE AccountInv'
  <2> DEFINE rec == [account[a] EXCEPT !.threshold = x]
  <2>1. rec \in AccountRecord /\ rec.withdrawn = account[a].withdrawn
    BY <1>1, AccountAssumption DEF AccountRecord
  <2>2. account' = [account EXCEPT ![a] = rec] /\ UNCHANGED <<bank, flow>>
    BY <1>1, <1>3 DEF SetWithdrawalThreshold
  <2> QED BY <2>1, <2>2, RecordInv
<1>4. ASSUME NEW status \in BOOLEAN, RestrictAccount(a, status) PROVE AccountInv'
  <2> DEFINE rec == [account[a] EXCEPT !.restricted = status]
  <2>1. rec \in AccountRecord /\ rec.withdrawn = account[a].withdrawn
    BY <1>1 DEF AccountRecord
  <2>2. account' = [account EXCEPT ![a] = rec] /\ UNCHANGED <<bank, flow>>
    BY <1>1, <1>4 DEF RestrictAccount
  <2> QED BY <2>1, <2>2, RecordInv
<1> QED BY <1>2, <1>3, <1>4

\* The deployed accounts are empty.
LEMMA AccountInitInv == AccountInit => AccountInv
<1> SUFFICES ASSUME AccountInit PROVE AccountInv
  OBVIOUS
<1>1. Unopened \in AccountRecord /\ NoFlow \in Flow
  BY DEF Unopened, AccountRecord, NoFlow, Flow
<1>2. AccountTypeOK
  BY <1>1, AccountAssumption DEF AccountInit, AccountTypeOK
<1>3. ASSUME NEW a \in Account, NEW t \in Tokens
      PROVE  bank[a][t] + account[a].withdrawn[t] + flow[a].refunded[t]
                = flow[a].received[t]
  BY AccountAssumption DEF AccountInit, Unopened, NoFlow
<1> QED BY <1>2, <1>3 DEF AccountInv, WithdrawalsAccounted

\* Every entry point keeps the invariant.
LEMMA AccountNextInv == AccountInv /\ [AccountNext]_accountVars => AccountInv'
<1> SUFFICES ASSUME AccountInv, [AccountNext]_accountVars PROVE AccountInv'
  OBVIOUS
<1>1. CASE UNCHANGED accountVars
  BY <1>1 DEF accountVars, AccountInv, AccountTypeOK, WithdrawalsAccounted
<1>2. CASE AccountNext
  <2>1. ASSUME NEW a \in Account, NEW t \in Tokens, NEW to \in Payees,
               NEW amt \in Refunds, Refund(a, t, amt, to)
        PROVE  AccountInv'
    BY <2>1, AccountAssumption, RefundInv
  <2>2. ASSUME NEW a \in Account, NEW t \in Tokens, NEW to \in Payees,
               NEW amt \in Withdrawals, WithdrawTo(a, t, amt, to)
        PROVE  AccountInv'
    BY <2>2, AccountAssumption, WithdrawToInv
  <2>3. ASSUME NEW a \in Account, NEW r \in DOMAIN account[a].requests,
               ApproveWithdrawal(a, r)
        PROVE  AccountInv'
    BY <2>3, ApproveWithdrawalInv
  <2>4. ASSUME NEW a \in Account, NEW from \in Depositors, NEW t \in Tokens,
               NEW amt \in Deposits, Deposit(from, a, t, amt)
        PROVE  AccountInv'
    BY <2>4, AccountAssumption, DepositInv
  <2> QED BY <1>2, <2>1, <2>2, <2>3, <2>4, SettingsInv DEF AccountNext
<1> QED BY <1>1, <1>2

\* The types and the books hold in every reachable state of the account contracts.
THEOREM AccountInvariance == AccountSpec => []AccountInv
BY AccountInitInv, AccountNextInv, PTL DEF AccountSpec

\* Balances and analytics stay natural: no entry point overdraws an account.
THEOREM AccountTypeCorrect == AccountSpec => []AccountTypeOK
<1>1. AccountInv => AccountTypeOK
  BY DEF AccountInv
<1> QED BY <1>1, AccountInvariance, PTL

\* Every token that left an account is either in its withdrawal analytics or was a
\* refund, for any number of accounts, tokens, requests and approvals.
THEOREM WithdrawalsAccountedHolds == AccountSpec => []WithdrawalsAccounted
<1>1. AccountInv => WithdrawalsAccounted
  BY DEF AccountInv
<1> QED BY <1>1, AccountInvariance, PTL
-----------------------------------------------------------------------------
(* Who approves a withdrawal.                                               *)

\* A request exists only in an opened account, and while it waits it carries the
\* merchant's approval and nobody's but the merchant's and the manager's.
Filed(rec) ==
    \A r \in DOMAIN rec.requests :
        /\ rec.merchant # None
        /\ rec.requests[r].status = "Pending" =>
            rec.requests[r].approvals \cup {rec.manager} = {rec.merchant, rec.manager}

AllFiled == \A a \in Account : Filed(account[a])

\* What LargeWithdrawalsApproved says of one account that goes from old to new.
Approved(old, new, t) ==
    LET out == new.withdrawn[t] - old.withdrawn[t]
    IN  old.threshold > 0 /\ out > old.threshold =>
            /\ old.merchant # old.manager
            /\ \E r \in DOMAIN old.requests :
                /\ old.requests[r].status = "Pending"
                /\ new.requests[r].status = "Executed"
                /\ new.requests[r].approvals = {old.merchant, old.manager}
                /\ old.requests[r].token = t
                /\ old.requests[r].amount = out

\* What a step must keep and do, once the types hold.
StepApproved == AllFiled' /\ \A a \in Account, t \in Tokens : Approved(account[a], account'[a], t)

\* Whatever withdraws nothing needs no approval.
LEMMA NothingOut ==
  ASSUME NEW old \in AccountRecord, NEW new \in AccountRecord, NEW t \in Tokens,
         new.withdrawn[t] = old.withdrawn[t]
  PROVE  Approved(old, new, t)
<1>1. old.withdrawn[t] \in Nat /\ old.threshold \in Int
  BY DEF AccountRecord
<1>2. new.withdrawn[t] - old.withdrawn[t] = 0
  BY <1>1
<1> QED BY <1>1, <1>2 DEF Approved

\* A step writes the record of one account.
LEMMA OneRecord ==
  ASSUME AccountInv, AllFiled, NEW a \in Account, NEW rec,
         account' = [account EXCEPT ![a] = rec], Filed(rec),
         \A t \in Tokens : Approved(account[a], rec, t)
  PROVE  StepApproved
<1>1. account \in [Account -> AccountRecord]
  BY DEF AccountInv, AccountTypeOK
<1>2. account'[a] = rec /\ \A x \in Account \ {a} : account'[x] = account[x]
  BY <1>1
<1>3. \A x \in Account : Filed(account'[x])
  BY <1>2 DEF AllFiled
<1>4. \A x \in Account, t \in Tokens : Approved(account[x], account'[x], t)
  <2> SUFFICES ASSUME NEW x \in Account, NEW t \in Tokens
               PROVE  Approved(account[x], account'[x], t)
    OBVIOUS
  <2>1. CASE x = a
    BY <1>2, <2>1
  <2>2. CASE x # a
    BY <1>1, <1>2, <2>2, NothingOut
  <2> QED BY <2>1, <2>2
<1>5. AllFiled'
  BY <1>3 DEF AllFiled
<1> QED BY <1>4, <1>5 DEF StepApproved

\* A step that leaves the accounts' records alone.
LEMMA NoRecord ==
  ASSUME AccountInv, AllFiled, account' = account
  PROVE  StepApproved
<1>1. account \in [Account -> AccountRecord]
  BY DEF AccountInv, AccountTypeOK
<1>2. \A x \in Account, t \in Tokens : Approved(account[x], account'[x], t)
  BY <1>1, NothingOut
<1>3. AllFiled'
  BY DEF AllFiled
<1> QED BY <1>2, <1>3 DEF StepApproved

\* Counting a withdrawal changes no other field.
LEMMA AnalyticsKeeps ==
  ASSUME NEW rec \in AccountRecord, NEW t \in Tokens, NEW amt \in Nat
  PROVE  LET new == Analytics(rec, t, amt)
         IN  /\ new.requests = rec.requests
             /\ new.merchant = rec.merchant
             /\ new.manager = rec.manager
<1> DEFINE w == [rec.withdrawn EXCEPT ![t] = @ + amt]
<1>1. Analytics(rec, t, amt) = [rec EXCEPT !.withdrawn = w]
  BY DEF Analytics, AccountRecord
<1> HIDE DEF w
<1> QED BY <1>1 DEF AccountRecord

\* Two different parties are needed for two approvals.
LEMMA TwoParties ==
  ASSUME NEW m, NEW g, Cardinality({m, g}) >= 2
  PROVE  m # g
<1> SUFFICES ASSUME m = g PROVE FALSE
  OBVIOUS
<1>1. Cardinality({m}) = 1
  BY FS_Singleton
<1>2. {m, g} = {m}
  OBVIOUS
<1> QED BY <1>1, <1>2

\* The manager's settings and the opening of an account.
LEMMA SettingsApproved ==
  ASSUME AccountInv, AllFiled, NEW a \in Account,
         \/ \E m \in Party, g \in Party : Initialize(a, m, g)
         \/ \E x \in Thresholds : SetWithdrawalThreshold(a, x)
         \/ \E status \in BOOLEAN : RestrictAccount(a, status)
  PROVE  StepApproved
<1>1. /\ account[a] \in AccountRecord /\ account \in [Account -> AccountRecord]
      /\ Filed(account[a])
  BY DEF AccountInv, AccountTypeOK, AllFiled
<1>2. ASSUME NEW m \in Party, NEW g \in Party, Initialize(a, m, g) PROVE StepApproved
  <2> DEFINE rec == [account[a] EXCEPT !.merchant = m, !.manager = g]
  <2>1. rec \in AccountRecord /\ rec.withdrawn = account[a].withdrawn
    BY <1>1, AccountAssumption DEF AccountRecord
  <2>2. account' = [account EXCEPT ![a] = rec]
    BY <1>1, <1>2 DEF Initialize, AccountRecord
  <2>3. account[a].merchant = None /\ rec.requests = account[a].requests
    BY <1>1, <1>2 DEF Initialize, Opened, AccountRecord
  <2>4. Filed(rec)
    BY <1>1, <2>3 DEF Filed
  <2>5. \A t \in Tokens : Approved(account[a], rec, t)
    BY <1>1, <2>1, NothingOut
  <2> QED BY <2>2, <2>4, <2>5, OneRecord
<1>3. ASSUME NEW x \in Thresholds, SetWithdrawalThreshold(a, x) PROVE StepApproved
  <2> DEFINE rec == [account[a] EXCEPT !.threshold = x]
  <2>1. rec \in AccountRecord /\ rec.withdrawn = account[a].withdrawn
    BY <1>1, AccountAssumption DEF AccountRecord
  <2>2. account' = [account EXCEPT ![a] = rec]
    BY <1>1, <1>3 DEF SetWithdrawalThreshold
  <2>3. Filed(rec)
    BY <1>1 DEF Filed, AccountRecord
  <2>4. \A t \in Tokens : Approved(account[a], rec, t)
    BY <1>1, <2>1, NothingOut
  <2> QED BY <2>2, <2>3, <2>4, OneRecord
<1>4. ASSUME NEW status \in BOOLEAN, RestrictAccount(a, status) PROVE StepApproved
  <2> DEFINE rec == [account[a] EXCEPT !.restricted = status]
  <2>1. rec \in AccountRecord /\ rec.withdrawn = account[a].withdrawn
    BY <1>1 DEF AccountRecord
  <2>2. account' = [account EXCEPT ![a] = rec]
    BY <1>1, <1>4 DEF RestrictAccount
  <2>3. Filed(rec)
    BY <1>1 DEF Filed, AccountRecord
  <2>4. \A t \in Tokens : Approved(account[a], rec, t)
    BY <1>1, <2>1, NothingOut
  <2> QED BY <2>2, <2>3, <2>4, OneRecord
<1> QED BY <1>2, <1>3, <1>4

\* A withdrawal that is paid at once does not exceed the threshold, and one that
\* does is filed with the merchant's approval.
LEMMA WithdrawToApproved ==
  ASSUME AccountInv, AllFiled, NEW a \in Account, NEW t \in Tokens, NEW amt \in Nat,
         NEW to \in Holder, WithdrawTo(a, t, amt, to)
  PROVE  StepApproved
<1> DEFINE q == [token |-> t, amount |-> amt, recipient |-> to,
                 approvals |-> {account[a].merchant}, status |-> "Pending"]
           rec == [account[a] EXCEPT !.requests = Append(@, q)]
           new == Analytics(account[a], t, amt)
<1>1. /\ account[a] \in AccountRecord /\ account \in [Account -> AccountRecord]
      /\ Filed(account[a]) /\ account[a].merchant \in Holder
  BY DEF WithdrawTo, Opened, AccountInv, AccountTypeOK, AccountRecord, AllFiled
<1>2. CASE NeedsApproval(a, amt)
  <2>1. q \in Request /\ account[a].requests \in Seq(Request)
    BY <1>1 DEF Request, AccountRecord
  <2>2. Append(account[a].requests, q) \in Seq(Request)
    BY <2>1
  <2>3. /\ rec \in AccountRecord /\ rec.withdrawn = account[a].withdrawn
        /\ rec.requests = Append(account[a].requests, q)
        /\ rec.merchant = account[a].merchant /\ rec.manager = account[a].manager
    BY <1>1, <2>2 DEF AccountRecord
  <2>4. account' = [account EXCEPT ![a] = rec]
    BY <1>1, <1>2 DEF WithdrawTo, FileRequest
  <2>5. Filed(rec)
    <3> SUFFICES ASSUME NEW r \in DOMAIN rec.requests
                 PROVE  /\ rec.merchant # None
                        /\ rec.requests[r].status = "Pending" =>
                            rec.requests[r].approvals \cup {rec.manager}
                                = {rec.merchant, rec.manager}
      BY DEF Filed
    <3>1. rec.merchant # None
      BY <1>1, <2>3, AccountAssumption
    <3>2. CASE r \in DOMAIN account[a].requests
      <4>1. rec.requests[r] = account[a].requests[r]
        BY <2>1, <2>3, <3>2
      <4> QED BY <1>1, <2>3, <3>1, <3>2, <4>1 DEF Filed
    <3>3. CASE r \notin DOMAIN account[a].requests
      <4>1. rec.requests[r] = q
        BY <2>1, <2>3, <3>3
      <4> QED BY <2>3, <3>1, <4>1
    <3> QED BY <3>2, <3>3
  <2>6. \A u \in Tokens : Approved(account[a], rec, u)
    BY <1>1, <2>3, NothingOut
  <2> QED BY <2>4, <2>5, <2>6, OneRecord
<1>3. CASE ~NeedsApproval(a, amt)
  <2>1. account' = [account EXCEPT ![a] = new]
    BY <1>3 DEF WithdrawTo, ExecuteWithdrawal
  <2>2. Filed(new)
    BY <1>1, AnalyticsKeeps DEF Filed
  <2>3. ASSUME NEW u \in Tokens PROVE Approved(account[a], new, u)
    <3>1. account[a].withdrawn[u] \in Nat /\ account[a].threshold \in Int
      BY <1>1 DEF AccountRecord
    <3>2. new.withdrawn[u] = account[a].withdrawn[u] + (IF u = t THEN amt ELSE 0)
      BY <1>1, AnalyticsFacts
    <3>3. account[a].threshold > 0 =>
            ~(new.withdrawn[u] - account[a].withdrawn[u] > account[a].threshold)
      BY <1>3, <3>1, <3>2 DEF NeedsApproval
    <3> QED BY <3>3 DEF Approved
  <2> QED BY <2>1, <2>2, <2>3, OneRecord
<1> QED BY <1>2, <1>3

\* An approval executes a request with the two parties' approvals, or leaves it waiting.
LEMMA ApproveWithdrawalApproved ==
  ASSUME AccountInv, AllFiled, NEW a \in Account, NEW r \in DOMAIN account[a].requests,
         ApproveWithdrawal(a, r)
  PROVE  StepApproved
<1> DEFINE q        == account[a].requests[r]
           approved == [q EXCEPT !.approvals = @ \cup {account[a].manager}]
           executed == [approved EXCEPT !.status = "Executed"]
           waiting  == [account[a] EXCEPT !.requests[r] = approved]
           closed   == [account[a] EXCEPT !.requests[r] = executed]
           both     == {account[a].merchant, account[a].manager}
<1>1. /\ account[a] \in AccountRecord /\ account[a].requests \in Seq(Request)
      /\ q \in Request /\ account \in [Account -> AccountRecord] /\ Filed(account[a])
  BY DEF AccountInv, AccountTypeOK, AccountRecord, AllFiled
<1>2. approved \in Request /\ executed \in Request
  BY <1>1, RequestType DEF AccountRecord
<1>3. q.status = "Pending" /\ account[a].merchant # None
  BY <1>1 DEF ApproveWithdrawal, Approvable, Filed
<1>4. q.approvals \cup {account[a].manager} = both
  BY <1>1, <1>3 DEF Filed
<1>5. /\ approved.approvals = both /\ executed.approvals = both
      /\ executed.status = "Executed"
  BY <1>1, <1>4 DEF Request
<1>6. ASSUME NEW n \in Request, n.approvals = both
      PROVE  LET rec == [account[a] EXCEPT !.requests[r] = n]
             IN  /\ rec \in AccountRecord /\ rec.withdrawn = account[a].withdrawn
                 /\ rec.requests[r] = n /\ Filed(rec)
  <2> DEFINE rec == [account[a] EXCEPT !.requests[r] = n]
             reqs == [account[a].requests EXCEPT ![r] = n]
  <2>1. /\ reqs \in Seq(Request) /\ DOMAIN reqs = DOMAIN account[a].requests
        /\ reqs[r] = n
        /\ \A k \in DOMAIN reqs \ {r} : reqs[k] = account[a].requests[k]
    BY <1>1
  <2>2. rec = [account[a] EXCEPT !.requests = reqs]
    BY <1>1 DEF AccountRecord
  <2> HIDE DEF reqs
  <2>3. /\ rec \in AccountRecord /\ rec.withdrawn = account[a].withdrawn
        /\ rec.requests = reqs /\ rec.merchant = account[a].merchant
        /\ rec.manager = account[a].manager
    BY <1>1, <2>1, <2>2 DEF AccountRecord
  <2> HIDE DEF rec
  <2>4. Filed(rec)
    BY <1>1, <1>3, <1>6, <2>1, <2>3 DEF Filed
  <2> QED BY <2>1, <2>3, <2>4 DEF rec
<1>7. CASE Cardinality(approved.approvals) >= 2
  <2> DEFINE new == Analytics(closed, q.token, q.amount)
  <2>1. account' = [account EXCEPT ![a] = new]
    BY <1>7 DEF ApproveWithdrawal, ExecuteWithdrawal
  <2>2. account[a].merchant # account[a].manager
    BY <1>5, <1>7, TwoParties
  <2>3. /\ closed \in AccountRecord /\ closed.withdrawn = account[a].withdrawn
        /\ closed.requests[r] = executed /\ Filed(closed)
    BY <1>2, <1>5, <1>6
  <2>4. q.token \in Tokens /\ q.amount \in Nat
    BY <1>1 DEF Request
  <2> HIDE DEF closed, executed
  <2>5. /\ new.requests = closed.requests /\ new.merchant = closed.merchant
        /\ new.manager = closed.manager
    BY <2>3, <2>4, AnalyticsKeeps
  <2>6. Filed(new)
    BY <2>3, <2>5 DEF Filed
  <2>7. ASSUME NEW u \in Tokens PROVE Approved(account[a], new, u)
    <3>1. account[a].withdrawn[u] \in Nat /\ account[a].threshold \in Int
      BY <1>1 DEF AccountRecord
    <3>2. new.withdrawn[u] = account[a].withdrawn[u] + (IF u = q.token THEN q.amount ELSE 0)
      BY <2>3, <2>4, AnalyticsFacts
    <3>3. CASE u = q.token
      <4>1. new.withdrawn[u] - account[a].withdrawn[u] = q.amount
        BY <2>4, <3>1, <3>2, <3>3
      <4>2. new.requests[r].status = "Executed" /\ new.requests[r].approvals = both
        BY <1>5, <2>3, <2>5
      <4> QED BY <1>3, <2>2, <3>3, <4>1, <4>2 DEF Approved
    <3>4. CASE u # q.token
      <4>1. new.withdrawn[u] = account[a].withdrawn[u] /\ new \in AccountRecord
        BY <2>3, <2>4, <3>1, <3>2, <3>4, AnalyticsFacts
      <4> HIDE DEF new
      <4> QED BY <1>1, <4>1, NothingOut
    <3> QED BY <3>3, <3>4
  <2> QED BY <2>1, <2>6, <2>7, OneRecord
<1>8. CASE ~(Cardinality(approved.approvals) >= 2)
  <2>1. account' = [account EXCEPT ![a].requests[r] = approved]
    BY <1>8 DEF ApproveWithdrawal
  <2>2. account' = [account EXCEPT ![a] = waiting]
    BY <1>1, <2>1
  <2>3. /\ waiting \in AccountRecord /\ waiting.withdrawn = account[a].withdrawn
        /\ Filed(waiting)
    BY <1>2, <1>5, <1>6
  <2> HIDE DEF waiting
  <2>4. \A u \in Tokens : Approved(account[a], waiting, u)
    BY <1>1, <2>3, NothingOut
  <2> QED BY <2>2, <2>3, <2>4, OneRecord
<1> QED BY <1>7, <1>8

\* Every entry point keeps requests filed and lets nothing large out unapproved.
LEMMA NextApproved ==
  AccountInv /\ AllFiled /\ [AccountNext]_accountVars => StepApproved
<1> SUFFICES ASSUME AccountInv, AllFiled, [AccountNext]_accountVars PROVE StepApproved
  OBVIOUS
<1>1. CASE UNCHANGED accountVars
  BY <1>1, NoRecord DEF accountVars
<1>2. CASE AccountNext
  <2>1. ASSUME NEW a \in Account, NEW t \in Tokens, NEW to \in Payees,
               NEW amt \in Refunds, Refund(a, t, amt, to)
        PROVE  StepApproved
    BY <2>1, NoRecord DEF Refund
  <2>2. ASSUME NEW a \in Account, NEW t \in Tokens, NEW to \in Payees,
               NEW amt \in Withdrawals, WithdrawTo(a, t, amt, to)
        PROVE  StepApproved
    BY <2>2, AccountAssumption, WithdrawToApproved
  <2>3. ASSUME NEW a \in Account, NEW r \in DOMAIN account[a].requests,
               ApproveWithdrawal(a, r)
        PROVE  StepApproved
    BY <2>3, ApproveWithdrawalApproved
  <2>4. ASSUME NEW a \in Account, NEW from \in Depositors, NEW t \in Tokens,
               NEW amt \in Deposits, Deposit(from, a, t, amt)
        PROVE  StepApproved
    BY <2>4, NoRecord DEF Deposit
  <2> QED BY <1>2, <2>1, <2>2, <2>3, <2>4, SettingsApproved DEF AccountNext
<1> QED BY <1>1, <1>2

\* While a threshold is set, what exceeds it leaves only as a pending request that
\* merchant and manager, two wallets, have approved, and only once.
THEOREM LargeWithdrawalsApprovedHolds == AccountSpec => LargeWithdrawalsApproved
<1> DEFINE Step == \A a \in Account, t \in Tokens : Approved(account[a], account'[a], t)
<1>1. AccountInit => AllFiled
  BY DEF AccountInit, AllFiled, Filed, Unopened
<1>2. AccountInv /\ AllFiled /\ [AccountNext]_accountVars => AllFiled' /\ [Step]_accountVars
  BY NextApproved DEF StepApproved
<1>3. AccountSpec => [][Step]_accountVars
  BY <1>1, <1>2, AccountInvariance, PTL DEF AccountSpec
<1> QED BY <1>3 DEF Approved, LargeWithdrawalsApproved
=============================================================================
