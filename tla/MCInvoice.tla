----------------------------- MODULE MCInvoice -----------------------------
(* Instances of Invoice for TLC: wallets, accounts, balances and messages. *)
EXTENDS Invoice, TLC

CONSTANTS s1, s2, p1, p2, acct, admin1, admin2, treasury, shade, usd, eur, k1, k2, n1, n2

PayersHave(n) == [h \in Holder |-> [t \in Tokens |-> IF h \in Payers THEN n ELSE 0]]

ThreeEach   == PayersHave(3)
PlentyEach  == PayersHave(1000000)

Signed(k, nonce) ==
    [key |-> k, merchant |-> s1, amount |-> 1, token |-> usd, nonce |-> nonce]

\* Two messages on one nonce and one on another; the last is signed with another key.
SignedMessages == {Signed(k1, n1), [Signed(k1, n1) EXCEPT !.amount = 2], Signed(k2, n2)}

OwnListOrNone == {{usd}, {}}

TwiceOrSwapped == {<<1, 2>>, <<2, 1>>}

\* The payers differ in nothing but their name.
PayersAlike == Permutations(Payers)

\* What PayersOutOfPocket is stated for.
ASSUME PayersOnlyPay

Routed(active) == [active |-> active, account |-> acct, tokens |-> {}, key |-> None]

\* A contract initialized with admin1, every token accepted, its merchants being ms, at
\* the given time.
ConfiguredWith(ms, time) ==
    /\ now = time
    /\ paused = FALSE
    /\ admin = admin1
    /\ pendingAdmin = None
    /\ accepted = Tokens
    /\ fee = [t \in Tokens |-> 0]
    /\ pendingFee = [t \in Tokens |-> None]
    /\ platform = admin1
    /\ oracle = {}
    /\ price \in [Tokens -> Prices \cup {0}]
    /\ stats = [merchant |-> [m \in Seller |-> [t \in Tokens |-> NoAnalysis]],
                token    |-> [t \in Tokens |-> NoTokenAnalysis]]
    /\ bank = Funds
    /\ account = [a \in Account |-> [Unopened EXCEPT !.merchant = s1, !.manager = Shade]]
    /\ flow = [a \in Account |-> NoFlow]
    /\ merchants = ms
    /\ invoices = << >>
    /\ usedNonces = {}
    /\ redeemed = << >>

\* A state that setup reaches and most tests start from: every merchant registered and
\* routed to acct.
ConfiguredInit == ConfiguredWith([m \in Seller |-> Routed(TRUE)], 0)

ConfiguredSpec == ConfiguredInit /\ [][Next]_vars
=============================================================================
