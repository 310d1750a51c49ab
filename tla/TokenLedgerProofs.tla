-------------------------- MODULE TokenLedgerProofs --------------------------
(* What a transfer does to a ledger. *)
EXTENDS TokenLedger, TLAPS

LedgerOf(H) == [H -> [Tokens -> Nat]]

\* A transfer that the token accepts leaves a ledger: no balance becomes negative.
LEMMA TransferType ==
  ASSUME NEW H, NEW b \in LedgerOf(H), NEW x \in H, NEW y \in H, NEW t \in Tokens,
         NEW amt \in Int, CanPay(b, x, t, amt)
  PROVE  Moved(b, x, y, t, amt) \in LedgerOf(H)
<1> DEFINE d == [b EXCEPT ![x][t] = @ - amt]
<1>1. b[x] \in [Tokens -> Nat] /\ b[x][t] - amt \in Nat /\ amt \in Nat
  BY DEF LedgerOf, CanPay
<1>2. d \in LedgerOf(H)
  BY <1>1 DEF LedgerOf
<1>3. d[y] \in [Tokens -> Nat] /\ d[y][t] + amt \in Nat
  BY <1>1, <1>2 DEF LedgerOf
<1>4. [d EXCEPT ![y][t] = @ + amt] \in LedgerOf(H)
  BY <1>2, <1>3 DEF LedgerOf
<1> QED BY <1>4 DEF Moved

\* It takes the amount from one end, adds it to the other, and touches nobody else.
LEMMA TransferValue ==
  ASSUME NEW H, NEW b \in LedgerOf(H), NEW x \in H, NEW y \in H, x # y, NEW t \in Tokens,
         NEW amt \in Int
  PROVE  /\ Moved(b, x, y, t, amt)[x][t] = b[x][t] - amt
         /\ Moved(b, x, y, t, amt)[y][t] = b[y][t] + amt
         /\ \A h \in H \ {x, y} : Moved(b, x, y, t, amt)[h] = b[h]
  BY DEF Moved, LedgerOf

\* What holder h gains in token u by a transfer of amt in t from x to y.
Change(h, u, x, y, t, amt) ==
    (IF h = y /\ u = t THEN amt ELSE 0) - (IF h = x /\ u = t THEN amt ELSE 0)

\* The same of any transfer the token accepts, to oneself or to nobody on record included.
LEMMA TransferFacts ==
  ASSUME NEW H, NEW b \in LedgerOf(H), NEW x \in H, NEW y, NEW t \in Tokens,
         NEW amt \in Int, CanPay(b, x, t, amt)
  PROVE  /\ Moved(b, x, y, t, amt) \in LedgerOf(H)
         /\ amt \in Nat
         /\ \A h \in H, u \in Tokens :
                Moved(b, x, y, t, amt)[h][u] = b[h][u] + Change(h, u, x, y, t, amt)
<1> DEFINE d == [b EXCEPT ![x][t] = @ - amt]
           m == [d EXCEPT ![y][t] = @ + amt]
<1>1. b[x] \in [Tokens -> Nat] /\ b[x][t] - amt \in Nat /\ amt \in Nat
  BY DEF LedgerOf, CanPay
<1>2. d \in LedgerOf(H)
  BY <1>1 DEF LedgerOf
<1>3. \A h \in H, u \in Tokens : d[h][u] = b[h][u] - (IF h = x /\ u = t THEN amt ELSE 0)
  BY <1>1 DEF LedgerOf
<1> HIDE DEF d
<1>4. m \in LedgerOf(H)
  <2>1. CASE y \in H
    <3>1. d[y] \in [Tokens -> Nat] /\ d[y][t] + amt \in Nat
      BY <1>1, <1>2, <2>1 DEF LedgerOf
    <3> QED BY <1>2, <3>1 DEF LedgerOf
  <2>2. CASE y \notin H
    BY <1>2, <2>2 DEF LedgerOf
  <2> QED BY <2>1, <2>2
<1>5. ASSUME NEW h \in H, NEW u \in Tokens
      PROVE  m[h][u] = d[h][u] + (IF h = y /\ u = t THEN amt ELSE 0)
  <2>0. d[h] \in [Tokens -> Nat]
    BY <1>2 DEF LedgerOf
  <2>1. CASE h = y
    BY <1>1, <1>2, <2>0, <2>1 DEF LedgerOf
  <2>2. CASE h # y
    BY <1>1, <1>2, <2>0, <2>2 DEF LedgerOf
  <2> QED BY <2>1, <2>2
<1>6. Moved(b, x, y, t, amt) = m
  BY DEF Moved, d
<1> HIDE DEF m
<1>7. ASSUME NEW h \in H, NEW u \in Tokens
      PROVE  m[h][u] = b[h][u] + Change(h, u, x, y, t, amt)
  <2>1. b[h][u] \in Nat /\ d[h][u] \in Nat
    BY <1>2 DEF LedgerOf
  <2> QED BY <1>1, <1>3, <1>5, <2>1 DEF Change
<1> QED BY <1>1, <1>4, <1>6, <1>7
=============================================================================
