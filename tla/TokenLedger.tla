----------------------------- MODULE TokenLedger -----------------------------
(***************************************************************************)
(* External: the SEP-41 token contracts, as the contracts of src/ use them. *)
(* A ledger maps every holder to its balance in every token.  A call that   *)
(* would overdraw a balance traps, so callers guard it with CanPay.         *)
(***************************************************************************)
EXTENDS Integers

CONSTANTS
    Tokens,  \* the token contracts
    None     \* an absent value: Option::None, or a key that storage does not hold

CanPay_Overdraft(b, from, t, amt) == amt >= 0  \* fault: the balance is not checked

CanPay(b, from, t, amt) == amt >= 0 /\ amt <= b[from][t]

Moved(b, from, to, t, amt) ==
    LET debited == [b EXCEPT ![from][t] = @ - amt]
    IN  [debited EXCEPT ![to][t] = @ + amt]
=============================================================================
