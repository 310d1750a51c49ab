-------------------------- MODULE MCMerchantAccount --------------------------
(* One account contract, its merchant, its manager and a depositor. *)
EXTENDS MerchantAccount

CONSTANTS acct, merch, mgr, usd

CustomerFunds == [h \in Holder |-> [t \in Tokens |-> IF h = mgr THEN 4 ELSE 0]]
=============================================================================
