---------------------------- MODULE MCTicketing ----------------------------
(* Instances of Ticketing for TLC. *)
EXTENDS Ticketing, TLC

CONSTANTS org, p1, h1, h2, usd

FirstHasTwo == [p \in Person |-> [t \in Tokens |-> IF p = p1 THEN 2 ELSE 0]]

HashSymmetry == Permutations(Hashes)
=============================================================================
