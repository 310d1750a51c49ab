-------------------------------- MODULE Lists --------------------------------
(***************************************************************************)
(* The loop by which the Shade contract takes an entry out of a stored list. *)
(***************************************************************************)
EXTENDS Sequences, Integers

\* The new list of remove_user_ticket: the entries that are in S are pushed back in
\* their order, the others are skipped.
Sifted(list, S) ==
    LET kept[k \in 0 .. Len(list)] ==
            IF k = 0 THEN << >>
            ELSE IF list[k] \in S THEN Append(kept[k - 1], list[k])
            ELSE kept[k - 1]
    IN  kept[Len(list)]
=============================================================================
