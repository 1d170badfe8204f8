------------------------------- MODULE Lists -------------------------------
(***************************************************************************)
(* Loops over lists that several contracts share.                          *)
(***************************************************************************)
EXTENDS Integers, Sequences

Items(list) == {list[k] : k \in DOMAIN list}

\* The loop that pushes those items of a list that are in keep.
Kept(list, keep) ==
    LET kept[i \in 0..Len(list)] ==
            IF i = 0 THEN <<>>
            ELSE IF list[i] \in keep THEN Append(kept[i - 1], list[i])
            ELSE kept[i - 1]
    IN  kept[Len(list)]

Without(list, gone) == Kept(list, Items(list) \ gone)

Least(m, n) == IF m <= n THEN m ELSE n
=============================================================================
