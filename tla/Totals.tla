------------------------------- MODULE Totals -------------------------------
(***************************************************************************)
(* The sum of a table of natural numbers (the balances of a token, the     *)
(* amounts still owed by a set of distributions), defined without          *)
(* recursion: entry x of table f contributes the f[x] units <<x, 1>> ..    *)
(* <<x, f[x]>>, and the total is the number of units.  The contracts keep  *)
(* no such sum themselves; they keep running counters, which the           *)
(* invariants of the project compare with it.                              *)
(***************************************************************************)
EXTENDS Integers, FiniteSets

Units(f) == UNION {{x} \X (1..f[x]) : x \in DOMAIN f}

Total(f) == Cardinality(Units(f))
=============================================================================
