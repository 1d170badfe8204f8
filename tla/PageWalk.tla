------------------------------ MODULE PageWalk ------------------------------
(***************************************************************************)
(* A client that reads a published list page by page while others change   *)
(* it.  A walk remembers what it received, in order, and what happened to  *)
(* the list since it began: which of the items it began with stayed on the *)
(* list all along, and how many items left or entered it.                  *)
(***************************************************************************)
EXTENDS FiniteSets, Lists

NewWalk(list) == [seen |-> <<>>, replies |-> 0, stayed |-> Items(list),
                  left |-> 0, entered |-> 0, done |-> FALSE]

\* A reply arrives; an empty one is the last.
Received(walk, reply) ==
    [walk EXCEPT !.seen = @ \o reply, !.replies = @ + 1, !.done = reply = <<>>]

\* The list changes under the walk.  The two counts stop at most, beyond
\* which they make no difference.
Overtaken(walk, before, after, most) ==
    LET gone == Items(before) \ Items(after)
        new == Items(after) \ Items(before)
        Counted(n, set) == IF n + Cardinality(set) < most THEN n + Cardinality(set) ELSE most
    IN  IF walk.done THEN walk
        ELSE [walk EXCEPT !.stayed = @ \ gone,
                          !.left = Counted(@, gone),
                          !.entered = Counted(@, new)]

Missed(walk) == IF walk.done THEN walk.stayed \ Items(walk.seen) ELSE {}

Repeated(walk) ==
    {x \in walk.stayed : Cardinality({k \in DOMAIN walk.seen : walk.seen[k] = x}) > 1}
=============================================================================
