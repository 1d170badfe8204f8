----------------------------- MODULE MCDividend -----------------------------
(* Small instances of Dividend for TLC. *)
EXTENDS Dividend

CONSTANTS issuer, alice, bob, bonds, deeds, usdc, eurc

MCEntry(h, b) == [holder |-> h, balance |-> b]

\* Lists that pass the checks (equal, uneven and zero balances) and lists
\* that must not: empty, negative, repeated.
MCGoodLists == {<<MCEntry(alice, 1), MCEntry(bob, 2)>>,
                <<MCEntry(alice, 1), MCEntry(bob, 1)>>,
                <<MCEntry(alice, 0), MCEntry(bob, 0)>>}
MCEligible == MCGoodLists \union
    {<<>>,
     <<MCEntry(alice, 2), MCEntry(bob, -1)>>,
     <<MCEntry(alice, 1), MCEntry(alice, 1)>>}

MCEndowment == [t \in PaymentToken |->
                   [a \in Address |-> IF a = issuer THEN 4 ELSE IF a = alice THEN 1 ELSE 0]]

\* One even list, for runs about ids, roles and several tokens.
MCOneList == {<<MCEntry(alice, 1), MCEntry(issuer, 1)>>}
MCOnePayer == [t \in PaymentToken |-> [a \in Address |-> IF a = issuer THEN 2 ELSE 0]]
=============================================================================
