----------------------------- MODULE EscrowPots -----------------------------
(***************************************************************************)
(* What the dividend contract promises about money: every distribution is  *)
(* a pot of its own.  A pot is filled once, by one payer; it pays a holder *)
(* at most once and never more than it holds; what is left may be handed   *)
(* back once, in full, and a closed pot never pays again.  Nothing one pot *)
(* does is visible in another, although the contract keeps all of them in  *)
(* a single account per payment token.                                     *)
(***************************************************************************)
EXTENDS Integers, Sequences

CONSTANTS Address, PaymentToken

VARIABLES wallet,   \* [PaymentToken -> [Address -> Nat]]
          pots,     \* sequence of [token, left, open]
          paid      \* pairs <<pot, holder>> that have been paid

vars == <<wallet, pots, paid>>

\* A pot is open as long as there is something left in it.
Pot(t, n) == [token |-> t, left |-> n, open |-> n > 0]

Init == /\ wallet \in [PaymentToken -> [Address -> Nat]]
        /\ pots = <<>>
        /\ paid = {}

Fill(t, a, n) ==
    /\ n > 0
    /\ wallet[t][a] >= n
    /\ wallet' = [wallet EXCEPT ![t][a] = @ - n]
    /\ pots' = Append(pots, Pot(t, n))
    /\ UNCHANGED paid

\* Holder h receives n from pot i.
Pay(i, h, n) ==
    /\ pots[i].open
    /\ <<i, h>> \notin paid
    /\ n \in 1..pots[i].left
    /\ wallet' = [wallet EXCEPT ![pots[i].token][h] = @ + n]
    /\ pots' = [pots EXCEPT ![i] = Pot(@.token, @.left - n)]
    /\ paid' = paid \union {<<i, h>>}

HandBack(i, a) ==
    /\ pots[i].open
    /\ pots[i].left > 0
    /\ wallet' = [wallet EXCEPT ![pots[i].token][a] = @ + pots[i].left]
    /\ pots' = [pots EXCEPT ![i] = Pot(@.token, 0)]
    /\ UNCHANGED paid

\* A wallet moves tokens to another wallet.
Spend(t, a, b, n) ==
    /\ a # b
    /\ wallet[t][a] >= n
    /\ wallet' = [wallet EXCEPT ![t][a] = @ - n, ![t][b] = @ + n]
    /\ UNCHANGED <<pots, paid>>

\* A wallet gives tokens to the contract, for good.
Donate(t, a, n) ==
    /\ wallet[t][a] >= n
    /\ wallet' = [wallet EXCEPT ![t][a] = @ - n]
    /\ UNCHANGED <<pots, paid>>

Next ==
    \/ \E t \in PaymentToken, a \in Address : \E n \in 1..wallet[t][a] :
           \/ Fill(t, a, n)
           \/ Donate(t, a, n)
           \/ \E b \in Address : Spend(t, a, b, n)
    \/ \E i \in DOMAIN pots, h \in Address : \E n \in 1..pots[i].left : Pay(i, h, n)
    \/ \E i \in DOMAIN pots, a \in Address : HandBack(i, a)

Spec == Init /\ [][Next]_vars
=============================================================================
