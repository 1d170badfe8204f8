---------------------------- MODULE MCCompliance ----------------------------
(* Small instances of Compliance for TLC. *)
EXTENDS Compliance

CONSTANTS officer, alice, bob, US, us, KE, USA

\* Two spellings of one country, another country, and a code of three letters.
MCCanonical == [s \in Spelling |->
                   IF s = us THEN US ELSE IF s = USA THEN Invalid ELSE s]

MCEntry(a, s, e) == [address |-> a, spelling |-> s, expires_at |-> e]

\* A batch that names one person twice, one of two people, and the empty one.
MCBatch == {<<>>,
            <<MCEntry(alice, us, 0), MCEntry(alice, US, 2)>>,
            <<MCEntry(alice, US, 2), MCEntry(bob, US, 0)>>}
=============================================================================
