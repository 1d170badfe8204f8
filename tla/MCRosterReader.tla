--------------------------- MODULE MCRosterReader ---------------------------
(* Small instances of RosterReader for TLC. *)
EXTENDS RosterReader

CONSTANTS officer, alice, US

MCCanonical == [s \in Spelling |-> s]
=============================================================================
