----------------------------- MODULE MCPlatform -----------------------------
(* Small instances of Platform for TLC. *)
EXTENDS Platform

CONSTANTS issuer, holder, lenient, US

MCCanonical == [s \in Spelling |-> s]

MCAdmitted == [c \in {lenient} |-> Address]

\* The issuer approves itself, for good or until ledger 2.
MCRuleBatch == {<<[address |-> issuer, spelling |-> US, expires_at |-> e]>> : e \in Expiry}
=============================================================================
