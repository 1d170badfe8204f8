----------------------------- MODULE MCRegistry -----------------------------
(* Small instances of RegistryReader for TLC. *)
EXTENDS RegistryReader

CONSTANTS officer, alice, deeds, bonds, estate, debt, Debt

MCRegistration(a, t, kind) == [issuer |-> a, token_contract |-> t, asset_type |-> kind]

\* Two tokens, one of them claimed by two issuers, and a type that is not on
\* the list.
MCRegistrations ==
    {MCRegistration(alice, deeds, estate), MCRegistration(alice, bonds, debt),
     MCRegistration(officer, bonds, debt), MCRegistration(alice, bonds, Debt)}

\* Negative, and two values whose sum overflows.
MCValuation == {-1, 1, 2}

\* The metadata of bonds cannot be read: there the registry's admin acts alone.
MCAssetAdmin == [t \in TokenContract |-> IF t = deeds THEN officer ELSE NoAddress]
=============================================================================
