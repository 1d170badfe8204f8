---------------------------- MODULE MCAssetToken ----------------------------
(* Small instances of AssetToken for TLC. *)
EXTENDS AssetToken

CONSTANTS issuer, holder, spender, oldRules, newRules

MCAddress == {issuer, holder, spender}

\* Amounts around the guards: negative, zero, one and two units.
MCAmount == {-1, 0, 1, 2}

MCGenesisSupply == {-1, 0, 2}

\* Valuations around the bound of half the old value.
MCValuation == {-1, 0, 1, 2, 3, 4}

\* Batches of at most two entries; two entries reach every dependence of an
\* entry on the balances its predecessor left.
MCBatch == UNION {[1..n -> [to : MCAddress, amount : {0, 1, 2}]] : n \in {0, 2}}

MCApprovalPair == {<<holder, spender>>}
=============================================================================
