--------------------------- MODULE PlatformProofs ---------------------------
(***************************************************************************)
(* Theorems about Platform.  What AssetTokenProofs shows of the token for  *)
(* arbitrary verdicts holds under the verdicts of a live rule book, since  *)
(* the token of the composition implements AssetToken.                     *)
(***************************************************************************)
EXTENDS Platform, TLAPS

Proved == INSTANCE AssetTokenProofs
    WITH allowed <- Verdicts, signer <- token_signer, Batch <- TokenBatch

\* The assumptions of AssetTokenProofs, met by the constants of Platform.
LEMMA TokenConstants ==
    /\ Proved!IsFiniteSet(Address)
    /\ NoAddress \notin Address \union ComplianceContract
    /\ I128Max \in Nat
    /\ MaxLedger \in Nat \ {0}
    /\ MAX_VALUATION_CHANGE_BPS \in Nat
    /\ BPS_DENOMINATOR \in Nat
    /\ MAX_VALUATION_CHANGE_BPS < BPS_DENOMINATOR
    /\ GenesisSupply \subseteq Proved!I128
    /\ Amount \subseteq Proved!I128
    /\ Valuation \subseteq Proved!I128
    /\ TokenBatch \subseteq Seq([to : Address, amount : Amount])
    /\ ApprovalPair \subseteq Address \X Address
    /\ Nominee \subseteq Address
    /\ Guardian \subseteq Address
BY TokenAssumption
DEF Token!ConstantsAssumption, Token!I128, Proved!I128, Token!IsFiniteSet, Proved!IsFiniteSet

-----------------------------------------------------------------------------
(* The token of the composition implements AssetToken. *)

LEMMA VerdictsAreVerdicts == Verdicts' \in [ComplianceContract -> SUBSET Address]
BY PlatformAssumption DEF Verdicts, ComplianceContract

LEMMA NextImplementsToken == [Next]_vars => [Token!Next]_Token!vars
<1> SUFFICES ASSUME [Next]_vars PROVE [Token!Next]_Token!vars
  OBVIOUS
<1> USE DEF Token!Next, Token!EnvironmentStep, Token!VerdictsChange,
            Token!roleVars, Token!controlVars, Token!fundVars, tokenVars
<1>1. ASSUME NEW a \in Address, TokenCall(a) PROVE Token!Next
  BY <1>1 DEF TokenCall
<1>2. ASSUME NEW a \in Officer, RulesCall(a) PROVE Token!Next
  <2>1. UNCHANGED ledger
    BY <1>2 DEF RulesCall, Rules!RosterStep, Rules!VerdictStep, Rules!AdminStep,
          Rules!AddToAllowlist, Rules!AddToAllowlistBatch, Rules!Remove, Rules!PruneExpired,
          Rules!Suspend, Rules!Reinstate, Rules!ReinstateBy, Rules!BlockJurisdiction,
          Rules!UnblockJurisdiction, Rules!SetMinHoldingPeriod, Rules!RecordAcquisition,
          Rules!Initialize, Rules!ProposeAdmin, Rules!CancelAdminProposal, Rules!AcceptAdmin
  <2> QED
    BY <1>2, <2>1, VerdictsAreVerdicts DEF RulesCall, Token!ComplianceCall
<1>3. ASSUME CloseLedger PROVE Token!Next
  BY <1>3, VerdictsAreVerdicts DEF CloseLedger, Rules!CloseLedger, Token!CloseLedger
<1>4. CASE UNCHANGED vars
  BY <1>4 DEF vars, rulesVars, Token!vars, Token!envVars, Verdicts, Rules!IsAllowed,
        Rules!Lapsed, Rules!IsJurisdictionBlocked, Rules!StillHolding
<1> QED
  BY <1>1, <1>2, <1>3, <1>4 DEF Next

\* Seen from the token, the rule book is a set of verdicts that may change
\* between any two calls; nothing the two contracts do together leaves the
\* behaviours AssetToken describes.
THEOREM TokenImplemented == Spec => Token!Spec
<1>1. Init => Token!Init
  BY DEF Init
<1> QED
  BY <1>1, NextImplementsToken, PTL DEF Spec, Token!Spec

\* The two instances of the token's module describe the same token.
LEMMA SameToken == Token!Spec <=> Proved!Spec
<1>1. Token!Init <=> Proved!Init
  BY DEF Proved!Init, Token!Init, Proved!NoAllowance, Token!NoAllowance
<1>2. Token!Next <=> Proved!Next
  BY DEF Proved!RequireAuth, Token!RequireAuth, Proved!Initialized, Token!Initialized,
      Proved!RequireAdmin, Token!RequireAdmin, Proved!Compliant, Token!Compliant,
      Proved!CheckAmount, Token!CheckAmount, Proved!TokensLive, Token!TokensLive,
      Proved!CanMove, Token!CanMove, Proved!Moved, Token!Moved, Proved!Initialize,
      Token!Initialize, Proved!Transfer, Token!Transfer, Proved!TransferRun,
      Token!TransferRun, Proved!TransferBatch, Token!TransferBatch, Proved!CanMint,
      Token!CanMint, Proved!Mint, Token!Mint, Proved!MintRun, Token!MintRun,
      Proved!MintBatch, Token!MintBatch, Proved!Burn, Token!Burn, Proved!ApprovalBy,
      Token!ApprovalBy, Proved!Approve, Token!Approve, Proved!AllowanceCovers,
      Token!AllowanceCovers, Proved!TransferFrom, Token!TransferFrom, Proved!Pause,
      Token!Pause, Proved!Unpause, Token!Unpause, Proved!SetGuardian,
      Token!SetGuardian, Proved!ValuationChangeOK, Token!ValuationChangeOK,
      Proved!UpdateValuation, Token!UpdateValuation, Proved!SetCompliance,
      Token!SetCompliance, Proved!ProposeAdmin, Token!ProposeAdmin,
      Proved!CancelAdminProposal, Token!CancelAdminProposal, Proved!AcceptAdmin,
      Token!AcceptAdmin, Proved!VerdictsChange, Token!VerdictsChange,
      Proved!CloseLedger, Token!CloseLedger, Proved!ComplianceCall,
      Token!ComplianceCall, Proved!DropAllowance, Token!DropAllowance,
      Proved!TokenStep, Token!TokenStep, Proved!AllowanceStep, Token!AllowanceStep,
      Proved!AdminStep, Token!AdminStep, Proved!EnvironmentStep,
      Token!EnvironmentStep, Proved!Next, Token!Next, Proved!roleVars,
      Token!roleVars, Proved!controlVars, Token!controlVars, Proved!fundVars,
      Token!fundVars, Proved!envVars, Token!envVars, Proved!NoAllowance,
      Token!NoAllowance
<1>3. Token!vars = Proved!vars /\ Token!vars' = Proved!vars'
  BY DEF Proved!vars, Token!vars, Proved!roleVars, Token!roleVars, Proved!controlVars,
      Token!controlVars, Proved!fundVars, Token!fundVars, Proved!envVars,
      Token!envVars
<1>4. [Token!Next]_Token!vars <=> [Proved!Next]_Proved!vars
  BY <1>2, <1>3
<1> QED
  BY <1>1, <1>4, PTL DEF Token!Spec, Proved!Spec

-----------------------------------------------------------------------------
(* Balances under the rule book. *)

\* GatedStep of AssetTokenProofs, under the live verdicts.
VerdictStep ==
    \A a \in Address : balance'[a] # balance[a] => a \in Verdicts[compliance_contract']

LEMMA BalancesMoveByVerdict == Spec => [][VerdictStep]_Token!vars
<1>1. Proved!Spec => Proved!OnlyCompliantBalancesMove
  BY TokenConstants, Proved!BalancesMoveOnlyUnderCompliance, PTL
<1>2. [Proved!GatedStep]_Proved!vars => [VerdictStep]_Token!vars
  BY DEF Proved!GatedStep, VerdictStep, Proved!vars, Token!vars, Proved!roleVars,
      Token!roleVars, Proved!controlVars, Token!controlVars, Proved!fundVars,
      Token!fundVars, Proved!envVars, Token!envVars
<1> QED
  BY <1>1, <1>2, TokenImplemented, SameToken, PTL
  DEF Proved!OnlyCompliantBalancesMove, Proved!GatedStep

\* Whose balance moves under the rule book is allowed by it.
LEMMA MoverIsAllowed ==
  ASSUME [VerdictStep]_Token!vars, UnderRuleBook, NEW a \in Address,
         balance'[a] # balance[a]
  PROVE  Rules!IsAllowed(a)
<1>1. VerdictStep
  BY DEF Token!vars, Token!fundVars
<1> QED
  BY <1>1 DEF VerdictStep, UnderRuleBook, Verdicts, ComplianceContract

BarredStep ==
    \A a \in Address :
        balance'[a] # balance[a] /\ UnderRuleBook =>
            /\ record[a].status = "Approved"
            /\ ~Rules!Lapsed(record[a])
            /\ ~Rules!IsJurisdictionBlocked(record[a].jurisdiction)

\* Nobody who is unapproved, lapsed or from a blocked jurisdiction has a
\* balance that changes while the rule book is in force, in any run of the
\* two contracts.
THEOREM BarredBalancesAreFrozen == Spec => BarredBalanceIsFrozen
<1>1. [VerdictStep]_Token!vars => [BarredStep]_vars
  BY MoverIsAllowed DEF BarredStep, Rules!IsAllowed
<1> QED
  BY <1>1, BalancesMoveByVerdict, PTL DEF BarredBalanceIsFrozen, BarredStep

-----------------------------------------------------------------------------
(* Lock-ups. *)

\* The inductive invariant: the clock the contract keeps for a holder is the
\* first acquisition ever recorded, and not in the future.
ClocksKept ==
    /\ ledger \in Nat
    /\ min_holding \in [Address -> Nat]
    /\ first_acquired \in [Address -> Nat]
    /\ acquired = first_acquired
    /\ \A a \in Address : first_acquired[a] <= ledger

LEMMA RulesCallKeepsClocks ==
  ASSUME ClocksKept, NEW caller \in Officer, RulesCall(caller)
  PROVE  ClocksKept'
<1> USE DEF ClocksKept
<1>1. ASSUME UNCHANGED <<ledger, min_holding, first_acquired>> PROVE ClocksKept'
  BY <1>1 DEF RulesCall
<1>2. ASSUME Rules!RosterStep(caller) \/ Rules!AdminStep(caller) PROVE ClocksKept'
  <2>1. CASE Rules!RosterStep(caller)
    BY <1>1, <2>1 DEF Rules!RosterStep, Rules!AddToAllowlist, Rules!AddToAllowlistBatch,
        Rules!Remove, Rules!PruneExpired, Rules!holdingVars
  <2>2. CASE Rules!AdminStep(caller)
    BY <1>1, <2>2 DEF Rules!AdminStep, Rules!Initialize, Rules!ProposeAdmin,
        Rules!CancelAdminProposal, Rules!AcceptAdmin, Rules!holdingVars
  <2> QED
    BY <1>2, <2>1, <2>2
<1>3. ASSUME NEW h \in Holder, NEW n \in MinLedgers,
             Rules!SetMinHoldingPeriod(caller, h, n)
      PROVE  ClocksKept'
  <2>1. h \in Address /\ n \in Nat
    BY RulesAssumption DEF Rules!ConstantsAssumption
  <2> QED
    BY <1>3, <2>1 DEF Rules!SetMinHoldingPeriod, RulesCall
<1>4. ASSUME NEW h \in Holder, Rules!RecordAcquisition(caller, h) PROVE ClocksKept'
  <2>1. h \in Address
    BY RulesAssumption DEF Rules!ConstantsAssumption
  <2>2. /\ first_acquired' = [first_acquired EXCEPT ![h] = Rules!ClockAfterAcquisition(h)]
        /\ min_holding' = min_holding /\ ledger' = ledger
    BY <1>4 DEF Rules!RecordAcquisition
  <2>3. Rules!ClockAfterAcquisition(h) \in Nat /\ Rules!ClockAfterAcquisition(h) <= ledger
    BY <2>1 DEF Rules!ClockAfterAcquisition
  <2>4. \A a \in Address : first_acquired[a] # 0 => first_acquired'[a] = first_acquired[a]
    BY <2>1, <2>2 DEF Rules!ClockAfterAcquisition
  <2>5. first_acquired' \in [Address -> Nat]
    BY <2>1, <2>2, <2>3
  <2>6. acquired' = first_acquired'
    BY <2>4, <2>5 DEF RulesCall
  <2> QED
    BY <2>1, <2>2, <2>3, <2>5, <2>6
<1>5. ASSUME Rules!VerdictStep(caller) PROVE ClocksKept'
  BY <1>1, <1>3, <1>4, <1>5 DEF Rules!VerdictStep, Rules!Suspend, Rules!Reinstate,
      Rules!ReinstateBy, Rules!BlockJurisdiction, Rules!UnblockJurisdiction,
      Rules!holdingVars
<1> QED
  BY <1>2, <1>5 DEF RulesCall

LEMMA AlwaysClocksKept == Spec => []ClocksKept
<1>1. Init => ClocksKept
  BY DEF Init, Rules!Init, ClocksKept
<1>2. ClocksKept /\ [Next]_vars => ClocksKept'
  <2> SUFFICES ASSUME ClocksKept, [Next]_vars PROVE ClocksKept'
    OBVIOUS
  <2>1. ASSUME NEW a \in Address, TokenCall(a) PROVE ClocksKept'
    BY <2>1 DEF TokenCall, ClocksKept, rulesVars
  <2>2. ASSUME CloseLedger PROVE ClocksKept'
    BY <2>2 DEF CloseLedger, Rules!CloseLedger, ClocksKept, Rules!holdingVars
  <2>3. CASE UNCHANGED vars
    BY <2>3 DEF vars, rulesVars, ClocksKept
  <2> QED
    BY <2>1, <2>2, <2>3, RulesCallKeepsClocks DEF Next
<1> QED
  BY <1>1, <1>2, PTL DEF Spec

LockupStep ==
    \A a \in Address :
        balance'[a] # balance[a] /\ UnderRuleBook =>
            acquired[a] = 0 \/ ledger >= acquired[a] + min_holding[a]

\* A lock-up is served before the holder's balance moves under the rule book,
\* whatever was removed, approved again or recorded again meanwhile.
THEOREM LockupsHold == Spec => LockupHolds
<1>1. ClocksKept /\ [VerdictStep]_Token!vars => [LockupStep]_vars
  BY MoverIsAllowed DEF LockupStep, ClocksKept, Rules!IsAllowed, Rules!StillHolding
<1> QED
  BY <1>1, AlwaysClocksKept, BalancesMoveByVerdict, PTL DEF LockupHolds, LockupStep
=============================================================================
