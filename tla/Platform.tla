------------------------------ MODULE Platform ------------------------------
(***************************************************************************)
(* An asset token and the compliance contract it consults, on one ledger.  *)
(* Every gated call of the token asks is_allowed of whichever compliance   *)
(* contract is configured at that moment: RuleBook is the one of module    *)
(* Compliance, the others stand for contracts that admit a fixed set.      *)
(* Neither contract calls back, so a step is a call of one of them.  That  *)
(* the host drops an expired allowance, which answers like none, is left   *)
(* to AssetToken.                                                          *)
(***************************************************************************)
EXTENDS Integers, Sequences, FiniteSets

CONSTANTS
    Address, NoAddress,
    RuleBook, Admitted,        \* Admitted: whom each other contract admits
    \* the token
    I128Max, MAX_VALUATION_CHANGE_BPS, BPS_DENOMINATOR,
    GenesisSupply, Amount, TokenBatch, Valuation, ApprovalPair, Nominee, Guardian,
    \* the rules; Officer: who calls for anything an admin is needed for
    Spelling, Canonical, Invalid, ALLOWLIST_PAGE_SIZE, MAX_ALLOWLIST_PAGE_SIZE,
    INSTANCE_BUMP_AMOUNT,
    Officer, Subject, Holder, Blockable, Expiry, RuleBatch, MinLedgers, PruneBound, Successor,
    MaxPages, MaxLedger

ComplianceContract == DOMAIN Admitted \union {RuleBook}

VARIABLES
    \* the token's state
    admin, pending_admin, guardian, compliance_contract, total_supply, valuation,
    paused, balance, allowance, token_signer,
    \* the rule book's
    officer, pending_officer, record, roster, blocked, blocked_list,
    min_holding, first_acquired, rules_signer,
    \* shared
    ledger,
    acquired    \* history: when a holder's acquisition was recorded first, or 0

tokenVars == <<admin, pending_admin, guardian, compliance_contract, total_supply,
               valuation, paused, balance, allowance>>
rulesVars == <<officer, pending_officer, record, roster, blocked, blocked_list,
               min_holding, first_acquired>>
vars == <<tokenVars, token_signer, rulesVars, rules_signer, ledger, acquired>>

Rules == INSTANCE Compliance
    WITH admin <- officer, pending_admin <- pending_officer, signer <- rules_signer,
         Batch <- RuleBatch, Nominee <- Successor

Verdicts ==
    [c \in ComplianceContract |->
        IF c = RuleBook THEN {a \in Address : Rules!IsAllowed(a)} ELSE Admitted[c]]

Token == INSTANCE AssetToken
    WITH allowed <- Verdicts, signer <- token_signer, Batch <- TokenBatch

ASSUME PlatformAssumption ==
    /\ RuleBook \notin DOMAIN Admitted
    /\ Admitted \in [DOMAIN Admitted -> SUBSET Address]
    /\ Officer \subseteq Address

ASSUME RulesAssumption == Rules!ConstantsAssumption

ASSUME TokenAssumption == Token!ConstantsAssumption

Init ==
    /\ Rules!Init
    /\ Token!Init
    /\ acquired = [a \in Address |-> 0]

TokenCall(caller) ==
    /\ UNCHANGED <<rulesVars, ledger, acquired>>
    /\ rules_signer' = NoAddress
    /\ Token!TokenStep(caller) \/ Token!AllowanceStep(caller) \/ Token!AdminStep(caller)

RulesCall(caller) ==
    /\ UNCHANGED tokenVars
    /\ token_signer' = NoAddress
    /\ Rules!RosterStep(caller) \/ Rules!VerdictStep(caller) \/ Rules!AdminStep(caller)
    /\ acquired' = [a \in Address |->
           IF acquired[a] = 0 THEN first_acquired'[a] ELSE acquired[a]]

CloseLedger ==
    /\ Rules!CloseLedger
    /\ UNCHANGED <<tokenVars, acquired>>
    /\ token_signer' = NoAddress

Next ==
    \/ \E a \in Address : TokenCall(a)
    \/ \E a \in Officer : RulesCall(a)
    \/ CloseLedger

Spec == Init /\ [][Next]_vars

-----------------------------------------------------------------------------
(* Properties. *)

UnderRuleBook == compliance_contract' = RuleBook

\* A balance changes under the rule book only while its owner's record is
\* approved and in force and its jurisdiction is not blocked, whatever calls
\* to the rules came between the calls to the token.
BarredBalanceIsFrozen ==
    [][\A a \in Address :
          balance'[a] # balance[a] /\ UnderRuleBook =>
              /\ record[a].status = "Approved"
              /\ ~Rules!Lapsed(record[a])
              /\ ~Rules!IsJurisdictionBlocked(record[a].jurisdiction)]_vars

\* A lock-up is not escaped: from the ledger a holder's acquisition was
\* first recorded at, no balance of the holder changes under the rule book
\* for the number of ledgers in force, even if the holder is removed from the
\* allowlist, approved again or recorded again meanwhile, and if the clock
\* outlives the storage entry it is kept in.
LockupHolds ==
    [][\A a \in Address :
          balance'[a] # balance[a] /\ UnderRuleBook =>
              acquired[a] = 0 \/ ledger >= acquired[a] + min_holding[a]]_vars
=============================================================================
