---------------------------- MODULE RosterReader ----------------------------
(***************************************************************************)
(* The compliance contract with a client that reads the published          *)
(* allowlist page by page, asking for what follows the addresses it has    *)
(* received, until an empty reply; meanwhile people are approved, removed  *)
(* and pruned.                                                             *)
(***************************************************************************)
EXTENDS Compliance, PageWalk

CONSTANT Limit       \* sizes of page the client asks for

ASSUME ReaderAssumption == Limit \subseteq Nat

VARIABLE reader      \* [reading, limit, walk]

readerVars == <<vars, reader>>

ReaderInit == Init /\ reader = [reading |-> FALSE, limit |-> 0, walk |-> NewWalk(<<>>)]

StartWalk(limit) ==
    /\ ~reader.reading
    /\ reader' = [reading |-> TRUE, limit |-> limit, walk |-> NewWalk(GetAllowlist)]
    /\ UNCHANGED vars

Request ==
    LET reply == GetAllowlistPage(Len(reader.walk.seen), reader.limit)
    IN  /\ reader.reading
        /\ ~reader.walk.done
        /\ reader' = [reader EXCEPT !.walk = Received(@, reply)]
        /\ UNCHANGED vars

ComplianceStep ==
    /\ Next
    /\ reader' = IF ~reader.reading THEN reader
                 ELSE [reader EXCEPT !.walk =
                          Overtaken(@, GetAllowlist, GetAllowlist', Cardinality(Address))]

ReaderNext ==
    \/ ComplianceStep
    \/ \E n \in Limit : StartWalk(n)
    \/ Request

ReaderSpec == ReaderInit /\ [][ReaderNext]_readerVars

\* The admin keeps pruning, with each of the bounds it uses.
FairReaderSpec ==
    /\ ReaderSpec
    /\ \A n \in PruneBound : WF_vars(PruneExpired(admin, n))

-----------------------------------------------------------------------------
(* Properties. *)

\* Whoever stays on the list during a walk is reported at most once, and the
\* walk misses at most one such person for every one who left the list under
\* it: the pages themselves, with their holes, lose nobody.
WalkMissesNoMoreThanLeft ==
    /\ Repeated(reader.walk) = {}
    /\ Cardinality(Missed(reader.walk)) <= reader.walk.left
=============================================================================
