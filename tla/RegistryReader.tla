--------------------------- MODULE RegistryReader ---------------------------
(***************************************************************************)
(* The registry with a client that walks through one of its paged views    *)
(* while issuers register and admins switch entries on and off.  It asks   *)
(* for the page after what it has received so far, by position, by id or   *)
(* by page number, and stops at an empty reply.                            *)
(***************************************************************************)
EXTENDS Registry, PageWalk

CONSTANTS
    View,                       \* the views a model walks through
    ReadIssuer, ReadType,       \* whose assets, and of which type
    PageSize

ASSUME ReaderAssumption ==
    /\ View \subseteq {"ids", "positions", "active", "inactive", "issuer", "type"}
    /\ ReadIssuer \in Address
    /\ ReadType \in VALID_ASSET_TYPES
    /\ PageSize \subseteq Nat \ {0}

VARIABLE reader     \* [view, size, walk]; view "none" before the walk

readerVars == <<vars, reader>>

Filtered == {"active", "inactive"}

Shows(view, entry) ==
    /\ view = "active" => entry.active
    /\ view = "inactive" => ~entry.active
    /\ view = "issuer" => entry.issuer = ReadIssuer
    /\ view = "type" => entry.asset_type = ReadType

\* What each view stands for at this moment.
Published == [view \in View |->
                 Kept([k \in 1..counter |-> k], {id \in DOMAIN asset : Shows(view, asset[id])})]

\* The page the client asks for next, by position or by page number.
NextPage(view, size, walk) ==
    LET n == Len(walk.seen)
    IN  CASE view = "ids" -> GetAllAssets(n + 1, size)
          [] view = "positions" -> GetAssetsPage(n, size)
          [] view = "active" -> GetActiveAssetsPage(n, size, TRUE)
          [] view = "inactive" -> GetActiveAssetsPage(n, size, FALSE)
          [] view = "issuer" -> GetAssetsByIssuerPage(ReadIssuer, walk.replies, size)
          [] view = "type" -> GetAssetsByTypePage(ReadType, walk.replies, size)

NoWalk == [view |-> "none", size |-> 0, walk |-> NewWalk(<<>>)]

ReaderInit == Init /\ reader = NoWalk

StartWalk(view, size) ==
    /\ reader.view = "none"
    /\ reader' = [view |-> view, size |-> size, walk |-> NewWalk(Published[view])]
    /\ UNCHANGED vars

Request ==
    /\ reader.view # "none"
    /\ ~reader.walk.done
    /\ reader' = [reader EXCEPT !.walk =
           Received(@, NextPage(reader.view, reader.size, reader.walk))]
    /\ UNCHANGED vars

RegistryStep ==
    /\ Next
    /\ reader' = IF reader.view = "none" THEN reader
                 ELSE [reader EXCEPT !.walk =
                          Overtaken(@, Published[reader.view], Published'[reader.view],
                                    MaxAssets)]

ReaderNext ==
    \/ RegistryStep
    \/ \E v \in View, n \in PageSize : StartWalk(v, n)
    \/ Request

ReaderSpec == ReaderInit /\ [][ReaderNext]_readerVars

-----------------------------------------------------------------------------
(* Properties. *)

\* A finished walk over a list that only grows has seen everything that was
\* there when it began, once, whatever happened meanwhile.  A walk over a
\* filtered view misses at most as many entries as left the view under it,
\* and repeats at most as many as entered it.
WalkSeesWhatStayed ==
    LET walk == reader.walk
    IN  IF reader.view \in Filtered
        THEN /\ Cardinality(Missed(walk)) <= walk.left
             /\ Cardinality(Repeated(walk)) <= walk.entered
        ELSE Missed(walk) = {} /\ Repeated(walk) = {}
=============================================================================
