------------------------------- MODULE Listing ------------------------------
(***************************************************************************)
(* ListVolumes, ListSnapshots and GetSnapshot (internal/controller), and a *)
(* caller (external) that walks through their pages.                       *)
(*                                                                         *)
(* The plugin keeps nothing between two pages: a token is an offset, and   *)
(* every page is cut out of lists that are read again from the API,        *)
(* ListVolumes' out of two that are read one after the other.  Volumes     *)
(* come and go in between.                                                 *)
(***************************************************************************)
EXTENDS Naturals, Sequences, SequencesExt

CONSTANTS
    Blocks,     \* normal storages in the controller's zone
    Files,      \* file storages in the controller's zone
    Backups,    \* backups
    Order,      \* all of these, in the order in which the API lists them
    Origin,     \* the storage each backup was taken of
    AnySource,  \* ListSnapshots without a source volume
    PageSizes   \* max_entries of the requests; 0 asks for everything

Entries == Blocks \union Files \union Backups

ASSUME ListingAssumption ==
    /\ Blocks \intersect Files = {} /\ (Blocks \union Files) \intersect Backups = {}
    /\ Order \in Seq(Entries) /\ ToSet(Order) = Entries /\ Len(Order) \in Nat
    /\ \A i, j \in DOMAIN Order : Order[i] = Order[j] => i = j
    /\ DOMAIN Origin = Backups
    /\ AnySource \notin Entries
    /\ PageSizes \subseteq Nat

VARIABLES
    exists,     \* what exists at the API
    fresh,      \* what never existed so far
    \* the walk
    pc,         \* the next API request of the plugin, or the caller's turn
    op,         \* the RPC
    source,     \* ListSnapshots: the source volume; GetSnapshot: the snapshot ID
    start,      \* the number in the token
    size,       \* max_entries
    blocks,     \* ListVolumes: the storages it read
    seen,       \* the entries of the pages so far
    \* what is to be observed
    lasting,    \* what the walk is to list and has existed since it began
    grown, shrunk   \* something of that kind appeared or disappeared since then

walk     == <<pc, op, source, start, size, blocks, seen>>
observed == <<lasting, grown, shrunk>>
vars     == <<exists, fresh, pc, op, source, start, size, blocks, seen,
              lasting, grown, shrunk>>

TypeOK ==
    /\ exists \subseteq Entries /\ fresh \subseteq Entries
    /\ pc \in {"idle", "next", "blocks", "files", "backups"}
    /\ op \in {"none", "ListVolumes", "ListSnapshots", "GetSnapshot"}
    /\ source \in Blocks \union Backups \union {AnySource}
    /\ start \in 0 .. Len(Order)
    /\ size \in PageSizes \union {0}
    /\ blocks \in Seq(Blocks)
    /\ seen \in Seq(Entries)
    /\ lasting \subseteq exists
    /\ grown \in BOOLEAN /\ shrunk \in BOOLEAN

Init ==
    /\ exists \in SUBSET Entries
    /\ fresh = Entries \ exists
    /\ pc = "idle" /\ op = "none" /\ source = AnySource
    /\ start = 0 /\ size = 0
    /\ blocks = <<>> /\ seen = <<>>
    /\ lasting = {} /\ grown = FALSE /\ shrunk = FALSE

-----------------------------------------------------------------------------
(***************************************************************************)
(* Pages.                                                                  *)
(***************************************************************************)

\* Fault: the next page begins one entry too late.
NextStartLate(s, from, n) ==
    IF from > Len(s) \/ n = 0 \/ from + n + 1 >= Len(s) THEN 0 ELSE from + n + 1

\* Fault: the next page begins with the last entry of this one.
NextStartOverlap(s, from, n) ==
    IF from > Len(s) \/ n = 0 \/ from + n >= Len(s) THEN 0 ELSE from + n - 1

\* Fault: the last page's token is the length of the list.
NextStartAlways(s, from, n) ==
    IF from > Len(s) \/ n = 0 \/ from + n >= Len(s) THEN Len(s) ELSE from + n

\* paginateStorage: where the next page starts, 0 if there is none.
NextStart(s, from, n) ==
    IF from > Len(s) \/ n = 0 \/ from + n >= Len(s) THEN 0 ELSE from + n

\* Fault: the upper bound of the slice is inclusive.
PageInclusive(s, from, n) ==
    SubSeq(s, from + 1, IF n = 0 \/ from + n >= Len(s) THEN Len(s) ELSE from + n + 1)

\* paginateStorage: the page.
Page(s, from, n) ==
    SubSeq(s, from + 1, IF n = 0 \/ from + n >= Len(s) THEN Len(s) ELSE from + n)

\* The set T in the order in which the API lists: the k-th entry is the one whose
\* place in Order is the k-th of the places of T.
Places(T) == {i \in DOMAIN Order : Order[i] \in T}

Rank(i, places) == Cardinality({j \in places : j <= i})

InOrder(T) ==
    [k \in 1 .. Cardinality(Places(T)) |->
        Order[CHOOSE i \in Places(T) : Rank(i, Places(T)) = k]]

\* What the API lists of the set S.
Listed(S) == InOrder(S \intersect exists)

-----------------------------------------------------------------------------
(***************************************************************************)
(* The walk.  The first page is asked for without a token, every other one *)
(* with the token of the page before it.                                   *)
(***************************************************************************)

\* What a walk is to list.
Wanted(o, v) == CASE o = "none" -> {}
                  [] o = "ListVolumes" -> Blocks \union Files
                  [] o = "GetSnapshot" -> {v} \intersect Entries
                  [] o = "ListSnapshots" /\ v = AnySource -> Backups
                  [] OTHER -> {b \in Backups : Origin[b] = v}

FirstRequest(o) == IF o = "ListVolumes" THEN "blocks" ELSE "backups"

Begin(o, v, n) ==
    /\ pc = "idle"
    /\ pc' = FirstRequest(o)
    /\ op' = o /\ source' = v /\ size' = n
    /\ start' = 0 /\ seen' = <<>>
    /\ lasting' = exists \intersect Wanted(o, v) /\ grown' = FALSE /\ shrunk' = FALSE
    /\ UNCHANGED <<exists, fresh, blocks>>

NextPage ==
    /\ pc = "next"
    /\ pc' = FirstRequest(op)
    /\ UNCHANGED <<exists, fresh, op, source, start, size, blocks, seen,
                   observed>>

\* The response with a page of s.  NextToken is set if it is positive.
Respond(s) ==
    LET page == Page(s, start, size)
        next == NextStart(s, start, size)
    IN  /\ seen' = seen \o page
        /\ start' = next
        /\ size' = IF next > 0 THEN size ELSE 0
        /\ pc' = IF next > 0 THEN "next" ELSE "idle"
        /\ UNCHANGED <<exists, fresh, op, source, observed>>

\* ListVolumes: ListBlockStorage, which drops other types and other zones.
ListBlockStorage ==
    /\ pc = "blocks"
    /\ pc' = "files"
    /\ blocks' = Listed(Blocks)
    /\ UNCHANGED <<exists, fresh, op, source, start, size, seen, observed>>

\* ListVolumes: GetFileStorages, the same filter, and the response.
GetFileStorages ==
    /\ pc = "files"
    /\ blocks' = <<>>
    /\ Respond(blocks \o Listed(Files))

\* ListSnapshots: ListBlockStorageBackups, and the response.
ListBlockStorageBackups ==
    /\ pc = "backups"
    /\ Respond(Listed(Wanted(op, source)))
    /\ UNCHANGED blocks

\* GetSnapshot, and ListSnapshots with a snapshot ID: the storage of that ID, if
\* it exists.  Its type is not asked for: a volume is returned as a snapshot.
GetSnapshot(u) ==
    /\ pc = "idle"
    /\ op' = "GetSnapshot" /\ source' = u
    /\ seen' = IF u \in exists THEN <<u>> ELSE <<>>
    /\ lasting' = exists \intersect {u} /\ grown' = FALSE /\ shrunk' = FALSE
    /\ UNCHANGED <<exists, fresh, pc, start, size, blocks>>

\* A request fails, and with it the RPC; the caller forgets the walk.
ListFails ==
    /\ pc \notin {"idle", "next"}
    /\ pc' = "idle" /\ op' = "none"
    /\ source' = AnySource /\ start' = 0 /\ size' = 0
    /\ blocks' = <<>> /\ seen' = <<>>
    /\ lasting' = {} /\ grown' = FALSE /\ shrunk' = FALSE
    /\ UNCHANGED <<exists, fresh>>

-----------------------------------------------------------------------------
(***************************************************************************)
(* The API (external).                                                     *)
(***************************************************************************)

Appears(u) ==
    /\ u \in fresh
    /\ fresh' = fresh \ {u}
    /\ exists' = exists \union {u}
    /\ grown' = (grown \/ u \in Wanted(op, source))
    /\ UNCHANGED <<walk, lasting, shrunk>>

Disappears(u) ==
    /\ u \in exists
    /\ exists' = exists \ {u}
    /\ lasting' = lasting \ {u}
    /\ shrunk' = (shrunk \/ u \in Wanted(op, source))
    /\ UNCHANGED <<fresh, walk, grown>>

-----------------------------------------------------------------------------

Walk == NextPage \/ ListBlockStorage \/ GetFileStorages \/ ListBlockStorageBackups

Next == \/ \E n \in PageSizes : \/ Begin("ListVolumes", AnySource, n)
                                \/ \E v \in Blocks \union {AnySource} :
                                      Begin("ListSnapshots", v, n)
        \/ Walk \/ ListFails
        \/ \E u \in Blocks \union Backups : GetSnapshot(u)
        \/ \E u \in Entries : Appears(u) \/ Disappears(u)

Spec == Init /\ [][Next]_vars

\* The caller asks for the next page, and the API answers requests.
FairSpec == Spec /\ WF_vars(Walk)

-----------------------------------------------------------------------------
(***************************************************************************)
(* Properties.                                                             *)
(***************************************************************************)

Done == pc = "idle" /\ op # "none"

\* The offsets that are tokens lose no entry as long as nothing disappears: a
\* walk has listed everything that was there all the time, whatever appeared in
\* between, between the two lists of one page too.
NoneMissed == Done /\ ~ shrunk => lasting \subseteq ToSet(seen)

\* As long as nothing appears, no entry is listed twice, whatever disappears.
NoneTwice == ~ grown => \A i, j \in DOMAIN seen : seen[i] = seen[j] => i = j

\* A walk through lists that do not change returns exactly the list, whatever
\* the size of its pages.
WalkIsList ==
    Done /\ ~ grown /\ ~ shrunk =>
        seen = IF op = "ListVolumes" THEN Listed(Blocks) \o Listed(Files)
               ELSE Listed(lasting)

\* NextToken is empty when the list is exhausted: every walk comes to its end,
\* also while the lists change.
WalkEnds == []<>(pc = "idle")

=============================================================================
