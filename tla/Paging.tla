---- MODULE Paging ----
(***************************************************************************)
(* The pages of a Query API collection (src/nmos/registry/paging.py,       *)
(* handlers_query.py): a client follows the links of the pages it is given *)
(* while resources are registered, updated and deleted.                    *)
(*                                                                         *)
(* The collection is ordered by a cursor that each write takes.  In one    *)
(* registry a write takes its cursor as it is applied; in a cluster the    *)
(* member that proposes a write allocates it, and writes are applied in    *)
(* the order of the log (src/nmos/raft/cursors.py, machine.py).            *)
(***************************************************************************)
EXTENDS Integers, Sequences, SequencesExt, FiniteSetsExt

CONSTANTS
    Ids,       \* resources of one type
    Order,     \* paging.order: "create" or "update"
    Limits,    \* page sizes the client asks for
    InOrder,   \* writes are applied in the order of their cursors
    MaxCursor, \* bound on cursors
    None       \* no record, no cursor given

\* Assumed of the constants by the modules that instantiate this one.
PagingConstants ==
    /\ Order \in {"create", "update"}
    /\ Limits \subseteq Nat
    /\ InOrder \in BOOLEAN
    /\ MaxCursor \in Nat
    /\ None \notin Int

VARIABLES
    record,    \* the extant resources
    allocated, \* the last cursor allocated
    inflight,  \* cursors of the writes not applied yet
    since,     \* the lower end of what the client has walked, or None
    until,     \* its upper end
    served     \* the resources it was given, each at a cursor

vars == <<record, allocated, inflight, since, until, served>>

Cursor == 0..MaxCursor

TypeOK ==
    /\ record \in [Ids -> [created: Cursor, updated: Cursor, match: BOOLEAN]
                            \cup {None}]
    /\ allocated \in Cursor
    /\ inflight \subseteq Cursor
    /\ since \in Cursor \cup {None}
    /\ until \in Cursor \cup {None}
    /\ since = None <=> until = None
    /\ served \subseteq Ids \X Cursor

Init ==
    /\ record = [i \in Ids |-> None]
    /\ allocated = 0
    /\ inflight = {}
    /\ since = None
    /\ until = None
    /\ served = {}

----------------------------------------------------------------------------
(* Pages *)

CursorOf(i) ==
    IF Order = "create" THEN record[i].created ELSE record[i].updated

Ascending(S) == SetToSortSeq(S, LAMBDA i, j: CursorOf(i) < CursorOf(j))

Extant == {i \in Ids: record[i] # None}

Matched == Ascending({i \in Extant: record[i].match})

(* How many of a sequence in order are at or below a cursor. *)
BisectRight(s, c) == Cardinality({n \in 1..Len(s): CursorOf(s[n]) <= c})

(* The newest cursor of the collection, whatever the filter matches. *)
MaxCursorOfAll ==
    IF Extant = {} THEN 0 ELSE CursorOf(Last(Ascending(Extant)))

ForwardToTheTop(s, u, limit) ==
    LET start == BisectRight(Matched, s)
        end == IF u = None THEN Len(Matched)
               ELSE Max({start, BisectRight(Matched, u)})
    IN [page  |-> SubSeq(Matched, start + 1, Min({end, start + limit})),
        since |-> s,
        until |-> IF u # None THEN u ELSE Max({s, MaxCursorOfAll})]

(* A page above s, and at or below u if it is given: the oldest of them. *)
Forward(s, u, limit) ==
    LET start == BisectRight(Matched, s)
        end == IF u = None THEN Len(Matched)
               ELSE Max({start, BisectRight(Matched, u)})
        page == SubSeq(Matched, start + 1, Min({end, start + limit}))
        truncated == end - start > limit
    IN [page  |-> page,
        since |-> s,
        until |-> IF page # <<>> /\ (truncated \/ u = None)
                  THEN CursorOf(Last(page))
                  ELSE IF u # None THEN u ELSE s]

BackwardFromFirst(u, limit) ==
    LET ceiling == IF u = None THEN MaxCursorOfAll ELSE u
        size == BisectRight(Matched, ceiling)
        page == SubSeq(Matched, Max({0, size - limit}) + 1, size)
    IN [page  |-> page,
        since |-> IF size > limit /\ limit > 0 THEN CursorOf(page[1]) ELSE 0,
        until |-> ceiling]

BackwardAsAsked(u, limit) ==
    LET ceiling == IF u = None THEN MaxCursorOfAll ELSE u
        size == BisectRight(Matched, ceiling)
    IN [page  |-> SubSeq(Matched, Max({0, size - limit}) + 1, size),
        since |-> IF size > limit THEN CursorOf(Matched[size - limit]) ELSE 0,
        until |-> u]

(* A page at or below u, or below the newest: the newest of them. *)
Backward(u, limit) ==
    LET ceiling == IF u = None THEN MaxCursorOfAll ELSE u
        size == BisectRight(Matched, ceiling)
    IN [page  |-> SubSeq(Matched, Max({0, size - limit}) + 1, size),
        since |-> IF limit = 0 THEN ceiling
                  ELSE IF size > limit THEN CursorOf(Matched[size - limit])
                  ELSE 0,
        until |-> ceiling]

----------------------------------------------------------------------------
(* Writes *)

Allocate ==
    /\ allocated < MaxCursor
    /\ InOrder => inflight = {}
    /\ allocated' = allocated + 1
    /\ inflight' = inflight \cup {allocated + 1}
    /\ UNCHANGED <<record, since, until, served>>

(* A registration or an update.  In creation order a resource keeps its    *)
(* place, so whether it matches is followed only in update order.          *)
Apply(c, i, m) ==
    /\ c \in inflight
    /\ record[i] # None /\ Order = "create" => m = record[i].match
    /\ record' = [record EXCEPT ![i] =
                    [created |-> IF @ = None THEN c ELSE @.created,
                     updated |-> c, match |-> m]]
    /\ inflight' = inflight \ {c}
    /\ UNCHANGED <<allocated, since, until, served>>

Delete(i) ==
    /\ record[i] # None
    /\ record' = [record EXCEPT ![i] = None]
    /\ UNCHANGED <<allocated, inflight, since, until, served>>

----------------------------------------------------------------------------
(* The client *)

Served(p) == {<<i, CursorOf(i)>>: i \in ToSet(p.page)}

(* The request without cursors, and the link "first". *)
Start(p) ==
    /\ since = None
    /\ since' = p.since
    /\ until' = p.until
    /\ served' = Served(p)
    /\ UNCHANGED <<record, allocated, inflight>>

GetLast(limit) == Start(Backward(None, limit))

GetFirst(limit) == Start(Forward(0, None, limit))

(* The link "next" of the topmost page. *)
GetNext(limit) ==
    LET p == Forward(until, None, limit)
    IN /\ since # None
       /\ until' = p.until
       /\ served' = served \cup Served(p)
       /\ UNCHANGED <<record, allocated, inflight, since>>

(* The link "prev" of the lowest page. *)
GetPrev(limit) ==
    LET p == Backward(since, limit)
    IN /\ since \notin {None, 0}
       /\ since' = p.since
       /\ served' = served \cup Served(p)
       /\ UNCHANGED <<record, allocated, inflight, until>>

Next ==
    \/ Allocate
    \/ \E c \in Cursor, i \in Ids, m \in BOOLEAN: Apply(c, i, m)
    \/ \E i \in Ids: Delete(i)
    \/ \E limit \in Limits:
          \/ GetLast(limit) \/ GetFirst(limit)
          \/ GetNext(limit) \/ GetPrev(limit)

Spec == Init /\ [][Next]_vars

----------------------------------------------------------------------------
(* Properties *)

(* Whatever was written meanwhile, a client that follows the links has     *)
(* been given every resource between the ends of its walk: none is skipped *)
(* (apply_paging, paging_headers).                                         *)
(* Violated where writes are not applied in the order of their cursors     *)
(* (InOrder).                                                              *)
NoneSkipped ==
    \A i \in Extant:
        /\ record[i].match
        /\ since # None
        /\ since < CursorOf(i)
        /\ CursorOf(i) <= until
        => <<i, CursorOf(i)>> \in served

(* ... and none is given twice at one cursor: the ends of the walk move    *)
(* past exactly the page that was given.                                   *)
NoneRepeated ==
    /\ \A e \in served: since < e[2] /\ e[2] <= until
    /\ \A limit \in Limits: since # None =>
          /\ Served(Forward(until, None, limit)) \cap served = {}
          /\ Served(Backward(since, limit)) \cap served = {}

(* The reported cursors describe the page: asked again with them, the      *)
(* server gives the same page (the comments on report_since and            *)
(* report_until).                                                          *)
Reproducible ==
    \A limit \in Limits, u \in Cursor \cup {None}, s \in Cursor \cup {None}:
        LET p == IF s = None THEN Backward(u, limit) ELSE Forward(s, u, limit)
        IN s = None \/ u = None \/ s <= u =>
              Forward(p.since, p.until, limit) = p
====
