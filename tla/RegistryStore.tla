---- MODULE RegistryStore ----
(***************************************************************************)
(* The registry's resource database: the resources of each type and their  *)
(* tombstones, the parent/child index, and the indexes that keep resources *)
(* in cursor order (src/nmos/registry/store.py).  A standalone registry    *)
(* allocates cursors and collects silent Nodes itself; in a replicated one *)
(* the same operations are applied from the log                            *)
(* (src/nmos/raft/machine.py) with cursors chosen by other members and a   *)
(* list of tombstones decided earlier by one of them.                      *)
(*                                                                         *)
(* Every public method of the store completes without awaiting, so each is *)
(* one action.  A rejected registration changes nothing and is the absence *)
(* of a step.  A body is its version.  An id is a number, for its order.   *)
(***************************************************************************)
EXTENDS Integers, Sequences, SequencesExt, FiniteSetsExt

CONSTANTS
    Ids,            \* resource ids
    Depth,          \* 1: Nodes; 2: and Devices; 3: and what Devices contain
    Replicated,     \* cursors and forgetting come from the log
    GcInterval,     \* seconds of silence before a Node is collected
    ForgetInterval, \* seconds a tombstone is kept
    MaxVersion,     \* bound on resource versions
    MaxCursor,      \* bound on cursors
    MaxNow,         \* bound on the clock
    None            \* no record, no type, no parent

VARIABLES
    byType,     \* the records of each type, tombstones included
    typeOf,     \* the type an id is registered with
    children,   \* the ids registered under an id
    order,      \* ids per type and cursor, in ascending order unless ...
    dirty,      \* ... a cursor arrived out of order
    lastCursor, \* the highest cursor seen of each type
    now,        \* the clock, in seconds
    victims,    \* a list of tombstones decided on and not applied yet
    events      \* what the last operation told subscribers

vars == <<byType, typeOf, children, order, dirty, lastCursor, now, victims,
          events>>

(* Node, Device and the rest; each is registered under the one before. *)
Types == 1..Depth

Orders == {"create", "update"}

Record ==
    [extant: BOOLEAN, parent: Ids \cup {None}, version: 0..MaxVersion,
     created: 0..MaxCursor, updated: 0..MaxCursor, health: 0..MaxNow]

\* The modules that instantiate this one assume it of their constants too.
StoreConstants ==
    /\ Ids \subseteq Nat
    /\ Depth \in 1..3
    /\ Replicated \in BOOLEAN
    /\ {GcInterval, ForgetInterval, MaxVersion, MaxCursor, MaxNow} \subseteq Nat
    /\ None \notin Int \cup Record

ASSUME StoreAssumption == StoreConstants

TypeOK ==
    /\ byType \in [Types -> [Ids -> Record \cup {None}]]
    /\ typeOf \in [Ids -> Types \cup {None}]
    /\ children \in [Ids -> SUBSET Ids]
    /\ DOMAIN order = Types \X Orders
    /\ \A k \in Types \X Orders: order[k] \in Seq(Ids)
    /\ dirty \in [Types \X Orders -> BOOLEAN]
    /\ lastCursor \in [Types -> 0..MaxCursor]
    /\ now \in 0..MaxNow
    /\ victims \subseteq Ids
    /\ events \in Seq({"added", "modified", "removed"} \X Types \X Ids)

Init ==
    /\ byType = [t \in Types |-> [i \in Ids |-> None]]
    /\ typeOf = [i \in Ids |-> None]
    /\ children = [i \in Ids |-> {}]
    /\ order = [k \in Types \X Orders |-> <<>>]
    /\ dirty = [k \in Types \X Orders |-> FALSE]
    /\ lastCursor = [t \in Types |-> 0]
    /\ now = 0
    /\ victims = {}
    /\ events = <<>>

----------------------------------------------------------------------------
(* Looking up *)

Extant(t, i) == byType[t][i] # None /\ byType[t][i].extant

(* find_any: an id of any type, tombstones hidden. *)
FindAny(i) == typeOf[i] # None /\ Extant(typeOf[i], i)

CursorOf(r, o) == IF o = "create" THEN r.created ELSE r.updated

(* (cursor, id) pairs compare lexicographically. *)
Precedes(c, i, d, j) == c < d \/ (c = d /\ i < j)

Sorted(t, o, S) ==
    SetToSortSeq(S, LAMBDA i, j: Precedes(CursorOf(byType[t][i], o), i,
                                          CursorOf(byType[t][j], o), j))

(* The ids a read goes through, after the lazy sort of a dirty index. *)
Index(t, o) ==
    IF dirty[<<t, o>>]
    THEN Sorted(t, o, {i \in ToSet(order[<<t, o>>]): byType[t][i] # None})
    ELSE order[<<t, o>>]

IterOrdered(t, o) == SelectSeq(Index(t, o), LAMBDA i: Extant(t, i))

(* A read sorts an index that was out of order, once. *)
Query(t, o) ==
    /\ dirty[<<t, o>>]
    /\ order' = [order EXCEPT ![<<t, o>>] = Index(t, o)]
    /\ dirty' = [dirty EXCEPT ![<<t, o>>] = FALSE]
    /\ events' = <<>>
    /\ UNCHANGED <<byType, typeOf, children, lastCursor, now, victims>>

----------------------------------------------------------------------------
(* Registration *)

CheckParentListed(t, p) ==
    IF t = 1 THEN p = None ELSE p # None /\ typeOf[p] = t - 1

CheckParent(t, p) ==
    IF t = 1 THEN p = None
    ELSE p # None /\ typeOf[p] = t - 1 /\ Extant(t - 1, p)

CheckUpdate(r, p, v) == v >= r.version /\ p = r.parent

CheckTypeLive(t, i) == FindAny(i) => typeOf[i] = t

CheckType(t, i) == typeOf[i] \in {None, t}

(* What prepare accepts of a resource i of type t under p with version v. *)
Prepare(t, i, p, v) ==
    /\ CheckType(t, i)
    /\ CheckParent(t, p)
    /\ Extant(t, i) => CheckUpdate(byType[t][i], p, v)

ReparentAdding(i, before, after) ==
    [q \in Ids |-> children[q] \cup (IF q = after THEN {i} ELSE {})]

(* The children index after a resource leaves one parent for another. *)
Reparent(i, before, after) ==
    [q \in Ids |-> (IF q = before THEN children[q] \ {i} ELSE children[q])
                      \cup (IF q = after THEN {i} ELSE {})]

(* i moved to the end of an index, and whether that is out of order. *)
Others(k, i) == SelectSeq(order[k], LAMBDA j: j # i)

OutOfOrderByCursor(k, i, c) ==
    /\ Others(k, i) # <<>>
    /\ LET r == byType[k[1]][Last(Others(k, i))]
       IN r # None /\ c < CursorOf(r, k[2])

OutOfOrder(k, i, c) ==
    /\ Others(k, i) # <<>>
    /\ LET last == Last(Others(k, i))
           r == byType[k[1]][last]
       IN r # None /\ Precedes(c, i, CursorOf(r, k[2]), last)

TouchInPlace(K, i, c) ==
    /\ order' = [k \in Types \X Orders |->
                    IF k \in K /\ i \notin ToSet(order[k])
                    THEN Append(order[k], i) ELSE order[k]]
    /\ UNCHANGED dirty

Touch(K, i, c) ==
    /\ order' = [k \in Types \X Orders |->
                    IF k \in K THEN Append(Others(k, i), i) ELSE order[k]]
    /\ dirty' = [k \in Types \X Orders |->
                    dirty[k] \/ (k \in K /\ OutOfOrder(k, i, c))]

(* apply_committed of what prepare accepted, with cursor c. *)
ApplyCommitted(t, i, p, v, c) ==
    LET prev == byType[t][i]
        creates == ~Extant(t, i)
        was == IF prev = None THEN None ELSE prev.parent
        reviving == creates /\ prev # None
        moved == Reparent(i, was, p)
    IN
    /\ byType' = [byType EXCEPT ![t][i] =
                    [extant |-> TRUE, parent |-> p, version |-> v,
                     created |-> IF creates THEN c ELSE prev.created,
                     updated |-> c, health |-> now]]
    /\ typeOf' = [typeOf EXCEPT ![i] = t]
    /\ children' = IF reviving THEN [moved EXCEPT ![i] = {}] ELSE moved
    /\ Touch({t} \X (IF creates THEN Orders ELSE {"update"}), i, c)
    /\ lastCursor' = [lastCursor EXCEPT ![t] = Max({@, c})]
    /\ events' = <<<<IF creates THEN "added" ELSE "modified", t, i>>>>

NextCursorOfClock(t) == now

(* A standalone registry takes the cursor from its clock, or falls forward *)
(* by one; the log brings one that another member chose, in any order.     *)
NextCursor(t) == Max({now, lastCursor[t] + 1})

Register(t, i, p, v) ==
    /\ Prepare(t, i, p, v)
    /\ \E c \in IF Replicated THEN 1..MaxCursor ELSE {NextCursor(t)}:
          /\ c <= MaxCursor
          /\ ApplyCommitted(t, i, p, v, c)
    /\ UNCHANGED <<now, victims>>

----------------------------------------------------------------------------
(* Deletion *)

Ascending(S) == SetToSortSeq(S, LAMBDA i, j: i < j)

(* The children that a walk of the tree goes down to. *)
Below(i) == {c \in children[i]: FindAny(c)}

(* All that such a walk reaches: a path of extant resources has at most     *)
(* Depth of them, and so at most three.                                     *)
Descendants(top) ==
    {top} \cup Below(top) \cup UNION {Below(c): c \in Below(top)}

SubtreeParentFirst(top) ==
    <<top>> \o Ascending(Below(top))
            \o Ascending(UNION {Below(c): c \in Below(top)})

(* The order of the removals: descendants first, siblings by id. *)
Subtree(top) ==
    LET walk[d \in 0..Depth] ==
          [i \in Ids |->
             LET under == Ascending(Below(i))
             IN IF d = 0 THEN <<>>
                ELSE FlattenSeq([n \in DOMAIN under |-> walk[d - 1][under[n]]])
                     \o <<i>>]
    IN walk[Depth][top]

ErasedAhead(S) ==
    [t \in Types |-> [i \in Ids |->
        IF i \in S /\ typeOf[i] = t
        THEN [byType[t][i] EXCEPT !.extant = FALSE, !.health = now + 1]
        ELSE byType[t][i]]]

(* The tree without the resources S, which become tombstones. *)
Erased(S) ==
    [t \in Types |-> [i \in Ids |->
        IF i \in S /\ typeOf[i] = t
        THEN [byType[t][i] EXCEPT !.extant = FALSE, !.health = now]
        ELSE byType[t][i]]]

Removals(s) == [n \in 1..Len(s) |-> <<"removed", typeOf[s[n]], s[n]>>]

(* The log's removals are published deepest first, then by id. *)
ByDepth(s) ==
    SetToSortSeq(ToSet(s), LAMBDA i, j: typeOf[i] > typeOf[j]
                                          \/ (typeOf[i] = typeOf[j] /\ i < j))

Delete(t, i) ==
    /\ Extant(t, i)
    /\ byType' = Erased(Descendants(i))
    /\ events' = Removals(IF Replicated THEN ByDepth(Subtree(i)) ELSE Subtree(i))
    /\ UNCHANGED <<typeOf, children, order, dirty, lastCursor, now, victims>>

----------------------------------------------------------------------------
(* Health, collection and forgetting *)

Tick ==
    /\ now < MaxNow
    /\ now' = now + 1
    /\ events' = <<>>
    /\ UNCHANGED <<byType, typeOf, children, order, dirty, lastCursor, victims>>

(* A heartbeat refreshes a Node and all that is registered under it. *)
Heartbeat(i) ==
    /\ Extant(1, i)
    /\ byType' = [t \in Types |-> [j \in Ids |->
                    IF j \in Descendants(i) /\ typeOf[j] = t
                    THEN [byType[t][j] EXCEPT !.health = now]
                    ELSE byType[t][j]]]
    /\ events' = <<>>
    /\ UNCHANGED <<typeOf, children, order, dirty, lastCursor, now, victims>>

Expired == {i \in Ids: Extant(1, i) /\ byType[1][i].health < now - GcInterval}

Forgettable ==
    {i \in Ids: \E t \in Types:
        /\ byType[t][i] # None
        /\ ~byType[t][i].extant
        /\ byType[t][i].health < now - ForgetInterval}

DroppedListed(S) == {i \in S: typeOf[i] # None}

(* The tombstones of S are dropped; what is extant again stays. *)
Dropped(S) == {i \in S: typeOf[i] # None /\ ~FindAny(i)}

Forget(S, store) ==
    LET D == Dropped(S)
    IN /\ byType' = [t \in Types |-> [i \in Ids |->
                        IF i \in D /\ typeOf[i] = t THEN None ELSE store[t][i]]]
       /\ typeOf' = [i \in Ids |-> IF i \in D THEN None ELSE typeOf[i]]
       /\ children' = [i \in Ids |-> IF i \in D THEN {} ELSE children[i] \ D]
       /\ order' = [k \in Types \X Orders |->
                      SelectSeq(order[k], LAMBDA i: i \notin D \/ typeOf[i] # k[1])]
       /\ UNCHANGED dirty

(* collect_garbage of a standalone registry: expire, then forget. *)
CollectGarbage ==
    /\ ~Replicated
    /\ Expired \cup Forgettable # {}
    /\ \E nodes \in SetToSeqs(Expired):
          LET gone == FlattenSeq([n \in 1..Len(nodes) |-> Subtree(nodes[n])])
          IN /\ Forget(Forgettable, Erased(UNION {Descendants(i): i \in Expired}))
             /\ events' = Removals(gone)
    /\ UNCHANGED <<lastCursor, now, victims>>

(* One member decides what to forget ... *)
ProposeForget ==
    /\ Replicated
    /\ victims = {}
    /\ Forgettable # {}
    /\ victims' = Forgettable
    /\ events' = <<>>
    /\ UNCHANGED <<byType, typeOf, children, order, dirty, lastCursor, now>>

(* ... and every member applies the list, whatever was applied meanwhile. *)
ApplyForget ==
    /\ Replicated
    /\ victims # {}
    /\ Forget(victims, byType)
    /\ victims' = {}
    /\ events' = <<>>
    /\ UNCHANGED <<lastCursor, now>>

Next ==
    \/ \E t \in Types, i \in Ids, p \in Ids \cup {None}, v \in 0..MaxVersion:
          Register(t, i, p, v)
    \/ \E t \in Types, i \in Ids: Delete(t, i)
    \/ \E i \in Ids: Heartbeat(i)
    \/ \E t \in Types, o \in Orders: Query(t, o)
    \/ Tick
    \/ CollectGarbage
    \/ ProposeForget
    \/ ApplyForget

Spec == Init /\ [][Next]_vars

----------------------------------------------------------------------------
(* Properties *)

(* Referential integrity over every order of registrations, cascades,      *)
(* revivals and forgettings: an extant resource has an extant parent of    *)
(* the right type (_check_parent, _erase_subtree).                         *)
NoOrphans ==
    \A t \in DOMAIN byType: \A i \in DOMAIN byType[t]:
        Extant(t, i) /\ t > 1 =>
            byType[t][i].parent # None /\ Extant(t - 1, byType[t][i].parent)

(* The redundant indexes agree with the records: an id is in the bucket    *)
(* of its one type and in no other, and a resource is listed under a       *)
(* parent only if that is its parent and, while extant, always             *)
(* (_type_of, _children, _reparent, _forget).                              *)
IndexesAgree ==
    /\ \A t \in DOMAIN byType: \A i \in DOMAIN typeOf:
          byType[t][i] # None <=> typeOf[i] = t
    /\ \A i, q \in DOMAIN typeOf:
          /\ i \in children[q] =>
                typeOf[i] # None /\ byType[typeOf[i]][i].parent = q
          /\ FindAny(i) /\ byType[typeOf[i]][i].parent = q => i \in children[q]

(* The tree of resources is sound, whatever order registrations, cascades,  *)
(* revivals, collections and entries of the log come in.                   *)
TreeIsSound == NoOrphans /\ IndexesAgree

(* A Query walks the extant resources in (cursor, id) order, whatever      *)
(* order cursors arrived in, collided or moved back (_touch_order,         *)
(* iter_ordered).                                                          *)
ReadsInOrder ==
    \A t \in Types, o \in Orders:
        IterOrdered(t, o) = Sorted(t, o, {i \in Ids: Extant(t, i)})

(* A standalone registry never gives two records of a type one cursor      *)
(* (_next_cursor): a page that ends between them would skip one.           *)
CursorsDiffer ==
    \A t \in Types, o \in Orders, i, j \in Ids:
        (byType[t][i] # None /\ byType[t][j] # None /\ i # j)
        => CursorOf(byType[t][i], o) # CursorOf(byType[t][j], o)

(* What a subscriber that replays the events knows, without versions. *)
Live == {k \in Types \X Ids: Extant(k[1], k[2])}

Replay(view, ev) ==
    FoldLeft(LAMBDA s, e: IF e[1] = "removed" THEN s \ {<<e[2], e[3]>>}
                                              ELSE s \cup {<<e[2], e[3]>>},
             view, ev)

(* The events of an operation are the whole change, and replayed in order  *)
(* they never show a resource without its parent (_erase_subtree,          *)
(* _ordered, collect_garbage, forget).                                     *)
TellsTheChange ==
    /\ Replay(Live, events') = Live'
    /\ \A n \in 0..Len(events'):
          LET seen == Replay(Live, SubSeq(events', 1, n))
              parent(t, i) == IF Extant(t, i) THEN byType[t][i].parent
                                              ELSE byType'[t][i].parent
          IN \A e \in seen: e[1] > 1 => <<e[1] - 1, parent(e[1], e[2])>> \in seen

EventsTellTheChange == [][TellsTheChange]_vars

(* The claim on collect_garbage: the resources under an expired Node have  *)
(* expired themselves (refuted: registering one does not refresh its Node).*)
ExpireTogether ==
    \A i \in Expired: \A j \in Descendants(i):
        byType[typeOf[j]][j].health < now - GcInterval
====
