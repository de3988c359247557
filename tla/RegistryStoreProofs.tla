------------------------ MODULE RegistryStoreProofs ------------------------
(***************************************************************************)
(* The tree of RegistryStore stays sound, and a standalone registry never  *)
(* gives two records of a type one cursor, for every number of resources,  *)
(* every depth and every value of the bounds.                              *)
(*                                                                         *)
(* The argument: an operation either leaves the tree as it is, or places   *)
(* one resource under an extant parent, or takes away a set of resources   *)
(* that holds whatever is registered under its members.  That the set a    *)
(* cascade walks over is of this kind needs the children index to list     *)
(* every extant child, and paths to be no longer than the tree is deep.    *)
(***************************************************************************)
EXTENDS RegistryStore, TLAPS

Shape ==
    /\ byType \in [Types -> [Ids -> Record \cup {None}]]
    /\ typeOf \in [Ids -> Types \cup {None}]
    /\ children \in [Ids -> SUBSET Ids]
    /\ lastCursor \in [Types -> 0..MaxCursor]
    /\ now \in 0..MaxNow
    /\ victims \subseteq Ids

\* What is listed under a resource, and what lists it, by the record's type.
Indexed ==
    /\ \A t \in Types, i \in Ids: byType[t][i] # None <=> typeOf[i] = t
    /\ \A t \in Types, i, q \in Ids:
          typeOf[i] = t =>
             /\ i \in children[q] => byType[t][i].parent = q
             /\ Extant(t, i) /\ byType[t][i].parent = q => i \in children[q]
    /\ \A i, q \in Ids: i \in children[q] => typeOf[i] # None

\* An extant resource is a Node, or has an extant parent.
Rooted ==
    \A t \in Types, i \in Ids:
        Extant(t, i) =>
            IF t = 1 THEN byType[t][i].parent = None
            ELSE /\ byType[t][i].parent \in Ids
                 /\ Extant(t - 1, byType[t][i].parent)

\* An id is extant with type t after a step.
Lives(t, i) == byType'[t][i] # None /\ byType'[t][i].extant

TreeInv == Shape /\ Indexed /\ Rooted

\* What holds of the set a cascade takes away.
Closed(S) ==
    \A t \in Types, i \in Ids: Extant(t, i) /\ byType[t][i].parent \in S => i \in S

\* What S and D are when an operation makes tombstones of S and drops D.
Trims(S, D) ==
    /\ \A t \in Types, i \in Ids:
          byType'[t][i] = IF i \in D /\ typeOf[i] = t THEN None
                          ELSE IF i \in S /\ typeOf[i] = t
                          THEN [byType[t][i] EXCEPT !.extant = FALSE, !.health = now]
                          ELSE byType[t][i]
    /\ \A i \in Ids: typeOf'[i] = IF i \in D THEN None ELSE typeOf[i]
    /\ \A q \in Ids: children'[q] = IF q \in D THEN {} ELSE children[q] \ D

\* The records, their types and the children index are still of their kinds.
Tabled ==
    /\ byType' \in [Types -> [Ids -> Record \cup {None}]]
    /\ typeOf' \in [Ids -> Types \cup {None}]
    /\ children' \in [Ids -> SUBSET Ids]

\* An operation that refreshes records at most.
Refreshes ==
    /\ \A t \in Types, i \in Ids:
          \/ byType'[t][i] = byType[t][i]
          \/ /\ byType[t][i] # None
             /\ byType'[t][i] = [byType[t][i] EXCEPT !.health = now]
    /\ UNCHANGED <<typeOf, children>>

----------------------------------------------------------------------------
(* The tree.                                                               *)

LEMMA ConstantFacts ==
  /\ Ids \subseteq Nat /\ None \notin Ids /\ None \notin Types /\ None \notin Record
  /\ Types \subseteq Nat /\ 1 \in Types
  /\ \A t \in Types : t # 1 => t - 1 \in Types /\ t # t - 1
  /\ \A t \in Types : t <= 3
  /\ MaxCursor \in Nat /\ MaxNow \in Nat
<1>1. /\ Ids \subseteq Nat /\ Depth \in 1..3 /\ None \notin Int /\ None \notin Record
      /\ MaxCursor \in Nat /\ MaxNow \in Nat
  BY StoreAssumption DEF StoreConstants
<1>2. \A t \in Types : t \in Nat /\ 1 <= t /\ t <= 3
  BY <1>1 DEF Types
<1>3. \A t \in Types : t # 1 => t - 1 \in Types /\ t # t - 1
  BY <1>1 DEF Types
<1>4. 1 \in Types
  BY <1>1 DEF Types
<1>5. None \notin Ids /\ None \notin Types
  <2>1. \A x \in Int : x # None
    BY <1>1
  <2>2. \A x \in Ids : x \in Int
    BY <1>1
  <2>3. \A x \in Types : x \in Int
    BY <1>2
  <2>4. QED
    BY <2>1, <2>2, <2>3
<1>6. QED
  BY <1>1, <1>2, <1>3, <1>4, <1>5

\* A record is not None, and has the fields of one.
LEMMA RecordFacts ==
  ASSUME Shape, NEW t \in Types, NEW i \in Ids, byType[t][i] # None
  PROVE  /\ byType[t][i] \in Record
         /\ byType[t][i].extant \in BOOLEAN
         /\ byType[t][i].parent \in Ids \cup {None}
         /\ byType[t][i].created \in 0..MaxCursor
         /\ byType[t][i].updated \in 0..MaxCursor
BY DEF Shape, Record

\* A refreshed or erased record is a record.
LEMMA RecordUpdates ==
  ASSUME NEW r \in Record, now \in 0..MaxNow
  PROVE  /\ [r EXCEPT !.health = now] \in Record
         /\ [r EXCEPT !.health = now].extant = r.extant
         /\ [r EXCEPT !.health = now].parent = r.parent
         /\ [r EXCEPT !.health = now].created = r.created
         /\ [r EXCEPT !.health = now].updated = r.updated
         /\ [r EXCEPT !.extant = FALSE, !.health = now] \in Record
         /\ [r EXCEPT !.extant = FALSE, !.health = now].extant = FALSE
         /\ [r EXCEPT !.extant = FALSE, !.health = now].parent = r.parent
         /\ [r EXCEPT !.extant = FALSE, !.health = now].created = r.created
         /\ [r EXCEPT !.extant = FALSE, !.health = now].updated = r.updated
BY DEF Record

\* An id is extant with one type, the one it is registered with.
LEMMA OneType ==
  ASSUME TreeInv, NEW i \in Ids
  PROVE  /\ \A t \in Types : Extant(t, i) => typeOf[i] = t
         /\ FindAny(i) => typeOf[i] \in Types /\ Extant(typeOf[i], i)
BY DEF TreeInv, Shape, Indexed, Extant, FindAny

\* Of a child that a walk goes down to, the record says where it comes from.
LEMMA BelowFacts ==
  ASSUME TreeInv, NEW i \in Ids, NEW t \in Types, NEW j \in Ids, j \in Below(i), Extant(t, j)
  PROVE  t # 1 /\ Extant(t - 1, i)
<1>1. typeOf[j] = t /\ j \in children[i]
  BY OneType DEF Below
<1>2. byType[t][j].parent = i
  BY <1>1 DEF TreeInv, Indexed
<1>3. QED
  BY <1>2, ConstantFacts DEF TreeInv, Rooted

\* And the other way about.
LEMMA ExtantIsBelow ==
  ASSUME TreeInv, NEW t \in Types, NEW j \in Ids, Extant(t, j), byType[t][j].parent \in Ids
  PROVE  j \in Below(byType[t][j].parent)
<1>1. typeOf[j] = t
  BY OneType
<1>2. j \in children[byType[t][j].parent]
  BY <1>1 DEF TreeInv, Indexed
<1>3. FindAny(j)
  BY <1>1, ConstantFacts DEF FindAny
<1>4. QED
  BY <1>2, <1>3 DEF Below

\* What a cascade walks over holds all that is registered under it
\* (_erase_subtree, _set_health_recursive).
LEMMA DescendantsClosed ==
  ASSUME TreeInv, NEW top \in Ids
  PROVE  Descendants(top) \subseteq Ids /\ Closed(Descendants(top))
<1>1. \A i \in Ids : Below(i) \subseteq Ids
  BY DEF TreeInv, Shape, Below
<1>2. Descendants(top) \subseteq Ids
  BY <1>1 DEF Descendants
<1>3. ASSUME NEW t \in Types, NEW j \in Ids, Extant(t, j),
             byType[t][j].parent \in Descendants(top)
      PROVE  j \in Descendants(top)
  <2> DEFINE p == byType[t][j].parent
  <2>1. p \in Ids /\ j \in Below(p)
    BY <1>2, <1>3, ExtantIsBelow
  <2>2. t # 1 /\ t - 1 \in Types /\ Extant(t - 1, p)
    BY <1>3, <2>1, BelowFacts, ConstantFacts
  <2> HIDE DEF p
  <2>3. p \in Descendants(top)
    BY <1>3 DEF p
  <2>4. CASE p = top
    BY <2>1, <2>4 DEF Descendants
  <2>5. CASE p \in Below(top)
    BY <2>1, <2>5 DEF Descendants
  <2>6. CASE p \in UNION {Below(c) : c \in Below(top)}
    <3>1. PICK c \in Below(top) : p \in Below(c)
      BY <2>6
    <3>2. c \in Ids
      BY <1>1, <3>1
    <3>3. t - 1 # 1 /\ t - 1 - 1 \in Types /\ Extant(t - 1 - 1, c)
      BY <2>1, <2>2, <3>1, <3>2, BelowFacts, ConstantFacts
    <3>4. t - 1 - 1 # 1
      BY <3>1, <3>2, <3>3, BelowFacts
    <3>5. QED
      BY <2>2, <3>3, <3>4, ConstantFacts
  <2>7. QED
    BY <2>3, <2>4, <2>5, <2>6 DEF Descendants
<1>4. QED
  BY <1>2, <1>3 DEF Closed

\* Taking a closed set away, and dropping tombstones, keeps the tree.
LEMMA TrimKeeps ==
  ASSUME TreeInv, Shape', NEW S, Closed(S), NEW D, Trims(S, D),
         \A i \in D : ~FindAny(i)
  PROVE  Indexed' /\ Rooted'
<1>1. \A t \in Types, i \in Ids :
         /\ (byType'[t][i] # None) <=> (byType[t][i] # None /\ ~(i \in D /\ typeOf[i] = t))
         /\ byType'[t][i] # None => byType'[t][i].parent = byType[t][i].parent
         /\ Lives(t, i) <=> Extant(t, i) /\ i \notin S
  <2>1. TAKE t \in Types, i \in Ids
  <2>2. typeOf[i] = t <=> byType[t][i] # None
    BY DEF TreeInv, Indexed
  <2>3. CASE typeOf[i] # t
    <3>1. byType[t][i] = None /\ byType'[t][i] = None
      BY <2>2, <2>3 DEF Trims
    <3>2. QED
      BY <2>3, <3>1 DEF Extant, Lives
  <2>4. CASE typeOf[i] = t /\ i \in D
    <3>1. ~Extant(t, i) /\ byType'[t][i] = None
      BY <2>4, ConstantFacts DEF Trims, FindAny
    <3>2. QED
      BY <2>2, <2>4, <3>1 DEF Extant, Lives
  <2>5. CASE typeOf[i] = t /\ i \notin D
    <3>1. byType[t][i] \in Record /\ now \in 0..MaxNow /\ byType[t][i] # None
      BY <2>2, <2>5, RecordFacts DEF TreeInv, Shape
    <3>2. CASE i \in S
      <4>1. byType'[t][i] = [byType[t][i] EXCEPT !.extant = FALSE, !.health = now]
        BY <2>5, <3>2 DEF Trims
      <4>2. /\ byType'[t][i] \in Record /\ byType'[t][i].extant = FALSE
            /\ byType'[t][i].parent = byType[t][i].parent
        BY <3>1, <4>1, RecordUpdates
      <4>3. byType'[t][i] # None
        BY <4>2, ConstantFacts
      <4>4. QED
        BY <2>5, <3>1, <3>2, <4>2, <4>3 DEF Extant, Lives
    <3>3. CASE i \notin S
      <4>1. byType'[t][i] = byType[t][i]
        BY <2>5, <3>3 DEF Trims
      <4>2. QED
        BY <2>5, <3>1, <3>3, <4>1 DEF Extant, Lives
    <3>4. QED
      BY <3>2, <3>3
  <2>6. QED
    BY <2>3, <2>4, <2>5
<1>2. /\ \A i \in Ids : typeOf'[i] = IF i \in D THEN None ELSE typeOf[i]
      /\ \A q \in Ids : children'[q] = IF q \in D THEN {} ELSE children[q] \ D
  BY DEF Trims
<1>3. ASSUME NEW t \in Types, NEW i \in Ids, Lives(t, i)
      PROVE  IF t = 1 THEN byType'[t][i].parent = None
             ELSE /\ byType'[t][i].parent \in Ids
                  /\ Lives(t - 1, byType'[t][i].parent)
  <2>1. Extant(t, i) /\ i \notin S /\ byType'[t][i].parent = byType[t][i].parent
    BY <1>1, <1>3 DEF Lives
  <2>2. CASE t = 1
    BY <2>1, <2>2 DEF TreeInv, Rooted
  <2>3. CASE t # 1
    <3> DEFINE p == byType[t][i].parent
    <3>1. p \in Ids /\ Extant(t - 1, p)
      BY <2>1, <2>3 DEF TreeInv, Rooted
    <3>2. p \notin S
      BY <2>1 DEF Closed
    <3>3. t - 1 \in Types
      BY <2>3, ConstantFacts
    <3> HIDE DEF p
    <3>4. Lives(t - 1, p)
      BY <1>1, <3>1, <3>2, <3>3
    <3>5. QED
      BY <2>1, <2>3, <3>1, <3>4 DEF p
  <2>4. QED
    BY <2>2, <2>3
<1>4. Rooted'
  BY <1>3 DEF Rooted, Extant, Lives
<1>5. ASSUME NEW t \in Types, NEW i \in Ids
      PROVE  byType'[t][i] # None <=> typeOf'[i] = t
  BY <1>1, <1>2, ConstantFacts DEF TreeInv, Indexed
<1>6. ASSUME NEW t \in Types, NEW i \in Ids, NEW q \in Ids, typeOf'[i] = t
      PROVE  /\ i \in children'[q] => byType'[t][i].parent = q
             /\ (Lives(t, i) /\ byType'[t][i].parent = q) => i \in children'[q]
  <2>1. i \notin D /\ typeOf[i] = t
    BY <1>2, <1>6, ConstantFacts
  <2>2. byType'[t][i].parent = byType[t][i].parent
    BY <1>1, <1>5, <1>6
  <2>3. ASSUME i \in children'[q] PROVE byType'[t][i].parent = q
    <3>1. i \in children[q]
      BY <1>2, <2>3
    <3>2. QED
      BY <2>1, <2>2, <3>1 DEF TreeInv, Indexed
  <2>4. ASSUME Lives(t, i), byType'[t][i].parent = q PROVE i \in children'[q]
    <3>1. Extant(t, i) /\ byType[t][i].parent = q
      BY <1>1, <2>2, <2>4
    <3>2. i \in children[q]
      BY <2>1, <3>1 DEF TreeInv, Indexed
    <3>3. t # 1 /\ Extant(t - 1, q) /\ t - 1 \in Types
      BY <3>1, ConstantFacts DEF TreeInv, Rooted
    <3>4. FindAny(q)
      BY <3>3, OneType, ConstantFacts DEF FindAny
    <3>5. QED
      BY <1>2, <2>1, <3>2, <3>4
  <2>5. QED
    BY <2>3, <2>4
<1>7. \A i, q \in Ids : i \in children'[q] => typeOf'[i] # None
  <2>1. SUFFICES ASSUME NEW i \in Ids, NEW q \in Ids, i \in children'[q]
                 PROVE  typeOf'[i] # None
    OBVIOUS
  <2>2. children'[q] \subseteq children[q] \ D
    <3>1. CASE q \in D
      BY <1>2, <3>1
    <3>2. CASE q \notin D
      BY <1>2, <3>2
    <3>3. QED
      BY <3>1, <3>2
  <2>3. i \in children[q] /\ i \notin D
    BY <2>1, <2>2
  <2>4. typeOf'[i] = typeOf[i]
    BY <1>2, <2>3
  <2>5. typeOf[i] # None
    BY <2>3, Zenon DEF TreeInv, Indexed
  <2>6. QED
    BY <2>4, <2>5
<1>8. Indexed'
  BY <1>5, <1>6, <1>7 DEF Indexed, Extant, Lives
<1>9. QED
  BY <1>4, <1>8

\* Refreshing records keeps the tree.
LEMMA RefreshKeeps ==
  ASSUME TreeInv, Refreshes
  PROVE  Indexed' /\ Rooted'
<1>1. \A t \in Types, i \in Ids :
         /\ byType'[t][i] # None <=> byType[t][i] # None
         /\ byType'[t][i].parent = byType[t][i].parent
         /\ Lives(t, i) <=> Extant(t, i)
  <2>1. TAKE t \in Types, i \in Ids
  <2>2. CASE byType'[t][i] = byType[t][i]
    BY <2>2 DEF Extant, Lives
  <2>3. CASE byType[t][i] # None /\ byType'[t][i] = [byType[t][i] EXCEPT !.health = now]
    <3>1. byType[t][i] \in Record /\ now \in 0..MaxNow
      BY <2>3, RecordFacts DEF TreeInv, Shape
    <3>2. /\ byType'[t][i] \in Record /\ byType'[t][i].extant = byType[t][i].extant
          /\ byType'[t][i].parent = byType[t][i].parent
      BY <2>3, <3>1, RecordUpdates
    <3>3. byType'[t][i] # None
      BY <3>2, ConstantFacts
    <3>4. QED
      BY <2>3, <3>2, <3>3 DEF Extant, Lives
  <2>4. QED
    BY <2>2, <2>3 DEF Refreshes
<1>2. typeOf' = typeOf /\ children' = children
  BY DEF Refreshes
<1>3. Indexed'
  BY <1>1, <1>2 DEF TreeInv, Indexed, Extant, Lives
<1>4. \A t \in Types : t # 1 => t - 1 \in Types
  BY ConstantFacts
<1>5. Rooted'
  BY <1>1, <1>4 DEF TreeInv, Rooted, Extant, Lives
<1>6. QED
  BY <1>3, <1>5

\* Placing a resource under an extant parent keeps the tree (prepare,
\* apply_committed, _reparent).
LEMMA RegisterKeeps ==
  ASSUME TreeInv, NEW t \in Types, NEW i \in Ids, NEW p \in Ids \cup {None},
         NEW v \in 0..MaxVersion, NEW c \in 0..MaxCursor,
         Prepare(t, i, p, v), ApplyCommitted(t, i, p, v, c)
  PROVE  Indexed' /\ Rooted'
<1> DEFINE prev == byType[t][i]
           was == IF prev = None THEN None ELSE prev.parent
           creates == ~Extant(t, i)
<1>1. /\ typeOf[i] \in {None, t} /\ CheckParent(t, p)
      /\ Extant(t, i) => p = prev.parent
  BY DEF Prepare, CheckType, CheckUpdate
<1>2. /\ \A u \in Types, j \in Ids : (u # t \/ j # i) => byType'[u][j] = byType[u][j]
      /\ byType'[t][i].extant = TRUE /\ byType'[t][i].parent = p
      /\ byType'[t][i] # None
  <2> DEFINE r == [extant |-> TRUE, parent |-> p, version |-> v,
                   created |-> IF creates THEN c ELSE prev.created,
                   updated |-> c, health |-> now]
  <2>1. byType' = [byType EXCEPT ![t][i] = r]
    BY DEF ApplyCommitted
  <2>2. r.extant = TRUE /\ r.parent = p
    OBVIOUS
  <2> HIDE DEF r
  <2>3. byType \in [Types -> [Ids -> Record \cup {None}]]
    BY DEF TreeInv, Shape
  <2>4. byType'[t][i] = r
    BY <2>1, <2>3
  <2>5. \A u \in Types, j \in Ids : (u # t \/ j # i) => byType'[u][j] = byType[u][j]
    BY <2>1, <2>3
  <2>6. r \in Record
    <3>1. prev # None => prev.created \in 0..MaxCursor
      BY RecordFacts DEF TreeInv
    <3>2. now \in 0..MaxNow
      BY DEF TreeInv, Shape
    <3>3. ~creates => prev # None
      BY DEF Extant
    <3>4. (IF creates THEN c ELSE prev.created) \in 0..MaxCursor
      BY <3>1, <3>3
    <3> HIDE DEF creates, prev
    <3>5. QED
      BY <3>2, <3>4 DEF Record, r
  <2>7. r # None
    BY <2>6, ConstantFacts
  <2>8. QED
    BY <2>2, <2>4, <2>5, <2>7
<1>3. typeOf'[i] = t /\ \A j \in Ids \ {i} : typeOf'[j] = typeOf[j]
  BY DEF ApplyCommitted, TreeInv, Shape
<1>4. \A q \in Ids :
         children'[q] = IF creates /\ prev # None /\ q = i THEN {}
                        ELSE (IF q = was THEN children[q] \ {i} ELSE children[q])
                               \cup (IF q = p THEN {i} ELSE {})
  BY DEF ApplyCommitted, Reparent
<1>5. IF t = 1 THEN p = None
      ELSE p \in Ids /\ p # i /\ t - 1 \in Types /\ t - 1 # t /\ Extant(t - 1, p)
  BY <1>1, ConstantFacts DEF CheckParent
<1>6. \A u \in Types : u # t => byType[u][i] = None
  BY <1>1, ConstantFacts DEF TreeInv, Indexed
<1>7. prev # None => typeOf[i] = t
  BY DEF TreeInv, Indexed
<1> HIDE DEF creates
<1>8. \A u \in Types, j \in Ids : Extant(u, j) => Lives(u, j)
  BY <1>2 DEF Extant, Lives
<1>4a. \A q \in Ids : children'[q] \subseteq children[q] \cup {i}
  <2>1. TAKE q \in Ids
  <2> HIDE DEF prev, was
  <2>2. CASE creates /\ prev # None /\ q = i
    <3>1. children'[q] = {}
      BY <1>4, <2>2
    <3>2. QED
      BY <3>1
  <2>3. CASE ~(creates /\ prev # None /\ q = i)
    <3>1. children'[q] = (IF q = was THEN children[q] \ {i} ELSE children[q])
                            \cup (IF q = p THEN {i} ELSE {})
      BY <1>4, <2>3
    <3>2. QED
      BY <3>1
  <2>4. QED
    BY <2>2, <2>3
<1>9. \A u \in Types, j \in Ids : Lives(u, j) => (u = t /\ j = i) \/ (j # i /\ Extant(u, j))
  BY <1>2, <1>6 DEF Extant, Lives
<1>10. ASSUME NEW u \in Types, NEW j \in Ids, Lives(u, j)
       PROVE  IF u = 1 THEN byType'[u][j].parent = None
              ELSE /\ byType'[u][j].parent \in Ids
                   /\ Lives(u - 1, byType'[u][j].parent)
  <2>1. CASE u = t /\ j = i
    BY <1>2, <1>5, <1>8, <2>1
  <2>2. CASE j # i /\ Extant(u, j)
    <3>1. byType'[u][j] = byType[u][j]
      BY <1>2, <2>2
    <3>2. u # 1 => u - 1 \in Types
      BY ConstantFacts
    <3>3. QED
      BY <1>8, <2>2, <3>1, <3>2 DEF TreeInv, Rooted
  <2>3. QED
    BY <1>9, <1>10, <2>1, <2>2
<1>11. Rooted'
  BY <1>10 DEF Rooted, Extant, Lives
<1>12. ASSUME NEW u \in Types, NEW j \in Ids
       PROVE  byType'[u][j] # None <=> typeOf'[j] = u
  <2>1. CASE j = i
    BY <1>2, <1>3, <1>6, <2>1
  <2>2. CASE j # i
    BY <1>2, <1>3, <2>2 DEF TreeInv, Indexed
  <2>3. QED
    BY <2>1, <2>2
<1>13. ASSUME NEW q \in Ids, i \in children'[q]
       PROVE  q = p
  <2>1. CASE q # p
    <3>1. i \in children[q] /\ q # was
      BY <1>4, <1>13, <2>1
    <3>2. typeOf[i] = t /\ prev # None
      BY <1>1, <3>1 DEF TreeInv, Indexed
    <3>3. prev.parent = q
      BY <3>1, <3>2 DEF TreeInv, Indexed
    <3>4. QED
      BY <3>1, <3>2, <3>3
  <2>2. QED
    BY <2>1
\* A resource that is created has nothing extant under it.
<1>14. ASSUME NEW u \in Types, NEW j \in Ids, Extant(u, j), byType[u][j].parent = i
       PROVE  ~creates
  <2>1. u # 1 /\ u - 1 \in Types /\ Extant(u - 1, i)
    BY <1>14, ConstantFacts DEF TreeInv, Rooted
  <2>2. typeOf[i] = u - 1
    BY <2>1, OneType
  <2>3. u - 1 = t
    BY <1>1, <2>1, <2>2, ConstantFacts
  <2>4. QED
    BY <2>1, <2>3 DEF creates
<1>15. ASSUME NEW u \in Types, NEW j \in Ids, NEW q \in Ids, typeOf'[j] = u
       PROVE  /\ j \in children'[q] => byType'[u][j].parent = q
              /\ (Lives(u, j) /\ byType'[u][j].parent = q) => j \in children'[q]
  <2>1. CASE j = i
    <3>1. u = t /\ byType'[u][j].parent = p
      BY <1>2, <1>3, <1>15, <2>1
    <3>2. q = p => q # i
      BY <1>5, ConstantFacts
    <3>3. q = p => i \in children'[q]
      BY <1>4, <3>2
    <3>4. QED
      BY <1>13, <2>1, <3>1, <3>3
  <2>2. CASE j # i
    <3>1. byType'[u][j] = byType[u][j] /\ typeOf[j] = u
      BY <1>2, <1>3, <1>15, <2>2
    <3>2. j \in children'[q] => j \in children[q]
      BY <1>4a, <2>2
    <3>3. ASSUME Lives(u, j), byType'[u][j].parent = q
          PROVE  j \in children'[q]
      <4>1. Extant(u, j) /\ byType[u][j].parent = q
        BY <3>1, <3>3 DEF Lives, Extant
      <4>2. j \in children[q]
        BY <3>1, <4>1 DEF TreeInv, Indexed
      <4>3. ~(creates /\ prev # None /\ q = i)
        BY <1>14, <4>1
      <4>4. QED
        BY <1>4, <2>2, <4>2, <4>3
    <3>4. j \in children[q] => byType[u][j].parent = q
      BY <3>1 DEF TreeInv, Indexed
    <3>5. QED
      BY <3>1, <3>2, <3>3, <3>4
  <2>3. QED
    BY <2>1, <2>2
<1>16. \A j, q \in Ids : j \in children'[q] => typeOf'[j] # None
  <2>1. TAKE j, q \in Ids
  <2>2. CASE j = i
    BY <1>3, <2>2, ConstantFacts
  <2>3. CASE j # i
    <3>1. j \in children'[q] => j \in children[q]
      BY <1>4a, <2>3
    <3>2. QED
      BY <1>3, <2>3, <3>1 DEF TreeInv, Indexed
  <2>4. QED
    BY <2>2, <2>3
<1>17. Indexed'
  BY <1>12, <1>15, <1>16 DEF Indexed, Extant, Lives
<1>18. QED
  BY <1>11, <1>17

----------------------------------------------------------------------------
(* The operations.                                                         *)

\* What a trimmed record is: none, a tombstone, or itself.
LEMMA TrimmedRecord ==
  ASSUME TreeInv, NEW S, NEW D, NEW t \in Types, NEW i \in Ids
  PROVE  (IF i \in D /\ typeOf[i] = t THEN None
          ELSE IF i \in S /\ typeOf[i] = t
          THEN [byType[t][i] EXCEPT !.extant = FALSE, !.health = now]
          ELSE byType[t][i]) \in Record \cup {None}
<1>1. byType[t][i] \in Record \cup {None} /\ now \in 0..MaxNow
  BY DEF TreeInv, Shape
<1>2. typeOf[i] = t => byType[t][i] \in Record
  BY RecordFacts DEF TreeInv, Indexed
<1>3. typeOf[i] = t => [byType[t][i] EXCEPT !.extant = FALSE, !.health = now] \in Record
  BY <1>1, <1>2, RecordUpdates
<1>4. QED
  BY <1>1, <1>3

LEMMA DeleteTrims ==
  ASSUME TreeInv, NEW t \in Types, NEW i \in Ids, Delete(t, i)
  PROVE  Trims(Descendants(i), {}) /\ Tabled
<1> DEFINE S == Descendants(i)
           N == {}
           after(u, j) == IF j \in N /\ typeOf[j] = u THEN None
                          ELSE IF j \in S /\ typeOf[j] = u
                          THEN [byType[u][j] EXCEPT !.extant = FALSE, !.health = now]
                          ELSE byType[u][j]
<1>1. byType' = Erased(S) /\ UNCHANGED <<typeOf, children>>
  BY DEF Delete
<1>2. /\ typeOf \in [Ids -> Types \cup {None}]
      /\ children \in [Ids -> SUBSET Ids]
  BY DEF TreeInv, Shape
<1> HIDE DEF S
<1>3. byType' = [u \in Types |-> [j \in Ids |-> after(u, j)]]
  BY <1>1 DEF Erased
<1>4. \A u \in Types, j \in Ids : byType'[u][j] = after(u, j)
  BY <1>3
<1>5. Trims(S, {})
  BY <1>1, <1>2, <1>4 DEF Trims
<1> HIDE DEF N
<1>6. \A u \in Types, j \in Ids : after(u, j) \in Record \cup {None}
  BY TrimmedRecord
<1> HIDE DEF after
<1>7. Tabled
  BY <1>1, <1>2, <1>3, <1>6 DEF Tabled
<1>8. QED
  BY <1>5, <1>7 DEF S

\* Forgetting D after the tree has lost S.
LEMMA ForgetTrims ==
  ASSUME TreeInv, NEW S, NEW V, NEW store,
         store = Erased(S) \/ (store = byType /\ S = {}),
         Forget(V, store), Dropped(V) \subseteq Ids
  PROVE  Trims(S, Dropped(V)) /\ Tabled
<1> DEFINE D == Dropped(V)
<1>1. /\ byType' = [u \in Types |-> [j \in Ids |->
                        IF j \in D /\ typeOf[j] = u THEN None ELSE store[u][j]]]
      /\ typeOf' = [j \in Ids |-> IF j \in D THEN None ELSE typeOf[j]]
      /\ children' = [j \in Ids |-> IF j \in D THEN {} ELSE children[j] \ D]
  BY DEF Forget
<1>2. /\ typeOf \in [Ids -> Types \cup {None}]
      /\ children \in [Ids -> SUBSET Ids]
  BY DEF TreeInv, Shape
<1> HIDE DEF D
<1> DEFINE kept(u, j) == IF j \in S /\ typeOf[j] = u
                         THEN [byType[u][j] EXCEPT !.extant = FALSE, !.health = now]
                         ELSE byType[u][j]
           after(u, j) == IF j \in D /\ typeOf[j] = u THEN None ELSE kept(u, j)
<1>3. \A u \in Types, j \in Ids : store[u][j] = kept(u, j)
  <2>1. CASE store = Erased(S)
    BY <2>1 DEF Erased
  <2>2. CASE store = byType /\ S = {}
    BY <2>2
  <2>3. QED
    BY <2>1, <2>2
<1>4. \A u \in Types, j \in Ids : after(u, j) \in Record \cup {None}
  BY TrimmedRecord
<1> HIDE DEF kept
<1>5. \A u \in Types, j \in Ids : byType'[u][j] = after(u, j)
  BY <1>1, <1>3
<1>6. byType' \in [Types -> [Ids -> Record \cup {None}]]
  <2>1. \A u \in Types, j \in Ids :
           (IF j \in D /\ typeOf[j] = u THEN None ELSE store[u][j]) \in Record \cup {None}
    BY <1>3, <1>4
  <2>2. QED
    BY <1>1, <2>1
<1>7. Tabled
  BY <1>1, <1>2, <1>6 DEF Tabled
<1>8. Trims(S, D)
  BY <1>1, <1>5 DEF Trims, kept
<1>9. QED
  BY <1>7, <1>8 DEF D

LEMMA HeartbeatRefreshes ==
  ASSUME TreeInv, NEW i \in Ids, Heartbeat(i)
  PROVE  Refreshes /\ Tabled
<1> DEFINE S == Descendants(i)
           after(u, j) == IF j \in S /\ typeOf[j] = u
                          THEN [byType[u][j] EXCEPT !.health = now] ELSE byType[u][j]
<1>1. byType' = [u \in Types |-> [j \in Ids |-> after(u, j)]]
      /\ UNCHANGED <<typeOf, children>>
  BY DEF Heartbeat
<1> HIDE DEF S
<1>2. /\ typeOf \in [Ids -> Types \cup {None}]
      /\ children \in [Ids -> SUBSET Ids] /\ now \in 0..MaxNow
      /\ \A u \in Types, j \in Ids : byType[u][j] \in Record \cup {None}
  BY DEF TreeInv, Shape
<1>3. \A u \in Types, j \in Ids : typeOf[j] = u => byType[u][j] # None /\ byType[u][j] \in Record
  BY RecordFacts DEF TreeInv, Indexed
<1>4. \A u \in Types, j \in Ids : after(u, j) \in Record \cup {None}
  BY <1>2, <1>3, RecordUpdates
<1>5. Refreshes
  BY <1>1, <1>3 DEF Refreshes
<1> HIDE DEF after
<1>6. Tabled
  BY <1>1, <1>2, <1>4 DEF Tabled
<1>7. QED
  BY <1>5, <1>6

\* The greater of two numbers.
LEMMA MaxOfTwo ==
  ASSUME NEW a \in Nat, NEW b \in Nat
  PROVE  /\ Max({a, b}) \in {a, b}
         /\ Max({a, b}) >= a /\ Max({a, b}) >= b
<1>1. \E x \in {a, b} : \A y \in {a, b} : x >= y
  BY a >= b \/ b >= a
<1>2. Max({a, b}) \in {a, b} /\ \A y \in {a, b} : Max({a, b}) >= y
  BY <1>1 DEF Max
<1>3. QED
  BY <1>2

\* A registry's own cursor is beyond every cursor of the type (_next_cursor).
LEMMA NextCursorIs ==
  ASSUME Shape, NEW t \in Types
  PROVE  NextCursor(t) \in Nat /\ NextCursor(t) > lastCursor[t] /\ lastCursor[t] \in Nat
<1>1. now \in Nat /\ lastCursor[t] \in Nat
  BY ConstantFacts DEF Shape
<1>2. lastCursor[t] + 1 \in Nat
  BY <1>1
<1> DEFINE b == lastCursor[t] + 1
<1>3. b \in Nat /\ b > lastCursor[t] /\ NextCursor(t) = Max({now, b})
  BY <1>1 DEF NextCursor
<1> HIDE DEF b
<1>4. Max({now, b}) \in {now, b} /\ Max({now, b}) >= b
  BY <1>1, <1>3, MaxOfTwo
<1>5. QED
  BY <1>1, <1>3, <1>4

\* Which move an operation is.
Registers ==
    \E t \in Types, i \in Ids, p \in Ids \cup {None}, v \in 0..MaxVersion, c \in 0..MaxCursor :
        /\ Prepare(t, i, p, v) /\ ApplyCommitted(t, i, p, v, c)
        /\ ~Replicated => c = NextCursor(t)
        /\ UNCHANGED <<now, victims>>

StoreMove ==
    \/ Registers
    \/ /\ \E S, D : /\ Closed(S) /\ Trims(S, D) /\ \A i \in D : ~FindAny(i)
       /\ Tabled /\ UNCHANGED <<lastCursor, now>> /\ victims' \subseteq Ids
    \/ /\ Refreshes /\ Tabled /\ UNCHANGED lastCursor
       /\ now' \in 0..MaxNow /\ victims' \subseteq Ids

LEMMA StillTabled ==
  ASSUME TreeInv, UNCHANGED <<byType, typeOf, children>>
  PROVE  Refreshes /\ Tabled
BY DEF TreeInv, Shape, Refreshes, Tabled

LEMMA StoreMoves ==
  ASSUME TreeInv, [Next]_vars
  PROVE  StoreMove
<1>1. /\ now \in 0..MaxNow /\ MaxNow \in Nat /\ victims \subseteq Ids
      /\ Forgettable \subseteq Ids /\ Expired \subseteq Ids
  BY ConstantFacts DEF TreeInv, Shape, Forgettable, Expired
<1>2. ASSUME NEW t \in Types, NEW i \in Ids, NEW p \in Ids \cup {None},
             NEW v \in 0..MaxVersion, Register(t, i, p, v)
      PROVE  StoreMove
  <2>1. PICK c \in IF Replicated THEN 1..MaxCursor ELSE {NextCursor(t)} :
            c <= MaxCursor /\ ApplyCommitted(t, i, p, v, c)
    BY <1>2 DEF Register
  <2>2. ~Replicated => c = NextCursor(t)
    BY <2>1
  <2>3. c \in 0..MaxCursor
    <3>1. CASE Replicated
      BY <2>1, <3>1, ConstantFacts
    <3>2. CASE ~Replicated
      <4>1. c = NextCursor(t)
        BY <2>1, <3>2
      <4>2. c \in Nat
        BY <4>1, NextCursorIs DEF TreeInv
      <4>3. QED
        BY <2>1, <4>2, ConstantFacts
    <3>3. QED
      BY <3>1, <3>2
  <2>4. Registers
    BY <1>2, <2>1, <2>2, <2>3 DEF Register, Registers
  <2>5. QED
    BY <2>4 DEF StoreMove
<1>3. ASSUME NEW t \in Types, NEW i \in Ids, Delete(t, i)
      PROVE  StoreMove
  <2>1. Trims(Descendants(i), {}) /\ Tabled /\ Closed(Descendants(i))
    BY <1>3, DeleteTrims, DescendantsClosed
  <2>2. UNCHANGED <<lastCursor, now, victims>>
    BY <1>3 DEF Delete
  <2>3. QED
    BY <1>1, <2>1, <2>2 DEF StoreMove
<1>4. ASSUME NEW i \in Ids, Heartbeat(i)
      PROVE  StoreMove
  <2>1. Refreshes /\ Tabled
    BY <1>4, HeartbeatRefreshes
  <2>2. UNCHANGED <<lastCursor, now, victims>>
    BY <1>4 DEF Heartbeat
  <2>3. QED
    BY <1>1, <2>1, <2>2 DEF StoreMove
<1>5. CASE CollectGarbage
  <2> DEFINE S == UNION {Descendants(i) : i \in Expired}
  <2>1. Forget(Forgettable, Erased(S)) /\ UNCHANGED <<lastCursor, now, victims>>
    BY <1>5 DEF CollectGarbage
  <2>2. Dropped(Forgettable) \subseteq Ids /\ \A i \in Dropped(Forgettable) : ~FindAny(i)
    BY <1>1 DEF Dropped
  <2>3. Closed(S)
    <3>1. \A i \in Expired : Closed(Descendants(i))
      BY <1>1, DescendantsClosed
    <3>2. QED
      BY <3>1 DEF Closed
  <2> HIDE DEF S
  <2>4. Trims(S, Dropped(Forgettable)) /\ Tabled
    BY <2>1, <2>2, ForgetTrims
  <2>5. QED
    BY <1>1, <2>1, <2>2, <2>3, <2>4 DEF StoreMove
<1>6. CASE ApplyForget
  <2> DEFINE S == {}
  <2>1. Forget(victims, byType) /\ victims' = {} /\ UNCHANGED <<lastCursor, now>>
    BY <1>6 DEF ApplyForget
  <2>2. Dropped(victims) \subseteq Ids /\ \A i \in Dropped(victims) : ~FindAny(i)
    BY <1>1 DEF Dropped
  <2>3. Closed(S) /\ S = {}
    BY DEF Closed
  <2> HIDE DEF S
  <2>4. Trims(S, Dropped(victims)) /\ Tabled
    BY <2>1, <2>2, <2>3, ForgetTrims
  <2>5. QED
    BY <1>1, <2>1, <2>2, <2>3, <2>4 DEF StoreMove
<1>7. CASE \/ \E t \in Types, o \in Orders : Query(t, o)
           \/ Tick \/ ProposeForget \/ UNCHANGED vars
  <2>1. /\ UNCHANGED <<byType, typeOf, children, lastCursor>>
        /\ victims' = victims \/ victims' = Forgettable
        /\ now' = now \/ (now < MaxNow /\ now' = now + 1)
    BY <1>7 DEF Query, Tick, ProposeForget, vars
  <2>2. now' \in 0..MaxNow /\ victims' \subseteq Ids
    BY <1>1, <2>1
  <2>3. Refreshes /\ Tabled
    BY <2>1, StillTabled
  <2>4. QED
    BY <2>1, <2>2, <2>3 DEF StoreMove
<1>8. QED
  BY <1>2, <1>3, <1>4, <1>5, <1>6, <1>7 DEF Next

----------------------------------------------------------------------------
(* The tree stays sound.                                                   *)

LEMMA LastCursorMoves ==
  ASSUME Shape, NEW t \in Types, NEW c \in 0..MaxCursor,
         lastCursor' = [lastCursor EXCEPT ![t] = Max({@, c})]
  PROVE  /\ lastCursor' \in [Types -> 0..MaxCursor]
         /\ lastCursor'[t] >= c /\ lastCursor'[t] >= lastCursor[t]
         /\ \A u \in Types \ {t} : lastCursor'[u] = lastCursor[u]
<1>1. lastCursor \in [Types -> 0..MaxCursor] /\ lastCursor[t] \in Nat /\ c \in Nat
  BY ConstantFacts DEF Shape
<1> DEFINE a == lastCursor[t]
           x == Max({a, c})
<1>2. x \in {a, c} /\ x >= a /\ x >= c
  BY <1>1, MaxOfTwo
<1>3. lastCursor' = [lastCursor EXCEPT ![t] = x]
  OBVIOUS
<1>4. x \in 0..MaxCursor
  BY <1>1, <1>2
<1> HIDE DEF x
<1>5. lastCursor'[t] = x
  BY <1>1, <1>3
<1>6. QED
  BY <1>1, <1>2, <1>3, <1>4, <1>5

LEMMA ShapeKept ==
  ASSUME TreeInv, StoreMove
  PROVE  Shape'
<1>1. CASE Registers
  <2>1. PICK t \in Types, i \in Ids, p \in Ids \cup {None}, v \in 0..MaxVersion,
             c \in 0..MaxCursor :
          ApplyCommitted(t, i, p, v, c) /\ UNCHANGED <<now, victims>>
    BY <1>1 DEF Registers
  <2> DEFINE prev == byType[t][i]
             creates == ~Extant(t, i)
             r == [extant |-> TRUE, parent |-> p, version |-> v,
                   created |-> IF creates THEN c ELSE prev.created,
                   updated |-> c, health |-> now]
  <2>2. byType' = [byType EXCEPT ![t][i] = r]
    BY <2>1 DEF ApplyCommitted
  <2>3. r \in Record
    <3>1. prev # None => prev.created \in 0..MaxCursor
      BY RecordFacts DEF TreeInv
    <3>2. now \in 0..MaxNow
      BY DEF TreeInv, Shape
    <3>3. ~creates => prev # None
      BY DEF Extant
    <3>4. (IF creates THEN c ELSE prev.created) \in 0..MaxCursor
      BY <3>1, <3>3
    <3> HIDE DEF creates, prev
    <3>5. QED
      BY <3>2, <3>4 DEF Record
  <2> HIDE DEF r
  <2>4. byType' \in [Types -> [Ids -> Record \cup {None}]]
    BY <2>2, <2>3 DEF TreeInv, Shape
  <2>5. typeOf' \in [Ids -> Types \cup {None}]
    BY <2>1 DEF ApplyCommitted, TreeInv, Shape
  <2>6. children' \in [Ids -> SUBSET Ids]
    <3> DEFINE was == IF prev = None THEN None ELSE prev.parent
               moved == Reparent(i, was, p)
    <3>1. \A q \in Ids : children[q] \in SUBSET Ids
      BY DEF TreeInv, Shape
    <3>2. moved \in [Ids -> SUBSET Ids]
      BY <3>1 DEF Reparent
    <3>3. children' = [moved EXCEPT ![i] = {}] \/ children' = moved
      BY <2>1 DEF ApplyCommitted
    <3> HIDE DEF moved
    <3>4. QED
      BY <3>2, <3>3
  <2>7. lastCursor' \in [Types -> 0..MaxCursor]
    BY <2>1, LastCursorMoves DEF ApplyCommitted, TreeInv
  <2>8. QED
    BY <2>1, <2>4, <2>5, <2>6, <2>7 DEF TreeInv, Shape
<1>2. CASE /\ Tabled /\ UNCHANGED lastCursor
           /\ now' \in 0..MaxNow /\ victims' \subseteq Ids
  BY <1>2 DEF TreeInv, Shape, Tabled
<1>3. now \in 0..MaxNow
  BY DEF TreeInv, Shape
<1>4. QED
  BY <1>1, <1>2, <1>3 DEF StoreMove

LEMMA TreeKept ==
  ASSUME TreeInv, StoreMove
  PROVE  TreeInv'
<1>1. Shape'
  BY ShapeKept
<1>2. Indexed' /\ Rooted'
  <2>1. CASE Registers
    BY <2>1, RegisterKeeps DEF Registers
  <2>2. CASE \E S, D : Closed(S) /\ Trims(S, D) /\ \A i \in D : ~FindAny(i)
    BY <1>1, <2>2, TrimKeeps
  <2>3. CASE Refreshes
    BY <2>3, RefreshKeeps
  <2>4. QED
    BY <2>1, <2>2, <2>3 DEF StoreMove
<1>3. QED
  BY <1>1, <1>2 DEF TreeInv

LEMMA TreeInit ==
  ASSUME Init
  PROVE  TreeInv
<1>1. Shape
  BY ConstantFacts DEF Init, Shape
<1>2. \A t \in Types, i \in Ids : byType[t][i] = None /\ typeOf[i] = None /\ children[i] = {}
  BY DEF Init
<1>3. QED
  BY <1>1, <1>2, ConstantFacts DEF TreeInv, Indexed, Rooted, Extant

LEMMA TreeIsSoundThen ==
  ASSUME TreeInv
  PROVE  TreeIsSound
<1>1. /\ DOMAIN byType = Types /\ \A t \in Types : DOMAIN byType[t] = Ids
      /\ DOMAIN typeOf = Ids
  BY DEF TreeInv, Shape
<1>2. NoOrphans
  <2>1. ASSUME NEW t \in Types, NEW i \in Ids, Extant(t, i), t > 1
        PROVE  byType[t][i].parent # None /\ Extant(t - 1, byType[t][i].parent)
    BY <2>1, ConstantFacts DEF TreeInv, Rooted
  <2>2. QED
    BY <1>1, <2>1 DEF NoOrphans
<1>3. ASSUME NEW i \in Ids, NEW q \in Ids, i \in children[q]
      PROVE  typeOf[i] # None /\ byType[typeOf[i]][i].parent = q
  <2>1. typeOf[i] # None /\ typeOf[i] \in Types
    BY <1>3 DEF TreeInv, Shape, Indexed
  <2>2. QED
    BY <1>3, <2>1 DEF TreeInv, Indexed
<1>4. ASSUME NEW i \in Ids, NEW q \in Ids, FindAny(i), byType[typeOf[i]][i].parent = q
      PROVE  i \in children[q]
  <2>1. typeOf[i] \in Types /\ Extant(typeOf[i], i)
    BY <1>4, OneType
  <2>2. QED
    BY <1>4, <2>1 DEF TreeInv, Indexed
<1>5. \A t \in Types, i \in Ids : byType[t][i] # None <=> typeOf[i] = t
  BY DEF TreeInv, Indexed
<1>6. IndexesAgree
  BY <1>1, <1>3, <1>4, <1>5 DEF IndexesAgree
<1>7. QED
  BY <1>2, <1>6 DEF TreeIsSound

THEOREM TreeInvHolds == Spec => []TreeInv
<1>1. Init => TreeInv
  BY TreeInit
<1>2. TreeInv /\ [Next]_vars => TreeInv'
  BY StoreMoves, TreeKept
<1>3. QED
  BY <1>1, <1>2, PTL DEF Spec

\* Whatever order registrations, cascades, revivals, collections and entries of
\* the log come in, an extant resource has an extant parent of the right type,
\* and the redundant indexes agree with the records (_check_parent,
\* _erase_subtree, _type_of, _children, _reparent, _forget).
THEOREM TreeStaysSound == Spec => []TreeIsSound
<1>1. TreeInv => TreeIsSound
  BY TreeIsSoundThen
<1>2. QED
  BY <1>1, TreeInvHolds, PTL

----------------------------------------------------------------------------
(* Cursors.                                                                *)

\* Every cursor of a type is at or before the last one seen.
CursorsBehind ==
    \A t \in Types, i \in Ids:
        byType[t][i] # None => /\ byType[t][i].created <= lastCursor[t]
                               /\ byType[t][i].updated <= lastCursor[t]

\* No two records of a type were created, or were last written, at one cursor.
Differ ==
    \A t \in Types, i, j \in Ids:
        (byType[t][i] # None /\ byType[t][j] # None /\ i # j)
        => /\ byType[t][i].created # byType[t][j].created
           /\ byType[t][i].updated # byType[t][j].updated

CursorInv == CursorsBehind /\ Differ

\* An operation that places no resource leaves the cursors of the rest.
LEMMA CursorsLeft ==
  ASSUME TreeInv, NEW t \in Types, NEW i \in Ids, byType'[t][i] # None,
         (\E S, D : Trims(S, D)) \/ Refreshes
  PROVE  /\ byType[t][i] # None
         /\ byType'[t][i].created = byType[t][i].created
         /\ byType'[t][i].updated = byType[t][i].updated
<1>1. byType[t][i] # None => byType[t][i] \in Record
  BY RecordFacts DEF TreeInv
<1>2. now \in 0..MaxNow /\ (byType[t][i] # None <=> typeOf[i] = t)
  BY DEF TreeInv, Shape, Indexed
<1>3. CASE \E S, D : Trims(S, D)
  <2>1. \/ byType'[t][i] = byType[t][i]
        \/ /\ byType[t][i] # None
           /\ byType'[t][i] = [byType[t][i] EXCEPT !.extant = FALSE, !.health = now]
    BY <1>2, <1>3 DEF Trims
  <2>2. QED
    BY <1>1, <1>2, <2>1, RecordUpdates
<1>4. CASE Refreshes
  <2>1. \/ byType'[t][i] = byType[t][i]
        \/ /\ byType[t][i] # None
           /\ byType'[t][i] = [byType[t][i] EXCEPT !.health = now]
    BY <1>4 DEF Refreshes
  <2>2. QED
    BY <1>1, <1>2, <2>1, RecordUpdates
<1>5. QED
  BY <1>3, <1>4

\* A record that a standalone registry writes takes a cursor beyond the rest.
LEMMA CursorTaken ==
  ASSUME ~Replicated, TreeInv, CursorInv, Registers
  PROVE  CursorInv'
<1>1. PICK t \in Types, i \in Ids, p \in Ids \cup {None}, v \in 0..MaxVersion,
           c \in 0..MaxCursor :
        ApplyCommitted(t, i, p, v, c) /\ c = NextCursor(t)
  BY DEF Registers
<1>2. c > lastCursor[t] /\ lastCursor[t] \in Nat /\ c \in Nat
  BY <1>1, NextCursorIs DEF TreeInv
<1>3. /\ lastCursor' \in [Types -> 0..MaxCursor] /\ lastCursor'[t] >= c
      /\ \A u \in Types \ {t} : lastCursor'[u] = lastCursor[u]
  BY <1>1, LastCursorMoves DEF ApplyCommitted, TreeInv
<1> DEFINE prev == byType[t][i]
           creates == ~Extant(t, i)
           r == [extant |-> TRUE, parent |-> p, version |-> v,
                 created |-> IF creates THEN c ELSE prev.created,
                 updated |-> c, health |-> now]
<1>4. byType' = [byType EXCEPT ![t][i] = r]
  BY <1>1 DEF ApplyCommitted
<1>5. ~creates => prev # None
  BY DEF Extant
<1>6. r.updated = c /\ (r.created = c \/ (prev # None /\ r.created = prev.created))
  BY <1>5
<1> HIDE DEF r, prev
<1>7. byType'[t][i] = r
      /\ \A u \in Types, j \in Ids : (u # t \/ j # i) => byType'[u][j] = byType[u][j]
  BY <1>4 DEF TreeInv, Shape
<1>8. \A u \in Types : lastCursor[u] \in Nat /\ lastCursor'[u] \in Nat
  BY <1>3, ConstantFacts DEF TreeInv, Shape
<1>9. \A u \in Types, j \in Ids :
         byType[u][j] # None => byType[u][j].created \in Nat /\ byType[u][j].updated \in Nat
  <2>1. \A n \in 0..MaxCursor : n \in Nat
    BY ConstantFacts
  <2>2. \A u \in Types, j \in Ids : byType[u][j] # None =>
           byType[u][j].created \in 0..MaxCursor /\ byType[u][j].updated \in 0..MaxCursor
    BY RecordFacts DEF TreeInv
  <2>3. QED
    BY <2>1, <2>2
<1>10. prev # None => prev.created \in Nat /\ prev.created <= lastCursor[t]
  BY <1>9 DEF CursorInv, CursorsBehind, prev
<1>11. ASSUME NEW u \in Types, NEW j \in Ids, byType'[u][j] # None
       PROVE  byType'[u][j].created <= lastCursor'[u] /\ byType'[u][j].updated <= lastCursor'[u]
  <2>1. CASE u = t /\ j = i
    <3>1. r.updated <= lastCursor'[t] /\ r.created <= lastCursor'[t]
      BY <1>2, <1>3, <1>6, <1>8, <1>10
    <3>2. QED
      BY <1>7, <2>1, <3>1
  <2>2. CASE u # t \/ j # i
    <3>1. byType'[u][j] = byType[u][j]
      BY <1>7, <2>2
    <3>2. byType[u][j].created <= lastCursor[u] /\ byType[u][j].updated <= lastCursor[u]
      BY <1>11, <3>1 DEF CursorInv, CursorsBehind
    <3>3. lastCursor'[u] >= lastCursor[u]
      BY <1>2, <1>3, <1>8
    <3>4. QED
      BY <1>8, <1>9, <1>11, <3>1, <3>2, <3>3
  <2>3. QED
    BY <2>1, <2>2
\* The new record differs from every other one.
<1>12. ASSUME NEW j \in Ids, j # i, byType[t][j] # None
       PROVE  r.created # byType[t][j].created /\ r.updated # byType[t][j].updated
  <2>1. /\ byType[t][j].created \in Nat /\ byType[t][j].created <= lastCursor[t]
        /\ byType[t][j].updated \in Nat /\ byType[t][j].updated <= lastCursor[t]
    BY <1>9, <1>12 DEF CursorInv, CursorsBehind
  <2>2. prev # None => prev.created # byType[t][j].created
    BY <1>12 DEF CursorInv, Differ, prev
  <2>3. c # byType[t][j].created /\ c # byType[t][j].updated
    BY <1>2, <2>1
  <2>4. QED
    BY <1>6, <2>2, <2>3
<1>13. ASSUME NEW u \in Types, NEW j \in Ids, NEW k \in Ids, j # k,
              byType'[u][j] # None, byType'[u][k] # None
       PROVE  /\ byType'[u][j].created # byType'[u][k].created
              /\ byType'[u][j].updated # byType'[u][k].updated
  <2>1. CASE u = t /\ j = i
    BY <1>7, <1>12, <1>13, <2>1
  <2>2. CASE u = t /\ k = i
    BY <1>7, <1>12, <1>13, <2>2
  <2>3. CASE u # t \/ (j # i /\ k # i)
    <3>1. byType'[u][j] = byType[u][j] /\ byType'[u][k] = byType[u][k]
      BY <1>7, <2>3
    <3>2. QED
      BY <1>13, <3>1 DEF CursorInv, Differ
  <2>4. QED
    BY <2>1, <2>2, <2>3
<1>14. QED
  BY <1>11, <1>13 DEF CursorInv, CursorsBehind, Differ

LEMMA CursorsKept ==
  ASSUME ~Replicated, TreeInv, CursorInv, StoreMove
  PROVE  CursorInv'
<1>1. CASE Registers
  BY <1>1, CursorTaken
<1>2. CASE ((\E S, D : Trims(S, D)) \/ Refreshes) /\ UNCHANGED lastCursor
  <2>1. \A t \in Types, i \in Ids : byType'[t][i] # None =>
           /\ byType[t][i] # None
           /\ byType'[t][i].created = byType[t][i].created
           /\ byType'[t][i].updated = byType[t][i].updated
    BY <1>2, CursorsLeft
  <2>2. CursorsBehind'
    BY <1>2, <2>1 DEF CursorInv, CursorsBehind
  <2>3. Differ'
    BY <2>1 DEF CursorInv, Differ
  <2>4. QED
    BY <2>2, <2>3 DEF CursorInv
<1>3. QED
  BY <1>1, <1>2 DEF StoreMove

\* A standalone registry never gives two records of a type one cursor, whatever
\* its clock reads and whatever is deleted, collected or registered again
\* (_next_cursor): a page that ends between them would skip one.
THEOREM CursorsNeverMeet ==
  ~Replicated => (Spec => []CursorsDiffer)
<1> SUFFICES ASSUME ~Replicated
             PROVE  Spec => []CursorsDiffer
  OBVIOUS
<1>1. Init => CursorInv
  BY DEF Init, CursorInv, CursorsBehind, Differ
<1>2. TreeInv /\ CursorInv /\ [Next]_vars => CursorInv'
  BY StoreMoves, CursorsKept
<1>3. CursorInv => CursorsDiffer
  BY DEF CursorInv, Differ, CursorsDiffer, CursorOf
<1>4. QED
  BY <1>1, <1>2, <1>3, TreeInvHolds, PTL DEF Spec
=============================================================================
