---------------------------- MODULE CursorProofs ----------------------------
(***************************************************************************)
(* CursorsUnique and ReservationCovers of Cursors, for every set of        *)
(* members that fits the lanes, every clock and every number of restarts.  *)
(*                                                                         *)
(* The argument: a cursor lies in the lane of the member that handed it    *)
(* out, so two members never meet; and a cursor a member has handed out is *)
(* at or below its high-water mark or the floor it resumed from, above     *)
(* both of which the next one is chosen.  The floor is what the disk held  *)
(* at the restart, so the disk must bound all that was handed out.         *)
(***************************************************************************)
EXTENDS Cursors, TLAPS

\* What a member handed out is in its lane.
LanesKept ==
    \A i \in 1..Len(handed) : owner_of(handed[i].cursor) = handed[i].member

\* What a member handed out is behind it.
HandedBehind ==
    \A i \in 1..Len(handed) :
       \/ Le(handed[i].cursor, high_water[handed[i].member][handed[i].type])
       \/ Le(handed[i].cursor, floor[handed[i].member])

\* What a member handed out is covered by the bound it takes to be durable,
\* and the disk holds at least that bound.
HandedReserved ==
    /\ \A i \in 1..Len(handed) :
          Le(handed[i].cursor, reserved[handed[i].member])
    /\ \A m \in Member : Le(reserved[m], disk[m])

IInv ==
    /\ TypeOK
    /\ LanesKept
    /\ HandedBehind
    /\ HandedReserved
    /\ CursorsUnique

----------------------------------------------------------------------------
(* The order of cursors and the lane arithmetic.                           *)

\* Le is transitive on marks.
LEMMA LeTransitive ==
    ASSUME NEW a \in Mark, NEW b \in Mark, NEW c \in Mark,
           Le(a, b), Le(b, c)
    PROVE  Le(a, c)
BY NanosAssumption DEF Mark, TaiCursor, NoCursor, Le, Lt

\* A cursor below a mark is not one above it.
LEMMA LtNotLe ==
    ASSUME NEW a \in Mark, NEW b \in Mark, Lt(a, b)
    PROVE  ~Le(b, a)
BY NanosAssumption DEF Mark, TaiCursor, NoCursor, Le, Lt

\* Marks are totally ordered.
LEMMA NotLe ==
    ASSUME NEW a \in Mark, NEW b \in Mark, ~Le(a, b)
    PROVE  Lt(b, a)
BY NanosAssumption DEF Mark, TaiCursor, NoCursor, Le, Lt

\* The higher of two marks is one of them and at or above both.
LEMMA HigherBounds ==
    ASSUME NEW a \in Mark, NEW b \in Mark
    PROVE  /\ Higher(a, b) \in Mark
           /\ Le(a, Higher(a, b))
           /\ Le(b, Higher(a, b))
           /\ a \in TaiCursor \/ b \in TaiCursor => Higher(a, b) \in TaiCursor
BY NanosAssumption DEF Mark, TaiCursor, NoCursor, Higher, Le, Lt

\* A reading rounded into a lane is a cursor of that lane.
LEMMA InLaneIsInLane ==
    ASSUME NEW m \in Member, NEW c \in TaiCursor
    PROVE  InLane(m, c) \in TaiCursor /\ owner_of(InLane(m, c)) = m
<1> DEFINE n == c.nanoseconds
           k == (n \div 8) * 8 + m
<1>1. n \in 0..(NanosPerSecond - 1) /\ c.seconds \in Nat
      BY DEF TaiCursor
<1>2. m \in 0..7
      BY MemberAssumption DEF MAX_OWNERS
<1>3. NanosPerSecond \in Nat /\ NanosPerSecond % 8 = 0
      BY NanosAssumption DEF MAX_OWNERS
<1>4. k \in 0..(NanosPerSecond - 1) /\ k % 8 = m
      <2> HIDE DEF n
      <2> QED  BY <1>1, <1>2, <1>3
<1>5. InLane(m, c) = [seconds |-> c.seconds, nanoseconds |-> k]
      BY DEF InLane, MAX_OWNERS, TaiCursor
<1> QED  BY <1>1, <1>4, <1>5 DEF TaiCursor, owner_of, MAX_OWNERS

\* The next cursor of a lane is a cursor of that lane, strictly ahead.
LEMMA NextInLaneIsAhead ==
    ASSUME NEW m \in Member, NEW c \in TaiCursor
    PROVE  /\ NextInLane(m, c) \in TaiCursor
           /\ owner_of(NextInLane(m, c)) = m
           /\ Lt(c, NextInLane(m, c))
<1> DEFINE n == c.nanoseconds
           k == ((n \div 8) + 1) * 8 + m
<1>1. n \in 0..(NanosPerSecond - 1) /\ c.seconds \in Nat
      BY DEF TaiCursor
<1>2. m \in 0..7
      BY MemberAssumption DEF MAX_OWNERS
<1>3. NanosPerSecond \in Nat /\ NanosPerSecond % 8 = 0 /\ NanosPerSecond # 0
      BY NanosAssumption DEF MAX_OWNERS
<1>4. k \in Nat /\ k > n /\ k % 8 = m /\ m % 8 = m /\ m < NanosPerSecond
      <2> HIDE DEF n
      <2> QED  BY <1>1, <1>2, <1>3
<1>5. NextInLane(m, c) = IF k >= NanosPerSecond
                         THEN [seconds |-> c.seconds + 1, nanoseconds |-> m]
                         ELSE [seconds |-> c.seconds, nanoseconds |-> k]
      BY DEF NextInLane, MAX_OWNERS
<1> HIDE DEF k
<1>6. CASE k >= NanosPerSecond
      BY <1>1, <1>2, <1>3, <1>4, <1>5, <1>6
      DEF TaiCursor, owner_of, MAX_OWNERS, Lt
<1>7. CASE ~(k >= NanosPerSecond)
      BY <1>1, <1>2, <1>3, <1>4, <1>5, <1>7
      DEF TaiCursor, owner_of, MAX_OWNERS, Lt
<1> QED  BY <1>6, <1>7

\* What allocate chooses is a cursor of the member's lane, above its
\* high-water mark and above the floor it resumed from.
LEMMA CandidateIsAhead ==
    ASSUME TypeOK, NEW m \in Member, NEW t \in Type, NEW now \in Instants
    PROVE  LET c == Candidate(m, t, now)
           IN  /\ c \in TaiCursor
               /\ owner_of(c) = m
               /\ Lt(high_water[m][t], c)
               /\ Lt(floor[m], c)
<1> DEFINE h == high_water[m][t]
           f == floor[m]
           p == Higher(h, f)
           in == InLane(m, now)
           c == Candidate(m, t, now)
<1>1. h \in Mark /\ f \in Mark
      BY DEF TypeOK
<1>2. p \in Mark /\ Le(h, p) /\ Le(f, p)
      <2> HIDE DEF h, f
      <2> QED  BY <1>1, HigherBounds
<1>3. in \in TaiCursor /\ owner_of(in) = m
      BY InstantsAssumption, InLaneIsInLane
<1>4. c = IF p # NoCursor /\ Le(in, p) THEN NextInLane(m, p) ELSE in
      BY DEF Candidate
<1>5. /\ c \in TaiCursor
      /\ owner_of(c) = m
      /\ Lt(p, c)
      <2> HIDE DEF in, p, c
      <2>1. CASE p # NoCursor /\ Le(in, p)
            BY <1>2, <1>4, <2>1, NextInLaneIsAhead DEF Mark
      <2>2. CASE p = NoCursor
            <3>1. c = in
                  BY <1>4, <2>2
            <3> QED  BY <1>3, <2>2, <3>1 DEF Lt, NoCursor, TaiCursor
      <2>3. CASE ~Le(in, p)
            BY <1>2, <1>3, <1>4, <2>3, NotLe DEF Mark
      <2> QED  BY <2>1, <2>2, <2>3
<1>6. Lt(h, c) /\ Lt(f, c)
      <2> HIDE DEF h, f, p, c
      <2> QED  BY <1>1, <1>2, <1>5, NanosAssumption
               DEF Mark, TaiCursor, NoCursor, Le, Lt
<1> QED  BY <1>5, <1>6

\* The bound to make durable is a cursor above the one it is for.
LEMMA ReservationIsAhead ==
    ASSUME NEW c \in TaiCursor
    PROVE  reservation_needed(c) \in TaiCursor /\ Le(c, reservation_needed(c))
BY DEF reservation_needed, RESERVATION_WINDOW_SECONDS, TaiCursor, Le, Lt

----------------------------------------------------------------------------
(* The steps.                                                              *)

\* What a cursor handed out consists of.
LEMMA HandedTyped ==
    ASSUME TypeOK, NEW i \in 1..Len(handed)
    PROVE  /\ handed[i] \in Handed
           /\ handed[i].member \in Member
           /\ handed[i].type \in Type
           /\ handed[i].cursor \in Mark
<1>1. handed[i] \in Handed
      BY DEF TypeOK
<1> QED  BY <1>1 DEF Handed, Mark

\* Handing out a cursor of the member's lane that is above its high-water mark
\* and its floor, and covered by what is then reserved and on disk.
LEMMA HandKeeps ==
    ASSUME IInv, NEW m \in Member, NEW t \in Type, NEW c \in TaiCursor,
           owner_of(c) = m, Lt(high_water[m][t], c), Lt(floor[m], c),
           Hand(m, t, c),
           high_water' = [high_water EXCEPT ![m][t] = c],
           reserved' \in [Member -> Mark], disk' \in [Member -> Mark],
           Le(c, reserved'[m]),
           \A k \in Member : Le(reserved[k], reserved'[k]),
           \A k \in Member : Le(reserved'[k], disk'[k]),
           UNCHANGED <<floor, log, applied, failures, restarts>>
    PROVE  IInv'
<1> DEFINE new == [member |-> m, type |-> t, cursor |-> c]
<1>1. TypeOK
      BY DEF IInv
<1>2. /\ handed' \in Seq(Handed)
      /\ Len(handed') = Len(handed) + 1
      /\ \A i \in 1..Len(handed) : handed'[i] = handed[i]
      /\ handed'[Len(handed) + 1] = new
      BY <1>1 DEF TypeOK, Hand, Handed
<1>3. /\ Len(handed) \in Nat
      /\ \A i \in 1..Len(handed) : handed[i] \in Handed
      BY <1>1 DEF TypeOK
<1>4. \A i \in 1..Len(handed) :
         /\ handed[i].member \in Member
         /\ handed[i].type \in Type
         /\ handed[i].cursor \in Mark
      BY <1>3 DEF Handed, Mark
<1>5. /\ high_water'[m][t] = c
      /\ \A k \in Member, u \in Type :
            k # m \/ u # t => high_water'[k][u] = high_water[k][u]
      /\ high_water' \in [Member -> [Type -> Mark]]
      BY <1>1 DEF TypeOK, Mark
<1>6. TypeOK'
      BY <1>1, <1>2, <1>5 DEF TypeOK
<1>7. LanesKept'
      BY <1>2, <1>3 DEF IInv, LanesKept, owner_of
<1>8. HandedBehind'
      <2> SUFFICES ASSUME NEW i \in 1..Len(handed')
                   PROVE  \/ Le(handed'[i].cursor,
                                high_water'[handed'[i].member][handed'[i].type])
                          \/ Le(handed'[i].cursor, floor'[handed'[i].member])
            BY DEF HandedBehind
      <2>1. CASE i = Len(handed) + 1
            BY <1>2, <1>5, <2>1 DEF Le
      <2>2. CASE i \in 1..Len(handed)
            <3> DEFINE h == handed[i]
            <3>1. handed'[i] = h /\ h.member \in Member /\ h.type \in Type
                  /\ h.cursor \in Mark
                  BY <1>2, <1>4, <2>2
            <3>2. \/ Le(h.cursor, high_water[h.member][h.type])
                  \/ Le(h.cursor, floor[h.member])
                  BY <2>2 DEF IInv, HandedBehind
            <3>3. Le(high_water[h.member][h.type], high_water'[h.member][h.type])
                  BY <1>5, <3>1 DEF Le
            <3>4. /\ high_water[h.member][h.type] \in Mark
                  /\ high_water'[h.member][h.type] \in Mark
                  BY <1>1, <1>6, <3>1 DEF TypeOK
            <3> HIDE DEF h
            <3> QED  BY <3>1, <3>2, <3>3, <3>4, LeTransitive
      <2> QED  BY <1>2, <1>3, <2>1, <2>2
<1>9. HandedReserved'
      <2>1. ASSUME NEW i \in 1..Len(handed')
            PROVE  Le(handed'[i].cursor, reserved'[handed'[i].member])
            <3>1. CASE i = Len(handed) + 1
                  BY <1>2, <3>1
            <3>2. CASE i \in 1..Len(handed)
                  <4> DEFINE h == handed[i]
                  <4>1. handed'[i] = h /\ h.member \in Member
                        /\ h.cursor \in Mark
                        BY <1>2, <1>4, <3>2
                  <4>2. Le(h.cursor, reserved[h.member])
                        BY <3>2 DEF IInv, HandedReserved
                  <4>3. Le(reserved[h.member], reserved'[h.member])
                        BY <4>1
                  <4>4. reserved[h.member] \in Mark /\ reserved'[h.member] \in Mark
                        BY <1>1, <4>1 DEF TypeOK
                  <4> HIDE DEF h
                  <4> QED  BY <4>1, <4>2, <4>3, <4>4, LeTransitive
            <3> QED  BY <1>2, <1>3, <2>1, <3>1, <3>2
      <2> QED  BY <2>1 DEF HandedReserved
<1>10. CursorsUnique'
      <2>1. ASSUME NEW i \in 1..Len(handed),
                   handed[i].type = t, handed[i].cursor = c
            PROVE  FALSE
            <3>1. handed[i].member = m
                  BY <2>1 DEF IInv, LanesKept
            <3>2. Le(c, high_water[m][t]) \/ Le(c, floor[m])
                  BY <2>1, <3>1 DEF IInv, HandedBehind
            <3>3. c \in Mark /\ high_water[m][t] \in Mark /\ floor[m] \in Mark
                  BY <1>1 DEF TypeOK, Mark
            <3> QED  BY <3>2, <3>3, LtNotLe
      <2> SUFFICES ASSUME NEW i \in 1..Len(handed'), NEW j \in 1..Len(handed'),
                          handed'[i].type = handed'[j].type,
                          handed'[i].cursor = handed'[j].cursor
                   PROVE  i = j
            BY DEF CursorsUnique
      <2>2. CASE i \in 1..Len(handed) /\ j \in 1..Len(handed)
            BY <1>2, <2>2 DEF IInv, CursorsUnique
      <2>3. CASE i = Len(handed) + 1 /\ j \in 1..Len(handed)
            BY <1>2, <2>1, <2>3
      <2>4. CASE i \in 1..Len(handed) /\ j = Len(handed) + 1
            BY <1>2, <2>1, <2>4
      <2>5. CASE i = Len(handed) + 1 /\ j = Len(handed) + 1
            BY <2>5
      <2> QED  BY <1>2, <1>3, <2>2, <2>3, <2>4, <2>5
<1> QED  BY <1>6, <1>7, <1>8, <1>9, <1>10 DEF IInv

\* A step that hands out nothing, keeps the floor and moves the high-water
\* marks only upwards.
LEMMA QuietKeeps ==
    ASSUME IInv, TypeOK', handed' = handed,
           \A k \in Member, u \in Type :
              Le(high_water[k][u], high_water'[k][u]),
           UNCHANGED <<floor, reserved>>,
           \A k \in Member : Le(reserved'[k], disk'[k])
    PROVE  IInv'
<1>1. TypeOK
      BY DEF IInv
<1>2. LanesKept' /\ CursorsUnique'
      BY DEF IInv, LanesKept, CursorsUnique, owner_of
<1>3. HandedReserved'
      BY DEF IInv, HandedReserved
<1>4. HandedBehind'
      <2> SUFFICES ASSUME NEW i \in 1..Len(handed)
                   PROVE  \/ Le(handed[i].cursor,
                                high_water'[handed[i].member][handed[i].type])
                          \/ Le(handed[i].cursor, floor[handed[i].member])
            BY DEF HandedBehind
      <2> DEFINE h == handed[i]
      <2>1. h.member \in Member /\ h.type \in Type /\ h.cursor \in Mark
            BY <1>1, HandedTyped
      <2>2. \/ Le(h.cursor, high_water[h.member][h.type])
            \/ Le(h.cursor, floor[h.member])
            BY DEF IInv, HandedBehind
      <2>3. Le(high_water[h.member][h.type], high_water'[h.member][h.type])
            BY <2>1
      <2>4. /\ high_water[h.member][h.type] \in Mark
            /\ high_water'[h.member][h.type] \in Mark
            BY <1>1, <2>1 DEF TypeOK
      <2> HIDE DEF h
      <2>5. \/ Le(h.cursor, high_water'[h.member][h.type])
            \/ Le(h.cursor, floor[h.member])
            BY <2>1, <2>2, <2>3, <2>4, LeTransitive
      <2> QED  BY <2>5 DEF h
<1> QED  BY <1>2, <1>3, <1>4 DEF IInv

\* The empty state.
LEMMA InitIInv == Init => IInv
<1> SUFFICES ASSUME Init PROVE IInv
      OBVIOUS
<1>1. Len(handed) = 0 /\ Len(log) = 0 /\ NoCursor \in Mark
      BY DEF Init, Mark
<1>2. TypeOK
      BY <1>1 DEF Init, TypeOK
<1>3. LanesKept /\ HandedBehind /\ CursorsUnique
      BY <1>1 DEF LanesKept, HandedBehind, CursorsUnique
<1>4. HandedReserved
      BY <1>1 DEF Init, HandedReserved, Le
<1> QED  BY <1>2, <1>3, <1>4 DEF IInv

\* An allocation, with or without a save, failing or not.
LEMMA AllocateKeeps ==
    ASSUME IInv, NEW m \in Member, NEW t \in Type, NEW now \in Instants,
           \/ AllocateReserved(m, t, now)
           \/ AllocateReserving(m, t, now)
           \/ AllocateFails(m, t, now)
    PROVE  IInv'
<1> DEFINE c == Candidate(m, t, now)
           needed == reservation_needed(c)
<1>1. TypeOK
      BY DEF IInv
<1>2. /\ c \in TaiCursor /\ owner_of(c) = m
      /\ Lt(high_water[m][t], c) /\ Lt(floor[m], c)
      BY <1>1, CandidateIsAhead
<1> HIDE DEF c
<1>3. needed \in TaiCursor /\ Le(c, needed)
      BY <1>2, ReservationIsAhead
<1> HIDE DEF needed
<1>4. /\ c \in Mark /\ needed \in Mark
      /\ reserved \in [Member -> Mark] /\ disk \in [Member -> Mark]
      /\ high_water \in [Member -> [Type -> Mark]]
      /\ reserved[m] \in Mark
      BY <1>1, <1>2, <1>3 DEF TypeOK, Mark
<1>5. /\ Higher(reserved[m], needed) \in Mark
      /\ Le(reserved[m], Higher(reserved[m], needed))
      /\ Le(needed, Higher(reserved[m], needed))
      BY <1>4, HigherBounds
<1>6. \A k \in Member : Le(reserved[k], disk[k])
      BY DEF IInv, HandedReserved
<1>7. CASE AllocateReserved(m, t, now)
      <2>1. /\ Le(c, reserved[m]) /\ Hand(m, t, c)
            /\ high_water' = [high_water EXCEPT ![m][t] = c]
            /\ UNCHANGED <<floor, reserved, disk, log, applied, failures, restarts>>
            BY <1>7 DEF AllocateReserved, c
      <2>2. \A k \in Member : Le(reserved[k], reserved'[k])
            BY <2>1 DEF Le
      <2> QED  BY <1>2, <1>4, <1>6, <2>1, <2>2, HandKeeps
<1>8. CASE AllocateReserving(m, t, now)
      <2>1. /\ ~Le(c, reserved[m]) /\ Hand(m, t, c)
            /\ high_water' = [high_water EXCEPT ![m][t] = c]
            /\ disk' = [disk EXCEPT ![m] = needed]
            /\ reserved' = [reserved EXCEPT ![m] = Higher(@, needed)]
            /\ UNCHANGED <<floor, log, applied, failures, restarts>>
            BY <1>8 DEF AllocateReserving, c, needed
      <2>2. Lt(reserved[m], needed)
            <3>1. Lt(reserved[m], c)
                  BY <1>4, <2>1, NotLe
            <3> QED  BY <1>3, <1>4, <3>1, NanosAssumption
                     DEF Mark, TaiCursor, NoCursor, Le, Lt
      <2>3. Higher(reserved[m], needed) = needed
            BY <2>2 DEF Higher
      <2>4. reserved'[m] = needed /\ disk'[m] = needed
            BY <1>4, <2>1, <2>3
      <2>5. \A k \in Member : k # m => reserved'[k] = reserved[k] /\ disk'[k] = disk[k]
            BY <1>4, <2>1
      <2>6. \A k \in Member : Le(reserved[k], reserved'[k])
            BY <1>5, <2>3, <2>4, <2>5 DEF Le
      <2>7. \A k \in Member : Le(reserved'[k], disk'[k])
            BY <1>6, <2>4, <2>5 DEF Le
      <2>8. reserved' \in [Member -> Mark] /\ disk' \in [Member -> Mark]
            BY <1>4, <1>5, <2>1
      <2> QED  BY <1>2, <1>3, <2>1, <2>4, <2>6, <2>7, <2>8, HandKeeps
<1>9. CASE AllocateFails(m, t, now)
      <2>1. /\ ~Le(c, reserved[m])
            /\ high_water' = [high_water EXCEPT ![m][t] = c]
            /\ failures' = failures + 1
            /\ UNCHANGED <<floor, reserved, handed, log, applied, restarts>>
            /\ disk' = [disk EXCEPT ![m] = needed] \/ disk' = [disk EXCEPT ![m] = @]
            BY <1>9 DEF AllocateFails, c, needed
      <2>2. Le(reserved[m], needed)
            <3>1. Lt(reserved[m], c)
                  BY <1>4, <2>1, NotLe
            <3> QED  BY <1>3, <1>4, <3>1, LeTransitive DEF Le
      <2>3. disk' \in [Member -> Mark]
            BY <1>4, <2>1
      <2>4. \A k \in Member : Le(reserved'[k], disk'[k])
            BY <1>4, <1>6, <2>1, <2>2
      <2>5. \A k \in Member, u \in Type :
               Le(high_water[k][u], high_water'[k][u])
            BY <1>2, <1>4, <2>1 DEF Le
      <2>6. TypeOK'
            BY <1>1, <1>4, <2>1, <2>3 DEF TypeOK
      <2> QED  BY <2>1, <2>4, <2>5, <2>6, QuietKeeps
<1> QED  BY <1>7, <1>8, <1>9

\* What the log and the term file do, and a restart.
LEMMA OtherKeeps ==
    ASSUME IInv,
           \/ \E k \in 1..Len(handed) : Commit(k)
           \/ \E m \in Member :
                 Persist(m) \/ Apply(m) \/ InstallSnapshot(m) \/ Restart(m)
    PROVE  IInv'
<1>1. TypeOK /\ \A k \in Member : Le(reserved[k], disk[k])
      BY DEF IInv, HandedReserved
<1>2. \A k \in Member, u \in Type : Le(high_water[k][u], high_water[k][u])
      BY DEF Le
<1>3. ASSUME NEW k \in 1..Len(handed), Commit(k)
      PROVE  IInv'
      <2>1. log' \in Seq(Nat) /\ \A i \in 1..Len(log') : log'[i] \in 1..Len(handed)
            BY <1>1, <1>3 DEF Commit, TypeOK
      <2>2. TypeOK'
            BY <1>1, <1>3, <2>1 DEF Commit, TypeOK
      <2> QED  BY <1>1, <1>2, <1>3, <2>2, QuietKeeps DEF Commit
<1>4. ASSUME NEW m \in Member, Persist(m)
      PROVE  IInv'
      <2>1. TypeOK'
            BY <1>1, <1>4 DEF Persist, TypeOK
      <2>2. \A k \in Member : Le(reserved'[k], disk'[k])
            BY <1>1, <1>4 DEF Persist, TypeOK, Le
      <2> QED  BY <1>2, <1>4, <2>1, <2>2, QuietKeeps DEF Persist
<1>5. ASSUME NEW m \in Member, Apply(m)
      PROVE  IInv'
      <2> DEFINE e == handed[log[applied[m] + 1]]
      <2>0. /\ applied[m] < Len(log)
            /\ applied' = [applied EXCEPT ![m] = @ + 1]
            BY <1>5, Zenon DEF Apply
      <2>1. e \in Handed
            <3>1. applied[m] \in Nat /\ Len(log) \in Nat /\ applied[m] < Len(log)
                  BY <1>1, <2>0 DEF TypeOK
            <3>2. log[applied[m] + 1] \in 1..Len(handed)
                  BY <1>1, <3>1 DEF TypeOK
            <3> QED  BY <1>1, <3>2, HandedTyped
      <2>2. e.type \in Type /\ e.cursor \in Mark
            BY <2>1 DEF Handed, Mark
      <2> HIDE DEF e
      <2>3. high_water' = [high_water EXCEPT ![m][e.type] = Higher(@, e.cursor)]
            BY <1>5 DEF Apply, e
      <2>4. high_water[m][e.type] \in Mark
            BY <1>1, <2>2 DEF TypeOK
      <2>5. /\ Higher(high_water[m][e.type], e.cursor) \in Mark
            /\ Le(high_water[m][e.type], Higher(high_water[m][e.type], e.cursor))
            BY <2>2, <2>4, HigherBounds
      <2>6. high_water' \in [Member -> [Type -> Mark]]
            BY <1>1, <2>2, <2>3, <2>5 DEF TypeOK
      <2>7. \A k \in Member, u \in Type : Le(high_water[k][u], high_water'[k][u])
            BY <1>1, <1>2, <2>2, <2>3, <2>5 DEF TypeOK
      <2>8. TypeOK'
            <3>1. applied' \in [Member -> Nat]
                  BY <1>1, <2>0 DEF TypeOK
            <3>2. UNCHANGED <<floor, reserved, disk, handed, log, failures,
                              restarts>>
                  BY <1>5 DEF Apply
            <3> QED  BY <1>1, <2>6, <3>1, <3>2 DEF TypeOK
      <2> QED  BY <1>1, <1>5, <2>7, <2>8, QuietKeeps DEF Apply
<1>6. ASSUME NEW m \in Member, InstallSnapshot(m)
      PROVE  IInv'
      <2>1. TypeOK'
            BY <1>1, <1>6 DEF InstallSnapshot, TypeOK
      <2> QED  BY <1>1, <1>2, <1>6, <2>1, QuietKeeps DEF InstallSnapshot
<1>7. ASSUME NEW m \in Member, Restart(m)
      PROVE  IInv'
      <2>1. NoCursor \in Mark /\ disk[m] \in Mark
            BY <1>1 DEF TypeOK, Mark
      <2>2. /\ high_water' = [high_water EXCEPT ![m] = [t \in Type |-> NoCursor]]
            /\ floor' = [floor EXCEPT ![m] = disk[m]]
            /\ reserved' = [reserved EXCEPT ![m] = disk[m]]
            /\ UNCHANGED <<disk, handed, log>>
            BY <1>7 DEF Restart
      <2>3. TypeOK'
            BY <1>1, <1>7, <2>1 DEF Restart, TypeOK
      <2>4. \A i \in 1..Len(handed) :
               /\ handed[i].member \in Member
               /\ handed[i].type \in Type
               /\ handed[i].cursor \in Mark
            BY <1>1, HandedTyped
      <2>5. \A i \in 1..Len(handed) :
               Le(handed[i].cursor, disk[handed[i].member])
            <3> SUFFICES ASSUME NEW i \in 1..Len(handed)
                         PROVE  Le(handed[i].cursor, disk[handed[i].member])
                  OBVIOUS
            <3>1. Le(handed[i].cursor, reserved[handed[i].member])
                  BY DEF IInv, HandedReserved
            <3>2. /\ reserved[handed[i].member] \in Mark
                  /\ disk[handed[i].member] \in Mark
                  BY <1>1, <2>4 DEF TypeOK
            <3> QED  BY <1>1, <2>4, <3>1, <3>2, LeTransitive
      <2>6. LanesKept' /\ CursorsUnique'
            BY <2>2 DEF IInv, LanesKept, CursorsUnique, owner_of
      <2>7. HandedBehind'
            <3> SUFFICES ASSUME NEW i \in 1..Len(handed)
                         PROVE  \/ Le(handed[i].cursor,
                                      high_water'[handed[i].member][handed[i].type])
                                \/ Le(handed[i].cursor, floor'[handed[i].member])
                  BY <2>2 DEF HandedBehind
            <3>1. CASE handed[i].member = m
                  BY <1>1, <2>2, <2>5, <3>1 DEF TypeOK
            <3>2. CASE handed[i].member # m
                  BY <1>1, <2>2, <2>4, <3>2 DEF IInv, HandedBehind, TypeOK
            <3> QED  BY <3>1, <3>2
      <2>8. HandedReserved'
            <3>1. \A k \in Member : Le(reserved'[k], disk'[k])
                  BY <1>1, <2>2 DEF TypeOK, Le
            <3>2. \A i \in 1..Len(handed) :
                     Le(handed[i].cursor, reserved'[handed[i].member])
                  BY <1>1, <2>2, <2>4, <2>5 DEF IInv, HandedReserved, TypeOK
            <3> QED  BY <2>2, <3>1, <3>2 DEF HandedReserved
      <2> QED  BY <2>3, <2>6, <2>7, <2>8 DEF IInv
<1> QED  BY <1>3, <1>4, <1>5, <1>6, <1>7

\* Cursors of a type are unique, whatever the clocks read, across members and
\* restarts, and what is on disk bounds all that was handed out
\* (CursorAllocator, RaftNode.allocate_cursor).
THEOREM CursorsAreUnique == Spec => [](TypeOK /\ CursorsUnique /\ ReservationCovers)
<1>1. Init => IInv
      BY InitIInv
<1>2. IInv /\ [Next]_vars => IInv'
      <2> SUFFICES ASSUME IInv, [Next]_vars PROVE IInv'
            OBVIOUS
      <2>1. CASE UNCHANGED vars
            BY <2>1 DEF vars, IInv, TypeOK, LanesKept, HandedBehind,
                        HandedReserved, CursorsUnique, owner_of
      <2>2. CASE Next
            BY <2>2, AllocateKeeps, OtherKeeps DEF Next
      <2> QED  BY <2>1, <2>2
<1>3. IInv => TypeOK /\ CursorsUnique /\ ReservationCovers
      <2> SUFFICES ASSUME IInv PROVE ReservationCovers
            BY DEF IInv
      <2> SUFFICES ASSUME NEW i \in 1..Len(handed)
                   PROVE  Le(handed[i].cursor, disk[handed[i].member])
            BY DEF ReservationCovers
      <2>1. handed[i].member \in Member /\ handed[i].cursor \in Mark
            BY HandedTyped DEF IInv
      <2>2. /\ Le(handed[i].cursor, reserved[handed[i].member])
            /\ Le(reserved[handed[i].member], disk[handed[i].member])
            BY <2>1 DEF IInv, HandedReserved
      <2>3. reserved[handed[i].member] \in Mark /\ disk[handed[i].member] \in Mark
            BY <2>1 DEF IInv, TypeOK
      <2> QED  BY <2>1, <2>2, <2>3, LeTransitive
<1> QED  BY <1>1, <1>2, <1>3, PTL DEF Spec
=============================================================================
