------------------------------- MODULE Cursors ------------------------------
(***************************************************************************)
(* Paging cursors (nmos/raft/cursors.py) as the members of a cluster hand  *)
(* them out (RaftNode.allocate_cursor), with the reservation in the term   *)
(* file that keeps two incarnations of one member apart.                   *)
(*                                                                         *)
(* The wall clock is not trusted: each reading is any of Instants, so it   *)
(* may step back or run ahead of another member's.  An entry that carries  *)
(* a cursor commits later than others handed out after it, or never.       *)
(***************************************************************************)
EXTENDS Integers, Sequences, FiniteSets

CONSTANTS
    Member,             \* indices of the members: each allocates in its lane
    Type,               \* resource types
    NanosPerSecond,     \* _NANOS_PER_SECOND
    Instants,           \* what TaiCursor.now() may read
    Installs,           \* whether a member may catch up by a snapshot
    MaxHanded,          \* bound: cursors handed out
    MaxFailures,        \* bound: saves of the term file that fail
    MaxRestarts         \* bound: restarts

MAX_OWNERS == 8         \* 1 << OWNER_BITS
RESERVATION_WINDOW_SECONDS == 1

TaiCursor == [seconds : Nat, nanoseconds : 0..(NanosPerSecond - 1)]

ASSUME MemberAssumption == Member \subseteq 0..(MAX_OWNERS - 1)
ASSUME NanosAssumption ==
    /\ NanosPerSecond \in Nat \ {0}
    /\ NanosPerSecond % MAX_OWNERS = 0
ASSUME InstantsAssumption == Instants \subseteq TaiCursor
ASSUME InstallsAssumption == Installs \in BOOLEAN

\* Python's None where a cursor is expected: below every cursor, which is how
\* each "is None or <" of the code reads it.
NoCursor == [seconds |-> -1, nanoseconds |-> 0]

Mark == TaiCursor \cup {NoCursor}

VARIABLES
    high_water,     \* CursorAllocator._high_water, per member and type
    floor,          \* _floor: what the previous incarnation reserved
    reserved,       \* _reserved: the bound durable now
    disk,           \* cursor_reservation in the member's term file
    handed,         \* history: every cursor that left allocate_cursor
    log,            \* committed entries: positions in handed
    applied,        \* last_applied of each member, in this incarnation
    failures, restarts

vars == <<high_water, floor, reserved, disk, handed, log, applied, failures,
          restarts>>

----------------------------------------------------------------------------
(* TaiCursor's order and the lane arithmetic.                              *)

Lt(a, b) == \/ a.seconds < b.seconds
            \/ a.seconds = b.seconds /\ a.nanoseconds < b.nanoseconds

Le(a, b) == a = b \/ Lt(a, b)

Higher(a, b) == IF Lt(a, b) THEN b ELSE a

owner_of(c) == c.nanoseconds % MAX_OWNERS

InLane(m, c) ==
    [c EXCEPT !.nanoseconds = (@ \div MAX_OWNERS) * MAX_OWNERS + m]

\* A bug to rule out: no carry into the next second.
NextInLaneUncarried(m, after) ==
    [after EXCEPT
       !.nanoseconds = ((@ \div MAX_OWNERS) + 1) * MAX_OWNERS + m]

NextInLane(m, after) ==
    LET n == ((after.nanoseconds \div MAX_OWNERS) + 1) * MAX_OWNERS + m
    IN  IF n >= NanosPerSecond
        THEN [seconds |-> after.seconds + 1, nanoseconds |-> m]
        ELSE [seconds |-> after.seconds, nanoseconds |-> n]

\* A bug to rule out: a new incarnation that resumes nothing.
CandidateFromZero(m, t, now) ==
    LET previous == high_water[m][t]
        candidate == InLane(m, now)
    IN  IF previous # NoCursor /\ Le(candidate, previous)
        THEN NextInLane(m, previous)
        ELSE candidate

\* The cursor allocate(t) of member m chooses when its clock reads now.
Candidate(m, t, now) ==
    LET previous == Higher(high_water[m][t], floor[m])
        candidate == InLane(m, now)
    IN  IF previous # NoCursor /\ Le(candidate, previous)
        THEN NextInLane(m, previous)
        ELSE candidate

reservation_needed(c) ==
    [c EXCEPT !.seconds = @ + RESERVATION_WINDOW_SECONDS]

----------------------------------------------------------------------------
(* RaftNode.allocate_cursor: no await, so one step, but for the end of the *)
(* process inside it; that is a failed save followed by a restart.         *)

Hand(m, t, c) ==
    /\ Len(handed) < MaxHanded
    /\ handed' = Append(handed, [member |-> m, type |-> t, cursor |-> c])

\* The reservation on disk covers the cursor.
AllocateReserved(m, t, now) ==
    LET c == Candidate(m, t, now)
    IN  /\ Le(c, reserved[m])
        /\ high_water' = [high_water EXCEPT ![m][t] = c]
        /\ Hand(m, t, c)
        /\ UNCHANGED <<floor, reserved, disk, log, applied, failures,
                       restarts>>

\* A bug to rule out: the cursor is returned although nothing was saved.
AllocateUnsaved(m, t, now) ==
    LET c == Candidate(m, t, now)
    IN  /\ ~Le(c, reserved[m])
        /\ high_water' = [high_water EXCEPT ![m][t] = c]
        /\ reserved' = [reserved EXCEPT ![m] = reservation_needed(c)]
        /\ Hand(m, t, c)
        /\ UNCHANGED <<floor, disk, log, applied, failures, restarts>>

\* A bound is saved, confirmed, and only then is the cursor returned.
AllocateReserving(m, t, now) ==
    LET c == Candidate(m, t, now)
        needed == reservation_needed(c)
    IN  /\ ~Le(c, reserved[m])
        /\ high_water' = [high_water EXCEPT ![m][t] = c]
        /\ disk' = [disk EXCEPT ![m] = needed]
        /\ reserved' = [reserved EXCEPT ![m] = Higher(@, needed)]
        /\ Hand(m, t, c)
        /\ UNCHANGED <<floor, log, applied, failures, restarts>>

\* The save fails, before the rename or after it: RaftCursorReservationFailed,
\* nothing is returned and the allocator has moved past the cursor.
AllocateFails(m, t, now) ==
    LET c == Candidate(m, t, now)
    IN  /\ ~Le(c, reserved[m])
        /\ failures < MaxFailures
        /\ failures' = failures + 1
        /\ high_water' = [high_water EXCEPT ![m][t] = c]
        /\ \E renamed \in BOOLEAN :
              disk' = [disk EXCEPT
                         ![m] = IF renamed THEN reservation_needed(c) ELSE @]
        /\ UNCHANGED <<floor, reserved, handed, log, applied, restarts>>

\* _persist, for the term or the vote: it carries the reservation over.
Persist(m) ==
    /\ disk # [disk EXCEPT ![m] = reserved[m]]
    /\ disk' = [disk EXCEPT ![m] = reserved[m]]
    /\ UNCHANGED <<high_water, floor, reserved, handed, log, applied,
                   failures, restarts>>

----------------------------------------------------------------------------
(* What the consensus core does with the entries that carry the cursors.   *)

\* The entry of a cursor handed out is committed, once, or never is.
Commit(k) ==
    /\ \A i \in 1..Len(log) : log[i] # k
    /\ log' = Append(log, k)
    /\ UNCHANGED <<high_water, floor, reserved, disk, handed, applied,
                   failures, restarts>>

\* A bug to rule out: cursors of other members are not observed.
ApplyUnobserved(m) ==
    /\ applied[m] < Len(log)
    /\ applied' = [applied EXCEPT ![m] = @ + 1]
    /\ UNCHANGED <<high_water, floor, reserved, disk, handed, log, failures,
                   restarts>>

\* _apply_register observes the cursor of the entry it applies.
Apply(m) ==
    /\ applied[m] < Len(log)
    /\ LET e == handed[log[applied[m] + 1]]
       IN  high_water' = [high_water EXCEPT ![m][e.type] = Higher(@, e.cursor)]
    /\ applied' = [applied EXCEPT ![m] = @ + 1]
    /\ UNCHANGED <<floor, reserved, disk, handed, log, failures, restarts>>

\* install_snapshot replaces the store; the allocator is left as it is.
InstallSnapshot(m) ==
    /\ Installs
    /\ applied[m] < Len(log)
    /\ \E k \in (applied[m] + 1)..Len(log) :
          applied' = [applied EXCEPT ![m] = k]
    /\ UNCHANGED <<high_water, floor, reserved, disk, handed, log, failures,
                   restarts>>

\* The process ends and starts again: the log is volatile, and the allocator
\* resumes from what the term file holds.
Restart(m) ==
    /\ restarts < MaxRestarts
    /\ restarts' = restarts + 1
    /\ high_water' = [high_water EXCEPT ![m] = [t \in Type |-> NoCursor]]
    /\ floor' = [floor EXCEPT ![m] = disk[m]]
    /\ reserved' = [reserved EXCEPT ![m] = disk[m]]
    /\ applied' = [applied EXCEPT ![m] = 0]
    /\ UNCHANGED <<disk, handed, log, failures>>

Init ==
    /\ high_water = [m \in Member |-> [t \in Type |-> NoCursor]]
    /\ floor = [m \in Member |-> NoCursor]
    /\ reserved = [m \in Member |-> NoCursor]
    /\ disk = [m \in Member |-> NoCursor]
    /\ handed = <<>>
    /\ log = <<>>
    /\ applied = [m \in Member |-> 0]
    /\ failures = 0
    /\ restarts = 0

Next ==
    \/ \E m \in Member, t \in Type, now \in Instants :
          \/ AllocateReserved(m, t, now)
          \/ AllocateReserving(m, t, now)
          \/ AllocateFails(m, t, now)
    \/ \E k \in 1..Len(handed) : Commit(k)
    \/ \E m \in Member :
          Persist(m) \/ Apply(m) \/ InstallSnapshot(m) \/ Restart(m)

Spec == Init /\ [][Next]_vars

----------------------------------------------------------------------------
Handed == [member : Member, type : Type, cursor : TaiCursor]

\* Type invariant: marks and bounds are cursors or absent, and the log refers
\* to cursors that were handed out.
TypeOK ==
    /\ high_water \in [Member -> [Type -> Mark]]
    /\ floor \in [Member -> Mark]
    /\ reserved \in [Member -> Mark]
    /\ disk \in [Member -> Mark]
    /\ handed \in Seq(Handed)
    /\ log \in Seq(Nat)
    /\ \A i \in 1..Len(log) : log[i] \in 1..Len(handed)
    /\ applied \in [Member -> Nat]
    /\ failures \in Nat
    /\ restarts \in Nat

\* No two resources of a type ever get one cursor: not from two members, not
\* from two incarnations of a member, whatever the clocks read and whichever
\* saves of the reservation fail (allocate, reservation_needed, resume).
CursorsUnique ==
    \A i, j \in 1..Len(handed) :
       /\ handed[i].type = handed[j].type
       /\ handed[i].cursor = handed[j].cursor
       => i = j

\* What is on disk bounds every cursor the member handed out, in any of its
\* incarnations: a restart at any moment resumes above them all.
ReservationCovers ==
    \A i \in 1..Len(handed) : Le(handed[i].cursor, disk[handed[i].member])

\* The allocator is "kept above every cursor the cluster has published"
\* (machine.py): a cursor handed out is above every cursor of its type that
\* the member has applied, so a client that has paged to one of those still
\* meets the new resource.
\* Violated where a member installs a snapshot, whose cursors the allocator does
\* not observe (install_snapshot).
AboveApplied ==
    [][\A m \in Member :
          (Len(handed') > Len(handed) /\ handed'[Len(handed')].member = m)
          => \A i \in 1..Len(log) :
                /\ i <= applied[m]
                /\ handed[log[i]].type = handed'[Len(handed')].type
                => Lt(handed[log[i]].cursor, handed'[Len(handed')].cursor)]_vars
=============================================================================
