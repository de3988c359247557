---------------------------- MODULE MCServices ----------------------------
(***************************************************************************)
(* What runs on top of the consensus core, for TLC: the cursors members    *)
(* hand out, linearizable reads, snapshot transfers, and the log under all *)
(* of them.  Each behaviour explores one of them, the one that part names; *)
(* the variables of the others keep their initial values, so the run       *)
(* checks the sum of the components and not their product.                 *)
(***************************************************************************)
EXTENDS Cursors

CONSTANTS m1, m2, m3, NoOne    \* members, and Python's None

VARIABLE part

(* Lanes end at 16 nanoseconds; clocks read on both sides of a second's end. *)

Instant(s, n) == [seconds |-> s, nanoseconds |-> n]

MCInstants == {Instant(0, 3), Instant(0, 15)}

-----------------------------------------------------------------------------
(* Reads through the leader while leadership moves: on stores that stay, and
   on stores that a snapshot replaces. *)
VARIABLES
    term, role, read_leader, read_log, read_commit, read_sequence, heard,
    match, read_applied, retired, read_frames, reads, read_committed

readVars == <<term, role, read_leader, read_log, read_commit, read_sequence,
              heard, match, read_applied, retired, read_frames, reads,
              read_committed>>

Reads == INSTANCE ReadIndex WITH
    Member <- {m1, m2, m3}, None <- NoOne, First <- m1, Candidates <- {m2},
    Read <- {"r"}, Reader <- {m1, m2}, Path <- {"lookup", "register"},
    Installs <- FALSE, Overflows <- FALSE, MaxTerm <- 2, MaxLog <- 2, MaxSequence <- 2,
    MaxInFlight <- 2, leader <- read_leader, log <- read_log,
    commit <- read_commit, sequence <- read_sequence, applied <- read_applied,
    frames <- read_frames, committed <- read_committed

Installed == INSTANCE ReadIndex WITH
    Member <- {m1, m2, m3}, None <- NoOne, First <- m1, Candidates <- {m2},
    Read <- {"r"}, Reader <- {m1, m2}, Path <- {"lookup"},
    Installs <- TRUE, Overflows <- FALSE, MaxTerm <- 2, MaxLog <- 2, MaxSequence <- 3,
    MaxInFlight <- 1, leader <- read_leader, log <- read_log,
    commit <- read_commit, sequence <- read_sequence, applied <- read_applied,
    frames <- read_frames, committed <- read_committed

-----------------------------------------------------------------------------
(* Snapshots in two chunks and appends over connections that drop, to a
   follower that restarts, and from two leaders in turn. *)
VARIABLES
    lead, snap_applied, last, snapshot, boundary, walk, peer, snap_sequence,
    flight, up, bulk, dialled, snap_frames, answers, f, drops, snap_restarts

transferVars == <<lead, snap_applied, last, snapshot, boundary, walk, peer,
                  snap_sequence, flight, up, bulk, dialled, snap_frames,
                  answers, f, drops, snap_restarts>>

Transfer == INSTANCE SnapshotTransfer WITH
    Leader <- {m1}, First <- m1, Chunks <- 2, MaxIndex <- 2, MaxTerm <- 1,
    MaxDrops <- 1, MaxRestarts <- 1, applied <- snap_applied,
    sequence <- snap_sequence, frames <- snap_frames,
    restarts <- snap_restarts

Deposed == INSTANCE SnapshotTransfer WITH
    Leader <- {m1, m2}, First <- m1, Chunks <- 2, MaxIndex <- 2, MaxTerm <- 2,
    MaxDrops <- 0, MaxRestarts <- 0, applied <- snap_applied,
    sequence <- snap_sequence, frames <- snap_frames,
    restarts <- snap_restarts

-----------------------------------------------------------------------------
(* A log and the history it stands for. *)
VARIABLES l, history

Logs == INSTANCE RaftLogHistory WITH MaxTerm <- 3, MaxLength <- 5

-----------------------------------------------------------------------------
ASSUME ServicesAssumption ==
    /\ Reads!ReadAssumption /\ Installed!ReadAssumption
    /\ Reads!PromiseApplies /\ Installed!PromiseApplies
    /\ Transfer!TransferAssumption /\ Deposed!TransferAssumption
    /\ Logs!HistoryBounds

allVars == <<part, vars, readVars, transferVars, l, history>>

\* The follower compacts its own log under one leader only: a bound.
Compacting == f'.walk # Deposed!NoWalk

\* Reads and Installed share their variables and initial states, Transfer and
\* Deposed their variables.
ServicesInit ==
    /\ part \in {"cursors", "reads", "installed", "transfer", "deposed", "logs"}
    /\ Init /\ Reads!Init /\ Logs!Init
    /\ IF part = "deposed" THEN Deposed!Init ELSE Transfer!Init

ServicesNext ==
    \/ /\ part = "cursors" /\ Next
       /\ UNCHANGED <<part, readVars, transferVars, l, history>>
    \/ /\ \/ part = "reads" /\ Reads!Next
          \/ part = "installed" /\ Installed!Next
       /\ UNCHANGED <<part, vars, transferVars, l, history>>
    \/ /\ \/ part = "transfer" /\ Transfer!Next
          \/ part = "deposed" /\ Deposed!Next /\ ~Compacting
       /\ UNCHANGED <<part, vars, readVars, l, history>>
    \/ /\ part = "logs" /\ Logs!Next
       /\ UNCHANGED <<part, vars, readVars, transferVars>>

ServicesSpec == ServicesInit /\ [][ServicesNext]_allVars

-----------------------------------------------------------------------------
(* Properties.                                                               *)

\* The components keep their types.
ServicesTypeOK ==
    /\ part = "cursors" => TypeOK
    /\ part = "reads" => Reads!TypeOK
    /\ part = "installed" => Installed!TypeOK
    /\ part = "transfer" => Transfer!TypeOK
    /\ part = "deposed" => Deposed!TypeOK

\* A read that a member answers saw every write acknowledged before it began,
\* whoever leads meanwhile (RaftNode.read_index): on both paths while stores
\* stay, and for a lookup also when a snapshot replaces the store.  Left out, as
\* the code breaks it: a registration while a snapshot is installed, which looks
\* at the store it held before, and a snapshot that drops what its member has
\* acknowledged (PromiseApplies in ReadIndex).
ReadsAreLinearizable == Reads!ImplementsLinearizableRead

\* What a follower installs is one whole snapshot, a member's snapshot reaches
\* its log's boundary, and no leader credits a follower with what its log has
\* not held since it started (on_install_snapshot, SnapshotStore,
\* _PeerState.reply_floor).  What its log still holds is another matter: an
\* install drops acknowledged entries, see CreditIsHeld in SnapshotTransfer.
TransferIsSound ==
    /\ part = "transfer" =>
          /\ Transfer!NeverSpliced /\ Transfer!CoversBoundary
          /\ Transfer!CreditWasHeld
    /\ part = "deposed" =>
          /\ Deposed!NeverSpliced /\ Deposed!CoversBoundary
          /\ Deposed!CreditWasHeld

\* A running follower never goes back behind what it has applied, whichever
\* snapshot arrives (on_install_snapshot's early answer).
FollowerNeverGoesBack == Transfer!NeverGoesBack

\* A log that was appended to, truncated, compacted or replaced is still the
\* suffix of its history, and a leader that backs up in it ends at an anchor
\* that matches (RaftLog).
LogStandsForHistory ==
    part = "logs" => Logs!StandsForHistory /\ Logs!BackingUpEnds
==========================================================================
