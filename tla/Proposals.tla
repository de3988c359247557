----------------------------- MODULE Proposals ------------------------------
(***************************************************************************)
(* From a caller's operation to its answer (ProposalBatcher; RaftNode:     *)
(* propose, _drain, on_propose, _next_proposal, _wait_for, _apply_committed*)
(* and _resolve; RaftRegistryBackend._commit).                             *)
(*                                                                         *)
(* Consensus is what RaftNode shows of it: the log of the member that      *)
(* leads, whose committed prefix never changes; a new leader keeps any of  *)
(* the entries that were not committed, in some order, and those it does   *)
(* not keep may come back with a later one.                                *)
(***************************************************************************)
EXTENDS Integers, Sequences, FiniteSets, SequencesExt

CONSTANTS
    Member, None,
    Call,           \* operations callers submit, each once
    PerIncarnation, \* PROPOSALS_PER_INCARNATION
    MaxBatch,       \* max_batch, in operations
    MaxElections,   \* bound: changes of leader
    MaxRestarts,    \* bound: restarts of members
    MaxLosses       \* bound: connections lost with what they carry

\* Assumed of the constants by the modules that instantiate this one: an
\* incarnation of a member has more ids than it will ever use (2^32).
ProposalsAssumption ==
    /\ None \notin Member /\ None \notin Call
    /\ PerIncarnation \in Nat /\ MaxBatch \in Nat \ {0}
    /\ IsFiniteSet(Call) /\ MaxElections \in Nat
    /\ Cardinality(Call) + MaxElections <= PerIncarnation

VARIABLES
    leader,         \* who leads, if anyone
    believes,       \* whom each member takes for the leader: itself if LEADER
    log, committed, \* the leader's log, and how much of it is committed
    floating,       \* entries some member holds and the leader does not
    incarnation, sequence,
    batch,          \* ProposalBatcher._pending
    scheduled,      \* ProposalBatcher._scheduled
    flushes,        \* callbacks of the event loop that will flush
    waiters,        \* _waiters: proposal ids and the calls that wait on them
    releases,       \* done-callbacks of futures that are due
    inbox,          \* Propose messages between members
    call,           \* what became of each call
    commit, applied, store,     \* each member's; the store as what it applied
    elections, restarts, losses

batcher == <<batch, scheduled, flushes>>
member == <<commit, applied, store>>
bounds == <<elections, restarts, losses>>
vars == <<leader, believes, log, committed, floating, incarnation, sequence,
          batcher, waiters, releases, inbox, call, member, bounds>>

Waiting(c) == call[c].state = "waiting"

Entry(m, n, c) == [id |-> <<m, n>>, call |-> c]

----------------------------------------------------------------------------
(* Submitting.                                                             *)

\* An append by a member that takes itself for the leader: to the log, or, if
\* it has been deposed, to one that a later leader may or may not keep.
AppendLocal(m, entries) ==
    IF m = leader
    THEN log' = log \o entries /\ UNCHANGED floating
    ELSE floating' = floating \cup ToSet(entries) /\ UNCHANGED log

\* A bug to rule out: only a future that ends later releases its waiter.
DueOnlyLater(calls) == {}

\* Callers whose deadline passed before their batch was drained.
DueAtOnce(calls) ==
    {c \in ToSet(calls) : call[c].state \notin {"idle", "waiting"}}

\* _drain: a leader appends, a follower sends; each future waits under an id of
\* its own, and one that is already done releases its waiter at once.
Drain(m, calls) ==
    LET entries == [i \in 1..Len(calls) |->
                       Entry(m, sequence[m] + i, calls[i])]
        Registered ==
            /\ sequence' = [sequence EXCEPT ![m] = @ + Len(calls)]
            /\ waiters' = [waiters EXCEPT ![m] = @ \cup ToSet(entries)]
            /\ releases' = [releases EXCEPT ![m] = @ \cup DueAtOnce(calls)]
    IN  CASE believes[m] = m ->
             Registered /\ AppendLocal(m, entries) /\ UNCHANGED inbox
          [] believes[m] \notin {m, None} ->
             /\ Registered
             /\ inbox' = [inbox EXCEPT ![<<m, believes[m]>>] =
                             Append(@, entries)]
             /\ UNCHANGED <<log, floating>>
          [] believes[m] = None ->
             UNCHANGED <<sequence, waiters, releases, log, floating, inbox>>

\* Calls a drain refuses: no leader elected.
Refused(m, calls) == IF believes[m] = None THEN ToSet(calls) ELSE {}

After(c, m, state) == [state |-> state, at |-> m, answer |-> None]

\* A bug to rule out: a flush leaves the flag set.
FlushedOnce(m) == scheduled

Flushed(m) == [scheduled EXCEPT ![m] = FALSE]

\* A bug to rule out: a flush keeps what it has handed over.
KeptBatch(m) == batch

Handed(m) == [batch EXCEPT ![m] = <<>>]

\* submit: a full batch is drained now, any other by a callback of this tick.
Submit(c, m) ==
    LET calls == Append(batch[m], c)
        full == Len(calls) >= MaxBatch
        kept == Refused(m, calls)
    IN  /\ call[c].state = "idle"
        /\ IF full
           THEN /\ batch' = Handed(m)
                /\ scheduled' = Flushed(m)
                /\ UNCHANGED flushes
                /\ Drain(m, calls)
                /\ call' = [d \in Call |->
                      IF d \in kept /\ (Waiting(d) \/ d = c)
                      THEN After(d, m, "unavailable")
                      ELSE IF d = c THEN After(c, m, "waiting") ELSE call[d]]
           ELSE /\ batch' = [batch EXCEPT ![m] = calls]
                /\ scheduled' = [scheduled EXCEPT ![m] = TRUE]
                /\ flushes' = [flushes EXCEPT ![m] =
                                  IF scheduled[m] THEN @ ELSE @ + 1]
                /\ call' = [call EXCEPT ![c] = After(c, m, "waiting")]
                /\ UNCHANGED <<sequence, waiters, releases, log, floating,
                               inbox>>
        /\ UNCHANGED <<leader, believes, committed, incarnation, member, bounds>>

\* _flush, called by the event loop.
Flush(m) ==
    /\ flushes[m] > 0
    /\ flushes' = [flushes EXCEPT ![m] = @ - 1]
    /\ scheduled' = Flushed(m)
    /\ IF batch[m] = <<>>
       THEN UNCHANGED <<batch, sequence, waiters, releases, log, floating,
                        inbox, call>>
       ELSE /\ batch' = Handed(m)
            /\ Drain(m, batch[m])
            /\ call' = [d \in Call |->
                  IF d \in Refused(m, batch[m]) /\ Waiting(d)
                  THEN After(d, m, "unavailable") ELSE call[d]]
    /\ UNCHANGED <<leader, believes, committed, incarnation, member, bounds>>

\* on_propose: only a leader appends; any other refuses, and nobody tells the
\* caller, who waits for its deadline.
OnPropose(l) ==
    /\ inbox[l] # <<>>
    /\ inbox' = [inbox EXCEPT ![l] = Tail(@)]
    /\ IF believes[l[2]] = l[2] THEN AppendLocal(l[2], Head(inbox[l]))
       ELSE UNCHANGED <<log, floating>>
    /\ UNCHANGED <<leader, believes, committed, incarnation, sequence, batcher,
                   waiters, releases, call, member, bounds>>

----------------------------------------------------------------------------
(* Waiting.                                                                *)

\* _commit's deadline cancels the future: its release is due.
Deadline(c) ==
    LET m == call[c].at
    IN  /\ Waiting(c)
        /\ call' = [call EXCEPT ![c].state = "timed out"]
        /\ releases' = [releases EXCEPT ![m] =
              IF \E w \in waiters[m] : w.call = c THEN @ \cup {c} ELSE @]
        /\ UNCHANGED <<leader, believes, log, committed, floating, incarnation,
                       sequence, batcher, waiters, inbox, member, bounds>>

\* _wait_for's release.
Release(m) ==
    /\ releases[m] # {}
    /\ waiters' = [waiters EXCEPT ![m] = {w \in @ : w.call \notin releases[m]}]
    /\ releases' = [releases EXCEPT ![m] = {}]
    /\ UNCHANGED <<leader, believes, log, committed, floating, incarnation,
                   sequence, batcher, inbox, call, member, bounds>>

----------------------------------------------------------------------------
(* Committing and applying.                                                *)

Commit ==
    /\ leader # None /\ committed < Len(log)
    /\ committed' = committed + 1
    /\ UNCHANGED <<leader, believes, log, floating, incarnation, sequence,
                   batcher, waiters, releases, inbox, call, member, bounds>>

LearnCommit(m) ==
    /\ commit[m] < committed
    /\ commit' = [commit EXCEPT ![m] = committed]
    /\ UNCHANGED <<leader, believes, log, committed, floating, incarnation,
                   sequence, batcher, waiters, releases, inbox, call, applied,
                   store, bounds>>

\* A bug to rule out: a run is bounded by its size and not by the commit index.
RunUnbounded(m) == 1..(Len(log) - applied[m])

\* How many entries one run of the applier may take.
Run(m) == 1..(commit[m] - applied[m])

\* _resolve: an entry answers the call that waits under its id.
Resolved(m, entries) ==
    {w \in waiters[m] : \E e \in ToSet(entries) : e.id = w.id}

\* One bounded run of _apply_committed; between two, anything may happen.
ApplyRun(m) ==
    \E n \in Run(m) :
       LET entries == SubSeq(log, applied[m] + 1, applied[m] + n)
           answered == {w \in Resolved(m, entries) : Waiting(w.call)}
       IN  /\ applied' = [applied EXCEPT ![m] = @ + n]
           /\ store' = [store EXCEPT ![m] = @ \o entries]
           /\ waiters' = [waiters EXCEPT ![m] = @ \ Resolved(m, entries)]
           /\ call' = [c \in Call |->
                 IF \E w \in answered : w.call = c
                 THEN [call[c] EXCEPT !.state = "answered", !.answer =
                          (CHOOSE e \in ToSet(entries) :
                              \E w \in answered : w.call = c /\ e.id = w.id).call]
                 ELSE call[c]]
           /\ UNCHANGED <<leader, believes, log, committed, floating,
                          incarnation, sequence, batcher, releases, inbox,
                          commit, bounds>>

\* A snapshot replaces the store between two runs.
Install(m) ==
    /\ commit[m] < committed
    /\ commit' = [commit EXCEPT ![m] = committed]
    /\ applied' = [applied EXCEPT ![m] = committed]
    /\ store' = [store EXCEPT ![m] = SubSeq(log, 1, committed)]
    /\ UNCHANGED <<leader, believes, log, committed, floating, incarnation,
                   sequence, batcher, waiters, releases, inbox, call, bounds>>

----------------------------------------------------------------------------
(* Elections, restarts, connections.                                       *)

\* _become_leader, with an entry of its own that does nothing.
Elect(m) ==
    LET tail == SubSeq(log, committed + 1, Len(log))
        rest == floating \cup ToSet(tail)
    IN  /\ elections < MaxElections
        /\ elections' = elections + 1
        /\ leader' = m
        /\ believes' = [believes EXCEPT ![m] = m]
        /\ sequence' = [sequence EXCEPT ![m] = @ + 1]
        /\ \E kept \in SUBSET rest :
              \E t \in SetToSeqs(kept) :
                 /\ log' = SubSeq(log, 1, committed) \o t
                              \o <<Entry(m, sequence[m] + 1, None)>>
                 /\ floating' = rest \ kept
        /\ UNCHANGED <<committed, incarnation, batcher, waiters, releases,
                       inbox, call, member, restarts, losses>>

\* A member hears of the leader, or gives up on the one it had.
Believe(m) ==
    /\ believes' = [believes EXCEPT ![m] =
                       IF leader \in {m, believes[m]} THEN None ELSE leader]
    /\ leader' = IF leader = m THEN None ELSE leader
    /\ UNCHANGED <<log, committed, floating, incarnation, sequence, batcher,
                   waiters, releases, inbox, call, member, bounds>>

\* A bug to rule out: the sequence starts again with the process.
SeedAlike(m) == PerIncarnation

\* Each incarnation mints ids in a range of its own.
Seed(m) == (incarnation[m] + 1) * PerIncarnation

\* The process ends, and its callers with it; its entries do not.
Restart(m) ==
    /\ restarts < MaxRestarts
    /\ restarts' = restarts + 1
    /\ incarnation' = [incarnation EXCEPT ![m] = @ + 1]
    /\ sequence' = [sequence EXCEPT ![m] = Seed(m)]
    /\ leader' = IF leader = m THEN None ELSE leader
    /\ believes' = [believes EXCEPT ![m] = None]
    /\ batch' = [batch EXCEPT ![m] = <<>>]
    /\ scheduled' = [scheduled EXCEPT ![m] = FALSE]
    /\ flushes' = [flushes EXCEPT ![m] = 0]
    /\ waiters' = [waiters EXCEPT ![m] = {}]
    /\ releases' = [releases EXCEPT ![m] = {}]
    /\ call' = [c \in Call |-> IF Waiting(c) /\ call[c].at = m
                               THEN [call[c] EXCEPT !.state = "gone"]
                               ELSE call[c]]
    /\ commit' = [commit EXCEPT ![m] = 0]
    /\ applied' = [applied EXCEPT ![m] = 0]
    /\ store' = [store EXCEPT ![m] = <<>>]
    /\ UNCHANGED <<log, committed, floating, inbox, elections, losses>>

LoseConnection(l) ==
    /\ inbox[l] # <<>> /\ losses < MaxLosses
    /\ losses' = losses + 1
    /\ inbox' = [inbox EXCEPT ![l] = <<>>]
    /\ UNCHANGED <<leader, believes, log, committed, floating, incarnation,
                   sequence, batcher, waiters, releases, call, member,
                   elections, restarts>>

----------------------------------------------------------------------------
Init ==
    /\ leader = None
    /\ believes = [m \in Member |-> None]
    /\ log = <<>>
    /\ committed = 0
    /\ floating = {}
    /\ incarnation = [m \in Member |-> 1]
    /\ sequence = [m \in Member |-> PerIncarnation]
    /\ batch = [m \in Member |-> <<>>]
    /\ scheduled = [m \in Member |-> FALSE]
    /\ flushes = [m \in Member |-> 0]
    /\ waiters = [m \in Member |-> {}]
    /\ releases = [m \in Member |-> {}]
    /\ inbox = [l \in Member \X Member |-> <<>>]
    /\ call = [c \in Call |-> After(c, None, "idle")]
    /\ commit = [m \in Member |-> 0]
    /\ applied = [m \in Member |-> 0]
    /\ store = [m \in Member |-> <<>>]
    /\ elections = 0
    /\ restarts = 0
    /\ losses = 0

Next ==
    \/ \E c \in Call, m \in Member : Submit(c, m)
    \/ \E c \in Call : Deadline(c)
    \/ \E m \in Member : Flush(m) \/ Release(m)
    \/ \E l \in Member \X Member : OnPropose(l) \/ LoseConnection(l)
    \/ Commit
    \/ \E m \in Member : LearnCommit(m) \/ ApplyRun(m) \/ Install(m)
    \/ \E m \in Member : Elect(m) \/ Believe(m) \/ Restart(m)

Spec == Init /\ [][Next]_vars

----------------------------------------------------------------------------
\* Type invariant.
TypeOK ==
    /\ committed \in 0..Len(log)
    /\ \A m \in Member :
          /\ believes[m] \in Member \cup {None}
          /\ applied[m] <= commit[m] /\ commit[m] <= committed
          /\ flushes[m] \in Nat /\ batch[m] \in Seq(Call)
    /\ \A c \in Call : call[c].answer \in Call \cup {None}

\* An answer is the outcome of the caller's own operation, and that is
\* committed: an entry of an earlier run of the member, applied after it came
\* back, answers nobody (PROPOSALS_PER_INCARNATION).
AnsweredTruly ==
    \A c \in Call : call[c].state = "answered" =>
       call[c].answer = c /\ \E i \in 1..committed : log[i].call = c

\* An operation is in the log at most once: a batch is handed over once, and
\* nothing is proposed again on its caller's behalf.
ProposedOnce ==
    \A i, j \in 1..Len(log) :
       log[i].call # None /\ log[i].call = log[j].call => i = j

\* A member's store is a prefix of what is committed, applied in order, though
\* the commit index and the store move between two runs (_apply_committed).
StoreIsCommitted ==
    \A m \in Member : store[m] = SubSeq(log, 1, applied[m])

\* No waiter outlives its caller: one whose future is done has its release due
\* (_wait_for).
WaitersAreWanted ==
    \A m \in Member : \A w \in waiters[m] :
       Waiting(w.call) \/ w.call \in releases[m]

\* What is queued will be drained: a callback of the event loop is due.
BatchIsScheduled ==
    \A m \in Member : batch[m] # <<>> => flushes[m] > 0

\* Each call is answered with its own outcome once that is committed, its
\* operation is in the log at most once, what a member has applied is what is
\* committed, a waiter whose call has ended has its release due, and a batch
\* its flush.  A call whose proposal was lost waits on, to its deadline
\* (ProposalBatcher, RaftNode.propose, _wait_for).
CallsAreAnswered ==
    /\ TypeOK /\ AnsweredTruly /\ ProposedOnce /\ StoreIsCommitted
    /\ WaitersAreWanted /\ BatchIsScheduled
=============================================================================
