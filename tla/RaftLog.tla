------------------------------ MODULE RaftLog ------------------------------
(***************************************************************************)
(* The in-memory log of a raft member (nmos/raft/log.py): a sequence of    *)
(* entries behind a snapshot boundary.                                     *)
(*                                                                         *)
(* An entry is represented by its term.  Its index is its position, as in  *)
(* the code, where the list is contiguous from snapshot_index + 1; its     *)
(* payload is left out, because no rule of the log reads it.               *)
(***************************************************************************)
EXTENDS Naturals, Sequences, FiniteSetsExt

Least(a, b) == IF a <= b THEN a ELSE b
Greatest(a, b) == IF a >= b THEN a ELSE b

\* All logs: what the snapshot covers, its last entry's term, what is kept.
LogType == [snapshot_index : Nat, snapshot_term : Nat, entries : Seq(Nat)]

EmptyLog == [snapshot_index |-> 0, snapshot_term |-> 0, entries |-> <<>>]

-----------------------------------------------------------------------------
(* Geometry *)

FirstIndex(l) == l.snapshot_index + 1
LastIndex(l) == l.snapshot_index + Len(l.entries)
LastTerm(l) == IF l.entries = <<>> THEN l.snapshot_term
                                   ELSE l.entries[Len(l.entries)]

-----------------------------------------------------------------------------
(* Reading *)

\* get: defined for FirstIndex(l) <= i <= LastIndex(l).
Get(l, i) == l.entries[i - l.snapshot_index]

\* term_at answers RaftLogCompacted below the boundary...
Compacted(l, i) == i < l.snapshot_index

\* ...and the boundary itself is answerable, index 0 of a fresh log included.
TermAt(l, i) == IF i = l.snapshot_index THEN l.snapshot_term ELSE Get(l, i)

\* slice / window: up to limit entries from start, none past the end.
Slice(l, start, limit) ==
    SubSeq(l.entries, start - l.snapshot_index,
           Least(start - l.snapshot_index + limit - 1, Len(l.entries)))

-----------------------------------------------------------------------------
(* Appending *)

\* append: one new entry of term t, as a leader.
AppendLocal(l, t) == [l EXCEPT !.entries = Append(@, t)]

\* truncate_suffix: discard from_index and everything after it.
TruncateSuffix(l, from) ==
    [l EXCEPT !.entries = SubSeq(@, 1, Least(from - 1 - l.snapshot_index, Len(@)))]

\* The entries of es, the first of which has index first, that this log does
\* not hold: above the boundary, and missing here or of another term.
Unheld(l, first, es) ==
    {k \in DOMAIN es :
        /\ first + k - 1 > l.snapshot_index
        /\ \/ first + k - 1 > LastIndex(l)
           \/ Get(l, first + k - 1) # es[k]}

\* Mutant of AppendReplicated: the conflicting suffix is not truncated.
AppendUntruncated(l, first, es) ==
    IF Unheld(l, first, es) = {} THEN l
    ELSE [l EXCEPT !.entries =
             @ \o SubSeq(es, Min(Unheld(l, first, es)), Len(es))]

\* append_replicated: keep what matches; at the first entry that does not,
\* discard from there and take the leader's entries from there on.
AppendReplicated(l, first, es) ==
    IF Unheld(l, first, es) = {} THEN l
    ELSE LET k == Min(Unheld(l, first, es))
             kept == TruncateSuffix(l, first + k - 1)
         IN [kept EXCEPT !.entries = @ \o SubSeq(es, k, Len(es))]

-----------------------------------------------------------------------------
(* Compaction *)

\* Mutant of DiscardThrough: the entry after the boundary is discarded too.
DiscardBeyond(l, i, t) ==
    IF i <= l.snapshot_index THEN l
    ELSE [snapshot_index |-> i, snapshot_term |-> t,
          entries |-> SubSeq(l.entries, i - l.snapshot_index + 2, Len(l.entries))]

\* discard_through: for an index at most LastIndex(l).
DiscardThrough(l, i, t) ==
    IF i <= l.snapshot_index THEN l
    ELSE [snapshot_index |-> i, snapshot_term |-> t,
          entries |-> SubSeq(l.entries, i - l.snapshot_index + 1, Len(l.entries))]

\* reset_to_snapshot: nothing held is worth keeping after an install.
ResetToSnapshot(l, i, t) ==
    [l EXCEPT !.snapshot_index = i, !.snapshot_term = t, !.entries = <<>>]

-----------------------------------------------------------------------------
(* Conflict resolution *)

\* matches: the AppendEntries check.
Matches(l, i, t) ==
    CASE i = 0 -> l.snapshot_index = 0
      [] i # 0 /\ (i < l.snapshot_index \/ i > LastIndex(l)) -> FALSE
      [] OTHER -> TermAt(l, i) = t

\* Mutant of FindConflict: resumes after the run of the conflicting term.
FindConflictPast(l, i, t) ==
    CASE i > LastIndex(l) -> LastIndex(l) + 1
      [] i <= l.snapshot_index -> FirstIndex(l)
      [] OTHER -> i + 1

\* find_conflict: the index a leader resumes from after a failed match.  The
\* code walks back to the first index of the conflicting term.
FindConflict(l, i, t) ==
    CASE i > LastIndex(l) -> LastIndex(l) + 1
      [] i <= l.snapshot_index -> FirstIndex(l)
      [] i \in FirstIndex(l) .. LastIndex(l) /\ Get(l, i) = t -> i
      [] OTHER -> Min({f \in FirstIndex(l) .. i :
                          \A k \in f .. i : Get(l, k) = Get(l, i)})

\* Mutant of IsAtLeastAsCurrentAs: the terms decide, lengths are not compared.
IsOfNoEarlierTerm(l, index, t) == t >= LastTerm(l)

\* is_at_least_as_current_as: the up-to-dateness test, from the voter's side.
IsAtLeastAsCurrentAs(l, index, t) ==
    IF t # LastTerm(l) THEN t > LastTerm(l) ELSE index >= LastIndex(l)
=============================================================================
