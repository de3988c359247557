--------------------------- MODULE RaftLogHistory ---------------------------
(***************************************************************************)
(* One log through every sequence of its operations, beside the history it *)
(* stands for: the sequence of all the terms it would hold had it never    *)
(* been compacted.  The abstract effect of each operation is stated on the *)
(* history, its concrete one by RaftLog.                                   *)
(***************************************************************************)
EXTENDS RaftLog

CONSTANTS MaxTerm, MaxLength    \* bounds on the histories

\* Assumed of the constants by the modules that instantiate this one.
HistoryBounds == MaxTerm \in Nat /\ MaxLength \in Nat

VARIABLES l, history

\* The histories of a log: terms never decrease along one.
Terms(n) == {h \in [1 .. n -> 1 .. MaxTerm] :
                \A i, j \in 1 .. n : i <= j => h[i] <= h[j]}
Histories == UNION {Terms(n) : n \in 0 .. MaxLength}

TermIn(h, i) == IF i = 0 THEN 0 ELSE h[i]

Init == l = EmptyLog /\ history = <<>>

\* append, by a leader of term t.
AppendOne(t) ==
    /\ Len(history) < MaxLength /\ t >= TermIn(history, Len(history))
    /\ l' = AppendLocal(l, t)
    /\ history' = Append(history, t)

\* append_replicated of the entries after prev, up to last, of a leader whose
\* history is h: called once the anchor matches, never below the boundary.  A
\* history that extends what was sent is left as it is.
Replicate(h, prev, last) ==
    /\ prev >= l.snapshot_index
    /\ Matches(l, prev, TermIn(h, prev))
    /\ l' = AppendReplicated(l, prev + 1, SubSeq(h, prev + 1, last))
    /\ history' = IF /\ last <= Len(history)
                     /\ \A k \in prev + 1 .. last : history[k] = h[k]
                  THEN history
                  ELSE SubSeq(history, 1, prev) \o SubSeq(h, prev + 1, last)

\* discard_through, with the term the log itself gives.
Compact(i) ==
    /\ i > l.snapshot_index
    /\ l' = DiscardThrough(l, i, TermAt(l, i))
    /\ UNCHANGED history

\* reset_to_snapshot: the whole of a leader's history h.
Install(h) ==
    /\ Len(h) > l.snapshot_index
    /\ l' = ResetToSnapshot(l, Len(h), TermIn(h, Len(h)))
    /\ history' = h

Next ==
    \/ \E t \in 1 .. MaxTerm : AppendOne(t)
    \/ \E h \in Histories : \E last \in 0 .. Len(h) : \E prev \in 0 .. last :
          Replicate(h, prev, last)
    \/ \E i \in 1 .. Len(history) : Compact(i)
    \/ \E h \in Histories : Install(h)

Spec == Init /\ [][Next]_<<l, history>>

-----------------------------------------------------------------------------

\* However it was appended to, truncated, compacted or replaced, the log is the
\* suffix of its history behind the boundary, and knows the boundary's term.
StandsForHistory ==
    /\ LastIndex(l) = Len(history) /\ LastTerm(l) = TermIn(history, Len(history))
    /\ l.snapshot_term = TermIn(history, l.snapshot_index)
    /\ l.entries = SubSeq(history, l.snapshot_index + 1, Len(history))

\* A leader that backs up as find_conflict says, each time its probe does not
\* match, gets closer every time and never back behind the boundary; so it
\* ends at an anchor that does match, unless what it needs is compacted here.
BackingUpEnds ==
    \A i \in 1 .. MaxLength, t \in 1 .. MaxTerm :
        (i > l.snapshot_index /\ ~Matches(l, i, t))
            => FindConflict(l, i, t) \in FirstIndex(l) .. i
=============================================================================
