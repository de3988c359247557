--------------------------- MODULE LinearizableRead -------------------------
(* What a read barrier promises a client (raft_backend._read_barrier): an    *)
(* answer reflects at least every write in effect when its request began.    *)
EXTENDS Integers

CONSTANT Read

VARIABLES
    written,        \* how many writes are in effect
    begun,          \* writes in effect when a request began, or None
    answer          \* writes the answer reflects, or None

None == -1

Init ==
    /\ written \in Nat
    /\ begun = [r \in Read |-> None]
    /\ answer = [r \in Read |-> None]

Write ==
    /\ written' \in Nat /\ written' > written
    /\ UNCHANGED <<begun, answer>>

Begin(r) ==
    /\ begun[r] = None
    /\ begun' = [begun EXCEPT ![r] = written]
    /\ UNCHANGED <<written, answer>>

\* A request that cannot be shown to be current is refused (a 503), which is
\* no answer.
Answer(r) ==
    /\ begun[r] # None /\ answer[r] = None
    /\ answer'[r] >= begun[r]
    /\ answer' = [answer EXCEPT ![r] = answer'[r]]
    /\ UNCHANGED <<written, begun>>

Next == Write \/ \E r \in Read : Begin(r) \/ Answer(r)

Spec == Init /\ [][Next]_<<written, begun, answer>>
=============================================================================
