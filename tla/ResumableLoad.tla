---------------------------- MODULE ResumableLoad ----------------------------
(***************************************************************************)
(* What a checkpointed load promises, whatever it does inside: the phases  *)
(* of the plan are recorded in order, a phase is recorded only when its    *)
(* rows are in the database (but for rows whose statement raised), and the *)
(* rows of a recorded phase are not touched until a reset.  Runs, crashes, *)
(* batches, workers and the checkpoint file are not visible here.          *)
(***************************************************************************)
EXTENDS Naturals

CONSTANTS
    Phases,         \* the phases of the load, 1..n
    NoData,         \* the phases that are never recorded: no rows to load
    RowsOf,         \* the rows of each phase
    Ends            \* the phases whose rows a phase joins

VARIABLES
    table,          \* rows of each phase that are in the database
    recorded,       \* phases the checkpoint file has as completed
    lost            \* rows of each phase whose transaction was rolled back

vars == <<table, recorded, lost>>

Init ==
    /\ table = [p \in Phases |-> {}]
    /\ recorded = {}
    /\ lost = [p \in Phases |-> {}]

\* p is the phase the load is at: not recorded, and those before it are.
Current(p) ==
    /\ p \notin recorded
    /\ \A q \in Phases \ NoData : q < p => q \in recorded

Load(p, X) ==
    /\ Current(p)
    /\ table' = [table EXCEPT ![p] = @ \cup X]
    /\ UNCHANGED <<recorded, lost>>

\* A phase that is loaded by plain inserts starts over from an empty table.
Clear(p) ==
    /\ Current(p)
    /\ table' = [table EXCEPT ![p] = {}]
    /\ UNCHANGED <<recorded, lost>>

Lose(p, X) ==
    /\ lost' = [lost EXCEPT ![p] = @ \cup X]
    /\ UNCHANGED <<table, recorded>>

\* A row is missing because its own statement raised, or that of one of its ends.
Excused(p) == UNION {lost[q] : q \in Ends[p] \cup {p}}

Record(p) ==
    /\ Current(p)
    /\ RowsOf[p] \ table[p] \subseteq Excused(p)
    /\ recorded' = recorded \cup {p}
    /\ UNCHANGED <<table, lost>>

Reset ==
    /\ recorded' = {}
    /\ UNCHANGED <<table, lost>>

Next ==
    \/ \E p \in Phases :
          \/ \E X \in SUBSET RowsOf[p] : Load(p, X) \/ Lose(p, X)
          \/ Clear(p) \/ Record(p)
    \/ Reset

Spec == Init /\ [][Next]_vars

\* A recorded phase is all there, but for the rows that raised.
RecordedIsLoaded == \A p \in recorded : RowsOf[p] \ table[p] \subseteq Excused(p)

=============================================================================
