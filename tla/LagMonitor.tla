------------------------------ MODULE LagMonitor ------------------------------
(***************************************************************************)
(* How the ingester measures how far behind it is (kafka/lag_monitor.go):  *)
(* partition by partition it asks for the end of the log, then for the     *)
(* group's committed offset.  Producers and consumers go on between any    *)
(* two calls, and a failed call is not retried: a partition whose end      *)
(* cannot be read is left out, one whose commit cannot be read counts      *)
(* whole.                                                                  *)
(***************************************************************************)
EXTENDS Integers, FiniteSetsExt, Functions

CONSTANTS
  Partition, Idle,
  MaxOffset,     \* bound: messages of a partition
  MaxFailures    \* bound: calls that fail

ASSUME LagAssumption ==
  IsFiniteSet(Partition) /\ Idle \notin Partition /\ MaxOffset \in Nat /\ MaxFailures \in Nat

VARIABLES
  end, committed,     \* of each partition; committed -1: never
  todo,               \* the partitions this check has not looked at
  partition, last,    \* the one it is at, Idle between two; its end as read
  total, lastLag,
  failures,             \* calls that failed so far
  seen,               \* history: what the group had committed when an end was read
  exact               \* history: no call of this check has failed

lagVars == <<end, committed, todo, partition, last, total, lastLag, failures, seen, exact>>
offsets == <<end, committed>>

\* The members of the group commit nothing before their first message.
LagInit ==
  /\ end = [p \in Partition |-> 0] /\ committed = [p \in Partition |-> -1]
  /\ todo = {} /\ partition = Idle /\ last = 0 /\ total = 0 /\ lastLag = 0
  /\ failures = 0 /\ seen = [p \in Partition |-> [end |-> 0, lag |-> 0]] /\ exact = TRUE

-----------------------------------------------------------------------------
Write(p) ==
  /\ end[p] < MaxOffset /\ end' = [end EXCEPT ![p] = @ + 1]
  /\ UNCHANGED <<committed, todo, partition, last, total, lastLag, failures, seen, exact>>

Commit(p) ==
  /\ committed[p] < end[p] /\ end[p] > 0
  /\ \E o \in 1 .. end[p] : o > committed[p] /\ committed' = [committed EXCEPT ![p] = o]
  /\ UNCHANGED <<end, todo, partition, last, total, lastLag, failures, seen, exact>>

\* A tick.  A failed dial ends the check before anything is changed.
Check ==
  /\ todo = {} /\ partition = Idle
  /\ todo' = Partition /\ total' = 0 /\ exact' = TRUE
  /\ seen' = [p \in Partition |-> [end |-> 0, lag |-> 0]]
  /\ UNCHANGED <<offsets, partition, last, lastLag, failures>>

\* The loop goes on; after the last partition the total is stored.
goOn(rest, t) ==
  /\ todo' = rest /\ partition' = Idle /\ total' = t
  /\ lastLag' = IF rest = {} THEN t ELSE lastLag

\* What the group lacks; one that has never committed (-1) lacks one message
\* more than there are, also of an empty partition.
lagOf(p) == Max({0, end[p] - committed[p]})

ReadLastOffset(p) ==
  /\ p \in todo /\ partition = Idle
  /\ partition' = p /\ last' = end[p] /\ seen' = [seen EXCEPT ![p] = [end |-> end[p], lag |-> lagOf(p)]]
  /\ UNCHANGED <<offsets, todo, total, lastLag, failures, exact>>

\* DialLeader or ReadLastOffset fails: continue.
SkipPartition(p) ==
  /\ p \in todo /\ partition = Idle /\ failures < MaxFailures
  /\ failures' = failures + 1 /\ exact' = FALSE /\ goOn(todo \ {p}, total)
  /\ UNCHANGED <<offsets, last, seen>>

\* Mutated form of behind: the end is read after the committed offset.
behindNow(c) == Max({0, end[partition] - c})

\* What the partition adds to the total.
behind(c) == Max({0, last - c})

\* readCommitted, which answers 0 when the call fails.
ReadCommitted ==
  /\ partition # Idle
  /\ \/ /\ goOn(todo \ {partition}, total + behind(committed[partition]))
        /\ UNCHANGED <<failures, exact>>
     \/ /\ failures < MaxFailures /\ failures' = failures + 1 /\ exact' = FALSE
        /\ goOn(todo \ {partition}, total + behind(0))
  /\ UNCHANGED <<offsets, last, seen>>

LagNext ==
  \/ \E p \in Partition : Write(p) \/ Commit(p) \/ ReadLastOffset(p) \/ SkipPartition(p)
  \/ Check \/ ReadCommitted

LagSpec == LagInit /\ [][LagNext]_lagVars

-----------------------------------------------------------------------------
(* Properties *)

sumOf(f) == SumFunctionOnSet(f, Partition)

LagTypeOK ==
  /\ end \in [Partition -> 0 .. MaxOffset] /\ committed \in [Partition -> -1 .. MaxOffset]
  /\ \A p \in Partition : committed[p] <= end[p]
  /\ todo \subseteq Partition /\ partition \in todo \cup {Idle} /\ last \in 0 .. MaxOffset
  /\ total \in Nat /\ lastLag \in Nat
  /\ failures \in 0 .. MaxFailures

\* Although no two offsets are read at one moment, a check in which no call
\* failed never reports more than the group lacked when each end was read,
\* and never less than what it still lacks of that now
\* (lag_monitor.go:69-86).
LagIsThatOfTheCheck ==
  [][(todo # {} /\ todo' = {} /\ exact') =>
       /\ lastLag' <= sumOf([p \in Partition |-> seen[p].lag])
       /\ lastLag' >= sumOf([p \in Partition |-> Max({0, seen[p].end - committed[p]})])]_lagVars
=============================================================================
