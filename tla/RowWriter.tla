------------------------------- MODULE RowWriter -------------------------------
(***************************************************************************)
(* The writer of latency samples (storage/timescale_writer.go): WriteSample *)
(* never blocks, one goroutine copies the rows to TimescaleDB in batches.  *)
(* Rows are numbered in the order of the calls.  A COPY is one transaction *)
(* and may fail, or may be committed although the client never hears so.   *)
(***************************************************************************)
EXTENDS Naturals, Sequences, FiniteSets

CONSTANTS
  QueueSize,      \* of batchCh (50000)
  CopySize,       \* rows that force a COPY (500)
  MaxRows,        \* bound: samples offered
  MaxBreakdowns   \* bound: failing COPYs while the pool is open

ASSUME RowAssumption ==
  /\ QueueSize \in Nat \ {0} /\ CopySize \in Nat \ {0}
  /\ MaxRows \in Nat /\ MaxBreakdowns \in Nat

VARIABLES
  queue,       \* batchCh
  rows,        \* the loop's batch
  copying,     \* is the loop inside CopyFrom?
  writing,     \* what the loop does: run, flush its last batch, or nothing
  table,       \* latency_samples
  offered,     \* calls of WriteSample
  refused,     \* history: rows for which the queue was full
  failed,      \* history: rows of the COPYs that reported an error
  droppedRows, \* w.dropped
  breakdowns,
  quit,        \* has Close closed done?
  pool         \* is the connection pool open?

progress  == <<queue, rows, copying, writing>>
outcome   == <<table, failed, droppedRows, breakdowns>>
shutdown  == <<quit, pool>>
writerVars == <<progress, offered, refused, outcome, shutdown>>

WriterInit ==
  /\ queue = <<>> /\ rows = <<>> /\ copying = FALSE /\ writing = "run"
  /\ table = <<>> /\ offered = 0 /\ refused = {} /\ failed = {} /\ droppedRows = 0
  /\ breakdowns = 0 /\ quit = FALSE /\ pool = TRUE

-----------------------------------------------------------------------------

\* A full queue refuses the row.
WriteSample ==
  /\ offered < MaxRows /\ offered' = offered + 1
  /\ \/ /\ Len(queue) < QueueSize
        /\ queue' = Append(queue, offered') /\ UNCHANGED <<refused, droppedRows>>
     \/ /\ Len(queue) = QueueSize
        /\ refused' = refused \cup {offered'} /\ droppedRows' = droppedRows + 1
        /\ UNCHANGED queue
  /\ UNCHANGED <<rows, copying, writing, table, failed, breakdowns, shutdown>>

ready == writing = "run" /\ ~copying

\* case s := <-w.batchCh
TakeRow ==
  /\ ready /\ queue # <<>>
  /\ queue' = Tail(queue) /\ rows' = Append(rows, Head(queue))
  /\ copying' = (Len(rows') >= CopySize)
  /\ UNCHANGED <<writing, offered, refused, outcome, shutdown>>

\* case <-ticker.C
Second ==
  /\ ready /\ rows # <<>>
  /\ copying' = TRUE
  /\ UNCHANGED <<queue, rows, writing, offered, refused, outcome, shutdown>>

\* case <-w.done: the last batch is copied, the queue is left as it is.
LastFlush ==
  /\ ready /\ quit
  /\ IF rows = <<>> THEN writing' = "ended" /\ UNCHANGED copying
     ELSE writing' = "flush" /\ copying' = TRUE
  /\ UNCHANGED <<queue, rows, offered, refused, outcome, shutdown>>

\* Mutated form of remaining: a failed batch is copied again.
retried(ok) == IF ok THEN <<>> ELSE rows

\* What is left of the batch after a COPY: nothing, even if it failed.
remaining(ok) == <<>>

asSet(s) == {s[i] : i \in DOMAIN s}

\* bulkInsert returns.  An error is the database's, the timeout's, or that of
\* a closed pool; the rows may be in the table all the same.
EndCopy(ok, stored) ==
  /\ copying /\ copying' = FALSE
  /\ ok => pool /\ stored
  /\ stored => pool
  /\ table' = IF stored THEN table \o rows ELSE table
  /\ IF ok THEN UNCHANGED <<failed, droppedRows, breakdowns>>
     ELSE /\ breakdowns < MaxBreakdowns \/ ~pool
          /\ breakdowns' = breakdowns + (IF pool THEN 1 ELSE 0)
          /\ failed' = failed \cup asSet(rows)
          /\ droppedRows' = droppedRows + Len(rows)
  /\ rows' = remaining(ok)
  /\ writing' = IF writing = "flush" THEN "ended" ELSE writing
  /\ UNCHANGED <<queue, offered, refused, shutdown>>

\* main's deferred calls: Close, then the pool.  Neither waits for the loop,
\* the pool only for the connection a COPY has.
CloseQuit ==
  /\ ~quit /\ quit' = TRUE
  /\ UNCHANGED <<progress, offered, refused, outcome, pool>>

ClosePool ==
  /\ quit /\ pool /\ ~copying /\ pool' = FALSE
  /\ UNCHANGED <<progress, offered, refused, outcome, quit>>

WriterNext ==
  \/ WriteSample \/ TakeRow \/ Second \/ LastFlush
  \/ \E ok, stored \in BOOLEAN : EndCopy(ok, stored)
  \/ CloseQuit \/ ClosePool

WriterSpec == WriterInit /\ [][WriterNext]_writerVars

-----------------------------------------------------------------------------
(* Properties *)

WriterTypeOK ==
  /\ queue \in Seq(1 .. MaxRows) /\ Len(queue) <= QueueSize
  /\ rows \in Seq(1 .. MaxRows) /\ Len(rows) <= CopySize
  /\ table \in Seq(1 .. MaxRows)
  /\ offered \in 0 .. MaxRows /\ droppedRows \in Nat /\ breakdowns \in 0 .. MaxBreakdowns
  /\ refused \subseteq 1 .. MaxRows /\ failed \subseteq 1 .. MaxRows
  /\ copying \in BOOLEAN /\ quit \in BOOLEAN /\ pool \in BOOLEAN
  /\ writing \in {"run", "flush", "ended"}

\* Every sample is under way, stored or counted as dropped, and Dropped
\* counts each once: what it reports errs only by the rows of a COPY that was
\* committed and reported an error; and the table holds no sample twice and
\* keeps their order all the same (timescale_writer.go:53-108).
DropsAreCounted ==
  /\ asSet(queue) \cup asSet(rows) \cup asSet(table) \cup refused \cup failed = 1 .. offered
  /\ droppedRows = Cardinality(refused) + Cardinality(failed)
  /\ \A i, k \in DOMAIN table : i < k => table[i] < table[k]
=============================================================================
