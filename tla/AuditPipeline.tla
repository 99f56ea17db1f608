---------------------------- MODULE AuditPipeline ----------------------------
(***************************************************************************)
(* The audit trail (audit_pipeline.py, audit_db.py): the middleware puts   *)
(* one record per request into a bounded queue, AuditWriterThread moves    *)
(* them in batches to a DuckDB table and to the syslog handler, and the    *)
(* shutdown stops the thread before it closes the database.                *)
(*                                                                         *)
(* Records are numbered in the order the event loop enqueues them. The     *)
(* flush interval is abstracted: a batch that is not empty may be flushed  *)
(* at any time, and fairness says that it will be.                         *)
(***************************************************************************)
EXTENDS Naturals, Sequences, SequencesExt

CONSTANTS
    QueueSize,      \* _QUEUE_MAXSIZE
    BatchSize,      \* batch_size
    MaxRecords,     \* bound on the number of records
    MaxStarts,      \* bound on the number of processes
    DbMayFail,      \* an insert may fail
    Crashes         \* the process may die

ASSUME SizesAssumption == QueueSize \in Nat \ {0} /\ BatchSize \in Nat \ {0}
ASSUME BoundsAssumption == MaxRecords \in Nat /\ MaxStarts \in Nat \ {0}

VARIABLES
    last,       \* the number of the last record
    queue,      \* _audit_queue
    batch,      \* the writer's batch
    unsent,     \* what is left of the batch that is forwarded to syslog
    pc,         \* where the writer is
    con,        \* the connection insert_batch got is open
    rows,       \* the table audit_log, in the order of its ids
    lastSent,   \* the last record given to the syslog handler
    sink,       \* a syslog handler is attached
    dropped,    \* the records counted by _record_drop
    lost,       \* the records of inserts that failed
    purged,     \* the records the retention job deleted
    gone,       \* the records that were in memory when a process ended
    phase,      \* the process: "up", "stopping", "closing" or "down"
    starts      \* the number of processes so far

memory == <<queue, batch, unsent>>
fates == <<dropped, lost, purged, gone>>
vars == <<last, memory, pc, con, rows, lastSent, sink, fates, phase, starts>>

Init ==
    /\ last = 0
    /\ queue = <<>> /\ batch = <<>> /\ unsent = <<>>
    /\ pc = "poll"
    /\ con = FALSE
    /\ rows = <<>>
    /\ lastSent = 0
    /\ sink = FALSE
    /\ dropped = {} /\ lost = {} /\ purged = {} /\ gone = {}
    /\ phase = "up"
    /\ starts = 1

-----------------------------------------------------------------------------
(* The event loop and the thread that applies syslog settings *)

\* Slip: the queue takes one record more than its size.
EnqueueOneMore ==
    /\ phase = "up"
    /\ last < MaxRecords
    /\ last' = last + 1
    /\ IF Len(queue) <= QueueSize
       THEN queue' = Append(queue, last + 1) /\ UNCHANGED dropped
       ELSE dropped' = dropped \cup {last + 1} /\ UNCHANGED queue
    /\ UNCHANGED <<batch, unsent, pc, con, rows, lastSent, sink, lost, purged, gone,
                   phase, starts>>

\* Slip: a full queue makes room by forgetting its oldest record.
EnqueueOverOldest ==
    /\ phase = "up"
    /\ last < MaxRecords
    /\ last' = last + 1
    /\ queue' = Append(IF Len(queue) < QueueSize THEN queue ELSE Tail(queue), last + 1)
    /\ UNCHANGED <<batch, unsent, pc, con, rows, lastSent, sink, fates, phase, starts>>

\* AuditLogMiddleware.dispatch and enqueue_audit_record, for a request whose
\* path is not excluded and whose handler did not raise.
Enqueue ==
    /\ phase = "up"
    /\ last < MaxRecords
    /\ last' = last + 1
    /\ IF Len(queue) < QueueSize
       THEN queue' = Append(queue, last + 1) /\ UNCHANGED dropped
       ELSE dropped' = dropped \cup {last + 1} /\ UNCHANGED queue
    /\ UNCHANGED <<batch, unsent, pc, con, rows, lastSent, sink, lost, purged, gone,
                   phase, starts>>

\* configure_syslog removes the handler and may attach another.
ConfigureSyslog ==
    /\ phase = "up"
    /\ sink' = ~sink
    /\ UNCHANGED <<last, memory, pc, con, rows, lastSent, fates, phase, starts>>

-----------------------------------------------------------------------------
(* AuditWriterThread.run *)

Alive == phase # "down"
Stopped == phase \in {"stopping", "closing"}

\* One get() of the loop; a full batch is flushed before the next.
Get ==
    /\ Alive /\ pc = "poll"
    /\ ~Stopped
    /\ queue # <<>>
    /\ Len(batch) < BatchSize
    /\ batch' = Append(batch, Head(queue))
    /\ queue' = Tail(queue)
    /\ UNCHANGED <<last, unsent, pc, con, rows, lastSent, sink, fates, phase, starts>>

\* Slip: only a full batch is flushed.
FlushFull ==
    /\ Alive
    /\ pc = "poll" /\ pc' = "insert"
    /\ Len(batch) = BatchSize
    /\ con' = TRUE
    /\ UNCHANGED <<last, memory, rows, lastSent, sink, fates, phase, starts>>

\* The batch is full or the interval is over, or the loop has ended and the
\* queue was drained: _flush calls insert_batch, which gets the connection
\* and opens the database again if it was closed.
Flush ==
    /\ Alive
    /\ \/ pc = "poll" /\ pc' = "insert"
       \/ pc = "drain" /\ queue = <<>> /\ pc' = "lastinsert"
    /\ batch # <<>>
    /\ con' = TRUE
    /\ UNCHANGED <<last, memory, rows, lastSent, sink, fates, phase, starts>>

\* Slip: the thread ends with its loop.
LeaveThread ==
    /\ Alive /\ pc = "poll"
    /\ Stopped
    /\ Len(batch) < BatchSize
    /\ pc' = "ended"
    /\ UNCHANGED <<last, memory, con, rows, lastSent, sink, fates, phase, starts>>

\* The loop's condition: after the stop signal, drain without a limit.
LeaveLoop ==
    /\ Alive /\ pc = "poll"
    /\ Stopped
    /\ Len(batch) < BatchSize
    /\ pc' = "drain"
    /\ UNCHANGED <<last, memory, con, rows, lastSent, sink, fates, phase, starts>>

Drain ==
    /\ Alive /\ pc = "drain"
    /\ queue # <<>>
    /\ batch' = Append(batch, Head(queue))
    /\ queue' = Tail(queue)
    /\ UNCHANGED <<last, unsent, pc, con, rows, lastSent, sink, fates, phase, starts>>

\* Slip: the batch is not emptied after its insert.
InsertAgain ==
    /\ Alive /\ pc \in {"insert", "lastinsert"}
    /\ con
    /\ rows' = rows \o batch
    /\ unsent' = IF sink THEN batch ELSE <<>>
    /\ pc' = IF pc = "insert" THEN "forward" ELSE "lastforward"
    /\ UNCHANGED <<last, queue, batch, con, lastSent, sink, fates, phase, starts>>

\* executemany commits row by row: a failure keeps the rows before it. The
\* error is logged and what was not written is dropped.
Insert ==
    /\ Alive /\ pc \in {"insert", "lastinsert"}
    /\ \E n \in 0..Len(batch) :
          /\ n < Len(batch) => DbMayFail \/ ~con
          /\ n > 0 => con
          /\ rows' = rows \o SubSeq(batch, 1, n)
          /\ lost' = lost \cup Range(SubSeq(batch, n + 1, Len(batch)))
    /\ batch' = <<>>
    /\ unsent' = IF sink THEN batch ELSE <<>>
    /\ pc' = IF pc = "insert" THEN "forward" ELSE "lastforward"
    /\ UNCHANGED <<last, queue, con, lastSent, sink, dropped, purged, gone, phase, starts>>

\* One record goes to the handler, which may block for long, or nowhere when
\* the handler was removed meanwhile.
Forward ==
    /\ Alive /\ pc \in {"forward", "lastforward"}
    /\ unsent # <<>>
    /\ lastSent' = IF sink THEN Head(unsent) ELSE lastSent
    /\ unsent' = Tail(unsent)
    /\ UNCHANGED <<last, queue, batch, pc, con, rows, sink, fates, phase, starts>>

Forwarded ==
    /\ Alive
    /\ unsent = <<>>
    /\ \/ pc = "forward" /\ pc' = "poll"
       \/ pc = "lastforward" /\ pc' = "ended"
       \/ pc = "drain" /\ queue = <<>> /\ batch = <<>> /\ pc' = "ended"
    /\ UNCHANGED <<last, memory, con, rows, lastSent, sink, fates, phase, starts>>

\* The retention job deletes the oldest rows.
Purge ==
    /\ Alive
    /\ rows # <<>>
    /\ purged' = purged \cup {Head(rows)}
    /\ rows' = Tail(rows)
    /\ UNCHANGED <<last, memory, pc, con, lastSent, sink, dropped, lost, gone, phase, starts>>

-----------------------------------------------------------------------------
(* The process *)

\* Requests are over; stop_audit_writer signals the thread and joins it.
StopWriter ==
    /\ phase = "up"
    /\ phase' = "stopping"
    /\ UNCHANGED <<last, memory, pc, con, rows, lastSent, sink, fates, starts>>

\* The thread has ended or join timed out; close_audit_db.
CloseAuditDb ==
    /\ phase = "stopping"
    /\ phase' = "closing"
    /\ con' = FALSE
    /\ UNCHANGED <<last, memory, pc, rows, lastSent, sink, fates, starts>>

\* The daemon thread dies with its process, in the middle of an insert too.
End ==
    /\ phase = "closing" \/ (Crashes /\ Alive)
    /\ phase' = "down"
    /\ \E n \in 0..Len(batch) :
          /\ n > 0 => pc \in {"insert", "lastinsert"} /\ con
          /\ rows' = rows \o SubSeq(batch, 1, n)
          /\ gone' = gone \cup Range(SubSeq(batch, n + 1, Len(batch)) \o queue)
    /\ queue' = <<>> /\ batch' = <<>> /\ unsent' = <<>>
    /\ con' = FALSE
    /\ pc' = IF pc = "ended" THEN "ended" ELSE "killed"
    /\ UNCHANGED <<last, lastSent, sink, dropped, lost, purged, starts>>

Start ==
    /\ phase = "down"
    /\ starts < MaxStarts
    /\ starts' = starts + 1
    /\ phase' = "up"
    /\ pc' = "poll"
    /\ UNCHANGED <<last, memory, con, rows, lastSent, sink, fates>>

-----------------------------------------------------------------------------

Writer == Get \/ Flush \/ LeaveLoop \/ Drain \/ Insert \/ Forward \/ Forwarded

Process == StopWriter \/ CloseAuditDb \/ End \/ Start

Next == Enqueue \/ ConfigureSyslog \/ Writer \/ Purge \/ Process

Spec == Init /\ [][Next]_vars

\* The writer's thread runs, its inserts and the handler's calls return, and
\* flush intervals end.
FairSpec == Spec /\ WF_vars(Writer)

-----------------------------------------------------------------------------
(* Properties *)

Ids == 1..MaxRecords

TypeOK ==
    /\ last \in 0..MaxRecords
    /\ queue \in Seq(Ids) /\ Len(queue) <= QueueSize
    /\ batch \in Seq(Ids) /\ unsent \in Seq(Ids) /\ rows \in Seq(Ids)
    /\ pc \in {"poll", "insert", "forward", "drain", "lastinsert", "lastforward",
               "ended", "killed"}
    /\ con \in BOOLEAN /\ sink \in BOOLEAN
    /\ lastSent \in 0..MaxRecords
    /\ dropped \cup lost \cup purged \cup gone \subseteq Ids
    /\ phase \in {"up", "stopping", "closing", "down"}
    /\ starts \in 1..MaxStarts

\* The table, the batch and the queue, oldest first.
Trail == rows \o batch \o queue

Increasing(s) == \A i, j \in DOMAIN s : i < j => s[i] < s[j]

\* The table has the records in the order of the requests and none of them
\* twice, and syslog gets them in that order too, through failed inserts,
\* restarts and the drain at shutdown.
InOrder == Increasing(Trail) /\ Increasing(<<lastSent>> \o unsent)

\* Every record is in the trail or met exactly one of the fates the code
\* knows: dropped and counted, lost with its insert, purged or gone with its
\* process.
Accounted ==
    /\ Range(Trail) \cup UNION {dropped, lost, purged, gone} = 1..last
    /\ \A f, g \in {<<1, Range(Trail)>>, <<2, dropped>>, <<3, lost>>, <<4, purged>>,
                    <<5, gone>>} : f # g => f[2] \cap g[2] = {}

\* A shutdown whose join did not time out leaves nothing behind: stop() joins
\* the thread, "flushing any remaining records" (audit_pipeline.py:119).
DrainedAtEnd == pc = "ended" => queue = <<>> /\ batch = <<>> /\ unsent = <<>>

\* Nothing stays in memory for ever, however few requests there are.
Flushed == \A n \in Ids : n \in Range(queue \o batch) ~> n \notin Range(queue \o batch)
=============================================================================
