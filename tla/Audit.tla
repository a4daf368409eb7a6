------------------------------- MODULE Audit -------------------------------
(***************************************************************************)
(* The audit log of src/audit.rs: request threads hand records to a writer *)
(* thread through a bounded channel and never wait for it.  A record the   *)
(* channel cannot take is dropped and counted; the writer swaps the count  *)
(* out and notes it, as `dropped_before`, on the next line it writes.      *)
(*                                                                         *)
(* A record is its number in the order records were handed over; what it   *)
(* says is left out.  The log is every line that is one record, as whoever *)
(* reads the file line by line finds it.  A write that fails may leave part *)
(* of its line, which the next one continues: the file is not buffered.    *)
(* Rotation, which moves the lines of a full file to the one older         *)
(* generation, is left out.                                                *)
(***************************************************************************)
EXTENDS Naturals, Sequences, FiniteSets, SequencesExt

CONSTANTS Queue,       \* QUEUE: commands the channel holds
          MaxRecords   \* bound: how many records are handed over

ASSUME AuditAssumption == /\ Queue \in Nat \ {0}
                          /\ MaxRecords \in Nat

VARIABLES handed,    \* how many records have been handed over
          queue,     \* the channel: numbers of records, and Flush
          counting,  \* threads whose record did not fit, not yet counted
          dropped,   \* Audit::dropped, the shared counter
          writer,    \* what the writer does: "waiting", "taken", "swapped"
          hand,      \* the record it holds
          missed,    \* its local count
          log,       \* the lines that are one record and its dropped_before
          torn,      \* whether the file ends in part of a line
          refused,   \* history: the records dropped
          lost,      \* history: the records whose write failed
          glued,     \* history: those written behind part of another line
          noted,     \* history: the drops spoken of by writes that succeeded
          flush      \* the flush of the shutdown: "none", "sent", "done", "failed"

fileVars == <<log, torn, lost, glued, noted>>
writerVars == <<dropped, writer, hand, missed, fileVars>>
auditVars == <<handed, queue, counting, refused, flush, writerVars>>

\* Command::Flush, among records numbered from one.
Flush == 0

Line == [id : Nat \ {0}, before : Nat]

Init ==
  /\ handed = 0 /\ queue = <<>> /\ counting = {} /\ dropped = 0
  /\ writer = "waiting" /\ hand = 0 /\ missed = 0
  /\ log = <<>> /\ torn = FALSE
  /\ refused = {} /\ lost = {} /\ glued = {} /\ noted = 0
  /\ flush = "none"

-----------------------------------------------------------------------------
(* The request threads.                                                    *)

HasRoom == Len(queue) < Queue

\* try_send succeeds: the record is in the channel.
Accept(c) ==
  /\ c \notin counting /\ handed < MaxRecords
  /\ HasRoom
  /\ handed' = handed + 1
  /\ queue' = Append(queue, handed + 1)
  /\ UNCHANGED <<counting, refused, flush, writerVars>>

\* try_send fails; the caller has yet to add to the counter.
Refuse(c) ==
  /\ c \notin counting /\ handed < MaxRecords
  /\ ~HasRoom
  /\ handed' = handed + 1
  /\ refused' = refused \cup {handed + 1}
  /\ counting' = counting \cup {c}
  /\ UNCHANGED <<queue, flush, writerVars>>

CountDrop(c) ==
  /\ c \in counting
  /\ counting' = counting \ {c}
  /\ dropped' = dropped + 1
  /\ UNCHANGED <<handed, queue, refused, flush, writer, hand, missed, fileVars>>

-----------------------------------------------------------------------------
(* The flush the serve loop asks for before it returns.                    *)

StartFlush ==
  /\ flush = "none"
  /\ IF HasRoom
       THEN queue' = Append(queue, Flush) /\ flush' = "sent"
       ELSE flush' = "failed" /\ UNCHANGED queue
  /\ UNCHANGED <<handed, counting, refused, writerVars>>

\* recv_timeout gives up; the writer's answer then finds no receiver.
FlushTimeout ==
  /\ flush = "sent"
  /\ flush' = "failed"
  /\ UNCHANGED <<handed, queue, counting, refused, writerVars>>

-----------------------------------------------------------------------------
(* The writer thread.                                                      *)

TakeRecord ==
  /\ writer = "waiting" /\ queue # <<>> /\ Head(queue) # Flush
  /\ hand' = Head(queue)
  /\ queue' = Tail(queue)
  /\ writer' = "taken"
  /\ UNCHANGED <<handed, counting, refused, flush, dropped, missed, fileVars>>

TakeFlush ==
  /\ writer = "waiting" /\ queue # <<>> /\ Head(queue) = Flush
  /\ queue' = Tail(queue)
  /\ flush' = IF flush = "sent" THEN "done" ELSE flush
  /\ UNCHANGED <<handed, counting, refused, writerVars>>

\* Faulty variant: the counter is read and left as it is.
LoadsCount ==
  /\ writer = "taken"
  /\ missed' = missed + dropped
  /\ writer' = "swapped"
  /\ UNCHANGED <<handed, queue, counting, refused, flush, dropped, hand, fileVars>>

\* counter.swap(0) and missed += now, one atomic step and a local one.
SwapCount ==
  /\ writer = "taken"
  /\ missed' = missed + dropped
  /\ dropped' = 0
  /\ writer' = "swapped"
  /\ UNCHANGED <<handed, queue, counting, refused, flush, hand, fileVars>>

\* write_line appends the line and the count is settled, whether or not the
\* line begins where a line should, ...
WriteLine ==
  /\ writer = "swapped"
  /\ IF torn
       THEN glued' = glued \cup {hand} /\ UNCHANGED log
       ELSE log' = Append(log, [id |-> hand, before |-> missed]) /\ UNCHANGED glued
  /\ torn' = FALSE
  /\ missed' = 0
  /\ noted' = noted + missed
  /\ writer' = "waiting" /\ hand' = 0
  /\ UNCHANGED <<handed, queue, counting, refused, flush, dropped, lost>>

\* Faulty variant: a line the disk took in part is written again.
WritesAgain ==
  /\ writer = "swapped"
  /\ log' = Append(log, [id |-> hand, before |-> missed])
  /\ UNCHANGED <<handed, queue, counting, refused, flush, dropped, writer, hand,
                 missed, torn, lost, glued, noted>>

\* ... or the file cannot be opened, or the disk takes less than the line:
\* the record itself is gone, and the count is kept for the next one.
LoseLine ==
  /\ writer = "swapped"
  /\ lost' = lost \cup {hand}
  /\ torn' \in {torn, TRUE}
  /\ writer' = "waiting" /\ hand' = 0
  /\ UNCHANGED <<handed, queue, counting, refused, flush, dropped, missed, log,
                 glued, noted>>

Writer == TakeRecord \/ TakeFlush \/ SwapCount \/ WriteLine \/ LoseLine

-----------------------------------------------------------------------------
(* What the log owes its reader.  A record is pending while the writer     *)
(* holds it or it waits in the channel, which holds one flush at most.     *)

Pending == (IF hand = 0 THEN <<>> ELSE <<hand>>) \o RemoveFirst(queue, Flush)
Lines == [i \in DOMAIN log |-> log[i].id]

Ledger == INSTANCE AuditLedger
            WITH Numbers <- 1..MaxRecords, pending <- Pending, lines <- Lines

\* Records reach the log in the order they were accepted, each at most once,
\* and only after they were accepted; a record that is not a line of its own is
\* lost to whoever reads the file, and no failed write spoils or repeats a line
\* that is already there (audit.rs:93-110, audit.rs:196).
KeepsLedger == Ledger!LedgerSpec

\* Every record the channel refuses is accounted for exactly once: in what the
\* writes that succeeded spoke of, in the writer's count, in the shared
\* counter, or about to be added to it (audit.rs:103, audit.rs:143).
DropsAccounted ==
  Cardinality(refused) = noted + missed + dropped + Cardinality(counting)

\* "If the channel is full, or the disk is, the record is dropped and counted"
\* (audit.rs:9): no fewer drops are counted than records are gone.
LossesCounted ==
  Cardinality(refused \cup lost) <= noted + missed + dropped + Cardinality(counting)

\* "One JSON object per line" (audit.rs:13): every record the disk took whole
\* is a line of its own.
OneRecordPerLine == glued = {}
=============================================================================
