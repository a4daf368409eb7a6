---------------------------- MODULE AuditLedger ----------------------------
(***************************************************************************)
(* What an audit log promises of the records it accepts: they are settled  *)
(* one at a time, in the order they were accepted, each exactly once - as  *)
(* a line of the log, or lost to the disk - and a line that is written     *)
(* stays as it is.                                                         *)
(***************************************************************************)
EXTENDS Naturals, Sequences

CONSTANT Numbers    \* the records there may be, in the order they are made

VARIABLES pending,  \* accepted records that are not settled yet
          lines     \* the records of the log

ledgerVars == <<pending, lines>>

LedgerInit == pending = <<>> /\ lines = <<>>

Accepted(n) ==
  /\ pending' = Append(pending, n)
  /\ UNCHANGED lines

Written ==
  /\ pending # <<>>
  /\ lines' = Append(lines, Head(pending))
  /\ pending' = Tail(pending)

Lost ==
  /\ pending # <<>>
  /\ pending' = Tail(pending)
  /\ UNCHANGED lines

\* Records are numbered as they are handed over, so one that is accepted is
\* newer than every record still pending or written.
Newer(n) == /\ \A i \in DOMAIN pending : pending[i] < n
            /\ \A i \in DOMAIN lines : lines[i] < n

LedgerNext == \/ \E n \in Numbers : Newer(n) /\ Accepted(n)
              \/ Written \/ Lost

LedgerSpec == LedgerInit /\ [][LedgerNext]_ledgerVars
=============================================================================
