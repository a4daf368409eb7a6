------------------------------- MODULE Output -------------------------------
(***************************************************************************)
(* output_within of src/repos.rs: a git command is run, both its streams   *)
(* are drained by threads, and it is killed at the deadline.               *)
(*                                                                         *)
(* git is another program: it writes its output in chunks, blocks on a     *)
(* full pipe, and may hang, fail, or leave behind a helper that still      *)
(* holds the pipes.  A read may fail, which ends its thread for good.      *)
(***************************************************************************)
EXTENDS Naturals

CONSTANTS MaxChunks, \* bound: chunks of output on a stream
          MaxOutput, \* of them may be kept
          PipeSize   \* of them fit into a pipe

ASSUME OutputAssumption ==
  {MaxChunks, MaxOutput} \subseteq Nat /\ PipeSize \in Nat \ {0}

Streams == {"stdout", "stderr"}

VARIABLES outputAt, \* what the caller is at
          git,      \* whether it runs, and what it has still to write
          helper,   \* whether a helper holds the pipes
          pipe,     \* chunks in each
          drain,    \* by stream: its thread, what it kept, whether that is not all
          expired,  \* the deadline has passed
          result,
          printed,  \* history: by stream, what git wrote
          cut       \* history: the streams whose thread ended early

outputVars == <<outputAt, git, helper, pipe, drain, expired, result, printed, cut>>

Fresh(s) == [ended |-> FALSE, kept |-> 0, over |-> FALSE]

OutputInit ==
  /\ outputAt = "idle"
  /\ git = [runs |-> FALSE, failed |-> FALSE, left |-> [s \in Streams |-> 0]]
  /\ helper = FALSE
  /\ pipe = [s \in Streams |-> 0]
  /\ drain = [s \in Streams |-> Fresh(s)]
  /\ expired = FALSE
  /\ result = "none"
  /\ printed = [s \in Streams |-> 0]
  /\ cut = {}

Run ==
  /\ outputAt = "idle"
  /\ \E left \in [Streams -> 0..MaxChunks] :
       git' = [runs |-> TRUE, failed |-> FALSE, left |-> left]
  /\ outputAt' = "running"
  /\ UNCHANGED <<helper, pipe, drain, expired, result, printed, cut>>

\* What git has to write to a stream nobody reads any more, it cannot.
GitPrints(s) ==
  /\ git.runs /\ git.left[s] > 0 /\ pipe[s] < PipeSize /\ s \notin cut
  /\ git' = [git EXCEPT !.left[s] = @ - 1]
  /\ pipe' = [pipe EXCEPT ![s] = @ + 1]
  /\ printed' = [printed EXCEPT ![s] = @ + 1]
  /\ UNCHANGED <<outputAt, helper, drain, expired, result, cut>>

\* It exits when all is written, or fails before.
GitExits ==
  /\ git.runs
  /\ git' = [git EXCEPT !.runs = FALSE,
                        !.failed = \E s \in Streams : git.left[s] > 0]
  /\ helper' \in BOOLEAN
  /\ UNCHANGED <<outputAt, pipe, drain, expired, result, printed, cut>>

HelperEnds ==
  /\ helper /\ helper' = FALSE
  /\ UNCHANGED <<outputAt, git, pipe, drain, expired, result, printed, cut>>

\* Reading goes on beyond the limit, so that git never blocks for good.
Wants(s) == ~drain[s].ended

\* Faulty variant: what is beyond the limit is dropped without a word.
Truncated(d) == [d EXCEPT !.kept = IF @ < MaxOutput THEN @ + 1 ELSE @]

Grown(d) ==
  IF d.kept < MaxOutput THEN [d EXCEPT !.kept = @ + 1] ELSE [d EXCEPT !.over = TRUE]

Drain(s) ==
  /\ pipe[s] > 0 /\ Wants(s)
  /\ pipe' = [pipe EXCEPT ![s] = @ - 1]
  /\ drain' = [drain EXCEPT ![s] = Grown(@)]
  /\ UNCHANGED <<outputAt, git, helper, expired, result, printed, cut>>

\* The end of a stream: nobody has it open for writing.
DrainEnds(s) ==
  /\ pipe[s] = 0 /\ ~git.runs /\ ~helper /\ outputAt # "idle" /\ ~drain[s].ended
  /\ drain' = [drain EXCEPT ![s].ended = TRUE]
  /\ UNCHANGED <<outputAt, git, helper, pipe, expired, result, printed, cut>>

\* A failed read is taken for the end; of a thread that panics nothing is kept.
DrainFails(s) ==
  /\ outputAt # "idle" /\ ~drain[s].ended
  /\ \E kept \in {drain[s], Fresh(s)} : drain' = [drain EXCEPT ![s] = [kept EXCEPT !.ended = TRUE]]
  /\ pipe' = [pipe EXCEPT ![s] = 0]
  /\ cut' = cut \cup {s}
  /\ UNCHANGED <<outputAt, git, helper, expired, result, printed>>

Expire ==
  /\ outputAt = "running" /\ ~expired /\ expired' = TRUE
  /\ UNCHANGED <<outputAt, git, helper, pipe, drain, result, printed, cut>>

\* try_wait finds that git has exited.
SeeExit ==
  /\ outputAt = "running" /\ ~git.runs
  /\ outputAt' = "joining"
  /\ UNCHANGED <<git, helper, pipe, drain, expired, result, printed, cut>>

\* git may have exited since try_wait looked.
Kill ==
  /\ outputAt = "running" /\ expired
  /\ git' = [git EXCEPT !.runs = FALSE]
  /\ result' = "timed out"
  /\ outputAt' = "returned"
  /\ UNCHANGED <<helper, pipe, drain, expired, printed, cut>>

Join ==
  /\ outputAt = "joining" /\ \A s \in Streams : drain[s].ended
  /\ result' = CASE \E s \in Streams : drain[s].over -> "too much"
                 [] git.failed -> "failed"
                 [] OTHER -> "done"
  /\ outputAt' = "returned"
  /\ UNCHANGED <<git, helper, pipe, drain, expired, printed, cut>>

OutputNext ==
  \/ Run \/ GitExits \/ HelperEnds \/ Expire \/ SeeExit \/ Kill \/ Join
  \/ \E s \in Streams : GitPrints(s) \/ Drain(s) \/ DrainEnds(s) \/ DrainFails(s)

\* The clock and the threads get on; git itself may hang, and a helper too.
OwnFairness ==
  /\ WF_outputVars(Expire) /\ WF_outputVars(SeeExit \/ Kill) /\ WF_outputVars(Join)
  /\ \A s \in Streams : WF_outputVars(Drain(s)) /\ WF_outputVars(DrainEnds(s))

OutputFairness == OwnFairness /\ WF_outputVars(HelperEnds)

-----------------------------------------------------------------------------
\* If helpers end, a command that is run returns, whatever git does; and unless
\* the answer says that it timed out, failed or was too long, git was done
\* printing, and what was kept of a stream is all that git printed on it, but
\* for a stream that could not be read to its end (repos.rs:45-47).
OutputIsWholeOrRefused ==
  outputAt = "running" ~>
    /\ outputAt = "returned"
    /\ result = "done" =>
         \A s \in Streams : git.left[s] = 0 /\ (s \notin cut => drain[s].kept = printed[s])

\* "Longest a git command may run ... a longer one is a hung helper, not a slow
\* repository" (repos.rs:14-15), and it is killed at TIMEOUT (repos.rs:45): the
\* command returns, whatever a helper does.
CommandsReturn == outputAt = "running" ~> outputAt = "returned"

\* "Runs `cmd` to completion and collects its output" (repos.rs:45): what is
\* returned as the output is all of it.
DoneIsWhole ==
  outputAt = "returned" /\ result = "done" => \A s \in Streams : drain[s].kept = printed[s]
=============================================================================
