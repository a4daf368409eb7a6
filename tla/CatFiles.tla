------------------------------ MODULE CatFiles ------------------------------
(***************************************************************************)
(* cat_files of src/commits.rs: many objects are asked of one              *)
(* `git cat-file --batch`, the questions written by a thread while the     *)
(* answers are read.  git reads one question and writes its answer, the    *)
(* header and then the content, before it reads the next; it may die.      *)
(***************************************************************************)
EXTENDS Naturals, Sequences

CONSTANTS MaxSpecs, \* bound: objects asked for
          CatPipe   \* lines a pipe holds

ASSUME CatAssumption == MaxSpecs \in Nat /\ CatPipe \in Nat \ {0}

Kinds == {"text", "other", "missing"}
None == "none"

VARIABLES catAt,
          specs,     \* by place: what the object is
          written,   \* specs the thread has written
          requests,  \* the pipe to git
          taken,     \* specs git has read
          answering, \* what it has still to write
          answers,   \* the pipe from git
          dead,      \* git has died
          header,    \* the header whose content is to be read next
          contents   \* result

catVars == <<catAt, specs, written, requests, taken, answering, answers, dead, header, contents>>

CatInit ==
  /\ catAt = "idle" /\ specs = <<>>
  /\ written = 0 /\ requests = <<>>
  /\ taken = 0 /\ answering = <<>> /\ answers = <<>>
  /\ dead = FALSE /\ header = None /\ contents = <<>>

AskAll ==
  /\ catAt = "idle"
  /\ \E n \in 1..MaxSpecs : specs' \in [1..n -> Kinds]
  /\ catAt' = "reading"
  /\ UNCHANGED <<written, requests, taken, answering, answers, dead, header, contents>>

\* The thread; it stops when git no longer reads.
WriteSpec ==
  /\ catAt # "idle" /\ written < Len(specs)
  /\ dead \/ Len(requests) < CatPipe
  /\ IF dead THEN written' = Len(specs) /\ UNCHANGED requests
     ELSE written' = written + 1 /\ requests' = Append(requests, specs[written + 1])
  /\ UNCHANGED <<catAt, specs, taken, answering, answers, dead, header, contents>>

GitTakes ==
  /\ ~dead /\ requests # <<>> /\ answering = <<>>
  /\ LET kind == Head(requests) IN
       answering' = IF kind = "missing" THEN <<"missing">> ELSE <<kind, "content">>
  /\ taken' = taken + 1
  /\ requests' = Tail(requests)
  /\ UNCHANGED <<catAt, specs, written, answers, dead, header, contents>>

GitAnswers ==
  /\ ~dead /\ answering # <<>> /\ Len(answers) < CatPipe
  /\ answers' = Append(answers, Head(answering))
  /\ answering' = Tail(answering)
  /\ UNCHANGED <<catAt, specs, written, requests, taken, dead, header, contents>>

GitDies ==
  /\ catAt # "idle" /\ ~dead /\ dead' = TRUE
  /\ UNCHANGED <<catAt, specs, written, requests, taken, answering, answers, header, contents>>

\* Faulty variant: all is written before anything is read.
ReadsWhenWritten == written = Len(specs)

\* The answers are read whatever the thread is at.
Reads == catAt = "reading"

\* One line read: an object that is not there is answered by its header alone.
Known(line, known) ==
  CASE line = "missing" -> Append(known, None)
    [] line = "content" -> Append(known, IF header = "text" THEN "text" ELSE None)
    [] OTHER -> known

ReadAnswer ==
  /\ catAt = "reading" /\ Reads /\ Len(contents) < Len(specs)
  /\ answers # <<>>
  /\ contents' = Known(Head(answers), contents)
  /\ header' = Head(answers)
  /\ answers' = Tail(answers)
  /\ UNCHANGED <<catAt, specs, written, requests, taken, answering, dead>>

\* All is read, or git is gone: the rest is None.
Padded == [i \in DOMAIN specs |-> IF i \in DOMAIN contents THEN contents[i] ELSE None]

StopReading ==
  /\ catAt = "reading"
  /\ Len(contents) = Len(specs) \/ (dead /\ answers = <<>> /\ Reads)
  /\ catAt' = "joining"
  /\ contents' = Padded
  /\ UNCHANGED <<specs, written, requests, taken, answering, answers, dead, header>>

\* The thread is joined; at the end of its input git exits and is waited for.
JoinWriter ==
  /\ catAt = "joining" /\ written = Len(specs)
  /\ dead \/ (requests = <<>> /\ answering = <<>>)
  /\ catAt' = "answered"
  /\ UNCHANGED <<specs, written, requests, taken, answering, answers, dead, header, contents>>

CatNext ==
  \/ AskAll \/ WriteSpec \/ GitTakes \/ GitAnswers \/ GitDies
  \/ ReadAnswer \/ StopReading \/ JoinWriter

\* The threads get on, and git does while it lives.
CatFairness ==
  /\ WF_catVars(WriteSpec) /\ WF_catVars(GitTakes) /\ WF_catVars(GitAnswers)
  /\ WF_catVars(ReadAnswer) /\ WF_catVars(StopReading) /\ WF_catVars(JoinWriter)

-----------------------------------------------------------------------------
\* git and glasir never wait for each other, however many objects are asked
\* for, and every object gets its own answer: its text at its own place, or
\* None, which is the answer of a text only if git died (commits.rs:108, 128).
ObjectsAreAnswered ==
  catAt = "reading" ~>
    /\ catAt = "answered"
    /\ DOMAIN contents = DOMAIN specs
    /\ \A i \in DOMAIN specs :
         /\ contents[i] = "text" => specs[i] = "text"
         /\ specs[i] = "text" /\ contents[i] = None => dead
=============================================================================
