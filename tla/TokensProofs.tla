---------------------------- MODULE TokensProofs ----------------------------
(***************************************************************************)
(* What a request is checked against is a set of tokens that was in force  *)
(* during the request, for any number of threads, names and writes, on     *)
(* Unix and Windows, on clocks that are coarse or not.                     *)
(***************************************************************************)
EXTENDS Tokens, TLAPS

\* These entries are an answer thread r may get to the call it is making.
Whole(r, entries) ==
  \E e \in inForce[r] : entries = e \/ (rewritten[r] # {} /\ entries \subseteq e)

\* Two threads that took the time of the file between the same two writes began
\* with the same file, and whatever it held since is whole for both of them:
\* that is why one may use what the other has cached, even though the contents
\* they compared were read at different moments.
CallInv(r) ==
  ~Idling(r) =>
    /\ reader[r].since <= file.writes
    /\ Whole(r, file.entries)
    /\ reader[r].since <= cache.since => Whole(r, cache.entries)
    /\ Answered(r) /\ ~reader[r].recurred => Whole(r, answer[r])
    /\ rewritten[r] \subseteq {"revoke", "rotate"}

FileInv ==
  /\ file.writes \in Nat
  /\ operator.at \in {"idle", "revoke", "refill", "rotate", "replace"}
  /\ operator.at \in {"revoke", "refill"} => operator.kept \subseteq valid
  /\ IF operator.at \in {"refill", "replace"} THEN file.entries \subseteq valid
                                              ELSE file.entries = valid
  /\ cache.since \in Nat /\ cache.since <= file.writes
  /\ cache.since = file.writes => cache.entries = file.entries

\* The records are records of their fields.
Shapes ==
  /\ cache = [stamp |-> cache.stamp, entries |-> cache.entries, since |-> cache.since]
  /\ operator = [at |-> operator.at, name |-> operator.name, kept |-> operator.kept]
  /\ DOMAIN reader = Readers /\ DOMAIN answer = Readers
  /\ DOMAIN inForce = Readers /\ DOMAIN rewritten = Readers
  /\ \A r \in Readers : /\ reader[r].at \in {"idle", "timed", "stamped", "answered"}
                        /\ reader[r].since \in Nat

TokensInv == Shapes /\ FileInv /\ \A r \in Readers : CallInv(r)

LEMMA TokensInitInv == Init => TokensInv
<1> SUFFICES ASSUME Init PROVE TokensInv
  OBVIOUS
<1> USE DEF Init, Idle, NoStamp, NotReading
<1>1. Shapes
  BY DEF Shapes
<1>2. FileInv
  <2>1. PICK there \in BOOLEAN :
          /\ file = [there |-> there, time |-> 1, inode |-> 1, torn |-> FALSE, writes |-> 1,
                     entries |-> IF there THEN Names \X {1} ELSE {}]
          /\ minted = IF there THEN 1 ELSE 0
          /\ cache = [stamp |-> NoStamp, entries |-> {}, since |-> 1 - minted]
    OBVIOUS
  <2>2. file.writes = 1 /\ valid = file.entries /\ operator.at = "idle"
    BY <2>1
  <2>3. /\ cache.since \in {0, 1} /\ cache.entries = {}
        /\ cache.since = 1 => file.entries = {}
    BY <2>1
  <2> QED BY <2>2, <2>3 DEF FileInv
<1>3. \A r \in Readers : CallInv(r)
  BY DEF CallInv, Idling
<1> QED BY <1>1, <1>2, <1>3 DEF TokensInv

\* A write leaves every call under way with an answer that is whole: the one it
\* had, and what the file holds now.
LEMMA WriteKeeps ==
  ASSUME TokensInv, NEW now, NEW nowValid, NEW gap, Write(now, nowValid, gap),
         UNCHANGED <<cache, reader, answer>>, gap \subseteq {"revoke", "rotate"},
         now.entries = nowValid \/ (gap # {} /\ now.entries \subseteq nowValid)
  PROVE  \A r \in Readers : CallInv(r)'
<1> SUFFICES ASSUME NEW r \in Readers, ~Idling(r) PROVE CallInv(r)'
  BY DEF CallInv, Idling
<1>1. /\ file'.writes = file.writes + 1 /\ file'.entries = now.entries
      /\ file.writes \in Nat /\ cache.since <= file.writes /\ cache.since \in Nat
  BY DEF Write, TokensInv, FileInv
<1>2. inForce'[r] = inForce[r] \cup {nowValid}
  BY DEF Write
<1>3. rewritten'[r] = rewritten[r] \cup gap
  BY DEF Write
<1>4. Whole(r, file.entries)'
  BY <1>1, <1>2, <1>3 DEF Whole
<1>5. /\ Whole(r, cache.entries) => Whole(r, cache.entries)'
      /\ Whole(r, answer[r]) => Whole(r, answer[r])'
  BY <1>2, <1>3 DEF Whole
<1>6. CallInv(r) /\ reader[r].since \in Nat
  BY DEF TokensInv, Shapes
<1>7. reader'[r].since <= file'.writes
  BY <1>1, <1>6 DEF CallInv
<1>8. reader'[r].since <= cache'.since => Whole(r, cache.entries)'
  BY <1>5, <1>6 DEF CallInv
<1>9. Answered(r)' /\ ~reader'[r].recurred => Whole(r, answer[r])'
  BY <1>5, <1>6 DEF CallInv, Answered
<1>10. rewritten'[r] \subseteq {"revoke", "rotate"}
  BY <1>3, <1>6 DEF CallInv
<1> QED BY <1>4, <1>7, <1>8, <1>9, <1>10 DEF CallInv

\* What a write leaves of the file and of the shapes.
LEMMA WriteFile ==
  ASSUME TokensInv, NEW now, NEW nowValid, NEW gap, Write(now, nowValid, gap),
         UNCHANGED <<cache, reader, answer>>,
         operator' = [at |-> operator'.at, name |-> operator'.name,
                      kept |-> operator'.kept]
  PROVE  /\ Shapes' /\ valid' = nowValid /\ file'.entries = now.entries
         /\ file'.writes \in Nat /\ cache'.since \in Nat
         /\ cache'.since < file'.writes
<1>1. /\ file'.writes = file.writes + 1 /\ file'.entries = now.entries
      /\ file.writes \in Nat /\ cache.since <= file.writes /\ cache.since \in Nat
      /\ valid' = nowValid
  BY DEF Write, TokensInv, FileInv
<1>2. DOMAIN inForce' = Readers /\ DOMAIN rewritten' = Readers
  BY DEF Write
<1>3. Shapes'
  BY <1>2 DEF TokensInv, Shapes
<1> QED BY <1>1, <1>3

LEMMA OperatorStep == TokensInv /\ Operator => TokensInv'
<1> SUFFICES ASSUME TokensInv, Operator PROVE TokensInv'
  OBVIOUS
<1>0. Shapes /\ FileInv
  BY DEF TokensInv
<1>a. Idle = [at |-> "idle", name |-> Idle.name, kept |-> Idle.kept] /\ Idle.at = "idle"
  BY DEF Idle
<1>1. ASSUME NEW name \in Names, Issue(name) PROVE TokensInv'
  <2>1. PICK now : Write(now, now.entries, {})
    <3>1. PICK whole \in BOOLEAN, added \in SUBSET {<<name, minted + 1>>} :
            Write([there |-> TRUE, inode |-> file.inode, torn |-> ~whole,
                   entries |-> file.entries \cup added], file.entries \cup added, {})
      BY <1>1 DEF Issue
    <3> DEFINE now == [there |-> TRUE, inode |-> file.inode, torn |-> ~whole,
                       entries |-> file.entries \cup added]
    <3>2. now.entries = file.entries \cup added
      OBVIOUS
    <3>3. Write(now, now.entries, {})
      BY <3>1, <3>2
    <3> HIDE DEF now
    <3> QED BY <3>3
  <2>2. UNCHANGED <<operator, cache, reader, answer>> /\ operator = Idle
    BY <1>1 DEF Issue
  <2>3. \A r \in Readers : CallInv(r)'
    BY <2>1, <2>2, WriteKeeps
  <2>4. /\ Shapes' /\ file'.entries = valid' /\ file'.writes \in Nat
        /\ cache'.since \in Nat /\ cache'.since < file'.writes
    BY <1>a, <2>1, <2>2, WriteFile
  <2>5. FileInv'
    BY <1>a, <2>2, <2>4 DEF FileInv
  <2> QED BY <2>3, <2>4, <2>5 DEF TokensInv
<1>2. ASSUME NEW name \in Names, StartRevoke(name) \/ StartRotate(name) PROVE TokensInv'
  <2>1. /\ UNCHANGED <<file, valid, inForce, rewritten, cache, reader, answer>>
        /\ operator = Idle
        /\ operator'.at \in {"revoke", "rotate"}
        /\ operator'.at = "revoke" => operator'.kept \subseteq file.entries
        /\ operator' = [at |-> operator'.at, name |-> operator'.name,
                        kept |-> operator'.kept]
    BY <1>2 DEF StartRevoke, StartRotate, fileVars
  <2>2. FileInv'
    BY <1>0, <1>a, <2>1 DEF FileInv
  <2>3. Shapes'
    BY <1>0, <2>1 DEF Shapes
  <2>4. \A r \in Readers : CallInv(r)'
    BY <2>1 DEF TokensInv, CallInv, Whole, Idling, Answered
  <2> QED BY <2>2, <2>3, <2>4 DEF TokensInv
<1>3. CASE Truncate \/ RefillPart \/ Remove
  <2>1. PICK now, gap :
          /\ Write(now, valid, gap) /\ gap # {} /\ gap \subseteq {"revoke", "rotate"}
          /\ now.entries \subseteq valid
    <3>1. CASE Truncate
      BY <3>1 DEF Truncate, Emptied
    <3>2. CASE Remove
      BY <3>2 DEF Remove, Emptied
    <3>3. CASE RefillPart
      <4>1. PICK some \in SUBSET operator.kept :
              Write([Emptied EXCEPT !.torn = TRUE, !.entries = some], valid, {"revoke"})
        BY <3>3 DEF RefillPart
      <4>2. some \subseteq valid
        BY <1>0, <3>3 DEF FileInv, RefillPart
      <4>3. [Emptied EXCEPT !.torn = TRUE, !.entries = some].entries = some
        BY DEF Emptied
      <4> QED BY <4>1, <4>2, <4>3
    <3> QED BY <1>3, <3>1, <3>2, <3>3
  <2>2. /\ UNCHANGED <<cache, reader, answer>>
        /\ operator' = [at |-> operator'.at, name |-> operator.name, kept |-> operator.kept]
        /\ operator'.at = IF Remove THEN "replace" ELSE "refill"
        /\ ~Remove => operator.at \in {"revoke", "refill"}
    <3>0. operator = [at |-> operator.at, name |-> operator.name, kept |-> operator.kept]
      BY <1>0 DEF Shapes
    <3>1. CASE Truncate
      BY <3>0, <3>1 DEF Truncate, Remove
    <3>2. CASE Remove
      BY <3>0, <3>2 DEF Remove
    <3>3. CASE RefillPart
      BY <3>0, <3>3 DEF RefillPart, Remove
    <3> QED BY <1>3, <3>1, <3>2, <3>3
  <2>3. \A r \in Readers : CallInv(r)'
    BY <2>1, <2>2, WriteKeeps
  <2>4. /\ Shapes' /\ file'.entries \subseteq valid' /\ file'.writes \in Nat
        /\ cache'.since \in Nat /\ cache'.since < file'.writes /\ valid' = valid
    BY <2>1, <2>2, WriteFile
  <2>5. operator'.kept = operator.kept
    BY <2>2
  <2>6. FileInv'
    <3>1. operator'.at \in {"refill", "replace"}
      BY <2>2
    <3>2. operator'.at \in {"revoke", "refill"} => operator'.kept \subseteq valid'
      BY <1>0, <2>2, <2>4, <2>5 DEF FileInv
    <3> QED BY <2>4, <3>1, <3>2 DEF FileInv
  <2> QED BY <2>3, <2>4, <2>6 DEF TokensInv
<1>4. CASE Refill \/ Rename
  <2>1. PICK now : Write(now, operator.kept, {}) /\ now.entries = operator.kept
    BY <1>4 DEF Refill, Rename, Emptied
  <2>2. operator' = Idle /\ UNCHANGED <<cache, reader, answer>>
    BY <1>4 DEF Refill, Rename
  <2>3. \A r \in Readers : CallInv(r)'
    BY <2>1, <2>2, WriteKeeps
  <2>4. /\ Shapes' /\ file'.entries = valid' /\ file'.writes \in Nat
        /\ cache'.since \in Nat /\ cache'.since < file'.writes
    BY <1>a, <2>1, <2>2, WriteFile
  <2>5. FileInv'
    BY <1>a, <2>2, <2>4 DEF FileInv
  <2> QED BY <2>3, <2>4, <2>5 DEF TokensInv
<1>5. CASE Die
  <2>1. /\ operator' = Idle /\ valid' = file.entries
        /\ inForce' = [r \in Readers |->
                         IF Idling(r) THEN {} ELSE inForce[r] \cup {file.entries}]
        /\ UNCHANGED <<file, rewritten, cache, reader, answer>>
    BY <1>5 DEF Die
  <2>2. Shapes'
    BY <1>0, <1>a, <2>1 DEF Shapes
  <2>3. FileInv'
    BY <1>0, <1>a, <2>1 DEF FileInv
  <2>4. ASSUME NEW r \in Readers PROVE CallInv(r)'
    <3> SUFFICES ASSUME ~Idling(r) PROVE CallInv(r)'
      BY <2>1 DEF CallInv, Idling
    <3>1. CallInv(r) /\ inForce[r] \subseteq inForce'[r]
      BY <2>1 DEF TokensInv
    <3> QED BY <2>1, <3>1 DEF CallInv, Whole, Answered, Idling
  <2> QED BY <2>2, <2>3, <2>4 DEF TokensInv
<1> QED BY <1>1, <1>2, <1>3, <1>4, <1>5 DEF Operator

\* A step of thread q that changes nothing another call is about.
LEMMA OthersKept ==
  ASSUME TokensInv, NEW q \in Readers, NEW r \in Readers, r # q,
         UNCHANGED <<file, cache>>,
         reader'[r] = reader[r], inForce'[r] = inForce[r],
         rewritten'[r] = rewritten[r], answer'[r] = answer[r]
  PROVE  CallInv(r)'
BY DEF TokensInv, CallInv, Whole, Idling, Answered

LEMMA RequestStep ==
  ASSUME TokensInv, NEW q \in Readers, Request(q)
  PROVE  TokensInv'
<1>0. Shapes /\ FileInv /\ \A r \in Readers : CallInv(r)
  BY DEF TokensInv
<1>1. CASE StampTime(q)
  <2> DEFINE s == [at |-> IF file.there THEN "timed" ELSE "stamped", since |-> file.writes,
                   recurred |-> FALSE,
                   stamp |-> IF file.there
                               THEN [time |-> file.time, length |-> Length,
                                     content |-> <<{}, FALSE>>,
                                     inode |-> IF windows THEN 0 ELSE file.inode]
                               ELSE NoStamp]
  <2>1. /\ reader' = [reader EXCEPT ![q] = s]
        /\ s.at \in {"timed", "stamped"} /\ s.since = file.writes
    BY <1>1 DEF StampTime
  <2>2. /\ UNCHANGED <<file, valid, operator, cache, answer>>
        /\ inForce' = [inForce EXCEPT ![q] = {valid}]
        /\ rewritten' = [rewritten EXCEPT ![q] = Gap]
    BY <1>1 DEF StampTime
  <2>3. Shapes' /\ FileInv'
    BY <1>0, <2>1, <2>2 DEF Shapes, FileInv
  <2>4. ASSUME NEW r \in Readers, r # q PROVE CallInv(r)'
    <3>1. /\ reader'[r] = reader[r] /\ inForce'[r] = inForce[r]
          /\ rewritten'[r] = rewritten[r] /\ answer'[r] = answer[r]
      BY <1>0, <2>1, <2>2, <2>4 DEF Shapes
    <3> QED BY <2>2, <2>4, <3>1, OthersKept
  <2>5. CallInv(q)'
    <3>1. /\ inForce'[q] = {valid} /\ rewritten'[q] = Gap
          /\ reader'[q].at \in {"timed", "stamped"} /\ reader'[q].since = file.writes
      BY <1>0, <2>1, <2>2 DEF Shapes
    <3>2. Gap \subseteq {"revoke", "rotate"}
      BY DEF Gap
    <3>3. Whole(q, file.entries)'
      <4>1. CASE operator.at \in {"refill", "replace"}
        <5>1. Gap # {} /\ file.entries \subseteq valid
          BY <1>0, <4>1 DEF FileInv, Gap
        <5> QED BY <2>2, <3>1, <5>1 DEF Whole
      <4>2. CASE operator.at \notin {"refill", "replace"}
        BY <1>0, <2>2, <3>1, <4>2 DEF FileInv, Whole
      <4> QED BY <4>1, <4>2
    <3>4. reader'[q].since <= cache'.since => Whole(q, cache.entries)'
      <4>1. reader'[q].since <= cache'.since => cache'.entries = file'.entries
        BY <1>0, <2>2, <3>1 DEF FileInv
      <4> QED BY <3>3, <4>1 DEF Whole
    <3>5. reader'[q].since <= file'.writes /\ ~Answered(q)'
      BY <1>0, <2>2, <3>1 DEF FileInv, Answered
    <3> QED BY <3>1, <3>2, <3>3, <3>4, <3>5 DEF CallInv
  <2> QED BY <2>3, <2>4, <2>5 DEF TokensInv
<1>2. CASE StampContent(q)
  <2> DEFINE s == [at |-> "stamped", since |-> reader[q].since, recurred |-> FALSE,
                   stamp |-> IF file.there THEN [reader[q].stamp EXCEPT !.content = Content]
                                           ELSE NoStamp]
  <2>1. /\ reader' = [reader EXCEPT ![q] = s]
        /\ s.at = "stamped" /\ s.since = reader[q].since
    BY <1>2 DEF StampContent
  <2>2. /\ UNCHANGED <<file, valid, inForce, rewritten, operator, cache, answer>>
        /\ reader[q].at = "timed"
    BY <1>2 DEF StampContent, fileVars
  <2>3. Shapes' /\ FileInv'
    BY <1>0, <2>1, <2>2 DEF Shapes, FileInv
  <2>4. ASSUME NEW r \in Readers, r # q PROVE CallInv(r)'
    BY <1>0, <2>1, <2>2, <2>4, OthersKept DEF Shapes
  <2>5. CallInv(q)'
    <3>1. reader'[q].at = "stamped" /\ reader'[q].since = reader[q].since
      BY <1>0, <2>1 DEF Shapes
    <3>2. CallInv(q) /\ ~Idling(q)
      BY <1>0, <2>2 DEF Idling
    <3> QED BY <2>2, <3>1, <3>2 DEF CallInv, Whole, Answered
  <2> QED BY <2>3, <2>4, <2>5 DEF TokensInv
<1>3. CASE Answer(q)
  <2> DEFINE s == [at |-> "answered", since |-> reader[q].since, stamp |-> reader[q].stamp,
                   recurred |-> cache.stamp = reader[q].stamp /\ cache.since < reader[q].since]
  <2>1. /\ reader' = [reader EXCEPT ![q] = s]
        /\ s.at = "answered" /\ s.since = reader[q].since
    BY <1>3 DEF Answer
  <2>2. /\ UNCHANGED <<file, valid, inForce, rewritten, operator>>
        /\ reader[q].at = "stamped"
        /\ IF cache.stamp = reader[q].stamp
             THEN cache' = cache
             ELSE cache' = [stamp |-> reader[q].stamp, entries |-> file.entries,
                            since |-> reader[q].since]
        /\ answer' = [answer EXCEPT ![q] = cache'.entries]
    BY <1>3 DEF Answer, SameStamp, fileVars
  <2>3. /\ reader'[q].at = "answered" /\ reader'[q].since = reader[q].since
        /\ reader'[q].recurred = (cache.stamp = reader[q].stamp
                                    /\ cache.since < reader[q].since)
        /\ answer'[q] = cache'.entries
        /\ \A r \in Readers : r # q => reader'[r] = reader[r] /\ answer'[r] = answer[r]
    BY <1>0, <2>1, <2>2 DEF Shapes
  <2>4. /\ reader[q].since \in Nat /\ reader[q].since <= file.writes
        /\ cache.since \in Nat /\ cache.since <= file.writes
    BY <1>0, <2>2 DEF Shapes, CallInv, Idling, FileInv
  <2>5. Shapes'
    BY <1>0, <2>1, <2>2 DEF Shapes
  <2>6. FileInv'
    BY <1>0, <2>2, <2>4 DEF FileInv
  <2>7. ASSUME NEW r \in Readers, ~Idling(r)
        PROVE  reader[r].since <= cache'.since => Whole(r, cache'.entries)
    BY <1>0, <2>2, <2>7 DEF CallInv
  <2>8. ASSUME NEW r \in Readers PROVE CallInv(r)'
    <3> SUFFICES ASSUME ~Idling(r)' PROVE CallInv(r)'
      BY DEF CallInv
    <3>1. ~Idling(r) /\ reader'[r].since = reader[r].since
      BY <2>2, <2>3 DEF Idling
    <3>2. /\ reader'[r].since <= file'.writes /\ Whole(r, file.entries)'
          /\ reader'[r].since <= cache'.since => Whole(r, cache.entries)'
          /\ rewritten'[r] \subseteq {"revoke", "rotate"}
      BY <1>0, <2>2, <2>7, <3>1 DEF CallInv, Whole
    <3>3. Answered(r)' /\ ~reader'[r].recurred => Whole(r, answer[r])'
      <4>1. CASE r = q
        <5> SUFFICES ASSUME ~reader'[q].recurred PROVE Whole(q, answer[q])'
          BY <4>1
        <5>1. reader[q].since <= cache'.since
          <6>1. CASE cache.stamp = reader[q].stamp
            <7>1. ~(cache.since < reader[q].since) /\ cache' = cache
              BY <2>2, <2>3, <6>1
            <7> QED BY <2>4, <7>1
          <6>2. CASE cache.stamp # reader[q].stamp
            <7>1. cache'.since = reader[q].since
              BY <2>2, <6>2
            <7> QED BY <2>4, <7>1
          <6> QED BY <6>1, <6>2
        <5>2. Whole(q, cache'.entries)
          BY <2>7, <3>1, <4>1, <5>1
        <5> QED BY <2>2, <2>3, <5>2 DEF Whole
      <4>2. CASE r # q
        BY <4>2, <1>0, <2>2, <2>3, <3>1 DEF Whole, Answered, CallInv
      <4> QED BY <4>1, <4>2
    <3> QED BY <3>2, <3>3 DEF CallInv
  <2> QED BY <2>5, <2>6, <2>8 DEF TokensInv
<1>4. CASE Return(q)
  <2>1. /\ UNCHANGED <<file, valid, operator, cache>>
        /\ reader' = [reader EXCEPT ![q] = NotReading]
        /\ answer' = [answer EXCEPT ![q] = {}]
        /\ inForce' = [inForce EXCEPT ![q] = {}]
        /\ rewritten' = [rewritten EXCEPT ![q] = {}]
    BY <1>4 DEF Return
  <2>2. Shapes' /\ FileInv'
    BY <1>0, <2>1 DEF Shapes, FileInv, NotReading
  <2>3. ASSUME NEW r \in Readers PROVE CallInv(r)'
    <3>1. CASE r = q
      BY <3>1, <1>0, <2>1 DEF Shapes, CallInv, Idling, NotReading
    <3>2. CASE r # q
      BY <3>2, <1>0, <2>1, OthersKept DEF Shapes
    <3> QED BY <3>1, <3>2
  <2> QED BY <2>2, <2>3 DEF TokensInv
<1> QED BY <1>1, <1>2, <1>3, <1>4 DEF Request

LEMMA TokensInvariant == Spec => []TokensInv
<1>1. TokensInv /\ [Next]_vars => TokensInv'
  <2> SUFFICES ASSUME TokensInv, [Next]_vars PROVE TokensInv'
    OBVIOUS
  <2>1. CASE UNCHANGED vars
    BY <2>1 DEF vars, fileVars, TokensInv, Shapes, FileInv, CallInv, Whole, Idling, Answered
  <2> QED BY <2>1, OperatorStep, RequestStep DEF Next
<1> QED BY TokensInitInv, <1>1, PTL DEF Spec

\* A call of Tokens::current whose stamp does not recur returns a complete set
\* of entries that was in force at some moment of the call, or part of one while
\* a revocation rewrites the file or a rotation has removed it, however
\* operators, crashes, torn writes and other threads' calls interleave.
THEOREM WholeAnswers == Spec => []AnswersAreWhole
<1>1. TokensInv => AnswersAreWhole
  <2> SUFFICES ASSUME TokensInv, NEW r \in Readers, Answered(r), ~reader[r].recurred
               PROVE  WholeBut(r, {"revoke", "rotate"})
    BY DEF AnswersAreWhole
  <2>1. Whole(r, answer[r]) /\ rewritten[r] \subseteq {"revoke", "rotate"}
    BY DEF TokensInv, CallInv, Idling, Answered
  <2> QED BY <2>1 DEF Whole, WholeBut
<1> QED BY TokensInvariant, <1>1, PTL
=============================================================================
