------------------------------- MODULE Tokens -------------------------------
(***************************************************************************)
(* The token file of src/auth.rs: one operator at a time appends, revokes  *)
(* and rotates, in processes of their own, while the request threads of a  *)
(* server read it through a cache that is filled again whenever the file's *)
(* stamp is not the cached one.                                            *)
(*                                                                         *)
(* An entry is a name and the number of the minting that made its secret;  *)
(* no two secrets are the same.  Names are of one length, so the length of *)
(* the file is told by how many entries it has.  A line that is cut short  *)
(* is skipped, or counts as its entry when its hash is whole.  Expiry is   *)
(* left out.                                                               *)
(***************************************************************************)
EXTENDS Naturals, FiniteSets

CONSTANTS Readers,     \* request threads
          Names,       \* whom tokens are issued to
          CoarseClock, \* whether two writes may get one modification time
          MaxMinted,   \* bound: secrets minted
          MaxWrites    \* bound: writes of the file

ASSUME TokensAssumption == CoarseClock \in BOOLEAN /\ MaxMinted \in Nat /\ MaxWrites \in Nat

Entries == Names \X (1..MaxMinted)

VARIABLES windows,  \* whether it is the build that removes before it renames
          file,     \* whether it is there, its time, inode and entries, whether
                    \* it ends in part of a line, and how often it was written
          minted,   \* how many secrets have been minted
          operator, \* what the operator's process is at
          cache,    \* Tokens::cache, and how often the file had been written
                    \* when its stamp was taken
          reader,   \* what each thread is at, and the stamp it has taken
          answer    \* what its last call returned

\* History: the entries that should be in force, and for each call under way,
\* what was in force since it began and the operations that had the file
\* rewritten or gone meanwhile.
VARIABLES valid, inForce, rewritten

fileVars == <<file, valid, inForce, rewritten>>
vars == <<windows, fileVars, minted, operator, cache, reader, answer>>

Idle == [at |-> "idle", name |-> CHOOSE n \in Names : TRUE, kept |-> {}]
NoStamp == [time |-> 0, length |-> 0, inode |-> 0, content |-> <<{}, FALSE>>]
NotReading == [at |-> "idle", stamp |-> NoStamp, since |-> 0, recurred |-> FALSE]

\* There is no file yet, or one with a token for everybody.  The cache is filled
\* as from no file.
Init ==
  /\ windows \in BOOLEAN
  /\ \E there \in BOOLEAN :
       /\ file = [there |-> there, time |-> 1, inode |-> 1, torn |-> FALSE, writes |-> 1,
                  entries |-> IF there THEN Names \X {1} ELSE {}]
       /\ minted = IF there THEN 1 ELSE 0
       /\ cache = [stamp |-> NoStamp, entries |-> {}, since |-> 1 - minted]
  /\ operator = Idle
  /\ reader = [r \in Readers |-> NotReading]
  /\ answer = [r \in Readers |-> {}]
  /\ valid = file.entries
  /\ inForce = [r \in Readers |-> {}]
  /\ rewritten = [r \in Readers |-> {}]

Named(entries, name) == {e \in entries : e[1] = name}

Idling(r) == reader[r].at = "idle"

\* A write gets a later modification time, or the same one when the clock of
\* the file system has not moved.
Times == IF CoarseClock THEN {file.time, file.time + 1} ELSE {file.time + 1}

\* The file is this from now on, and these entries should be in force; or it is
\* on the way to what will be, by an operation in gap.
Write(now, nowValid, gap) ==
  /\ file.writes < MaxWrites
  /\ \E time \in Times :
       file' = [there |-> now.there, time |-> time, inode |-> now.inode,
                torn |-> now.torn, writes |-> file.writes + 1, entries |-> now.entries]
  /\ valid' = nowValid
  /\ inForce' = [r \in Readers |-> IF Idling(r) THEN {} ELSE inForce[r] \cup {nowValid}]
  /\ rewritten' = [r \in Readers |-> IF Idling(r) THEN {} ELSE rewritten[r] \cup gap]

\* The operations the file is being rewritten by, or gone for.
Gap == CASE operator.at = "refill" -> {"revoke"}
         [] operator.at = "replace" -> {"rotate"}
         [] OTHER -> {}

-----------------------------------------------------------------------------
(* The operator's processes.                                               *)

\* append: one write at the end of the file.  The disk may take part of the
\* line; what is appended behind such a part is no line of its own.
Issue(name) ==
  /\ operator = Idle /\ minted < MaxMinted
  /\ minted' = minted + 1
  /\ \E whole \in BOOLEAN, added \in SUBSET {<<name, minted + 1>>} :
       /\ file.torn => added = {}
       /\ whole /\ ~file.torn => added # {}
       /\ LET now == file.entries \cup added IN
          Write([there |-> TRUE, inode |-> file.inode, torn |-> ~whole, entries |-> now],
                now, {})
  /\ UNCHANGED <<operator, cache, reader, answer>>

\* revoke and rotate read the file and put aside what stays.
StartRevoke(name) ==
  /\ operator = Idle
  /\ Named(file.entries, name) # {}
  /\ operator' = [at |-> "revoke", name |-> name,
                  kept |-> file.entries \ Named(file.entries, name)]
  /\ UNCHANGED <<fileVars, minted, cache, reader, answer>>

StartRotate(name) ==
  /\ operator = Idle /\ minted < MaxMinted
  /\ minted' = minted + 1
  /\ operator' = [at |-> "rotate", name |-> name,
                  kept |-> (file.entries \ Named(file.entries, name))
                             \cup {<<name, minted + 1>>}]
  /\ UNCHANGED <<fileVars, cache, reader, answer>>

Emptied == [there |-> TRUE, inode |-> file.inode, torn |-> FALSE, entries |-> {}]

\* revoke writes in place: fs::write truncates the file, ...
Truncate ==
  /\ operator.at = "revoke"
  /\ Write(Emptied, valid, {"revoke"})
  /\ operator' = [operator EXCEPT !.at = "refill"]
  /\ UNCHANGED <<minted, cache, reader, answer>>

\* ... writes some of it ...
RefillPart ==
  /\ operator.at = "refill"
  /\ \E some \in SUBSET operator.kept :
       Write([Emptied EXCEPT !.torn = TRUE, !.entries = some], valid, {"revoke"})
  /\ UNCHANGED <<operator, minted, cache, reader, answer>>

\* ... and then all.
Refill ==
  /\ operator.at = "refill"
  /\ Write([Emptied EXCEPT !.entries = operator.kept], operator.kept, {})
  /\ operator' = Idle
  /\ UNCHANGED <<minted, cache, reader, answer>>

\* Faulty variant: rotate writes in place as well.
RotateInPlace ==
  /\ operator.at \in {"rotate", "replace"}
  /\ Write(Emptied, valid, {})
  /\ operator' = [operator EXCEPT !.at = "refill"]
  /\ UNCHANGED <<minted, cache, reader, answer>>

\* rotate has written a file beside it.  On Windows it removes the old one, ...
Remove ==
  /\ windows /\ operator.at = "rotate" /\ file.there
  /\ Write([Emptied EXCEPT !.there = FALSE], valid, {"rotate"})
  /\ operator' = [operator EXCEPT !.at = "replace"]
  /\ UNCHANGED <<minted, cache, reader, answer>>

\* ... and renames the new one, which has another inode, into place.
Rename ==
  /\ operator.at \in {"rotate", "replace"}
  /\ Write([there |-> TRUE, inode |-> 3 - file.inode, torn |-> FALSE,
            entries |-> operator.kept], operator.kept, {})
  /\ operator' = Idle
  /\ UNCHANGED <<minted, cache, reader, answer>>

\* The process dies, or a write fails: what is in the file is in force.
Die ==
  /\ operator # Idle
  /\ operator' = Idle
  /\ valid' = file.entries
  /\ inForce' = [r \in Readers |-> IF Idling(r) THEN {} ELSE inForce[r] \cup {file.entries}]
  /\ UNCHANGED <<file, rewritten, minted, cache, reader, answer>>

Operator ==
  \/ \E name \in Names : Issue(name) \/ StartRevoke(name) \/ StartRotate(name)
  \/ Truncate \/ RefillPart \/ Refill \/ Remove \/ Rename \/ Die

-----------------------------------------------------------------------------
(* A request thread: Tokens::current.                                      *)

Content == <<file.entries, file.torn>>
Length == 2 * Cardinality(file.entries) + (IF file.torn THEN 1 ELSE 0)

\* stamp reads the metadata, in which only Unix has an inode, ...
StampTime(r) ==
  /\ reader[r].at = "idle"
  /\ reader' = [reader EXCEPT ![r] =
       [at |-> IF file.there THEN "timed" ELSE "stamped", since |-> file.writes,
        recurred |-> FALSE,
        stamp |-> IF file.there
                    THEN [time |-> file.time, length |-> Length, content |-> <<{}, FALSE>>,
                          inode |-> IF windows THEN 0 ELSE file.inode]
                    ELSE NoStamp]]
  /\ inForce' = [inForce EXCEPT ![r] = {valid}]
  /\ rewritten' = [rewritten EXCEPT ![r] = Gap]
  /\ UNCHANGED <<file, valid, minted, operator, cache, answer>>

\* ... and then the contents.
StampContent(r) ==
  /\ reader[r].at = "timed"
  /\ reader' = [reader EXCEPT ![r] =
       [at |-> "stamped", since |-> reader[r].since, recurred |-> FALSE,
        stamp |-> IF file.there THEN [reader[r].stamp EXCEPT !.content = Content]
                                ELSE NoStamp]]
  /\ UNCHANGED <<fileVars, minted, operator, cache, answer>>

\* Faulty variant: the fingerprint of the contents is not compared.
SameTime(r) == /\ cache.stamp.time = reader[r].stamp.time
               /\ cache.stamp.length = reader[r].stamp.length
               /\ cache.stamp.inode = reader[r].stamp.inode

SameStamp(r) == cache.stamp = reader[r].stamp

\* Under the lock: the cached entries if the stamp is the cached one, or what
\* is in the file by now.  A stamp recurs when one that is the same was taken
\* of the file before it was written again.
Answer(r) ==
  /\ reader[r].at = "stamped"
  /\ cache' = IF SameStamp(r)
                THEN cache
                ELSE [stamp |-> reader[r].stamp, entries |-> file.entries,
                      since |-> reader[r].since]
  /\ answer' = [answer EXCEPT ![r] = cache'.entries]
  /\ reader' = [reader EXCEPT ![r] =
       [at |-> "answered", since |-> reader[r].since, stamp |-> reader[r].stamp,
        recurred |-> cache.stamp = reader[r].stamp /\ cache.since < reader[r].since]]
  /\ UNCHANGED <<fileVars, minted, operator>>

Return(r) ==
  /\ reader[r].at = "answered"
  /\ reader' = [reader EXCEPT ![r] = NotReading]
  /\ answer' = [answer EXCEPT ![r] = {}]
  /\ inForce' = [inForce EXCEPT ![r] = {}]
  /\ rewritten' = [rewritten EXCEPT ![r] = {}]
  /\ UNCHANGED <<file, valid, minted, operator, cache>>

Request(r) == StampTime(r) \/ StampContent(r) \/ Answer(r) \/ Return(r)

-----------------------------------------------------------------------------

Next ==
  /\ UNCHANGED windows
  /\ Operator \/ \E r \in Readers : Request(r)

Spec == Init /\ [][Next]_vars

-----------------------------------------------------------------------------
(* What a server may rely on.                                              *)

Answered(r) == reader[r].at = "answered"

\* The answer is a complete set that was in force at some moment of the call, or
\* part of one if one of these operations had the file rewritten or gone.
WholeBut(r, gaps) ==
  \E entries \in inForce[r] :
    IF rewritten[r] \cap gaps # {} THEN answer[r] \subseteq entries
                                   ELSE answer[r] = entries

\* A call returns a complete set that was in force at some moment of the call:
\* what a concurrent append or rotation replaced, or what it put in place,
\* never a mixture, a gap or an older set; so what was taken back before the
\* call began is not in it.  A revocation that rewrites the file in place, or a
\* rotation that removes it first, may leave entries out meanwhile, no more
\* (auth.rs:106, auth.rs:144).  Only a call whose stamp recurs may get what was
\* in the file before (auth.rs:222).
AnswersAreWhole ==
  \A r \in Readers :
    Answered(r) /\ ~reader[r].recurred => WholeBut(r, {"revoke", "rotate"})

\* A rotation is a rename, "so a server reloading tokens sees either the old
\* complete set or the new complete set" (auth.rs:113-114).
RotationIsWhole ==
  \A r \in Readers : Answered(r) /\ ~reader[r].recurred => WholeBut(r, {"revoke"})

\* "A revocation takes effect without a restart" (auth.rs:5-6): what was not in
\* force at any moment of the call is not in the answer.
RevokedIsOut ==
  \A r \in Readers : Answered(r) => answer[r] \subseteq UNION inForce[r]

\* "Once the file holds any, the shared `--token` is not a second way in"
\* (http.rs:432-433): the server takes the tokens for unconfigured only when
\* there were none at some moment of the call.
NoOtherWayIn ==
  \A r \in Readers : Answered(r) /\ answer[r] = {} => {} \in inForce[r]
=============================================================================
