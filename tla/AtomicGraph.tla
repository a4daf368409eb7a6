------------------------------ MODULE AtomicGraph -----------------------------
(***************************************************************************)
(* What Graph promises its callers: the graph is one store, a call of      *)
(* `update` changes it in one indivisible step between the call and the    *)
(* return, and compaction may rearrange base and delta at any moment but   *)
(* never changes what a read returns.  Only a call of `update_batch` may   *)
(* return without having had an effect.                                    *)
(***************************************************************************)
EXTENDS DeltaStore

CONSTANTS Writers,  \* the threads that write
          Calls,    \* the calls they may make
          NoCall,   \* what is pending of a thread outside a call
          InitBase  \* the base the graph is created with

VARIABLES store, pending

vars == <<store, pending>>

Init ==
  /\ store = [base |-> InitBase, delta |-> EmptyDelta]
  /\ pending = [w \in Writers |-> NoCall]

\* A thread enters update or update_batch.
Enter(w) ==
  /\ pending[w] = NoCall
  /\ \E c \in Calls : pending' = [pending EXCEPT ![w] = c]
  /\ UNCHANGED store

\* Its mutation takes effect on the store as it is now, once.
Commit(w) ==
  /\ pending[w] # NoCall
  /\ store' = Applied(pending[w].mutation, store)
  /\ pending' = [pending EXCEPT ![w] = NoCall]

\* update_batch makes a single attempt, and returns either way.
Drop(w) ==
  /\ pending[w] # NoCall
  /\ pending[w].via = "update_batch"
  /\ pending' = [pending EXCEPT ![w] = NoCall]
  /\ UNCHANGED store

Fold ==
  /\ store' = Compact(store)
  /\ UNCHANGED pending

Next ==
  \/ \E w \in Writers : Enter(w) \/ Commit(w) \/ Drop(w)
  \/ Fold

Spec == Init /\ [][Next]_vars

\* Only a caller's mutation changes what a read returns.
ViewChangesByCommitOnly ==
  [][View(store)' # View(store) => \E w \in Writers : Commit(w)]_vars
===============================================================================
