----------------------------- MODULE MCChildren -----------------------------
(* The programs glasir runs, one of them in a behaviour.                   *)
EXTENDS Lsp, Output, CatFiles

VARIABLE program

MCVars == <<vars, outputVars, catVars, program>>

MCInit ==
  /\ Init /\ OutputInit /\ CatInit
  /\ program \in {"server", "git", "cat-file"}

MCNext ==
  /\ UNCHANGED program
  /\ \/ program = "server" /\ Next /\ UNCHANGED <<outputVars, catVars>>
     \/ program = "git" /\ OutputNext /\ UNCHANGED <<vars, catVars>>
     \/ program = "cat-file" /\ CatNext /\ UNCHANGED <<vars, outputVars>>

MCSpec == MCInit /\ [][MCNext]_MCVars /\ LspFairness /\ OutputFairness /\ CatFairness

\* Only what is glasir's own gets on; the other programs may do nothing.
MCAloneSpec == MCInit /\ [][MCNext]_MCVars /\ ClientFairness /\ OwnFairness
=============================================================================
