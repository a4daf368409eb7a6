------------------------------ MODULE MCAnalyse -------------------------------
(***************************************************************************)
(* Values of the constants of Analyse for TLC: few files, two names.       *)
(***************************************************************************)
EXTENDS Analyse, TLC

CONSTANTS f1, f2, p, q

MCFiles == {f1, f2}
MCOrder == <<f1, f2>>
MCKinds == {"call", "link"}

Has(defines, calls)   == [defines |-> defines, calls |-> calls, utf8 |-> TRUE]
Latin(defines, calls) == [defines |-> defines, calls |-> calls, utf8 |-> FALSE]

\* q moves between the files while its caller goes on calling it, and the file
\* it leaves is at times in a legacy encoding.
MovingTexts ==
  f1 :> {Has({p}, {<<p, q>>}), Has({p, q}, {<<p, q>>})}
  @@ f2 :> {Has({}, {<<Module, p>>}), Latin({q}, {<<q, p>>})}

\* A definition that goes while its file still calls it.
CallerStays ==
  f1 :> {Has({p, q}, {<<p, q>>}), Has({p}, {<<p, q>>})} @@ f2 :> {}

\* A second definition of a name that is called.
SecondDefinition ==
  f1 :> {Has({p}, {}), Has({q}, {})} @@ f2 :> {Has({p}, {}), Has({q}, {<<q, p>>})}
===============================================================================
