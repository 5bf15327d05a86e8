------------------------------- MODULE MCQuapi -------------------------------
(***************************************************************************)
(* Quapi for TLC.                                                          *)
(***************************************************************************)
EXTENDS QuapiRefinement

\* Satisfiability changes with every clause and with every assumption, so that
\* an answer to the wrong question is a wrong answer.
MCSatisfiable(formula, c) == (formula + Cardinality(c)) % 2 = 0
=============================================================================
