-------------------------- MODULE IncrementalSolver --------------------------
(***************************************************************************)
(* What lib/include/quapi/quapi.h promises a client: clauses accumulate,   *)
(* assumptions last for one solve, and a solve answers for the formula and *)
(* the assumptions it was called with.  Nothing is said of processes.      *)
(***************************************************************************)
EXTENDS Integers

CONSTANTS
    Lits,           \* what the client may assume
    Decide(_, _)    \* the code for a formula under a set of assumptions

VARIABLES
    formula,    \* how many clauses have been added
    cube,       \* the assumptions for the next solve
    solving,    \* quapi_solve has been called and has not returned
    result      \* code, formula and assumptions of the solve that returned
                \* last, if the client has not gone on since

spec_vars == <<formula, cube, solving, result>>

NoAnswer == [code |-> 0, formula |-> 0, cube |-> {}]

Init ==
    formula = 0 /\ cube = {} /\ ~solving /\ result = NoAnswer

AddClause ==
    /\ ~solving
    /\ formula' = formula + 1
    /\ UNCHANGED <<cube, solving, result>>

Assume(lit) ==
    /\ ~solving
    /\ cube' = cube \cup {lit}
    /\ UNCHANGED <<formula, solving, result>>

\* The client has taken note of the result and begins its next solve.
GoOn ==
    /\ ~solving
    /\ result' = NoAnswer
    /\ UNCHANGED <<formula, cube, solving>>

Call ==
    /\ ~solving
    /\ solving' = TRUE
    /\ result' = NoAnswer
    /\ UNCHANGED <<formula, cube>>

\* The answer to the question asked, and a cube that is empty again.
Answer ==
    /\ solving
    /\ solving' = FALSE
    /\ result' = [code |-> Decide(formula, cube), formula |-> formula,
                  cube |-> cube]
    /\ cube' = {}
    /\ UNCHANGED formula

Next == AddClause \/ (\E lit \in Lits : Assume(lit)) \/ GoOn \/ Call \/ Answer

\* Every solve is answered.
Spec == Init /\ [][Next]_spec_vars /\ WF_spec_vars(Answer)
=============================================================================
