---------------------------- MODULE QuapiLibrary ----------------------------
(***************************************************************************)
(* The bookkeeping of one quapi_solver: what each API call of              *)
(* lib/src/quapi.c requires of the counters and the state it keeps, and    *)
(* what it makes of them.  The messages the calls send, and the waiting    *)
(* they do, are in the modules that use these operators.                   *)
(***************************************************************************)
EXTENDS Integers

CONSTANTS
    ClauseCount,      \* clauses announced to quapi_init
    MaxAssumptions,   \* prefixdepth: how many assumptions a solve may carry
    AllowMissing      \* QUAPI_ALLOW_MISSING_UNIVERSAL_ASSUMPTIONS is set

ASSUME LibraryAssumption ==
    /\ ClauseCount \in Nat
    /\ MaxAssumptions \in Nat
    /\ AllowMissing \in BOOLEAN

\* header.clauses: room is reserved for one unit clause per assumption.
HeaderClauses ==
    IF MaxAssumptions > 0 THEN ClauseCount + MaxAssumptions ELSE ClauseCount

LibStates == {"INPUT", "INPUT_LITERALS", "INPUT_ASSUMPTIONS", "WORKING"}

Solvers == [state                       : LibStates,
            written_clauses             : Nat,
            written_assumptions         : Nat,
            written_quantifier_literals : Nat,
            universal_prefix_depth      : Nat \cup {-1}]

FreshSolver == [state                       |-> "INPUT",
                written_clauses             |-> 0,
                written_assumptions         |-> 0,
                written_quantifier_literals |-> 0,
                universal_prefix_depth      |-> -1]
-----------------------------------------------------------------------------
\* Mutant: the prefix may go on after the first clause.
CanQuantify_Always(s) == s.state \in LibStates

CanQuantify(s) == s.state = "INPUT"

\* Mutant: one variable too many is flipped.
InPrefixDepth_OffByOne(s) == s.written_quantifier_literals <= MaxAssumptions

InPrefixDepth(s) == s.written_quantifier_literals < MaxAssumptions

\* A universal inside the first prefixdepth positions is sent as existential.
SentQuantifier(s, lit) == IF lit < 0 /\ InPrefixDepth(s) THEN -lit ELSE lit

AfterQuantify(s, lit) ==
    [s EXCEPT !.universal_prefix_depth =
                  IF lit < 0 /\ InPrefixDepth(s)
                  THEN s.written_quantifier_literals ELSE @,
              !.written_quantifier_literals = IF lit # 0 THEN @ + 1 ELSE @]

CanAdd(s) == s.state \in {"INPUT", "INPUT_LITERALS"}

AfterAdd(s, lit) ==
    [s EXCEPT !.state = "INPUT_LITERALS",
              !.written_clauses = IF lit = 0 THEN @ + 1 ELSE @]
-----------------------------------------------------------------------------
\* make_solvable forks only when no child is waiting for assumptions yet.
NeedsFork(s) == s.state \in {"INPUT", "INPUT_LITERALS"}

AfterMakeSolvable(s) == [s EXCEPT !.state = "INPUT_ASSUMPTIONS"]

CanAssume(s) == s.state \in {"INPUT_LITERALS", "INPUT_ASSUMPTIONS"}

AssumeRefused(s) == s.written_clauses >= HeaderClauses + MaxAssumptions

AfterAssume(s) ==
    [s EXCEPT !.state = "INPUT_ASSUMPTIONS",
              !.written_clauses = @ + 1,
              !.written_assumptions = @ + 1]

\* Mutant: the clauses reserved for assumptions are taken off, used or not.
DropAssumptions_Reserved(s) ==
    [s EXCEPT !.state = "INPUT_LITERALS",
              !.written_clauses = @ - MaxAssumptions,
              !.written_assumptions = 0]

\* Mutant: the unit clauses stay counted.
DropAssumptions_KeepsClauses(s) ==
    [s EXCEPT !.state = "INPUT_LITERALS", !.written_assumptions = 0]

\* Mutant: the next cube goes to the child that has already answered.
DropAssumptions_KeepsChild(s) ==
    [s EXCEPT !.state = "INPUT_ASSUMPTIONS",
              !.written_clauses = @ - s.written_assumptions,
              !.written_assumptions = 0]

\* The part of quapi_solve and quapi_reset_assumptions that forgets the cube.
DropAssumptions(s) ==
    [s EXCEPT !.state = "INPUT_LITERALS",
              !.written_clauses = @ - s.written_assumptions,
              !.written_assumptions = 0]

\* Mutant: asks for as many assumptions as there may be.
SolveRefused_FullDepth(s) ==
    s.written_assumptions < MaxAssumptions /\ ~AllowMissing

SolveRefused(s) ==
    s.written_assumptions < s.universal_prefix_depth /\ ~AllowMissing

Working(s) == [s EXCEPT !.state = "WORKING"]
=============================================================================
