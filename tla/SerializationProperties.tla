----------------------- MODULE SerializationProperties -----------------------
(***************************************************************************)
(* What Serialization is for: the reference text of a formula, and the     *)
(* properties that compare the two.                                        *)
(***************************************************************************)
EXTENDS Serialization, SequencesExt

(***************************************************************************)
(* The reference: the QDIMACS file that the client's calls describe.       *)
(***************************************************************************)
\* Universals among the first MaxAssumptions variables become existential.
Bound(i) == IF prefix[i] < 0 /\ Rank(i) <= MaxAssumptions
            THEN -prefix[i] ELSE prefix[i]

SameBlock(i, j) ==
    /\ i \in DOMAIN prefix /\ j \in DOMAIN prefix
    /\ prefix[i] # 0 /\ prefix[j] # 0
    /\ (Bound(i) > 0) <=> (Bound(j) > 0)

Abs(n) == IF n < 0 THEN -n ELSE n

QuantifierText(i) ==
    IF prefix[i] = 0 THEN <<>>
    ELSE (IF SameBlock(i - 1, i) THEN <<>>
          ELSE <<IF Bound(i) > 0 THEN Exists ELSE Forall>>)
         \o <<SP, Num(Abs(prefix[i]))>>
         \o (IF SameBlock(i, i + 1) THEN <<>>
             ELSE <<SP, Num(0), NL>>)

ClauseText(c) ==
    FlattenSeq([i \in 1..Len(c) |-> <<Num(c[i]), SP>>])
    \o <<Num(0), NL>>

\* A clause that says nothing, over the first variable of the prefix if that
\* is existential; the empty clause stands in when there is no variable.  A 0
\* only ends a block, so a prefix starts with a variable.
FillerText ==
    IF prefix # <<>> /\ Bound(1) > 0
    THEN ClauseText(<<Bound(1), -Bound(1)>>)
    ELSE IF LitCount = 0 THEN ClauseText(<<>>) ELSE ClauseText(<<-1, 1>>)

Written == clauses \o [i \in DOMAIN cube |-> <<cube[i]>>]

FormulaText ==
    <<Problem, SP, Num(LitCount), SP, Num(HeaderClauses), NL>>
    \o FlattenSeq([i \in DOMAIN prefix |-> QuantifierText(i)])
    \o FlattenSeq([i \in DOMAIN Written |-> ClauseText(Written[i])])
    \o FlattenSeq([i \in 1..(HeaderClauses - Len(Written)) |-> FillerText])

-----------------------------------------------------------------------------
(***************************************************************************)
(* Properties.                                                             *)
(***************************************************************************)

\* When read() first returns 0, the solver has been given exactly the file the
\* client's calls describe: flipped prefix, clauses, assumptions as units, and
\* fillers up to the announced count, however the reads were cut.
DeliversFormula == eof /\ role = "child" => text = FormulaText

\* Only the solving child ever sees the end of its input; the seed, which has
\* to serve the next FORK, is never told that its input is over.
SeedNeverEnds == role = "seed" => ~eof /\ rt.state # "WORKING"

\* What the client has called so far is what the process has read, still has
\* buffered, or will read: no message is lost, doubled or overtaken, and the
\* library's clause counter agrees with it.
ClausesAccounted ==
    LET held == IF rpc = "dispatch" /\ EndsClause(rt.state, msg) THEN 1 ELSE 0
    IN  role = "seed" =>
          rt.written_clauses + held + ClauseEnds(Contents(wstream))
              = lib.written_clauses - lib.written_assumptions

\* A solve is never refused for missing universal assumptions when the cube
\* does assign every universal among the first MaxAssumptions variables.
NoFalseRefusal ==
    SolveRefused(lib) =>
        \E i \in DOMAIN prefix : /\ prefix[i] < 0
                                 /\ Rank(i) <= MaxAssumptions
                                 /\ Rank(i) > lib.written_assumptions

\* Every call of quapi_solve comes back: the child reaches the end of its
\* input, fillers included, and the answer is read.
EverySolveReturns == (lpc \in {"fork", "solving"}) ~> (lpc = "idle")

\* The message behind the refusal in quapi_solve: a solve that goes ahead has
\* enough assumptions to assign all leading universal quantifiers.
UniversalsAssigned ==
    lpc = "solving" /\ ~AllowMissing =>
        \A i \in DOMAIN prefix :
            prefix[i] < 0 /\ Rank(i) <= MaxAssumptions
                => Rank(i) <= lib.written_assumptions

\* No message of a client that ends its prefix and its clauses takes the runtime
\* to the error paths that format the message's type, an integer, as a string.
RuntimeSurvives == rt.state # "CRASHED"
=============================================================================
