---------------------------- MODULE DimacsParser ----------------------------
(***************************************************************************)
(* quapify/src/parse.c: the automaton of parse_dimacs, one token at a time.*)
(*                                                                         *)
(* A file is a sequence of tokens that ends with EOF.  Of the text only    *)
(* what the parser tells apart is kept: how a number ends, whether a line  *)
(* is cut off by the end of the file, and whether a problem line is        *)
(* written plainly, with additional blanks, or not as it should be.        *)
(***************************************************************************)
EXTENDS Integers, Sequences

Strictness == {"RELAXED", "NORMAL", "PEDANTIC"}

\* kind of a token, its number, and for a problem line the number of clauses;
\* `form` says how it is written.
Token(kind, n, m, form) == [kind |-> kind, n |-> n, m |-> m, form |-> form]

Kinds == {"problem", "number", "e", "a", "comment", "empty", "junk", "eof"}

Forms == {"plain", "spaced", "malformed", "blank", "line", "cut", "junk", "eof",
          "comment", "cut comment"}

\* A problem line announces at least nothing.
Tokens == {t \in [kind : Kinds, n : Int, m : Nat, form : Forms] :
              t.kind = "problem" => t.n >= 0}

Number(n)      == Token("number", n, 0, "blank")
NumberThen(n, form) == Token("number", n, 0, form)
Problem(v, c)  == Token("problem", v, c, "plain")
ProblemAs(v, c, form) == Token("problem", v, c, form)
Exists         == Token("e", 0, 0, "plain")
Forall         == Token("a", 0, 0, "plain")
Comment(form)  == Token("comment", 0, 0, form)
EmptyLine      == Token("empty", 0, 0, "plain")
Junk           == Token("junk", 0, 0, "plain")
EndOfFile      == Token("eof", 0, 0, "plain")

\* The local variables of parse_dimacs, and how it returned.
Parsers == [phase     : {"header", "body", "accepted", "rejected"},
            variables : Nat,
            clauses   : Nat,
            parsed    : Nat,
            lit       : Int,
            block     : {"none", "exists", "forall"}]

NewParser == [phase |-> "header", variables |-> 0, clauses |-> 0,
              parsed |-> 0, lit |-> 0, block |-> "none"]

Reject(ps) == [ps EXCEPT !.phase = "rejected"]

RejectIf(cond, ps) == IF cond THEN Reject(ps) ELSE ps
-----------------------------------------------------------------------------
\* The rest of the line after 'p'.
ParseProblem(strict, ps, t) ==
    RejectIf(\/ t.form = "malformed"
             \/ t.form = "spaced" /\ strict = "PEDANTIC",
             [ps EXCEPT !.phase = "body", !.variables = t.n, !.clauses = t.m])

\* Lines up to the one that starts with 'p'.
ParseHeader(strict, ps, t) ==
    CASE t.kind = "problem" -> ParseProblem(strict, ps, t)
      [] t.kind = "empty"   -> RejectIf(strict = "PEDANTIC", ps)
      [] t.kind = "comment" -> RejectIf(t.form = "cut", ps)
      [] OTHER              -> Reject(ps)

\* The loop is left at the end of the file.
AtEnd(strict, ps) ==
    IF \/ ps.lit # 0
       \/ strict # "RELAXED" /\ ps.parsed < ps.clauses
    THEN Reject(ps)
    ELSE [ps EXCEPT !.phase = "accepted"]

\* What may follow a number.
BadEnding(strict, form) ==
    \/ form = "junk"
    \/ form \in {"eof", "cut comment"} /\ strict = "PEDANTIC"

Abs(n) == IF n < 0 THEN -n ELSE n

\* A zero ends a block or a clause; the limit is looked at for both.
ParseNumber(strict, ps, t) ==
    IF \/ BadEnding(strict, t.form)
       \/ strict # "RELAXED" /\ Abs(t.n) > ps.variables
       \/ strict # "RELAXED" /\ t.n = 0 /\ ps.parsed = ps.clauses
    THEN Reject(ps)
    ELSE [ps EXCEPT
            !.lit    = t.n,
            !.parsed = IF t.n = 0 /\ ps.block = "none" THEN @ + 1 ELSE @,
            !.block  = IF t.n = 0 THEN "none" ELSE @]

ParseBody(strict, ps, t) ==
    CASE t.kind = "number"  -> ParseNumber(strict, ps, t)
      [] t.kind = "empty"   -> ps
      [] t.kind = "comment" ->
            IF t.form # "cut" THEN ps
            ELSE IF strict = "PEDANTIC" THEN Reject(ps) ELSE AtEnd(strict, ps)
      [] t.kind \in {"e", "a"} ->
            RejectIf(ps.block # "none",
                     [ps EXCEPT !.block = IF t.kind = "e" THEN "exists"
                                                          ELSE "forall"])
      [] t.kind = "eof"     -> AtEnd(strict, ps)
      [] OTHER              -> Reject(ps)

parse_dimacs(strict, ps, t) ==
    IF ps.phase = "header" THEN ParseHeader(strict, ps, t)
                           ELSE ParseBody(strict, ps, t)
-----------------------------------------------------------------------------
(***************************************************************************)
(* The call a token leads to: <<"quantify", q>>, <<"add", lit>>, or none.  *)
(***************************************************************************)
NoCall == <<"none", 0>>

\* Mutant: the zero that ends a block is passed on as the end of a clause.
CallFor_BlockEnd(strict, ps, t) ==
    LET after == parse_dimacs(strict, ps, t)
    IN  IF ps.phase # "body" \/ t.kind # "number" \/ after.phase = "rejected"
        THEN NoCall
        ELSE IF ps.block = "none" \/ t.n = 0 THEN <<"add", t.n>>
        ELSE <<"quantify", IF ps.block = "forall" THEN -Abs(t.n) ELSE Abs(t.n)>>

\* Mutant: the zero that ends a block is quantified like its variables.
CallFor_ZeroQuantified(strict, ps, t) ==
    LET after == parse_dimacs(strict, ps, t)
    IN  IF ps.phase # "body" \/ t.kind # "number" \/ after.phase = "rejected"
        THEN NoCall
        ELSE IF ps.block = "none" THEN <<"add", t.n>>
        ELSE <<"quantify", IF ps.block = "forall" THEN -Abs(t.n) ELSE Abs(t.n)>>

CallFor(strict, ps, t) ==
    LET after == parse_dimacs(strict, ps, t)
    IN  IF ps.phase # "body" \/ t.kind # "number" \/ after.phase = "rejected"
        THEN NoCall
        ELSE IF ps.block = "none" THEN <<"add", t.n>>
        ELSE IF t.n = 0 THEN NoCall
        ELSE <<"quantify", IF ps.block = "forall" THEN -Abs(t.n) ELSE Abs(t.n)>>
=============================================================================
