------------------------------ MODULE MCQuapify ------------------------------
(***************************************************************************)
(* Quapify for TLC: short files, put together from pieces, and command     *)
(* lines that use every option.                                            *)
(***************************************************************************)
EXTENDS QuapifyProperties

A == Option("a", 0, <<>>)
a(words) == [A EXCEPT !.words = words]
i(n) == Option("i", n, <<>>)
I(n) == Option("I", n, <<>>)
Flag(f) == Option(f, 0, <<>>)

Numbers(s) == [k \in 1..Len(s) |-> Number(s[k])]

File(before, problem, prefix, matrix) ==
    before \o <<problem>> \o prefix \o matrix \o <<EndOfFile>>

\* Blocks, closed or left open.
Blocks == {<<Forall>> \o Numbers(<<1, 2, 0>>), <<Exists>> \o Numbers(<<3, -4, 0>>),
           <<Forall, Number(3), Number(0)>>, <<Exists>>}

Prefixes2 == {<<>>} \cup Blocks \cup {b \o c : b \in Blocks, c \in Blocks}

Clauses == {Numbers(<<1, 0>>), Numbers(<<-2, 4, 0>>), <<Number(0)>>}

Matrices == {<<>>} \cup Clauses \cup {c \o d : c \in Clauses, d \in Clauses}

\* Formulas as they should be, with the announced counts right or wrong.
PlainFiles == {File(<<>>, Problem(4, n), p, m) :
                  n \in 1..2, p \in Prefixes2, m \in Matrices}

\* What only some ways of parsing accept, and what none does.
OddLines == {EmptyLine, Comment("line"), Comment("cut"), Junk, EndOfFile}

OddTails == {<<Number(1)>>, <<NumberThen(0, "eof")>>, <<NumberThen(0, "junk")>>,
             <<NumberThen(0, "comment")>>, <<NumberThen(0, "cut comment")>>,
             Numbers(<<9, 0>>), <<EmptyLine, Number(0)>>, <<Comment("line"), Number(0)>>,
             <<Number(0), Comment("cut")>>, <<Junk>>, Numbers(<<0, 0, 0>>),
             <<Forall, Exists>>}

Clause == Numbers(<<1, 2>>)

OddFiles ==
    {File(<<l>>, Problem(4, 1), Numbers(<<1, 0>>), <<>>) : l \in OddLines}
    \cup {File(<<>>, ProblemAs(4, 1, f), Numbers(<<1, 0>>), <<>>) :
             f \in {"spaced", "malformed"}}
    \cup {File(<<>>, Problem(4, 1), Clause, t) : t \in OddTails \ {<<Forall, Exists>>}}
    \cup {File(<<>>, Problem(4, 0), <<Forall, Exists>>, <<>>)}

MCFiles == PlainFiles \cup OddFiles

WithSolver(lines) == {Append(l, Solver) : l \in lines}

\* Lists of different lengths, the first too short for the universals.
UnevenCommandLines ==
    WithSolver({<<a(<<1>>), a(<<1, 2, 3>>), a(<<-1, 2, 3>>), Flag("r")>>})

MCCommandLines ==
    WithSolver({<<>>, <<Flag("r")>>, <<Flag("s")>>, <<A>>, <<A, Flag("r")>>,
        <<a(<<1>>), a(<<-1>>)>>, <<a(<<1, 0, -1, 2, 0>>), Flag("r")>>, <<a(<<5>>)>>,
        <<i(3), i(3)>>, <<i(5), i(0)>>, <<i(2), i(1), i(2), Flag("r")>>,
        <<a(<<-1>>), i(2), I(1)>>, <<a(<<1>>), a(<<1, 2, 3>>), I(0), Flag("r")>>,
        <<Flag("?")>>, <<Option("bad a", 0, <<1>>)>>})
    \cup {<<a(<<-2, 1>>), i(4), Flag("g")>>, <<Flag("r")>>, <<A>>}
    \cup UnevenCommandLines

\* What CallsAllowed needs of the files.
ASSUME BlocksFirst == PrefixFirst
=============================================================================
