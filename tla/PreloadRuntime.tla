--------------------------- MODULE PreloadRuntime ---------------------------
(***************************************************************************)
(* The preloaded runtime of preload/src/runtime.c: the state functions     *)
(* that turn messages into the QDIMACS text a solver reads from its        *)
(* standard input.                                                         *)
(*                                                                         *)
(* Text is a sequence of lexemes: a number, a blank, a line feed, a        *)
(* quantifier letter or the "p cnf" of the problem line.  Blanks and line  *)
(* feeds are lexemes because the functions emit them separately from the   *)
(* numbers they have to keep apart.                                        *)
(***************************************************************************)
EXTENDS Integers, Sequences, QuapiMessages, QuapiLibrary, PreloadControl

CONSTANT
    LitCount      \* header.literals; header.clauses is HeaderClauses

ASSUME RuntimeAssumption == LitCount \in Nat

Num(n)    == [k |-> "num", v |-> n]
SP        == [k |-> "blank", v |-> 0]
NL        == [k |-> "newline", v |-> 0]
Exists    == [k |-> "e", v |-> 0]
Forall    == [k |-> "a", v |-> 0]
Problem   == [k |-> "p cnf", v |-> 0]

Lexemes == [k : {"num", "blank", "newline", "e", "a", "p cnf"}, v : Int]

(***************************************************************************)
(* The runtime of one process.  outbuf is the part of r->outbuf the solver *)
(* has not been given yet; outbuf_len keeps only the two values of the     *)
(* code that are not a length: -1 asks for another message, -2 closes the  *)
(* stream.                                                                 *)
(***************************************************************************)
Runtimes == [state            : PreloadStates,
             outbuf           : Seq(Lexemes),
             outbuf_len       : {"len", "again", "closed"},
             written_clauses  : Nat,
             quantifier_count : Nat,
             repeat_state     : BOOLEAN,
             filler_clause    : Seq(Lexemes)]

UnitTautology(a, b) == <<Num(a), SP, Num(b), SP, Num(0), NL>>

quapi_runtime_init ==
    [state            |-> "WAITING_FOR_HEADER",
     outbuf           |-> <<>>,
     outbuf_len       |-> "len",
     written_clauses  |-> 0,
     quantifier_count |-> 0,
     repeat_state     |-> FALSE,
     filler_clause    |-> UnitTautology(-1, 1)]

Enough(r) == r.written_clauses >= HeaderClauses

Emit(r, m, text) ==
    [r EXCEPT !.outbuf = text, !.state = NextState(@, m, Enough(r))]

WAITING_FOR_HEADER(r, m) ==
    [Emit(r, m, <<Problem, SP, Num(LitCount), SP, Num(HeaderClauses), NL>>)
        EXCEPT !.filler_clause = IF LitCount = 0 THEN <<Num(0), NL>> ELSE @]

READING_PREFIX(r, m) ==
    CASE m.type = "QUANTIFIER" /\ m.data > 0 ->
           [Emit(r, m, <<Exists, SP, Num(m.data)>>)
               EXCEPT !.quantifier_count = @ + 1,
                      !.filler_clause = IF r.quantifier_count = 0
                                        THEN UnitTautology(m.data, -m.data)
                                        ELSE @]
      [] m.type = "QUANTIFIER" /\ m.data < 0 ->
           [Emit(r, m, <<Forall, SP, Num(-m.data)>>)
               EXCEPT !.quantifier_count = @ + 1]
      [] m.type = "FORK"  -> [Emit(r, m, <<>>) EXCEPT !.outbuf_len = "again"]
      [] m.type = "SOLVE" -> [Emit(r, m, <<>>) EXCEPT !.repeat_state = TRUE]
      [] OTHER            -> Emit(r, m, <<>>)

\* READING_EXISTS and READING_FORALL differ in which sign continues the block.
ReadingBlock(r, m, continues) ==
    CASE m.type = "QUANTIFIER" /\ m.data = 0 -> Emit(r, m, <<SP, Num(0), NL>>)
      [] m.type = "QUANTIFIER" /\ m.data # 0 ->
           [Emit(r, m,
                 IF continues
                 THEN <<SP, Num(IF m.data < 0 THEN -m.data ELSE m.data)>>
                 ELSE <<SP, Num(0), NL>> \o
                      ( IF m.data > 0 THEN <<Exists, SP, Num(m.data)>>
                                      ELSE <<Forall, SP, Num(-m.data)>> ))
               EXCEPT !.quantifier_count = @ + 1]
      [] m.type = "LITERAL" -> Emit(r, m, <<SP, Num(0), NL, Num(m.data)>>)
      [] OTHER              -> Emit(r, m, <<>>)

READING_EXISTS(r, m) == ReadingBlock(r, m, m.data > 0)

READING_FORALL(r, m) == ReadingBlock(r, m, m.data < 0)

READING_CLAUSE(r, m) ==
    CASE m.type = "LITERAL" /\ m.data = 0 ->
           [Emit(r, m, <<SP, Num(0), NL>>) EXCEPT !.written_clauses = @ + 1]
      [] m.type = "LITERAL" /\ m.data # 0 -> Emit(r, m, <<SP, Num(m.data)>>)
      [] OTHER                            -> Emit(r, m, <<>>)

\* Mutant: after a filler clause SOLVE is not looked at again.
READING_MATRIX_NoRepeat(r, m) ==
    CASE m.type = "LITERAL" -> Emit(r, m, <<Num(m.data)>>)
      [] m.type = "FORK"    -> [Emit(r, m, <<>>) EXCEPT !.outbuf_len = "again"]
      [] m.type = "SOLVE" /\ ~Enough(r) ->
           [Emit(r, m, r.filler_clause) EXCEPT !.written_clauses = @ + 1,
                                               !.repeat_state = FALSE]
      [] OTHER -> Emit(r, m, <<>>)

READING_MATRIX(r, m) ==
    CASE m.type = "LITERAL" -> Emit(r, m, <<Num(m.data)>>)
      [] m.type = "FORK"    -> [Emit(r, m, <<>>) EXCEPT !.outbuf_len = "again"]
      [] m.type = "SOLVE" /\ ~Enough(r) ->
           [Emit(r, m, r.filler_clause)
               EXCEPT !.written_clauses = @ + 1, !.repeat_state = TRUE]
      [] m.type = "SOLVE" /\ Enough(r) ->
           [Emit(r, m, <<>>) EXCEPT !.repeat_state = FALSE]
      [] OTHER -> Emit(r, m, <<>>)

WORKING(r, m) == [r EXCEPT !.outbuf_len = "closed"]

\* r->state(r, msg)
RunState(r, m) ==
    CASE r.state = "WAITING_FOR_HEADER" -> WAITING_FOR_HEADER(r, m)
      [] r.state = "READING_PREFIX"     -> READING_PREFIX(r, m)
      [] r.state = "READING_EXISTS"     -> READING_EXISTS(r, m)
      [] r.state = "READING_FORALL"     -> READING_FORALL(r, m)
      [] r.state = "READING_CLAUSE"     -> READING_CLAUSE(r, m)
      [] r.state = "READING_MATRIX"     -> READING_MATRIX(r, m)
      [] r.state = "WORKING"            -> WORKING(r, m)
      [] OTHER                          -> r
=============================================================================
