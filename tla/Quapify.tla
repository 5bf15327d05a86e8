------------------------------- MODULE Quapify -------------------------------
(***************************************************************************)
(* quapify/src/quapify.c: the command-line tool that drives the library.   *)
(*                                                                         *)
(* It reads its options, parses the formula once to count and to collect   *)
(* the quantifiers, expands the integer splits, starts the solver with     *)
(* these counts, parses the formula again to send it, and solves it once   *)
(* per assumption list.  The library takes part with the bookkeeping of    *)
(* QuapiLibrary, for the counts of this formula; processes and pipes are   *)
(* the subject of Quapi, which shows that a child is given its cube.       *)
(***************************************************************************)
EXTENDS DimacsParser, AssumptionLists

CONSTANTS
    Files,          \* the formulas: sequences of tokens
    CommandLines,   \* sequences of options
    AllowMissing    \* QUAPI_ALLOW_MISSING_UNIVERSAL_ASSUMPTIONS is set

\* Options: -a with its words, -i, -I, -g, -r and -s; "bad a" for words of which
\* one is not a number, "?" for -h or an option that does not exist.
Option(opt, n, words) == [opt |-> opt, n |-> n, words |-> words]

Options == [opt : {"a", "bad a", "i", "I", "g", "r", "s", "?"},
            n : -MaxInt - 1 .. MaxInt, words : Seq(Int)]

\* "--" and a solver behind it.
Solver == Option("--", 0, <<>>)

\* A file is read to its end; what follows "--" belongs to the solver.
ASSUME QuapifyAssumption ==
    /\ \A f \in Files : f \in Seq(Tokens) /\ f # <<>> /\ f[Len(f)] = EndOfFile
    /\ \A c \in CommandLines :
          /\ c \in Seq(Options \cup {Solver})
          /\ \A k \in 1..Len(c) - 1 : c[k] # Solver
    /\ AllowMissing \in BOOLEAN

VARIABLES
    pc,             \* "cli", "pass 1", "inflate", "ready", "pass 2", "lists",
                    \* or how it ended: "done", "listed", "exited", "failed"
    args,           \* options that getopt has not returned yet
    file, pos,      \* the input, and how many tokens are read
    parser,         \* local state of parse_dimacs
    cfg,            \* struct config
    quantifiers, varcount, clausecount,     \* found by the first pass
    intsplits_state,
    lib,            \* the library's quapi_solver
    given,          \* assumptions written to the child forked last
    ass, assstart,  \* cursor into the lists, and where the current one begins
    assumption_id,
    rows            \* history: the lines of output, with the cube the child
                    \* solved under, unless quapi_solve refused

input == <<args, file>>
counts == <<quantifiers, varcount, clausecount>>
cursor == <<ass, assstart, assumption_id>>
vars == <<pc, args, file, pos, parser, cfg, quantifiers, varcount, clausecount,
          intsplits_state, lib, given, ass, assstart, assumption_id, rows>>

Library == INSTANCE QuapiLibrary WITH
    ClauseCount    <- clausecount,
    MaxAssumptions <- cfg.assumptions_max_assumption_size

Init ==
    /\ pc = "cli"
    /\ args \in CommandLines /\ file \in Files
    /\ pos = 0 /\ parser = NewParser /\ cfg = EmptyConfig
    /\ quantifiers = <<>> /\ varcount = 0 /\ clausecount = 0
    /\ intsplits_state = <<>>
    /\ lib = Library!FreshSolver /\ given = <<>>
    /\ ass = 1 /\ assstart = 1 /\ assumption_id = 0 /\ rows = <<>>

Ends == {"done", "listed", "exited", "failed"}
-----------------------------------------------------------------------------
\* -a takes all numbers that follow, one in each turn of its loop; the last list
\* may lack its 0.
TakeNumber(o) ==
    LET added == add_to_assumptions(cfg, Head(o.words))
        last  == o.opt = "a" /\ Len(o.words) = 1
    IN  /\ o.opt \in {"a", "bad a"} /\ o.words # <<>>
        /\ cfg' = IF last /\ Head(o.words) # 0 THEN add_to_assumptions(added, 0)
                                               ELSE added
        /\ args' = IF last THEN Tail(args)
                   ELSE <<[o EXCEPT !.words = Tail(@)]>> \o Tail(args)
        /\ UNCHANGED pc

\* With another option in the place of its numbers, l is read uninitialized.
TakeNothing(o) ==
    /\ o.opt = "a" /\ o.words = <<>> /\ Tail(args) \notin {<<>>, <<Solver>>}
    /\ cfg' \in {cfg, add_to_assumptions(cfg, 0)}
    /\ args' = Tail(args) /\ UNCHANGED pc

\* "--" in their place is refused.
MissNumber(o) ==
    /\ o.opt = "a" /\ o.words = <<>> /\ Tail(args) = <<Solver>>
    /\ pc' = "failed" /\ args' = Tail(args) /\ UNCHANGED cfg

\* The other options, and a word that is not a number.  A last -a lacks its
\* argument, for which getopt returns "?" too.
TakeOption(o) ==
    /\ \/ /\ o.opt = "?" \/ (o.opt = "a" /\ o.words = <<>> /\ Tail(args) = <<>>)
          /\ pc' = "exited" /\ UNCHANGED cfg
       \/ o.opt = "bad a" /\ o.words = <<>> /\ pc' = "failed" /\ UNCHANGED cfg
       \/ /\ \/ o.opt = "i" /\ cfg' = add_intsplit_nesting_level(cfg, o.n)
             \/ o.opt = "I" /\ cfg' = [cfg EXCEPT !.selected_assumption = o.n]
             \/ o.opt = "g" /\ cfg' = [cfg EXCEPT !.generate_assumption_list = TRUE]
             \/ o.opt = "r" /\ cfg' = [cfg EXCEPT !.strictness = "RELAXED"]
             \/ o.opt = "s" /\ cfg' = [cfg EXCEPT !.strictness = "PEDANTIC"]
          /\ UNCHANGED pc
    /\ args' = Tail(args)

\* One turn of the getopt loop, or of the loop of -a.
parse_cli ==
    /\ pc = "cli" /\ args \notin {<<>>, <<Solver>>}
    /\ \/ TakeNumber(Head(args))
       \/ TakeNothing(Head(args))
       \/ MissNumber(Head(args))
       \/ TakeOption(Head(args))
    /\ UNCHANGED <<file, pos, parser, counts, intsplits_state, lib, given,
                   cursor, rows>>

\* Without lists and splits there is one empty list.  A solver may only be left
\* out when nothing is solved.
CliParsed ==
    /\ pc = "cli" /\ args \in {<<>>, <<Solver>>}
    /\ cfg' = IF cfg.assumptions_count = 0 /\ cfg.intsplits = <<>>
              THEN add_to_assumptions(cfg, 0) ELSE cfg
    /\ pc' = IF cfg.generate_assumption_list \/ args = <<Solver>>
             THEN "pass 1" ELSE "failed"
    /\ UNCHANGED <<input, pos, parser, counts, intsplits_state, lib, given,
                   cursor, rows>>
-----------------------------------------------------------------------------
\* run_kissat_parser: the next token, in the mode of the parser.
token == file[pos + 1]
Parsed == parse_dimacs(cfg.strictness, parser, token)
Called == CallFor(cfg.strictness, parser, token)

\* Where the tool is after this token, when `next` follows an accepted file.
\* A second parser starts from nothing.
ParserMoves(next) ==
    /\ pos' = IF Parsed.phase = "accepted" THEN 0 ELSE pos + 1
    /\ parser' = IF Parsed.phase = "accepted" THEN NewParser ELSE Parsed
    /\ pc' = CASE Parsed.phase = "accepted" -> next
               [] Parsed.phase = "rejected" -> "failed"
               [] OTHER -> pc

\* add_quantifier and add_lit while there is no solver.
FirstPass ==
    /\ pc = "pass 1"
    /\ ParserMoves("inflate")
    /\ quantifiers' = IF Called[1] = "quantify"
                      THEN Append(quantifiers, Called[2]) ELSE quantifiers
    /\ clausecount' = IF Called = <<"add", 0>> THEN clausecount + 1
                                               ELSE clausecount
    /\ varcount' = IF Called[1] = "add" /\ Abs(Called[2]) > varcount
                   THEN Abs(Called[2]) ELSE varcount
    /\ UNCHANGED <<input, cfg, intsplits_state, lib, given, cursor, rows>>

\* The same two, once there is one.  The states that quapi_quantify and
\* quapi_add assert are a property below.
SecondPass ==
    /\ pc = "pass 2"
    /\ ParserMoves("lists")
    /\ lib' = CASE Called[1] = "quantify" -> Library!AfterQuantify(lib, Called[2])
                [] Called[1] = "add"      -> Library!AfterAdd(lib, Called[2])
                [] OTHER                  -> lib
    /\ UNCHANGED <<input, cfg, counts, intsplits_state, given, cursor, rows>>
-----------------------------------------------------------------------------
\* main between the passes: nothing to expand, or no quantifier to do it with.
StartInflate ==
    /\ pc = "inflate" /\ intsplits_state = <<>>
    /\ \/ cfg.intsplits = <<>> /\ pc' = "ready" /\ UNCHANGED intsplits_state
       \/ /\ cfg.intsplits # <<>> /\ quantifiers = <<>>
          /\ pc' = "failed" /\ UNCHANGED intsplits_state
       \/ /\ cfg.intsplits # <<>> /\ quantifiers # <<>>
          /\ intsplits_state' = [i \in 1..Len(cfg.intsplits) |-> 0]
          /\ UNCHANGED pc
    /\ UNCHANGED <<input, pos, parser, cfg, counts, lib, given, cursor, rows>>

\* One turn of the loop: a list for this combination, then the next one.
inflate_intsplits ==
    /\ pc = "inflate" /\ intsplits_state # <<>>
    /\ IF intsplits_state[1] > cfg.intsplits[1] - 1
       THEN pc' = "ready" /\ UNCHANGED <<cfg, intsplits_state>>
       ELSE IF SplitsTooLong(cfg, quantifiers) \/ SplitOverBlocks(cfg, quantifiers)
       THEN pc' = "failed" /\ UNCHANGED <<cfg, intsplits_state>>
       ELSE /\ cfg' = AddList(cfg, intsplit_state_to_assumption(
                                       cfg, quantifiers, intsplits_state))
            /\ intsplits_state' = NextCombination(cfg, intsplits_state)
            /\ UNCHANGED pc
    /\ UNCHANGED <<input, pos, parser, counts, lib, given, cursor, rows>>

\* -g prints the lists and ends; otherwise the solver is started, or not.
StartSolver ==
    /\ pc = "ready"
    /\ IF cfg.generate_assumption_list THEN pc' = "listed"
                                       ELSE pc' \in {"pass 2", "failed"}
    /\ UNCHANGED <<input, pos, parser, cfg, counts, intsplits_state, lib, given,
                   cursor, rows>>
-----------------------------------------------------------------------------
(***************************************************************************)
(* The loop over the lists.                                                *)
(***************************************************************************)
element == cfg.assumptions[ass]

Selected == cfg.selected_assumption \in {-1, assumption_id}

\* make_solvable: what the child that is now there has been given already.
Child == IF Library!NeedsFork(lib) THEN <<>> ELSE given

\* Mutant: the cursor only moves over literals that are assumed.
SkipLiteral_Stays ==
    /\ pc = "lists" /\ ass <= Len(cfg.assumptions)
    /\ element # 0 /\ ~Selected
    /\ UNCHANGED vars

\* A literal of a list that -I does not select.
SkipLiteral ==
    /\ pc = "lists" /\ ass <= Len(cfg.assumptions)
    /\ element # 0 /\ ~Selected
    /\ ass' = ass + 1
    /\ UNCHANGED <<pc, input, pos, parser, cfg, counts, intsplits_state, lib,
                   given, assstart, assumption_id, rows>>

\* The variable exists, and quapi_assume does not refuse.
MayAssume == Abs(element) <= varcount /\ ~Library!AssumeRefused(lib)

\* Otherwise the tool gives up.
AssumeFails ==
    /\ pc = "lists" /\ ass <= Len(cfg.assumptions)
    /\ element # 0 /\ Selected /\ ~MayAssume
    /\ pc' = "failed"
    /\ UNCHANGED <<input, pos, parser, cfg, counts, intsplits_state, lib, given,
                   cursor, rows>>

AssumeLiteral ==
    /\ pc = "lists" /\ ass <= Len(cfg.assumptions)
    /\ element # 0 /\ Selected /\ MayAssume
    /\ lib' = Library!AfterAssume(Library!AfterMakeSolvable(lib))
    /\ given' = Append(Child, element)
    /\ ass' = ass + 1
    /\ UNCHANGED <<pc, input, pos, parser, cfg, counts, intsplits_state,
                   assstart, assumption_id, rows>>

\* A line of output: the list it names and the cube that was solved.
Row(answered, cube) ==
    [id |-> assumption_id, list |-> SubSeq(cfg.assumptions, assstart, ass - 1),
     answered |-> answered, cube |-> cube]

\* Mutant: only lists that are solved are counted.
EndOfList_CountsSolved ==
    /\ assstart' = ass + 1 /\ ass' = ass + 1
    /\ assumption_id' = IF Selected THEN assumption_id + 1 ELSE assumption_id

EndOfList ==
    /\ assstart' = ass + 1 /\ ass' = ass + 1
    /\ assumption_id' = assumption_id + 1

\* The 0 of a list: solve, unless -I selects another one.  A refused solve
\* leaves everything as it was.
SolveList ==
    /\ pc = "lists" /\ ass <= Len(cfg.assumptions) /\ element = 0
    /\ \/ ~Selected /\ UNCHANGED <<lib, given, rows>>
       \/ /\ Selected /\ Library!SolveRefused(lib)
          /\ rows' = Append(rows, Row(FALSE, <<>>))
          /\ UNCHANGED <<lib, given>>
       \/ /\ Selected /\ ~Library!SolveRefused(lib)
          /\ rows' = Append(rows, Row(TRUE, Child))
          /\ lib' = Library!DropAssumptions(
                        Library!Working(Library!AfterMakeSolvable(lib)))
          /\ given' = Child
    /\ EndOfList
    /\ UNCHANGED <<pc, input, pos, parser, cfg, counts, intsplits_state>>

AllSolved ==
    /\ pc = "lists" /\ ass > Len(cfg.assumptions)
    /\ pc' = "done"
    /\ UNCHANGED <<input, pos, parser, cfg, counts, intsplits_state, lib, given,
                   cursor, rows>>
-----------------------------------------------------------------------------
Ended == pc \in Ends /\ UNCHANGED vars

Next ==
    \/ parse_cli \/ CliParsed
    \/ FirstPass \/ SecondPass
    \/ StartInflate \/ inflate_intsplits \/ StartSolver
    \/ SkipLiteral \/ AssumeFails \/ AssumeLiteral \/ SolveList \/ AllSolved
    \/ Ended

\* One process, which runs; a solve ends (Quapi!CallsReturn).
Spec == Init /\ [][Next]_vars /\ WF_vars(Next)
=============================================================================
