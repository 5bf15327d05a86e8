---------------------------- MODULE Serialization ----------------------------
(***************************************************************************)
(* From API calls to the text a solver reads.  A client drives the library *)
(* through quantify, add, assume and solve; the library sends messages     *)
(* through two stdio streams; the runtime inside the solver process turns  *)
(* them into QDIMACS text each time the solver calls read().               *)
(*                                                                         *)
(* One process is followed.  It starts as the seed, and at every FORK it   *)
(* either stays the seed, while a sibling serves that solve, or becomes    *)
(* the solving child, whose input is then what the solver sees in full.    *)
(***************************************************************************)
EXTENDS Integers, Sequences, PreloadRuntime

CONSTANTS
    MaxPrefix,    \* bound: calls of quapi_quantify
    MaxLen,       \* bound: literals of a clause
    ClauseLits,   \* literals the client puts into clauses
    MaxSolves,    \* bound: calls of quapi_solve that fork
    MaxCube,      \* bound: assumptions the client tries for one solve
    ReadSizes,    \* buffer lengths the solver passes to read()
    Habits        \* what this client or solver does beyond the common use

AllHabits == {"close_block",     \* quapi_quantify(s, 0) ends a block
              "no_matrix",       \* solve while a quantifier block is open
              "empty_clause",    \* quapi_add(s, 0) with no literal before it
              "reads_past_eof"}  \* the solver reads again after EOF

ASSUME SerializationAssumption ==
    /\ MaxPrefix \in Nat /\ MaxLen \in Nat
    /\ MaxSolves \in Nat /\ MaxCube \in Nat
    /\ ClauseLits \subseteq Int \ {0}
    /\ ReadSizes \subseteq Nat \ {0}
    /\ Habits \subseteq AllHabits

VARIABLES
    lpc,        \* library thread: "idle", "fork" or "solving"
    call,       \* what waits for the fork: an assumption, or 0 for solve
    lib,        \* the counters of quapi_solver
    wstream,    \* write_pipe_stream, read by the seed
    cstream,    \* solverchild_write_pipe_stream, read by the children
    toParent,   \* message_to_parent_pipe
    rpc,        \* the followed process: "solver" code, "fetch" or "dispatch"
    rt,         \* its runtime
    msg,        \* runtime->last_read_msg
    role,       \* "seed" or "child"
    sibling,    \* a child not followed is reading its assumptions
    text,       \* what the solver of the followed process has read so far
    eof,        \* read() has returned 0 to it
    prefix,     \* history: arguments of quapi_quantify
    clauses,    \* history: finished clauses
    open,       \* history: literals of the clause being added
    cube,       \* history: assumptions since the last solve
    forks       \* history: forks requested

libvars  == <<lpc, call, lib, wstream, cstream, forks>>
procvars == <<rpc, rt, msg, role, sibling, text, eof>>
history  == <<prefix, clauses, open, cube>>
vars     == <<lpc, call, lib, wstream, cstream, forks, toParent,
              rpc, rt, msg, role, sibling, text, eof,
              prefix, clauses, open, cube>>

NoStream == [buf |-> <<>>, pipe |-> <<>>]

\* The state in which quapi_init returns: HEADER sent, STARTED received.
Init ==
    /\ lpc = "idle" /\ call = 0 /\ forks = 0
    /\ lib = FreshSolver
    /\ wstream = NoStream /\ cstream = NoStream
    /\ toParent = <<>>
    /\ rpc = "solver"
    /\ rt = RunState(quapi_runtime_init, Header)
    /\ msg = Header
    /\ role = "seed" /\ sibling = FALSE
    /\ text = <<>> /\ eof = FALSE
    /\ prefix = <<>> /\ clauses = <<>> /\ open = <<>> /\ cube = <<>>
-----------------------------------------------------------------------------
(***************************************************************************)
(* The client's calls.  Client is the part common to all of them.          *)
(***************************************************************************)
Client == lpc = "idle" /\ ~eof /\ UNCHANGED <<procvars, toParent>>

\* Which variable of the prefix its i-th entry quantifies.
Rank(i) == Cardinality({j \in 1..i : prefix[j] # 0})

NewVar == Rank(Len(prefix)) + 1

BlockOpen == prefix # <<>> /\ prefix[Len(prefix)] # 0

\* Prefix: one literal, or 0 to end a block.
quapi_quantify(lit) ==
    /\ Client /\ CanQuantify(lib)
    /\ Len(prefix) < MaxPrefix
    /\ lit = 0 => "close_block" \in Habits /\ BlockOpen
    /\ wstream' = quapi_write_msg_to_file(wstream,
                      Quantifier(SentQuantifier(lib, lit)))
    /\ lib' = AfterQuantify(lib, lit)
    /\ prefix' = Append(prefix, lit)
    /\ UNCHANGED <<lpc, call, cstream, forks, clauses, open, cube>>

\* Matrix: one literal, or 0 to end a clause.
quapi_add(lit) ==
    /\ Client /\ CanAdd(lib)
    /\ Len(clauses) < ClauseCount
    /\ lit # 0 => Len(open) < MaxLen
    /\ lit = 0 => open # <<>> \/ "empty_clause" \in Habits
    /\ wstream' = quapi_write_msg_to_file(wstream, Literal(lit))
    /\ lib' = AfterAdd(lib, lit)
    /\ open' = IF lit = 0 THEN <<>> ELSE Append(open, lit)
    /\ clauses' = IF lit = 0 THEN Append(clauses, open) ELSE clauses
    /\ UNCHANGED <<lpc, call, cstream, forks, prefix, cube>>

\* Assumptions and solve come after whole clauses and a closed prefix.
Settled ==
    /\ open = <<>>
    /\ BlockOpen /\ clauses = <<>> => "no_matrix" \in Habits

\* make_solvable up to the wait for FORK_REPORT, on behalf of call c.
RequestFork(c) ==
    /\ NeedsFork(lib) /\ forks < MaxSolves
    /\ lib' = AfterMakeSolvable(lib)
    /\ wstream' = quapi_write_msg_to_file(wstream, Fork(1))
    /\ lpc' = "fork" /\ call' = c /\ forks' = forks + 1
    /\ UNCHANGED <<cstream, cube>>

\* The rest of quapi_assume once there is a child: one unit clause.
SendAssumption(lit) ==
    /\ cstream' = quapi_write_msg_to_file(
                      quapi_write_msg_to_file(cstream, Literal(lit)), Literal(0))
    /\ lib' = AfterAssume(lib)
    /\ cube' = Append(cube, lit)
    /\ lpc' = "idle"

\* solve_internal up to the poll loop.
SendSolve ==
    /\ cstream' = quapi_write_msg_to_file(cstream, Solve)
    /\ lib' = Working(lib)
    /\ lpc' = "solving"
    /\ UNCHANGED cube

\* An accepted assumption.  The i-th one assigns variable i of the prefix.
quapi_assume(lit) ==
    /\ Client /\ CanAssume(lib) /\ Settled
    /\ Len(cube) < MaxCube /\ ~AssumeRefused(lib)
    /\ \/ RequestFork(lit)
       \/ /\ ~NeedsFork(lib)
          /\ SendAssumption(lit)
          /\ UNCHANGED <<call, wstream, forks>>
    /\ UNCHANGED <<prefix, clauses, open>>

\* A solve that is not refused.
quapi_solve ==
    /\ Client /\ Settled
    /\ ~SolveRefused(lib)
    /\ \/ RequestFork(0)
       \/ /\ ~NeedsFork(lib)
          /\ SendSolve
          /\ UNCHANGED <<call, wstream, forks>>
    /\ UNCHANGED <<prefix, clauses, open>>

\* make_solvable: the FORK_REPORT arrives.  Every exit code has been read by
\* its own solve here, so the loop finds nothing to drain.
ReadForkReport ==
    /\ lpc = "fork" /\ toParent # <<>>
    /\ toParent' = Tail(toParent)
    /\ Head(toParent).type = "FORK_REPORT"
    /\ IF call = 0 THEN SendSolve ELSE SendAssumption(call)
    /\ UNCHANGED <<call, wstream, forks, procvars, prefix, clauses, open>>

\* The poll loop of solve_internal sees EXIT_CODE, and quapi_solve returns.
SolveReturns ==
    /\ lpc = "solving" /\ toParent # <<>>
    /\ toParent' = Tail(toParent)
    /\ lib' = DropAssumptions(lib)
    /\ lpc' = "idle"
    /\ cube' = IF eof THEN cube ELSE <<>>
    /\ UNCHANGED <<call, wstream, cstream, forks, procvars, prefix, clauses, open>>
-----------------------------------------------------------------------------
(***************************************************************************)
(* The followed process.                                                   *)
(***************************************************************************)
Pending == IF rt.outbuf_len = "closed" THEN <<>> ELSE rt.outbuf

\* read() returns with the next n lexemes, or with 0: end of file.
ReturnFromRead(r, n) ==
    LET taken == IF Len(r.outbuf) < n THEN Len(r.outbuf) ELSE n
        empty == r.outbuf_len = "closed" \/ r.outbuf = <<>>
    IN  /\ rpc' = "solver"
        /\ eof' = empty
        /\ text' = IF empty THEN text ELSE text \o SubSeq(r.outbuf, 1, taken)
        /\ rt' = IF empty THEN r
                 ELSE [r EXCEPT !.outbuf = SubSeq(@, taken + 1, Len(@))]
        /\ toParent' = IF empty /\ ~eof THEN Append(toParent, ExitCode(10))
                                        ELSE toParent

Runtime == UNCHANGED <<lpc, call, lib, forks, prefix, clauses, open, cube>>

\* quapi_read when the buffer still holds text, or the stream was closed.
ReadBuffered(n) ==
    /\ Runtime /\ rpc = "solver"
    /\ eof => "reads_past_eof" \in Habits
    /\ Pending # <<>> \/ rt.outbuf_len = "closed"
    /\ ReturnFromRead(rt, n)
    /\ UNCHANGED <<wstream, cstream, msg, role, sibling>>

\* quapi_read, advance_state with repeat_state: the last message once more.
ReadRepeated(n) ==
    /\ Runtime /\ rpc = "solver"
    /\ eof => "reads_past_eof" \in Habits
    /\ Pending = <<>> /\ rt.outbuf_len # "closed" /\ rt.repeat_state
    /\ ReturnFromRead(RunState([rt EXCEPT !.outbuf_len = "len"], msg), n)
    /\ UNCHANGED <<wstream, cstream, msg, role, sibling>>

\* quapi_read, advance_state without it: a message is needed.
ReadNeedsMessage ==
    /\ Runtime /\ rpc = "solver"
    /\ eof => "reads_past_eof" \in Habits
    /\ Pending = <<>> /\ rt.outbuf_len # "closed" /\ ~rt.repeat_state
    /\ rpc' = "fetch"
    /\ UNCHANGED <<rt, msg, role, sibling, text, eof, wstream, cstream, toParent>>

\* Mutant: the seed still reads the pipe it hands to its children.
Fetch_Shared ==
    /\ Runtime /\ rpc = "fetch"
    /\ \/ /\ role = "seed" /\ wstream.pipe # <<>>
          /\ msg' = Head(wstream.pipe)
          /\ wstream' = [wstream EXCEPT !.pipe = Tail(@)]
          /\ UNCHANGED cstream
       \/ /\ cstream.pipe # <<>>
          /\ msg' = Head(cstream.pipe)
          /\ cstream' = [cstream EXCEPT !.pipe = Tail(@)]
          /\ UNCHANGED wstream
    /\ rt' = [rt EXCEPT !.outbuf_len = "len"]
    /\ rpc' = "dispatch"
    /\ UNCHANGED <<role, sibling, text, eof, toParent>>

\* read_msg on the stream of the current role.
Fetch ==
    /\ Runtime /\ rpc = "fetch"
    /\ \/ /\ role = "seed" /\ wstream.pipe # <<>>
          /\ msg' = Head(wstream.pipe)
          /\ wstream' = [wstream EXCEPT !.pipe = Tail(@)]
          /\ UNCHANGED cstream
       \/ /\ role = "child" /\ cstream.pipe # <<>>
          /\ msg' = Head(cstream.pipe)
          /\ cstream' = [cstream EXCEPT !.pipe = Tail(@)]
          /\ UNCHANGED wstream
    /\ rt' = [rt EXCEPT !.outbuf_len = "len"]
    /\ rpc' = "dispatch"
    /\ UNCHANGED <<role, sibling, text, eof, toParent>>

\* One turn of advance_state's inner loop that does not fork.  The loop ends
\* when the state function leaves text, closes the stream, or wants a message.
Dispatch(n) ==
    LET r == RunState(rt, msg)
    IN  /\ Runtime /\ rpc = "dispatch"
        /\ r.outbuf_len # "again" /\ rt.state # "CRASHED"
        /\ IF r.outbuf = <<>> /\ r.outbuf_len = "len"
           THEN /\ rt' = r
                /\ UNCHANGED <<rpc, text, eof, toParent>>
           ELSE ReturnFromRead(r, n)
        /\ UNCHANGED <<wstream, cstream, msg, role, sibling>>

\* fork_solving_child: the process followed from here on is either one.
DispatchFork ==
    LET r == RunState(rt, msg)
    IN  /\ Runtime /\ rpc = "dispatch"
        /\ r.outbuf_len = "again"
        /\ rt' = r
        /\ rpc' = "fetch"
        /\ toParent' = Append(toParent, ForkReport(forks))
        /\ \/ role' = "child" /\ UNCHANGED sibling
           \/ sibling' = TRUE /\ UNCHANGED role
        /\ UNCHANGED <<wstream, cstream, msg, text, eof>>

\* The child that is not followed reads its stream to SOLVE and answers.
SiblingReads ==
    /\ Runtime /\ sibling /\ cstream.pipe # <<>>
    /\ cstream' = [cstream EXCEPT !.pipe = Tail(@)]
    /\ IF Head(cstream.pipe).type = "SOLVE"
       THEN sibling' = FALSE /\ toParent' = Append(toParent, ExitCode(20))
       ELSE UNCHANGED <<sibling, toParent>>
    /\ UNCHANGED <<wstream, rpc, rt, msg, role, text, eof>>
-----------------------------------------------------------------------------
\* The client makes no further call.
ClientStops == lpc = "idle" /\ UNCHANGED vars

SolverReads(n) == ReadBuffered(n) \/ ReadRepeated(n) \/ Dispatch(n)

Next ==
    \/ \E lit \in {NewVar, -NewVar, 0} : quapi_quantify(lit)
    \/ \E lit \in ClauseLits \cup {0} : quapi_add(lit)
    \/ \E lit \in {Len(cube) + 1, -(Len(cube) + 1)} : quapi_assume(lit)
    \/ quapi_solve
    \/ ReadForkReport
    \/ SolveReturns
    \/ \E n \in ReadSizes : ReadBuffered(n)
    \/ \E n \in ReadSizes : ReadRepeated(n)
    \/ ReadNeedsMessage
    \/ Fetch
    \/ \E n \in ReadSizes : Dispatch(n)
    \/ DispatchFork
    \/ SiblingReads
    \/ ClientStops

\* The processes keep running; nothing obliges the client to make a call.
Fairness ==
    /\ WF_vars(ReadForkReport) /\ WF_vars(SolveReturns)
    /\ WF_vars(\E n \in ReadSizes : SolverReads(n))
    /\ WF_vars(ReadNeedsMessage) /\ WF_vars(Fetch)
    /\ WF_vars(DispatchFork) /\ WF_vars(SiblingReads)

Spec == Init /\ [][Next]_vars /\ Fairness
-----------------------------------------------------------------------------
TypeOK ==
    /\ lpc \in {"idle", "fork", "solving"}
    /\ call \in Int /\ forks \in Nat
    /\ lib \in Solvers
    /\ wstream \in Streams /\ cstream \in Streams
    /\ toParent \in Seq(Messages)
    /\ rpc \in {"solver", "fetch", "dispatch"}
    /\ rt \in Runtimes /\ msg \in Messages
    /\ role \in {"seed", "child"} /\ sibling \in BOOLEAN
    /\ text \in Seq(Lexemes) /\ eof \in BOOLEAN
    /\ prefix \in Seq(Int) /\ open \in Seq(Int) /\ cube \in Seq(Int)
    /\ clauses \in Seq(Seq(Int))
=============================================================================
