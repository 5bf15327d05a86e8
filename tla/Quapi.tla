-------------------------------- MODULE Quapi --------------------------------
(***************************************************************************)
(* The processes of QuAPI and the pipes between them.                      *)
(*                                                                         *)
(*   client    calls the API from one thread, and quapi_terminate from     *)
(*             another;                                                    *)
(*   library   lib/src/quapi.c, in the client's process;                   *)
(*   seed      the solver executable with the preloaded runtime; it reads  *)
(*             the formula and forks a child for every solve;              *)
(*   children  copies of the seed that read the assumptions, solve, print  *)
(*             and exit.                                                   *)
(*                                                                         *)
(* The formula is abstracted to its number of finished clauses; how the    *)
(* messages become text is the subject of Serialization.                   *)
(***************************************************************************)
EXTENDS Integers, Sequences, QuapiMessages, QuapiLibrary,
        PreloadControl

CONSTANTS
    Regex,        \* BOOLEAN: quapi_init was given the two regexes
    Callback,     \* BOOLEAN: quapi_set_stdout_cb was called before solving
    ReportsBy,    \* how solvers answer: subset of {"code", "line"}
    Chatter,      \* lines a solver prints before its answer
    Satisfiable(_, _),  \* of a formula under a cube
    Lits,         \* literals the client assumes
    MaxKids,      \* bound: forks of the seed
    OutCap,       \* lines the pipe behind the children's stdout holds
    Uses,         \* optional API calls this client makes
    Faults        \* what goes wrong in solver processes

AllUses   == {"reset", "terminate"}
AllFaults == {"exec",    \* execvpe fails
              "crash",   \* a child dies of a signal
              "early"}   \* a child exits, with code 1, before SOLVE

ASSUME QuapiAssumption ==
    /\ Regex \in BOOLEAN /\ Callback \in BOOLEAN
    /\ ReportsBy \subseteq {"code", "line"}
    /\ Chatter \in Nat /\ MaxKids \in Nat /\ OutCap \in Nat
    /\ Lits \subseteq Int \ {0}
    /\ Uses \subseteq AllUses /\ Faults \subseteq AllFaults

VARIABLES
    lpc,          \* library thread: "init", "idle", "fork", "poll"
                  \* or "released"
    call,         \* what waits for the fork: an assumption, or 0 for solve
    lib,          \* the counters of quapi_solver
    solverchild_pid,
    revents,      \* fds the last poll() reported and the loop has not handled
    evfd,         \* counter of the eventfd, 0 or more
    wstream,      \* write_pipe_stream -> seed
    cstream,      \* solverchild_write_pipe_stream -> children
    toParent,     \* message_to_parent_pipe, written by seed and children
    out,          \* forked_child_write_pipe: lines printed by the children
    seed,         \* the seed process
    child,        \* the children, by pid
    kids,         \* how many there are
    open,         \* the client is inside a clause
    cube,         \* the client's assumptions for the next solve
    ret           \* the solve that returned last: its code, formula and
                  \* cube, until the client starts on the next one

libvars    == <<lpc, call, lib, solverchild_pid, revents>>
clientvars == <<open, cube, ret>>
procvars   == <<seed, child, kids>>
vars == <<lpc, call, lib, solverchild_pid, revents, evfd, wstream, cstream,
          toParent, out, seed, child, kids, open, cube, ret>>

Pids == 1..MaxKids

Unborn == [status |-> "none", state |-> "READING_PREFIX", formula |-> 0,
           written_clauses |-> 0, inbuf |-> <<>>, cube |-> {},
           printed |-> 0, code |-> 0, killed |-> FALSE]

NoResult == [code |-> 0, formula |-> 0, cube |-> {}]

NoStream == [buf |-> <<>>, pipe |-> <<>>]

\* quapi_init after fork_and_exec, whose execvpe may have failed and ended the
\* forked process, and after HEADER has been written.
Init ==
    /\ lpc = "init" /\ call = 0
    /\ lib = FreshSolver
    /\ solverchild_pid = 0 /\ revents = {} /\ evfd = 0
    /\ wstream = quapi_write_msg_to_file(NoStream, Header)
    /\ cstream = NoStream
    /\ toParent = <<>> /\ out = <<>>
    /\ seed \in [pc : IF "exec" \in Faults THEN {"boot", "exited"} ELSE {"boot"},
                 state : {"WAITING_FOR_HEADER"}, written_clauses : {0}]
    /\ child = [k \in Pids |-> Unborn] /\ kids = 0
    /\ open = FALSE /\ cube = {}
    /\ ret = NoResult

Running(k) == child[k].status = "running"

\* kill(pid, SIGKILL): pending until the process next returns to user mode.
Kill(pid) ==
    IF pid \in Pids /\ child[pid].status = "running"
    THEN [child EXCEPT ![pid].killed = TRUE]
    ELSE child
-----------------------------------------------------------------------------
(***************************************************************************)
(* The library: API calls of the client's main thread.                     *)
(***************************************************************************)

\* fclose writes out what the two streams still buffer.
CloseStreams ==
    /\ wstream' = FFlush(wstream) /\ cstream' = FFlush(cstream)
    /\ lpc' = "released"

\* The end of quapi_init: wait for STARTED; anything else is an error.
quapi_init ==
    /\ lpc = "init" /\ toParent # <<>>
    /\ IF Head(toParent).type = "STARTED"
       THEN lpc' = "idle" /\ UNCHANGED <<wstream, cstream>>
       ELSE CloseStreams
    /\ toParent' = Tail(toParent)
    /\ UNCHANGED <<call, lib, solverchild_pid, revents, evfd, out, procvars,
                   clientvars>>

\* Clauses have one literal here; the client does not exceed what it announced.
quapi_add(lit) ==
    /\ lpc = "idle" /\ CanAdd(lib)
    /\ lib.written_clauses < ClauseCount
    /\ open <=> (lit = 0)
    /\ wstream' = quapi_write_msg_to_file(wstream, Literal(lit))
    /\ lib' = AfterAdd(lib, lit)
    /\ open' = (lit # 0)
    /\ UNCHANGED <<lpc, call, solverchild_pid, revents, evfd, cstream, toParent,
                   out, procvars, cube, ret>>

\* make_solvable up to the wait for FORK_REPORT, on behalf of call c.
RequestFork(c) ==
    /\ NeedsFork(lib) /\ kids < MaxKids
    /\ lib' = AfterMakeSolvable(lib)
    /\ wstream' = quapi_write_msg_to_file(wstream, Fork(IF Regex THEN 0 ELSE 1))
    /\ lpc' = "fork" /\ call' = c
    /\ ret' = NoResult
    /\ UNCHANGED <<cstream, cube, revents>>

\* Mutant: the literal that caused the fork is forgotten.
SendAssumption_NotSent(lit) ==
    /\ lib' = AfterAssume(lib)
    /\ cube' = cube \cup {lit}
    /\ lpc' = "idle"
    /\ UNCHANGED <<cstream, revents>>

\* The rest of quapi_assume once there is a child: one unit clause.
SendAssumption(lit) ==
    /\ cstream' = quapi_write_msg_to_file(
                      quapi_write_msg_to_file(cstream, Literal(lit)), Literal(0))
    /\ lib' = AfterAssume(lib)
    /\ cube' = cube \cup {lit}
    /\ lpc' = "idle"
    /\ UNCHANGED revents

\* solve_internal up to the poll loop.
SendSolve ==
    /\ cstream' = quapi_write_msg_to_file(cstream, Solve)
    /\ lib' = Working(lib)
    /\ revents' = {}
    /\ lpc' = "poll"
    /\ UNCHANGED cube

\* A client that keeps to MaxAssumptions; 0 is ignored by the code.
quapi_assume(lit) ==
    /\ lpc = "idle" /\ CanAssume(lib) /\ ~open
    /\ lib.written_assumptions < MaxAssumptions
    /\ ~AssumeRefused(lib)
    /\ \/ RequestFork(lit)
       \/ /\ ~NeedsFork(lib)
          /\ SendAssumption(lit)
          /\ UNCHANGED <<call, wstream, ret>>
    /\ UNCHANGED <<solverchild_pid, evfd, toParent, out, procvars, open>>

quapi_solve ==
    /\ lpc = "idle" /\ ~open
    /\ ~SolveRefused(lib)
    /\ \/ RequestFork(0)
       \/ /\ ~NeedsFork(lib)
          /\ SendSolve
          /\ UNCHANGED <<call, wstream, ret>>
    /\ UNCHANGED <<solverchild_pid, evfd, toParent, out, procvars, open>>

\* The read loop of make_solvable discards every other message ...
DrainMessage ==
    /\ lpc = "fork" /\ toParent # <<>>
    /\ Head(toParent).type # "FORK_REPORT"
    /\ toParent' = Tail(toParent)
    /\ UNCHANGED <<libvars, evfd, wstream, cstream, out, procvars, clientvars>>

\* Mutant: the first message to arrive is taken for the FORK_REPORT.
ReadForkReport_AnyMessage ==
    /\ lpc = "fork" /\ toParent # <<>>
    /\ toParent' = Tail(toParent)
    /\ solverchild_pid' = Head(toParent).data
    /\ IF call = 0 THEN SendSolve ELSE SendAssumption(call)
    /\ UNCHANGED <<call, evfd, wstream, out, procvars, open, ret>>

\* ... and the FORK_REPORT lets the waiting call go on.
ReadForkReport ==
    /\ lpc = "fork" /\ toParent # <<>>
    /\ Head(toParent).type = "FORK_REPORT"
    /\ toParent' = Tail(toParent)
    /\ solverchild_pid' = Head(toParent).data
    /\ IF call = 0 THEN SendSolve ELSE SendAssumption(call)
    /\ UNCHANGED <<call, evfd, wstream, out, procvars, open, ret>>

\* The waitpid after the kill is on a process that is not the library's
\* child, so it returns at once.
quapi_reset_assumptions ==
    /\ "reset" \in Uses
    /\ lpc = "idle" /\ lib.state = "INPUT_ASSUMPTIONS"
    /\ child' = Kill(solverchild_pid)
    /\ lib' = DropAssumptions(lib)
    /\ cube' = {}
    /\ UNCHANGED <<lpc, call, solverchild_pid, revents, evfd, wstream, cstream,
                   toParent, out, seed, kids, open, ret>>

quapi_release ==
    /\ lpc = "idle"
    /\ CloseStreams
    /\ UNCHANGED <<call, lib, solverchild_pid, revents, evfd, toParent, out,
                   procvars, clientvars>>

\* Another thread, which has seen that the solver is WORKING.
quapi_terminate ==
    /\ "terminate" \in Uses
    /\ lib.state = "WORKING" /\ evfd = 0
    /\ evfd' = 1
    /\ UNCHANGED <<libvars, wstream, cstream, toParent, out, procvars, clientvars>>
-----------------------------------------------------------------------------
(***************************************************************************)
(* The library: the poll loop of solve_internal.                           *)
(***************************************************************************)
\* Mutant: quapi_set_stdout_cb forgets to set POLLIN.
Ready_RegexOnly == {fd \in {"child", "event", "out"} :
            \/ fd = "child" /\ toParent # <<>>
            \/ fd = "event" /\ evfd > 0
            \/ fd = "out" /\ Regex /\ out # <<>>}

Ready == {fd \in {"child", "event", "out"} :
            \/ fd = "child" /\ toParent # <<>>
            \/ fd = "event" /\ evfd > 0
            \/ fd = "out" /\ (Regex \/ Callback) /\ out # <<>>}

\* quapi_solve returns code to the client.
SolveReturns(code) ==
    /\ ret' = [code |-> code, cube |-> cube,
               formula |-> lib.written_clauses - lib.written_assumptions]
    /\ lib' = DropAssumptions(lib)
    /\ cube' = {}
    /\ revents' = {}
    /\ lpc' = "idle"

S_POLL ==
    /\ lpc = "poll" /\ revents = {}
    /\ Ready # {}
    /\ revents' = Ready
    /\ UNCHANGED <<lpc, call, lib, solverchild_pid, evfd, wstream, cstream,
                   toParent, out, procvars, clientvars>>

\* Mutant: the exit code decides even when a callback is set.
AwaitsCallback_Never(m) == m.type = "EXIT_CODE" /\ m.data = 0 /\ FALSE

\* With a callback, exit code 0 says that the answer is still to be printed.
AwaitsCallback(m) == m.type = "EXIT_CODE" /\ m.data = 0 /\ Callback

S_HANDLE_CHILD ==
    /\ lpc = "poll" /\ "child" \in revents /\ toParent # <<>>
    /\ toParent' = Tail(toParent)
    /\ IF AwaitsCallback(Head(toParent))
       THEN /\ revents' = revents \ {"child"}
            /\ UNCHANGED <<lpc, lib, cube, ret>>
       ELSE SolveReturns(IF Head(toParent).type = "EXIT_CODE"
                         THEN Head(toParent).data ELSE 0)
    /\ UNCHANGED <<call, solverchild_pid, evfd, wstream, cstream, out, procvars,
                   open>>

S_HANDLE_EVENTFD ==
    /\ lpc = "poll" /\ "child" \notin revents /\ "event" \in revents
    /\ evfd' = 0
    /\ child' = Kill(solverchild_pid)
    /\ SolveReturns(0)
    /\ UNCHANGED <<call, solverchild_pid, wstream, cstream, toParent, out, seed,
                   kids, open>>

\* The lines in the pipe that a regex matches, or for which the callback
\* returns non-zero; a line with value 0 is none of them.
AnswerLines == {i \in 1..Len(out) : out[i] # 0}

\* All there is is read; the first answer ends the solve.
S_HANDLE_SOLVERCHILD ==
    /\ lpc = "poll" /\ revents = {"out"}
    /\ out' = <<>>
    /\ IF AnswerLines # {}
       THEN \E i \in AnswerLines : /\ \A j \in AnswerLines : i <= j
                                  /\ SolveReturns(out[i])
       ELSE revents' = {} /\ UNCHANGED <<lpc, lib, cube, ret>>
    /\ UNCHANGED <<call, solverchild_pid, evfd, wstream, cstream, toParent,
                   procvars, open>>
-----------------------------------------------------------------------------
(***************************************************************************)
(* The seed.                                                               *)
(***************************************************************************)

\* WAITING_FOR_HEADER: announce the start.
SeedStarts ==
    /\ seed.pc = "boot" /\ wstream.pipe # <<>>
    /\ wstream' = [wstream EXCEPT !.pipe = Tail(@)]
    /\ seed' = [seed EXCEPT !.pc = "read",
                            !.state = AdvanceState(@, Head(wstream.pipe))]
    /\ toParent' = Append(toParent, Started)
    /\ UNCHANGED <<libvars, evfd, cstream, out, child, kids, clientvars>>

\* advance_state on any message but FORK.
SeedReads ==
    /\ seed.pc = "read" /\ wstream.pipe # <<>>
    /\ Head(wstream.pipe).type # "FORK"
    /\ wstream' = [wstream EXCEPT !.pipe = Tail(@)]
    /\ seed' = [seed EXCEPT
                  !.state = AdvanceState(@, Head(wstream.pipe)),
                  !.written_clauses =
                      IF EndsClause(seed.state, Head(wstream.pipe))
                      THEN @ + 1 ELSE @]
    /\ UNCHANGED <<libvars, evfd, cstream, toParent, out, child, kids, clientvars>>

\* fork_solving_child: the child starts from the state of the seed ...
SeedForks ==
    /\ seed.pc = "read" /\ wstream.pipe # <<>>
    /\ Head(wstream.pipe).type = "FORK"
    /\ wstream' = [wstream EXCEPT !.pipe = Tail(@)]
    /\ kids' = kids + 1
    /\ child' = [child EXCEPT ![kids + 1] =
                    [Unborn EXCEPT !.status = "running",
                                   !.state = seed.state,
                                   !.formula = seed.written_clauses,
                                   !.written_clauses = seed.written_clauses]]
    /\ seed' = [seed EXCEPT !.pc = "report"]
    /\ UNCHANGED <<libvars, evfd, cstream, toParent, out, clientvars>>

\* Mutant: the seed never waits.
SeedReports_NoWait ==
    /\ seed.pc = "report"
    /\ toParent' = Append(toParent, ForkReport(kids))
    /\ seed' = [seed EXCEPT !.pc = "read"]
    /\ UNCHANGED <<libvars, evfd, wstream, cstream, out, child, kids, clientvars>>

\* ... the seed reports its pid, and waits for it unless a regex decides.
SeedReports ==
    /\ seed.pc = "report"
    /\ toParent' = Append(toParent, ForkReport(kids))
    /\ seed' = [seed EXCEPT !.pc = IF Regex THEN "read" ELSE "wait"]
    /\ UNCHANGED <<libvars, evfd, wstream, cstream, out, child, kids, clientvars>>

SeedReaps ==
    /\ seed.pc = "wait" /\ child[kids].status = "zombie"
    /\ child' = [child EXCEPT ![kids].status = "reaped"]
    /\ toParent' = Append(toParent, ExitCode(child[kids].code))
    /\ seed' = [seed EXCEPT !.pc = "read"]
    /\ UNCHANGED <<libvars, evfd, wstream, cstream, out, kids, clientvars>>

\* on_destructed keeps quiet once a FORK has asked for the exit code.
Farewell(ps) == IF Regex THEN Append(ps, Destructed) ELSE ps

\* Mutant: a forked child has kept the write end of the seed's pipe open.
SeedExits_EndKeptOpen ==
    /\ seed.pc = "read" /\ wstream.pipe = <<>> /\ lpc = "released"
    /\ kids = 0
    /\ seed' = [seed EXCEPT !.pc = "exited"]
    /\ toParent' = Append(toParent, Destructed)
    /\ UNCHANGED <<libvars, evfd, wstream, cstream, out, child, kids, clientvars>>

\* The library has closed its end: exit(EXIT_SUCCESS) in advance_state.
SeedExits ==
    /\ seed.pc = "read" /\ wstream.pipe = <<>> /\ lpc = "released"
    /\ seed' = [seed EXCEPT !.pc = "exited"]
    /\ toParent' = IF kids = 0 THEN Append(toParent, Destructed)
                               ELSE Farewell(toParent)
    /\ UNCHANGED <<libvars, evfd, wstream, cstream, out, child, kids, clientvars>>
-----------------------------------------------------------------------------
(***************************************************************************)
(* A solving child.                                                        *)
(***************************************************************************)

\* fread fills the stdio buffer of the child from the shared pipe.
ChildFetches(k) ==
    LET n == IF Len(cstream.pipe) < FileBuf THEN Len(cstream.pipe) ELSE FileBuf
    IN  /\ Running(k) /\ child[k].state # "WORKING" /\ child[k].inbuf = <<>>
        /\ cstream.pipe # <<>>
        /\ child' = [child EXCEPT ![k].inbuf = SubSeq(cstream.pipe, 1, n)]
        /\ cstream' = [cstream EXCEPT
                         !.pipe = SubSeq(@, n + 1, Len(@))]
        /\ UNCHANGED <<libvars, evfd, wstream, toParent, out, seed, kids,
                       clientvars>>

\* advance_state: an assumption's literal, its zero, or SOLVE with fillers.
ChildReads(k) ==
    LET m == Head(child[k].inbuf)
        c == child[k]
    IN  /\ Running(k) /\ c.state # "WORKING" /\ c.inbuf # <<>>
        /\ child' = [child EXCEPT ![k] =
             [c EXCEPT
               !.inbuf = Tail(@),
               !.state = AdvanceState(@, m),
               !.written_clauses =
                   IF EndsClause(c.state, m) THEN @ + 1
                   ELSE IF m.type = "SOLVE" /\ @ < HeaderClauses
                        THEN HeaderClauses ELSE @,
               !.cube = IF m.type = "LITERAL" /\ m.data # 0
                        THEN @ \cup {m.data} ELSE @]]
        /\ UNCHANGED <<libvars, evfd, wstream, cstream, toParent, out, seed, kids,
                       clientvars>>

\* The lines a solver prints: chatter, then perhaps the answer.
LinesToPrint == Chatter + (IF "line" \in ReportsBy THEN 1 ELSE 0)

Verdict(formula, c) == IF Satisfiable(formula, c) THEN 10 ELSE 20

Answer(k) == Verdict(child[k].formula, child[k].cube)

\* A full pipe blocks the printing process.
ChildPrints(k) ==
    /\ Running(k) /\ child[k].state = "WORKING"
    /\ child[k].printed < LinesToPrint /\ Len(out) < OutCap
    /\ out' = Append(out, IF child[k].printed < Chatter THEN 0 ELSE Answer(k))
    /\ child' = [child EXCEPT ![k].printed = @ + 1]
    /\ UNCHANGED <<libvars, evfd, wstream, cstream, toParent, seed, kids, clientvars>>

\* Only the exit code outlives a process.
Dies(k, code) ==
    child' = [child EXCEPT ![k] =
                 [Unborn EXCEPT !.status = "zombie", !.code = code]]

\* exit: the destructor runs before the process is gone.
ChildExits(k) ==
    /\ Running(k) /\ child[k].state = "WORKING"
    /\ child[k].printed = LinesToPrint
    /\ Dies(k, IF "code" \in ReportsBy THEN Answer(k) ELSE 0)
    /\ toParent' = Farewell(toParent)
    /\ UNCHANGED <<libvars, evfd, wstream, cstream, out, seed, kids, clientvars>>

\* The library has closed its end while the child still wants a message.
ChildSeesClose(k) ==
    /\ Running(k) /\ child[k].state # "WORKING" /\ child[k].inbuf = <<>>
    /\ cstream.pipe = <<>> /\ lpc = "released"
    /\ Dies(k, 0)
    /\ toParent' = Farewell(toParent)
    /\ UNCHANGED <<libvars, evfd, wstream, cstream, out, seed, kids, clientvars>>

\* SIGKILL takes effect; neither the destructor nor a last print happens.
ChildKilled(k) ==
    /\ Running(k) /\ child[k].killed
    /\ Dies(k, 0)
    /\ UNCHANGED <<libvars, evfd, wstream, cstream, toParent, out, seed, kids,
                   clientvars>>

\* A fatal signal; the seed reports code 0 for it.
ChildCrashes(k) ==
    /\ "crash" \in Faults
    /\ Running(k)
    /\ Dies(k, 0)
    /\ UNCHANGED <<libvars, evfd, wstream, cstream, toParent, out, seed, kids,
                   clientvars>>

\* The solver gives up on its input, for example with a parse error.
ChildQuitsEarly(k) ==
    /\ "early" \in Faults
    /\ Running(k) /\ child[k].state # "WORKING"
    /\ Dies(k, 1)
    /\ toParent' = Farewell(toParent)
    /\ UNCHANGED <<libvars, evfd, wstream, cstream, out, seed, kids, clientvars>>
-----------------------------------------------------------------------------
AllGone == seed.pc = "exited" /\ \A k \in Pids : ~Running(k)

\* Nothing is left to happen.
Finished == lpc = "released" /\ AllGone /\ UNCHANGED vars

LibraryStep ==
    \/ quapi_init \/ DrainMessage \/ ReadForkReport
    \/ S_POLL \/ S_HANDLE_CHILD \/ S_HANDLE_EVENTFD \/ S_HANDLE_SOLVERCHILD

ClientStep ==
    \/ \E lit \in {1, 0} : quapi_add(lit)
    \/ \E lit \in Lits : quapi_assume(lit)
    \/ quapi_solve
    \/ quapi_reset_assumptions
    \/ quapi_release
    \/ quapi_terminate

SeedStep ==
    \/ SeedStarts \/ SeedReads \/ SeedForks \/ SeedReports \/ SeedReaps
    \/ SeedExits

ChildStep(k) ==
    \/ ChildFetches(k) \/ ChildReads(k) \/ ChildPrints(k) \/ ChildExits(k)
    \/ ChildSeesClose(k) \/ ChildKilled(k)

Fault ==
    \/ \E k \in Pids : ChildCrashes(k)
    \/ \E k \in Pids : ChildQuitsEarly(k)

Next ==
    \/ LibraryStep
    \/ ClientStep
    \/ SeedStep
    \/ \E k \in Pids : ChildStep(k)
    \/ Fault
    \/ Finished

\* Processes that can take a step do so; solvers terminate.  The client owes
\* no call, and faults need not happen.
Fairness ==
    /\ WF_vars(LibraryStep)
    /\ WF_vars(SeedStep)
    /\ \A k \in Pids : WF_vars(ChildStep(k))

Safety == Init /\ [][Next]_vars

Spec == Safety /\ Fairness
-----------------------------------------------------------------------------
ChildStatus == {"none", "running", "zombie", "reaped"}

Children == [status          : ChildStatus,
             state           : PreloadStates,
             formula         : Nat,
             written_clauses : Nat,
             inbuf           : Seq(Messages),
             cube            : SUBSET Int,
             printed         : Nat,
             code            : Int,
             killed          : BOOLEAN]

TypeOK ==
    /\ lpc \in {"init", "idle", "fork", "poll", "released"}
    /\ call \in Int
    /\ lib \in Solvers
    /\ solverchild_pid \in Int
    /\ revents \in SUBSET {"child", "event", "out"}
    /\ evfd \in {0, 1}
    /\ wstream \in Streams /\ cstream \in Streams
    /\ toParent \in Seq(Messages)
    /\ out \in Seq(Int)
    /\ seed \in [pc : {"boot", "read", "report", "wait", "exited"},
                 state : PreloadStates, written_clauses : Nat]
    /\ kids \in 0..MaxKids
    /\ child \in [Pids -> Children]
    /\ open \in BOOLEAN
    /\ cube \in SUBSET Int
    /\ ret \in [code : Int, formula : Int, cube : SUBSET Int]

(***************************************************************************)
(* Properties.                                                             *)
(***************************************************************************)

\* Without a regex the seed waits for its child before it serves the next
\* FORK, so two children never compete for the assumptions in the pipe they
\* share, whatever was reset, terminated or crashed before.
AtMostOneChild ==
    ~Regex => \A j, k \in Pids : Running(j) /\ Running(k) => j = k

\* Without a regex the only message the poll loop can meet is the exit code
\* of the child this very solve talks to.  Exit codes of earlier children,
\* never read because their solve was aborted, have all been drained.
OwnExitCode ==
    ~Regex /\ lpc = "poll" =>
        /\ solverchild_pid = kids
        /\ toParent # <<>> =>
              /\ child[solverchild_pid].status = "reaped"
              /\ toParent = <<ExitCode(child[solverchild_pid].code)>>

(***************************************************************************)
(* Why the two hold: the invariant that is preserved by every step.        *)
(***************************************************************************)

\* A FORK reaches the seed as the last message of its pipe, is never left in
\* the stdio buffer, and the library waits until it has been answered.
ForkIsLast ==
    /\ \A i \in 1..Len(wstream.buf) : wstream.buf[i].type # "FORK"
    /\ \A i \in 1..Len(wstream.pipe) :
          wstream.pipe[i].type = "FORK" =>
              i = Len(wstream.pipe) /\ lpc = "fork" /\ kids < MaxKids

ForkPending == \E i \in 1..Len(wstream.pipe) : wstream.pipe[i].type = "FORK"

CubeIsCounted == lib.written_assumptions <= lib.written_clauses

\* The seed reports, and waits for, a child it has.
ReportsChild == seed.pc \in {"report", "wait"} => kids > 0

\* One fork is under way at a time: its request, the fork and its report follow
\* each other, and the library waits all the while.
NoReport ==
    \A i \in 1..Len(toParent) : toParent[i].type # "FORK_REPORT"

OneFork ==
    /\ lpc # "fork" \/ ForkPending \/ seed.pc = "report" => NoReport
    /\ seed.pc = "report" => lpc = "fork" /\ ~ForkPending
    /\ \A i, j \in 1..Len(toParent) :
          /\ toParent[i].type = "FORK_REPORT"
          /\ toParent[j].type = "FORK_REPORT"
          => i = j

\* Of all children only the youngest may be alive, and it is exactly while
\* the seed is between its fork and the end of its waitpid.
YoungestOnly ==
    /\ \A k \in Pids : (k > kids => child[k].status = "none")
                     /\ (k < kids => child[k].status = "reaped")
    /\ seed.pc \in {"report", "wait"} =>
          child[kids].status \in {"running", "zombie"}
    /\ seed.pc \in {"boot", "read", "exited"} =>
          (kids > 0 => child[kids].status = "reaped")

\* At most one message waits, the exit code of the youngest child, and none
\* while the seed is still waiting for that child.
AtMostLastExit ==
    /\ Len(toParent) <= 1
    /\ seed.pc = "wait" => Len(toParent) = 0
    /\ Len(toParent) = 1 => /\ kids > 0
                            /\ toParent[1] = ExitCode(child[kids].code)

\* The youngest child is reported at position p, behind at most the exit code
\* of its predecessor, and followed by its own exit code once it is reaped.
ReportAt(p) ==
    /\ toParent[p] = ForkReport(kids)
    /\ p = 2 => toParent[1].type = "EXIT_CODE"
    /\ \/ Len(toParent) = p /\ seed.pc = "wait"
       \/ /\ Len(toParent) = p + 1 /\ seed.pc = "read"
          /\ toParent[p + 1] = ExitCode(child[kids].code)

MessagesInStep ==
    /\ lpc = "init" => /\ NeedsFork(lib)
                       /\ kids = 0 /\ seed.pc \in {"boot", "read", "exited"}
                       /\ Len(toParent) <= 1
                       /\ seed.pc \in {"boot", "exited"} => Len(toParent) = 0
    /\ lpc \in {"idle", "fork", "poll"} => seed.pc \in {"read", "report", "wait"}
    /\ lpc \in {"idle", "poll"} => seed.pc # "report" /\ AtMostLastExit
    /\ lpc = "poll" \/ (lpc = "idle" /\ ~NeedsFork(lib)) =>
          kids > 0 /\ solverchild_pid = kids
    /\ lpc = "fork" =>
          \/ ForkPending /\ seed.pc # "report" /\ AtMostLastExit
          \/ /\ ~ForkPending /\ seed.pc = "report"
             /\ Len(toParent) <= 1
             /\ Len(toParent) = 1 => toParent[1].type = "EXIT_CODE"
          \/ ~ForkPending /\ kids > 0 /\ (ReportAt(1) \/ ReportAt(2))

ProtocolInv ==
    /\ ForkIsLast /\ CubeIsCounted /\ ReportsChild /\ OneFork
    /\ ~Regex => YoungestOnly /\ MessagesInStep

\* The child that works for a solve works on the client's formula and on the
\* assumptions made since the last solve, no more and no fewer.
OwnQuestion ==
    lpc = "poll" /\ child[solverchild_pid].state = "WORKING" =>
        /\ child[solverchild_pid].cube = cube
        /\ child[solverchild_pid].formula
              = lib.written_clauses - lib.written_assumptions

\* quapi_solve returns 10 only for a satisfiable formula under its
\* assumptions, and 20 only for an unsatisfiable one.
SolveSound ==
    ret.code \in {10, 20} => ret.code = Verdict(ret.formula, ret.cube)

\* Clauses are neither lost nor doubled between the client and the seed: what
\* the seed has counted, plus what is still buffered or piped, is what the
\* library has counted once the assumptions of the cube are taken off.
ClausesConserved ==
    seed.written_clauses + ClauseEnds(Contents(wstream))
        = lib.written_clauses - lib.written_assumptions

\* Every call that waits for another process comes back.
CallsReturn == (lpc \in {"init", "fork", "poll"}) ~> (lpc = "idle")

\* After quapi_release no process of the solver is left running.
ReleaseEndsAll == (lpc = "released") ~> AllGone

\* A solve that starts has not been terminated yet: quapi_terminate stops the
\* solve that is running and no later one.
TerminateIsForThisSolve == [][lpc # "poll" /\ lpc' = "poll" => evfd' = 0]_vars
=============================================================================
