----------------------------- MODULE QuapiProofs ----------------------------
(***************************************************************************)
(* Theorems about the specification Quapi, for every value of its          *)
(* constants: its types; that without a regex the library and the seed     *)
(* keep in step; and that clauses are conserved on their way from the      *)
(* client to the seed, in every mode, whatever is reset, terminated or     *)
(* fails.                                                                  *)
(***************************************************************************)
EXTENDS Quapi, MessageProofs

-----------------------------------------------------------------------------
(***************************************************************************)
(* The operators the model is built from.                                  *)
(***************************************************************************)

\* The runtime's state machine stays among its states.
LEMMA AdvanceType ==
    ASSUME NEW st \in PreloadStates, NEW m
    PROVE  AdvanceState(st, m) \in PreloadStates
  <1>1. \A s \in PreloadStates : NextState(s, m, TRUE) \in PreloadStates
    BY DEF NextState, PreloadStates
  <1>2. "READING_MATRIX" \in PreloadStates
    BY DEF PreloadStates
  <1>. QED  BY <1>1, <1>2 DEF AdvanceState

\* What can become of a child: born, killed, dead, reaped, or one step on.
LEMMA ChildType ==
    /\ Unborn \in Children
    /\ \A code \in Int :
         [Unborn EXCEPT !.status = "zombie", !.code = code] \in Children
    /\ \A st \in PreloadStates, f \in Nat :
         [Unborn EXCEPT !.status = "running", !.state = st, !.formula = f,
                        !.written_clauses = f] \in Children
  <1>1. Unborn \in Children
    BY DEF Unborn, Children, ChildStatus, PreloadStates
  <1>. "zombie" \in ChildStatus /\ "running" \in ChildStatus
    BY DEF ChildStatus
  <1>2. ASSUME NEW code \in Int
        PROVE  [Unborn EXCEPT !.status = "zombie", !.code = code] \in Children
    BY <1>1 DEF Children
  <1>3. ASSUME NEW st \in PreloadStates, NEW f \in Nat
        PROVE  [Unborn EXCEPT !.status = "running", !.state = st, !.formula = f,
                              !.written_clauses = f] \in Children
    BY <1>1 DEF Children
  <1>. QED  BY <1>1, <1>2, <1>3

\* kill() marks a child, which stays a child.
LEMMA KillType ==
    ASSUME TypeOK, NEW pid
    PROVE  Kill(pid) \in [Pids -> Children]
  <1>1. child \in [Pids -> Children]
    BY DEF TypeOK
  <1>2. ASSUME pid \in Pids
        PROVE  [child[pid] EXCEPT !.killed = TRUE] \in Children
    BY <1>1, <1>2 DEF Children
  <1>3. ASSUME pid \in Pids
        PROVE  [child EXCEPT ![pid].killed = TRUE]
                 = [child EXCEPT ![pid] = [child[pid] EXCEPT !.killed = TRUE]]
    BY Zenon
  <1>. QED  BY <1>1, <1>2, <1>3 DEF Kill
-----------------------------------------------------------------------------
(***************************************************************************)
(* Types.                                                                  *)
(***************************************************************************)
\* The state in which quapi_init starts to wait satisfies the invariant.
LEMMA InitType == Init => TypeOK /\ ForkIsLast /\ CubeIsCounted /\ ReportsChild
  <1>. SUFFICES ASSUME Init
                PROVE  TypeOK /\ ForkIsLast /\ CubeIsCounted /\ ReportsChild
    OBVIOUS
  <1>1. wstream = [buf |-> <<>>, pipe |-> <<Header>>]
    <2>1. FWrite(NoStream, Header) = [buf |-> <<Header>>, pipe |-> <<>>]
      BY FileBufAssumption DEF FWrite, NoStream
    <2>2. Header.type \in FlushingTypes
      BY DEF Header, Msg, FlushingTypes
    <2>3. FFlush([buf |-> <<Header>>, pipe |-> <<>>])
            = [buf |-> <<>>, pipe |-> <<Header>>]
      BY DEF FFlush
    <2>. QED  BY <2>1, <2>2, <2>3 DEF Init, quapi_write_msg_to_file
  <1>2. wstream \in Streams /\ cstream \in Streams
    <2>1. <<Header>> \in Seq(Messages)
      BY MessageType
    <2>2. cstream = [buf |-> <<>>, pipe |-> <<>>]
      BY DEF Init, NoStream
    <2>. QED  BY <1>1, <2>1, <2>2 DEF Streams
  <1>3. lib \in Solvers /\ CubeIsCounted
    BY DEF Init, FreshSolver, Solvers, LibStates, CubeIsCounted
  <1>4. child \in [Pids -> Children]
    BY ChildType DEF Init
  <1>5. ForkIsLast
    BY <1>1 DEF ForkIsLast, Header, Msg
  <1>6. kids \in 0..MaxKids
    BY QuapiAssumption DEF Init
  <1>7. seed \in [pc : {"boot", "read", "report", "wait", "exited"},
                  state : PreloadStates, written_clauses : Nat]
    BY DEF Init, PreloadStates
  <1>8. ret \in [code : Int, formula : Int, cube : SUBSET Int]
    BY DEF Init, NoResult
  <1>9. /\ lpc \in {"init", "idle", "fork", "poll", "released"}
        /\ call \in Int /\ solverchild_pid \in Int
        /\ evfd \in {0, 1} /\ toParent \in Seq(Messages) /\ out \in Seq(Int)
    BY DEF Init
  <1>10. /\ revents \in SUBSET {"child", "event", "out"}
         /\ open \in BOOLEAN /\ cube \in SUBSET Int
    BY Zenon DEF Init
  <1>11. ReportsChild
    BY DEF Init, ReportsChild
  <1>. QED
    BY <1>2, <1>3, <1>4, <1>5, <1>6, <1>7, <1>8, <1>9, <1>10, <1>11 DEF TypeOK

\* The stdio streams and the message queue, one by one.
LEMMA PipeType ==
    ASSUME TypeOK
    PROVE  /\ toParent # <<>> => /\ Tail(toParent) \in Seq(Messages)
                                 /\ Head(toParent) \in Messages
                                 /\ Head(toParent).data \in Int
           /\ \A m \in Messages : Append(toParent, m) \in Seq(Messages)
           /\ wstream.pipe # <<>> =>
                 [wstream EXCEPT !.pipe = Tail(@)] \in Streams
  <1>1. toParent \in Seq(Messages) /\ wstream \in Streams
    BY DEF TypeOK
  <1>2. ASSUME toParent # <<>>
        PROVE  Tail(toParent) \in Seq(Messages) /\ Head(toParent) \in Messages
    BY <1>1, <1>2, HeadTailProperties
  <1>3. \A m \in Messages : m.data \in Int
    BY DEF Messages
  <1>4. ASSUME NEW m \in Messages PROVE Append(toParent, m) \in Seq(Messages)
    BY <1>1, AppendProperties
  <1>5. ASSUME wstream.pipe # <<>>
        PROVE  [wstream EXCEPT !.pipe = Tail(@)] \in Streams
    <2>1. wstream.pipe \in Seq(Messages)
      BY <1>1 DEF Streams
    <2>2. Tail(wstream.pipe) \in Seq(Messages)
      BY <2>1, <1>5, HeadTailProperties
    <2>. QED  BY <1>1, <2>2 DEF Streams
  <1>. QED  BY <1>2, <1>3, <1>4, <1>5

\* What make_solvable and the continuations of quapi_assume and quapi_solve
\* leave behind.
LEMMA RequestForkType ==
    ASSUME TypeOK, NEW c \in Int, RequestFork(c)
    PROVE  /\ lib' \in Solvers /\ wstream' \in Streams /\ cstream' \in Streams
           /\ lpc' = "fork" /\ call' \in Int
           /\ cube' \in SUBSET Int /\ revents' = revents
           /\ ret' \in [code : Int, formula : Int, cube : SUBSET Int]
  <1>1. lib' \in Solvers
    <2>1. lib \in Solvers
      BY DEF TypeOK
    <2>2. AfterMakeSolvable(lib) \in Solvers
      BY <2>1, SolverType, 0 \in Int
    <2>. QED  BY <2>2 DEF RequestFork
  <1>2. wstream' \in Streams
    <2>. DEFINE w == IF Regex THEN 0 ELSE 1
    <2>1. Fork(w) \in Messages
      BY MessageType
    <2>2. wstream' = quapi_write_msg_to_file(wstream, Fork(w))
      BY DEF RequestFork
    <2>. HIDE DEF w
    <2>3. wstream \in Streams
      BY DEF TypeOK
    <2>. QED  BY <2>1, <2>2, <2>3, StreamType
  <1>3. ret' \in [code : Int, formula : Int, cube : SUBSET Int]
    BY DEF RequestFork, NoResult
  <1>. QED  BY <1>1, <1>2, <1>3 DEF RequestFork, TypeOK

\* quapi_assume after the fork: what it leaves of the types.
LEMMA SendAssumptionType ==
    ASSUME TypeOK, NEW lit \in Int, SendAssumption(lit)
    PROVE  /\ cstream' \in Streams /\ lib' \in Solvers
           /\ cube' \in SUBSET Int /\ lpc' = "idle" /\ revents' = revents
  <1>1. Literal(lit) \in Messages /\ Literal(0) \in Messages
    BY MessageType
  <1>2. cstream \in Streams /\ lib \in Solvers
    BY DEF TypeOK
  <1>3. quapi_write_msg_to_file(cstream, Literal(lit)) \in Streams
    BY <1>1, <1>2, StreamType
  <1>4. cstream' \in Streams
    BY <1>1, <1>3, StreamType DEF SendAssumption
  <1>5. AfterAssume(lib) \in Solvers
    BY <1>2, SolverType
  <1>. QED  BY <1>4, <1>5 DEF SendAssumption, TypeOK

\* solve_internal up to the poll loop.
LEMMA SendSolveType ==
    ASSUME TypeOK, SendSolve
    PROVE  /\ cstream' \in Streams /\ lib' \in Solvers
           /\ revents' = {} /\ lpc' = "poll" /\ cube' = cube
  <1>1. cstream \in Streams /\ lib \in Solvers
    BY DEF TypeOK
  <1>2. quapi_write_msg_to_file(cstream, Solve) \in Streams
    BY <1>1, MessageType, StreamType
  <1>3. Working(lib) \in Solvers
    BY <1>1, SolverType, 0 \in Int
  <1>. QED  BY <1>2, <1>3 DEF SendSolve

\* quapi_solve on its way out: taking the cube off the clauses is safe.
LEMMA SolveReturnsType ==
    ASSUME TypeOK, CubeIsCounted, NEW code \in Int, SolveReturns(code)
    PROVE  /\ lpc' = "idle" /\ revents' = {} /\ cube' = {}
           /\ lib' \in Solvers
           /\ ret' \in [code : Int, formula : Int, cube : SUBSET Int]
  <1>1. lib \in Solvers /\ cube \in SUBSET Int
    BY DEF TypeOK
  <1>2. DropAssumptions(lib) \in Solvers
    BY <1>1, SolverType, 0 \in Int DEF CubeIsCounted
  <1>3. lib.written_clauses - lib.written_assumptions \in Int
    BY <1>1 DEF Solvers
  <1>. QED  BY <1>1, <1>2, <1>3 DEF SolveReturns

\* fclose on both streams.
LEMMA CloseType ==
    ASSUME TypeOK, CloseStreams
    PROVE  wstream' \in Streams /\ cstream' \in Streams /\ lpc' = "released"
  BY StreamType, MessageType DEF TypeOK, CloseStreams

\* Every step keeps the types, given that a FORK on its way leaves room for
\* one more child and that the cube is part of the clause count.
LEMMA LibraryType ==
    ASSUME TypeOK, CubeIsCounted, LibraryStep
    PROVE  TypeOK'
  <1>. USE DEF libvars, procvars, clientvars
  <1>1. CASE quapi_init
    <2>1. /\ wstream' \in Streams /\ cstream' \in Streams
          /\ lpc' \in {"idle", "released"}
      BY <1>1, CloseType DEF TypeOK, quapi_init
    <2>. QED  BY <1>1, <2>1, PipeType DEF TypeOK, quapi_init
  <1>2. CASE DrainMessage
    BY <1>2, PipeType DEF TypeOK, DrainMessage
  <1>3. CASE ReadForkReport
    <2>1. CASE call = 0 /\ SendSolve
      BY <1>3, <2>1, PipeType, SendSolveType DEF TypeOK, ReadForkReport
    <2>2. CASE SendAssumption(call)
      <3>1. call \in Int
        BY DEF TypeOK
      <3>. QED
        BY <1>3, <2>2, <3>1, PipeType, SendAssumptionType
           DEF TypeOK, ReadForkReport
    <2>. QED  BY <1>3, <2>1, <2>2 DEF ReadForkReport
  <1>4. CASE S_POLL
    BY <1>4 DEF TypeOK, S_POLL, Ready
  <1>5. CASE S_HANDLE_CHILD
    <2>1. CASE AwaitsCallback(Head(toParent))
      BY <1>5, <2>1, PipeType DEF TypeOK, S_HANDLE_CHILD
    <2>2. CASE ~AwaitsCallback(Head(toParent))
      <3>. DEFINE c == IF Head(toParent).type = "EXIT_CODE"
                       THEN Head(toParent).data ELSE 0
      <3>1. c \in Int /\ SolveReturns(c)
        BY <1>5, <2>2, PipeType DEF S_HANDLE_CHILD
      <3>. HIDE DEF c
      <3>. QED
        BY <1>5, <3>1, PipeType, SolveReturnsType DEF TypeOK, S_HANDLE_CHILD
    <2>. QED  BY <2>1, <2>2
  <1>6. CASE S_HANDLE_EVENTFD
    <2>1. SolveReturns(0) /\ 0 \in Int
      BY <1>6 DEF S_HANDLE_EVENTFD
    <2>. QED
      BY <1>6, <2>1, SolveReturnsType, KillType DEF TypeOK, S_HANDLE_EVENTFD
  <1>7. CASE S_HANDLE_SOLVERCHILD
    <2>1. out' \in Seq(Int)
      BY <1>7 DEF S_HANDLE_SOLVERCHILD
    <2>2. CASE revents' = {} /\ UNCHANGED <<lpc, lib, cube, ret>>
      BY <1>7, <2>1, <2>2 DEF TypeOK, S_HANDLE_SOLVERCHILD
    <2>3. ASSUME NEW i \in 1..Len(out), SolveReturns(out[i]) PROVE TypeOK'
      <3>1. out[i] \in Int
        BY DEF TypeOK
      <3>2. /\ lpc' = "idle" /\ revents' = {} /\ cube' = {}
            /\ lib' \in Solvers
            /\ ret' \in [code : Int, formula : Int, cube : SUBSET Int]
        BY <2>3, <3>1, SolveReturnsType
      <3>. QED  BY <1>7, <2>1, <3>2 DEF TypeOK, S_HANDLE_SOLVERCHILD
    <2>. QED  BY <1>7, <2>2, <2>3 DEF AnswerLines, S_HANDLE_SOLVERCHILD
  <1>. QED
    BY <1>1, <1>2, <1>3, <1>4, <1>5, <1>6, <1>7 DEF LibraryStep

\* The calls of the client keep the types.
LEMMA ClientType ==
    ASSUME TypeOK, CubeIsCounted, ClientStep
    PROVE  TypeOK'
  <1>. USE DEF libvars, procvars, clientvars
  <1>1. ASSUME NEW lit \in {1, 0}, quapi_add(lit) PROVE TypeOK'
    <2>1. lit \in Int /\ lib \in Solvers /\ wstream \in Streams
      BY DEF TypeOK
    <2>2. lib' \in Solvers
      BY <1>1, <2>1, SolverType DEF quapi_add
    <2>3. Literal(lit) \in Messages
      BY <2>1, MessageType
    <2>4. wstream' \in Streams
      BY <1>1, <2>1, <2>3, StreamType DEF quapi_add
    <2>5. open' \in BOOLEAN
      BY <1>1, Zenon DEF quapi_add
    <2>. QED  BY <1>1, <2>2, <2>4, <2>5 DEF TypeOK, quapi_add
  <1>2. ASSUME NEW lit \in Lits, quapi_assume(lit) PROVE TypeOK'
    <2>1. lit \in Int
      BY QuapiAssumption
    <2>2. CASE RequestFork(lit)
      BY <1>2, <2>1, <2>2, RequestForkType DEF TypeOK, quapi_assume
    <2>3. CASE SendAssumption(lit) /\ UNCHANGED <<call, wstream, ret>>
      BY <1>2, <2>1, <2>3, SendAssumptionType DEF TypeOK, quapi_assume
    <2>. QED  BY <1>2, <2>2, <2>3 DEF quapi_assume
  <1>3. CASE quapi_solve
    <2>1. CASE RequestFork(0)
      BY <1>3, <2>1, RequestForkType, 0 \in Int DEF TypeOK, quapi_solve
    <2>2. CASE SendSolve /\ UNCHANGED <<call, wstream, ret>>
      BY <1>3, <2>2, SendSolveType DEF TypeOK, quapi_solve
    <2>. QED  BY <1>3, <2>1, <2>2 DEF quapi_solve
  <1>4. CASE quapi_reset_assumptions
    <2>1. DropAssumptions(lib) \in Solvers
      BY SolverType, 0 \in Int DEF TypeOK, CubeIsCounted
    <2>. QED  BY <1>4, <2>1, KillType DEF TypeOK, quapi_reset_assumptions
  <1>5. CASE quapi_release
    <2>1. wstream' \in Streams /\ cstream' \in Streams /\ lpc' = "released"
      BY <1>5, CloseType DEF quapi_release
    <2>. QED  BY <1>5, <2>1 DEF TypeOK, quapi_release
  <1>6. CASE quapi_terminate
    BY <1>6 DEF TypeOK, quapi_terminate
  <1>. QED
    BY <1>1, <1>2, <1>3, <1>4, <1>5, <1>6 DEF ClientStep

\* What the seed's reading makes of it.
LEMMA SeedStateType ==
    ASSUME TypeOK, NEW m, NEW pc \in {"boot", "read", "report", "wait", "exited"}
    PROVE  [seed EXCEPT !.pc = pc, !.state = AdvanceState(@, m)]
             \in [pc : {"boot", "read", "report", "wait", "exited"},
                  state : PreloadStates, written_clauses : Nat]
  <1>1. seed.state \in PreloadStates
    BY DEF TypeOK
  <1>2. AdvanceState(seed.state, m) \in PreloadStates
    BY <1>1, AdvanceType
  <1>. QED  BY <1>2 DEF TypeOK

\* The steps of the seed keep the types; a fork finds room for its child.
LEMMA SeedType ==
    ASSUME TypeOK, ForkIsLast, ReportsChild, SeedStep
    PROVE  TypeOK'
  <1>. USE DEF libvars, procvars, clientvars
  <1>. DEFINE Seeds == [pc : {"boot", "read", "report", "wait", "exited"},
                        state : PreloadStates, written_clauses : Nat]
  <1>1. CASE SeedStarts
    <2>1. seed' \in Seeds
      BY <1>1, SeedStateType DEF SeedStarts
    <2>2. toParent' \in Seq(Messages) /\ wstream' \in Streams
      BY <1>1, PipeType, MessageType DEF SeedStarts
    <2>. QED  BY <1>1, <2>1, <2>2 DEF TypeOK, SeedStarts
  <1>2. CASE SeedReads
    <2>1. wstream' \in Streams
      BY <1>2, PipeType DEF SeedReads
    <2>. DEFINE st == AdvanceState(seed.state, Head(wstream.pipe))
                n  == IF EndsClause(seed.state, Head(wstream.pipe))
                      THEN seed.written_clauses + 1 ELSE seed.written_clauses
    <2>2. seed.state \in PreloadStates /\ seed \in Seeds
      BY DEF TypeOK
    <2>3. st \in PreloadStates
      BY <2>2, AdvanceType
    <2>4. n \in Nat
      BY <2>2
    <2>5. seed' = [seed EXCEPT !.state = st, !.written_clauses = n]
      BY <1>2 DEF SeedReads
    <2>. HIDE DEF st, n
    <2>6. seed' \in Seeds
      BY <2>2, <2>3, <2>4, <2>5
    <2>. QED  BY <1>2, <2>1, <2>6 DEF TypeOK, SeedReads
  <1>3. CASE SeedForks
    <2>1. wstream' \in Streams
      BY <1>3, PipeType DEF SeedForks
    <2>2. kids + 1 \in Pids
      <3>1. wstream.pipe \in Seq(Messages) /\ wstream.pipe # <<>>
        BY <1>3 DEF TypeOK, Streams, SeedForks
      <3>2. Len(wstream.pipe) >= 1 /\ wstream.pipe[1].type = "FORK"
        BY <1>3, <3>1 DEF SeedForks
      <3>3. kids < MaxKids
        BY <3>1, <3>2 DEF ForkIsLast
      <3>. QED  BY <3>3, QuapiAssumption DEF TypeOK, Pids
    <2>3. kids' \in 0..MaxKids
      BY <1>3, <2>2 DEF SeedForks, Pids
    <2>4. seed.state \in PreloadStates /\ seed.written_clauses \in Nat
      BY DEF TypeOK
    <2>5. child' \in [Pids -> Children]
      <3>1. [Unborn EXCEPT !.status = "running",
                           !.state = seed.state,
                           !.formula = seed.written_clauses,
                           !.written_clauses = seed.written_clauses] \in Children
        BY <2>4, ChildType
      <3>. QED  BY <1>3, <2>2, <3>1 DEF TypeOK, SeedForks
    <2>. QED  BY <1>3, <2>1, <2>3, <2>5 DEF TypeOK, SeedForks
  <1>4. CASE SeedReports
    <2>1. ForkReport(kids) \in Messages
      BY MessageType DEF TypeOK
    <2>. QED  BY <1>4, <2>1, PipeType DEF TypeOK, SeedReports
  <1>5. CASE SeedReaps
    <2>1. kids \in Pids
      BY <1>5 DEF TypeOK, SeedReaps, ReportsChild, Pids
    <2>2. child[kids] \in Children
      BY <2>1 DEF TypeOK
    <2>3. ExitCode(child[kids].code) \in Messages
      BY <2>2, MessageType DEF Children
    <2>4. [child[kids] EXCEPT !.status = "reaped"] \in Children
      BY <2>2 DEF Children, ChildStatus
    <2>5. child' = [child EXCEPT ![kids] = [child[kids] EXCEPT !.status = "reaped"]]
      BY <1>5, Zenon DEF SeedReaps
    <2>6. child' \in [Pids -> Children]
      BY <2>1, <2>4, <2>5 DEF TypeOK
    <2>7. toParent' \in Seq(Messages)
      BY <1>5, <2>3, PipeType DEF SeedReaps
    <2>8. /\ seed' = [seed EXCEPT !.pc = "read"]
          /\ UNCHANGED <<libvars, evfd, wstream, cstream, out, kids, clientvars>>
      BY <1>5 DEF SeedReaps
    <2>. QED  BY <2>6, <2>7, <2>8 DEF TypeOK
  <1>6. CASE SeedExits
    <2>1. toParent' \in Seq(Messages)
      BY <1>6, PipeType, MessageType DEF SeedExits, Farewell, TypeOK
    <2>. QED  BY <1>6, <2>1 DEF TypeOK, SeedExits
  <1>. QED
    BY <1>1, <1>2, <1>3, <1>4, <1>5, <1>6 DEF SeedStep

\* A dead child, and a destructor that may have spoken.
LEMMA DiesType ==
    ASSUME TypeOK, NEW k \in Pids, NEW code \in Int, Dies(k, code)
    PROVE  child' \in [Pids -> Children]
  <1>1. [Unborn EXCEPT !.status = "zombie", !.code = code] \in Children
    BY ChildType
  <1>. QED  BY <1>1 DEF Dies, TypeOK

\* The message of the destructor, sent or not.
LEMMA FarewellType ==
    ASSUME TypeOK
    PROVE  Farewell(toParent) \in Seq(Messages)
  BY PipeType, MessageType DEF Farewell, TypeOK

\* The steps of a child keep the types.
LEMMA ChildStepType ==
    ASSUME TypeOK, NEW k \in Pids, ChildStep(k)
    PROVE  TypeOK'
  <1>. USE DEF libvars, procvars, clientvars
  <1>. child \in [Pids -> Children] /\ child[k] \in Children
    BY DEF TypeOK
  <1>1. CASE ChildFetches(k)
    <2>. DEFINE p == cstream.pipe
                n == IF Len(p) < FileBuf THEN Len(p) ELSE FileBuf
    <2>1. p \in Seq(Messages)
      BY DEF TypeOK, Streams
    <2>2. n \in Nat /\ n <= Len(p) /\ Len(p) \in Nat
      BY <2>1, FileBufAssumption
    <2>. DEFINE a == SubSeq(p, 1, n)
                z == SubSeq(p, n + 1, Len(p))
    <2>3. /\ child' = [child EXCEPT ![k].inbuf = a]
          /\ cstream' = [cstream EXCEPT !.pipe = z]
      BY <1>1 DEF ChildFetches
    <2>. HIDE DEF n
    <2>4. \A i \in 1..Len(p) : p[i] \in Messages
      BY <2>1
    <2>5. a \in Seq(Messages)
      <3>1. \A i \in 1..n : p[i] \in Messages
        BY <2>2, <2>4
      <3>. QED  BY <2>2, <3>1, SubSeqProperties
    <2>6. z \in Seq(Messages)
      <3>1. \A i \in (n + 1)..Len(p) : p[i] \in Messages
        BY <2>2, <2>4
      <3>2. n + 1 \in Int
        BY <2>2
      <3>. QED  BY <2>2, <3>1, <3>2, SubSeqProperties
    <2>. HIDE DEF a, z
    <2>7. cstream' \in Streams
      BY <2>3, <2>6 DEF TypeOK, Streams
    <2>8. [child[k] EXCEPT !.inbuf = a] \in Children
      BY <2>5 DEF Children
    <2>9. child' = [child EXCEPT ![k] = [child[k] EXCEPT !.inbuf = a]]
      BY <2>3, Zenon
    <2>10. child' \in [Pids -> Children]
      BY <2>8, <2>9
    <2>11. UNCHANGED <<libvars, evfd, wstream, toParent, out, seed, kids,
                       clientvars>>
      BY <1>1 DEF ChildFetches
    <2>. QED  BY <2>7, <2>10, <2>11 DEF TypeOK
  <1>2. CASE ChildReads(k)
    <2>. DEFINE m  == Head(child[k].inbuf)
                b  == Tail(child[k].inbuf)
                st == AdvanceState(child[k].state, m)
                w  == child[k].written_clauses
                n  == IF EndsClause(child[k].state, m) THEN w + 1
                      ELSE IF m.type = "SOLVE" /\ w < HeaderClauses
                           THEN HeaderClauses ELSE w
                q  == IF m.type = "LITERAL" /\ m.data # 0
                      THEN child[k].cube \cup {m.data} ELSE child[k].cube
    <2>1. m \in Messages /\ b \in Seq(Messages)
      BY <1>2, HeadTailProperties DEF Children, ChildReads
    <2>2. st \in PreloadStates
      <3>1. child[k].state \in PreloadStates
        BY DEF Children
      <3>. QED  BY <3>1, AdvanceType
    <2>3. n \in Nat
      BY LibraryAssumption DEF Children, HeaderClauses
    <2>4. q \in SUBSET Int
      BY <2>1 DEF Children, Messages
    <2>5. child' = [child EXCEPT ![k] =
                      [child[k] EXCEPT !.inbuf = b, !.state = st,
                                       !.written_clauses = n, !.cube = q]]
      BY <1>2 DEF ChildReads
    <2>. HIDE DEF b, st, n, q
    <2>6. [child[k] EXCEPT !.inbuf = b, !.state = st,
                           !.written_clauses = n, !.cube = q] \in Children
      BY <2>1, <2>2, <2>3, <2>4 DEF Children
    <2>. QED  BY <1>2, <2>5, <2>6 DEF TypeOK, ChildReads
  <1>3. CASE ChildPrints(k)
    <2>. DEFINE n == child[k].printed + 1
    <2>1. n \in Nat
      BY DEF Children
    <2>2. child' = [child EXCEPT ![k] = [child[k] EXCEPT !.printed = n]]
      BY <1>3, Zenon DEF ChildPrints
    <2>. HIDE DEF n
    <2>3. [child[k] EXCEPT !.printed = n] \in Children
      BY <2>1 DEF Children
    <2>4. out' \in Seq(Int)
      <3>1. (IF child[k].printed < Chatter THEN 0 ELSE Answer(k)) \in Int
        BY DEF Answer, Verdict
      <3>. QED  BY <1>3, <3>1, AppendProperties DEF TypeOK, ChildPrints
    <2>5. child' \in [Pids -> Children]
      BY <2>2, <2>3
    <2>6. UNCHANGED <<libvars, evfd, wstream, cstream, toParent, seed, kids,
                      clientvars>>
      BY <1>3 DEF ChildPrints
    <2>. QED  BY <2>4, <2>5, <2>6 DEF TypeOK
  <1>4. CASE ChildExits(k)
    <2>1. (IF "code" \in ReportsBy THEN Answer(k) ELSE 0) \in Int
      BY DEF Answer, Verdict
    <2>2. child' \in [Pids -> Children]
      BY <1>4, <2>1, DiesType DEF ChildExits
    <2>. QED  BY <1>4, <2>2, FarewellType DEF TypeOK, ChildExits
  <1>5. CASE ChildSeesClose(k)
    BY <1>5, DiesType, FarewellType, 0 \in Int DEF TypeOK, ChildSeesClose
  <1>6. CASE ChildKilled(k)
    BY <1>6, DiesType, 0 \in Int DEF TypeOK, ChildKilled
  <1>. QED
    BY <1>1, <1>2, <1>3, <1>4, <1>5, <1>6 DEF ChildStep

\* A crash and an early exit keep the types.
LEMMA FaultType ==
    ASSUME TypeOK, Fault
    PROVE  TypeOK'
  <1>. USE DEF libvars, procvars, clientvars
  <1>1. ASSUME NEW k \in Pids, ChildCrashes(k) PROVE TypeOK'
    BY <1>1, DiesType, 0 \in Int DEF TypeOK, ChildCrashes
  <1>2. ASSUME NEW k \in Pids, ChildQuitsEarly(k) PROVE TypeOK'
    BY <1>2, DiesType, FarewellType, 1 \in Int DEF TypeOK, ChildQuitsEarly
  <1>. QED  BY <1>1, <1>2 DEF Fault

\* Every step keeps the types.
LEMMA NextType ==
    ASSUME TypeOK, ForkIsLast, CubeIsCounted, ReportsChild, [Next]_vars
    PROVE  TypeOK'
  <1>1. CASE UNCHANGED vars
    BY <1>1 DEF TypeOK, vars
  <1>. QED
    BY <1>1, LibraryType, ClientType, SeedType, ChildStepType, FaultType
       DEF Next, Finished
-----------------------------------------------------------------------------
(***************************************************************************)
(* One fork at a time: with and without a regex, the request of the        *)
(* library, the fork and its report follow each other.  The types rest on  *)
(* it: a seed that forked once more would run out of pids.                 *)
(***************************************************************************)

\* What holds in every mode: with and without a regex.
CoreInv == TypeOK /\ ForkIsLast /\ CubeIsCounted /\ ReportsChild /\ OneFork

NoFork(q) == \A i \in 1..Len(q) : q[i].type # "FORK"
-----------------------------------------------------------------------------
(***************************************************************************)
(* Where a FORK can be.                                                    *)
(***************************************************************************)
\* Flushing a buffer without FORK behind a pipe without FORK.
LEMMA NoForkConcat ==
    ASSUME NEW a \in Seq(Messages), NEW b \in Seq(Messages),
           NoFork(a), NoFork(b)
    PROVE  NoFork(a \o b)
  <1>1. ASSUME NEW i \in 1..Len(a \o b) PROVE (a \o b)[i].type # "FORK"
    BY DEF NoFork
  <1>. QED  BY <1>1 DEF NoFork

\* Buffering a message that is no FORK.
LEMMA NoForkAppend ==
    ASSUME NEW a \in Seq(Messages), NEW m \in Messages,
           NoFork(a), m.type # "FORK"
    PROVE  NoFork(Append(a, m))
  BY AppendProperties DEF NoFork

\* A message that is no FORK leaves a stream without a FORK.
LEMMA WriteOther ==
    ASSUME NEW f \in Streams, NEW m \in Messages,
           NoFork(f.buf), NoFork(f.pipe), m.type # "FORK"
    PROVE  LET g == quapi_write_msg_to_file(f, m)
           IN  NoFork(g.buf) /\ NoFork(g.pipe)
  <1>1. f.buf \in Seq(Messages) /\ f.pipe \in Seq(Messages)
    BY DEF Streams
  <1>2. NoFork(<<>>) /\ NoFork(<<m>>)
    BY DEF NoFork
  <1>3. NoFork(f.pipe \o f.buf) /\ NoFork(Append(f.buf, m))
    BY <1>1, NoForkConcat, NoForkAppend
  <1>. DEFINE g == FWrite(f, m)
  <1>4. NoFork(g.buf) /\ NoFork(g.pipe)
    BY <1>2, <1>3 DEF FWrite
  <1>5. g \in Streams
    BY DEF FWrite, Streams
  <1>. HIDE DEF g
  <1>6. g.buf \in Seq(Messages) /\ g.pipe \in Seq(Messages)
    BY <1>5 DEF Streams
  <1>7. NoFork(g.pipe \o g.buf)
    BY <1>4, <1>6, NoForkConcat
  <1>8. NoFork(FFlush(g).buf) /\ NoFork(FFlush(g).pipe)
    BY <1>2, <1>7 DEF FFlush
  <1>. QED  BY <1>4, <1>8 DEF quapi_write_msg_to_file, g

\* A FORK is flushed to the pipe, where it is the last message.
LEMMA WriteFork ==
    ASSUME NEW f \in Streams, NEW m \in Messages,
           NoFork(f.buf), NoFork(f.pipe), m.type = "FORK"
    PROVE  LET g == quapi_write_msg_to_file(f, m)
           IN  /\ g.buf = <<>> /\ g.pipe \in Seq(Messages)
               /\ Len(g.pipe) >= 1
               /\ g.pipe[Len(g.pipe)] = m
               /\ \A i \in 1..Len(g.pipe) :
                     g.pipe[i].type = "FORK" => i = Len(g.pipe)
  <1>. DEFINE q == f.pipe \o f.buf
              g == quapi_write_msg_to_file(f, m)
  <1>1. f.buf \in Seq(Messages) /\ f.pipe \in Seq(Messages)
    BY DEF Streams
  <1>2. NoFork(q) /\ q \in Seq(Messages)
    BY <1>1, NoForkConcat, ConcatProperties
  <1>3. g = FFlush(FWrite(f, m))
    BY DEF quapi_write_msg_to_file, FlushingTypes
  <1>4. g.buf = <<>> /\ g.pipe = q \o <<m>>
    <2>. DEFINE w == FWrite(f, m)
    <2>1. w.pipe \o w.buf = q \o <<m>>
      <3>1. CASE Len(f.buf) >= FileBuf
        BY <3>1 DEF FWrite
      <3>2. CASE ~(Len(f.buf) >= FileBuf)
        <4>1. w.pipe = f.pipe /\ w.buf = Append(f.buf, m)
          BY <3>2 DEF FWrite
        <4>2. w.buf = f.buf \o <<m>>
          BY <1>1, <4>1, AppendIsConcat
        <4>3. <<m>> \in Seq(Messages)
          OBVIOUS
        <4>4. (f.pipe \o f.buf) \o <<m>> = f.pipe \o (f.buf \o <<m>>)
          BY <1>1, <4>3, ConcatMessages, Zenon
        <4>. HIDE DEF w
        <4>. QED  BY <4>1, <4>2, <4>4
      <3>. QED  BY <3>1, <3>2
    <2>. HIDE DEF w
    <2>2. FFlush(w).buf = <<>> /\ FFlush(w).pipe = w.pipe \o w.buf
      BY DEF FFlush
    <2>. QED  BY <1>3, <2>1, <2>2 DEF w
  <1>. HIDE DEF g, q
  <1>. DEFINE p == q \o <<m>>
  <1>5. /\ p \in Seq(Messages) /\ Len(q) \in Nat
        /\ Len(p) = Len(q) + 1
        /\ p[Len(q) + 1] = m
        /\ \A i \in 1..Len(q) : p[i] = q[i]
    BY <1>2
  <1>6. \A i \in 1..Len(q) + 1 : p[i].type = "FORK" => i = Len(q) + 1
    BY <1>2, <1>5 DEF NoFork
  <1>7. /\ g.buf = <<>> /\ g.pipe \in Seq(Messages)
        /\ Len(g.pipe) >= 1
        /\ g.pipe[Len(g.pipe)] = m
        /\ \A i \in 1..Len(g.pipe) :
              g.pipe[i].type = "FORK" => i = Len(g.pipe)
    BY <1>4, <1>5, <1>6
  <1>. QED  BY <1>7 DEF g

\* While the library waits for no fork, no FORK is on its way.
LEMMA ForkFree ==
    ASSUME ForkIsLast, lpc # "fork"
    PROVE  NoFork(wstream.buf) /\ NoFork(wstream.pipe) /\ ~ForkPending
  BY DEF ForkIsLast, NoFork, ForkPending
-----------------------------------------------------------------------------
(***************************************************************************)
(* Where a FORK_REPORT can be.                                             *)
(***************************************************************************)
NoReportIn(q) == \A i \in 1..Len(q) : q[i].type # "FORK_REPORT"

OneReportIn(q) ==
    \A i, j \in 1..Len(q) :
        q[i].type = "FORK_REPORT" /\ q[j].type = "FORK_REPORT" => i = j

\* Reading a message adds no FORK_REPORT; reading the only one leaves none.
LEMMA TailReports ==
    ASSUME NEW q \in Seq(Messages), q # <<>>
    PROVE  /\ NoReportIn(q) => NoReportIn(Tail(q))
           /\ OneReportIn(q) => OneReportIn(Tail(q))
           /\ OneReportIn(q) /\ Head(q).type = "FORK_REPORT"
                => NoReportIn(Tail(q))
           /\ Head(q).type = "FORK_REPORT" => ~NoReportIn(q)
  <1>1. /\ Len(Tail(q)) = Len(q) - 1 /\ Len(q) \in Nat /\ Len(q) >= 1
        /\ \A i \in 1..Len(Tail(q)) : Tail(q)[i] = q[i + 1]
        /\ Head(q) = q[1]
    OBVIOUS
  <1>2. \A i \in 1..Len(Tail(q)) : i + 1 \in 1..Len(q) /\ i + 1 # 1
    BY <1>1
  <1>3. 1 \in 1..Len(q)
    BY <1>1
  <1>4. NoReportIn(q) => NoReportIn(Tail(q))
    BY <1>1, <1>2 DEF NoReportIn
  <1>5. ASSUME OneReportIn(q) PROVE OneReportIn(Tail(q))
    <2>. SUFFICES ASSUME NEW i \in 1..Len(Tail(q)), NEW j \in 1..Len(Tail(q)),
                         Tail(q)[i].type = "FORK_REPORT",
                         Tail(q)[j].type = "FORK_REPORT"
                  PROVE  i = j
      BY DEF OneReportIn
    <2>1. i + 1 = j + 1
      BY <1>1, <1>2, <1>5 DEF OneReportIn
    <2>. QED  BY <2>1
  <1>6. OneReportIn(q) /\ Head(q).type = "FORK_REPORT" => NoReportIn(Tail(q))
    BY <1>1, <1>2, <1>3 DEF OneReportIn, NoReportIn
  <1>. QED  BY <1>1, <1>3, <1>4, <1>5, <1>6 DEF NoReportIn

\* Sending any other message adds none, and the first one is the only one.
LEMMA AppendReports ==
    ASSUME NEW q \in Seq(Messages), NEW m \in Messages
    PROVE  /\ m.type # "FORK_REPORT" =>
                 /\ NoReportIn(q) => NoReportIn(Append(q, m))
                 /\ OneReportIn(q) => OneReportIn(Append(q, m))
           /\ NoReportIn(q) => OneReportIn(Append(q, m))
  <1>1. /\ Len(Append(q, m)) = Len(q) + 1 /\ Len(q) \in Nat
        /\ \A i \in 1..Len(q) : Append(q, m)[i] = q[i]
        /\ Append(q, m)[Len(q) + 1] = m
    OBVIOUS
  <1>2. \A i \in 1..Len(Append(q, m)) : i \in 1..Len(q) \/ i = Len(q) + 1
    BY <1>1
  <1>. DEFINE a == Append(q, m)
  <1>. HIDE DEF a
  <1>3. /\ Len(a) = Len(q) + 1
        /\ \A i \in 1..Len(q) : a[i] = q[i]
        /\ a[Len(q) + 1] = m
        /\ \A i \in 1..Len(a) : i \in 1..Len(q) \/ i = Len(q) + 1
    BY <1>1, <1>2 DEF a
  <1>4. /\ m.type # "FORK_REPORT" =>
                 /\ NoReportIn(q) => NoReportIn(a)
                 /\ OneReportIn(q) => OneReportIn(a)
        /\ NoReportIn(q) => OneReportIn(a)
    BY <1>3 DEF NoReportIn, OneReportIn
  <1>. QED  BY <1>4 DEF a
-----------------------------------------------------------------------------
(***************************************************************************)
(* CubeIsCounted: whatever a call does to the counters, the assumptions    *)
(* stay part of the clauses.                                               *)
(***************************************************************************)
\* The counters change in the ways QuapiLibrary lists, or not at all.
LEMMA LibMoves ==
    ASSUME [Next]_vars
    PROVE  \/ lib' = lib
           \/ \E lit \in {1, 0} : lib' = AfterAdd(lib, lit)
           \/ lib' = AfterMakeSolvable(lib)
           \/ lib' = AfterAssume(lib)
           \/ lib' = Working(lib)
           \/ lib' = DropAssumptions(lib)
  <1>. USE DEF libvars
  <1>1. CASE UNCHANGED vars
    BY <1>1 DEF vars
  <1>2. CASE LibraryStep
    BY <1>2 DEF LibraryStep, quapi_init, DrainMessage, ReadForkReport, S_POLL,
                S_HANDLE_CHILD, S_HANDLE_EVENTFD, S_HANDLE_SOLVERCHILD,
                SolveReturns, SendSolve, SendAssumption
  <1>3. CASE ClientStep
    BY <1>3 DEF ClientStep, quapi_add, quapi_assume, quapi_solve, RequestFork,
                SendAssumption, SendSolve, quapi_reset_assumptions,
                quapi_release, quapi_terminate
  <1>4. CASE SeedStep
    BY <1>4 DEF SeedStep, SeedStarts, SeedReads, SeedForks, SeedReports,
                SeedReaps, SeedExits
  <1>5. ASSUME NEW k \in Pids, ChildStep(k) PROVE lib' = lib
    BY <1>5 DEF ChildStep, ChildFetches, ChildReads, ChildPrints, ChildExits,
                ChildSeesClose, ChildKilled
  <1>6. CASE Fault
    BY <1>6 DEF Fault, ChildCrashes, ChildQuitsEarly
  <1>. QED  BY <1>1, <1>2, <1>3, <1>4, <1>5, <1>6 DEF Next, Finished

\* The cube stays part of the clause count.
LEMMA NextCounted ==
    ASSUME TypeOK, CubeIsCounted, [Next]_vars
    PROVE  CubeIsCounted'
  <1>. DEFINE Counted(s) == s.written_assumptions <= s.written_clauses
  <1>1. lib \in Solvers /\ Counted(lib)
    BY DEF TypeOK, CubeIsCounted
  <1>2. /\ lib.written_assumptions \in Nat /\ lib.written_clauses \in Nat
        /\ lib.written_assumptions <= lib.written_clauses
    BY <1>1 DEF Solvers
  <1>3. ASSUME NEW lit \in {1, 0} PROVE Counted(AfterAdd(lib, lit))
    BY <1>1, <1>2 DEF AfterAdd, Solvers
  <1>4. Counted(AfterMakeSolvable(lib)) /\ Counted(Working(lib))
    BY <1>1, <1>2 DEF AfterMakeSolvable, Working, Solvers
  <1>5. Counted(AfterAssume(lib))
    BY <1>1, <1>2 DEF AfterAssume, Solvers
  <1>6. Counted(DropAssumptions(lib))
    BY <1>1, <1>2 DEF DropAssumptions, Solvers
  <1>7. Counted(lib')
    BY <1>1, <1>3, <1>4, <1>5, <1>6, LibMoves
  <1>. QED  BY <1>7 DEF CubeIsCounted
-----------------------------------------------------------------------------
(***************************************************************************)
(* One fork at a time.                                                     *)
(***************************************************************************)

\* Neither before nor after this step is the library waiting for a fork.
LEMMA QuietStep ==
    ASSUME CoreInv, lpc # "fork", lpc' # "fork",
           NoFork(wstream'.buf), NoFork(wstream'.pipe),
           NoReportIn(toParent'), UNCHANGED <<seed, kids>>
    PROVE  ForkIsLast' /\ ReportsChild' /\ OneFork'
  BY DEF CoreInv, ForkIsLast, ReportsChild, OneFork, NoFork, NoReportIn,
         NoReport, ForkPending

\* The fork is where it was; only messages that report none come or go.
LEMMA SameForkStep ==
    ASSUME CoreInv, UNCHANGED <<lpc, wstream, kids>>, seed'.pc = seed.pc,
           NoReportIn(toParent) => NoReportIn(toParent'),
           OneReportIn(toParent) => OneReportIn(toParent')
    PROVE  ForkIsLast' /\ ReportsChild' /\ OneFork'
  <1>1. ForkIsLast' /\ ReportsChild' /\ (ForkPending' <=> ForkPending)
    BY DEF CoreInv, ForkIsLast, ReportsChild, ForkPending
  <1>2. /\ NoReport <=> NoReportIn(toParent)
        /\ NoReport' <=> NoReportIn(toParent')
    BY DEF NoReport, NoReportIn
  <1>3. OneFork'
    BY <1>1, <1>2 DEF CoreInv, OneFork, OneReportIn
  <1>. QED  BY <1>1, <1>3

\* Closing the streams sends no FORK.
LEMMA CloseFork ==
    ASSUME TypeOK, ForkIsLast, lpc # "fork", CloseStreams
    PROVE  NoFork(wstream'.buf) /\ NoFork(wstream'.pipe) /\ lpc' # "fork"
  <1>1. wstream.buf \in Seq(Messages) /\ wstream.pipe \in Seq(Messages)
    BY DEF TypeOK, Streams
  <1>2. lpc' = "released" /\ wstream' = FFlush(wstream)
    BY DEF CloseStreams
  <1>3. NoFork(wstream.pipe \o wstream.buf)
    BY <1>1, ForkFree, NoForkConcat
  <1>4. /\ FFlush(wstream).buf = <<>>
        /\ FFlush(wstream).pipe = wstream.pipe \o wstream.buf
    BY DEF FFlush
  <1>5. NoFork(<<>>)
    BY DEF NoFork
  <1>. QED  BY <1>2, <1>3, <1>4, <1>5

\* The library answers a report, or leaves the fork under way alone.
LEMMA LibraryFork ==
    ASSUME CoreInv, LibraryStep
    PROVE  ForkIsLast' /\ ReportsChild' /\ OneFork'
  <1>. USE DEF libvars, procvars, clientvars
  <1>. /\ TypeOK /\ ForkIsLast /\ OneFork
       /\ toParent \in Seq(Messages)
    BY DEF CoreInv, TypeOK
  <1>. (NoReport <=> NoReportIn(toParent)) /\ OneReportIn(toParent)
    BY DEF NoReport, NoReportIn, OneFork, OneReportIn
  <1>1. CASE quapi_init
    <2>1. NoFork(wstream'.buf) /\ NoFork(wstream'.pipe) /\ lpc' # "fork"
      BY <1>1, CloseFork, ForkFree DEF quapi_init
    <2>. QED  BY <1>1, <2>1, QuietStep, TailReports DEF quapi_init, OneFork
  <1>2. CASE DrainMessage
    BY <1>2, SameForkStep, TailReports DEF DrainMessage
  <1>3. CASE ReadForkReport
    <2>1. ~NoReport /\ NoReportIn(toParent')
      BY <1>3, TailReports DEF ReadForkReport
    <2>2. ~ForkPending /\ seed.pc # "report"
      BY <2>1 DEF OneFork
    <2>3. lpc' # "fork" /\ UNCHANGED <<wstream, seed, kids>>
      BY <1>3 DEF ReadForkReport, SendSolve, SendAssumption
    <2>. QED
      BY <2>1, <2>2, <2>3
         DEF CoreInv, ForkIsLast, ForkPending, ReportsChild, OneFork, NoReport,
             NoReportIn
  <1>4. CASE S_POLL
    BY <1>4, SameForkStep DEF S_POLL
  <1>5. CASE S_HANDLE_CHILD
    BY <1>5, QuietStep, ForkFree, TailReports
       DEF S_HANDLE_CHILD, SolveReturns, OneFork
  <1>6. CASE S_HANDLE_EVENTFD
    BY <1>6, QuietStep, ForkFree DEF S_HANDLE_EVENTFD, SolveReturns, OneFork
  <1>7. CASE S_HANDLE_SOLVERCHILD
    BY <1>7, QuietStep, ForkFree DEF S_HANDLE_SOLVERCHILD, SolveReturns, OneFork
  <1>. QED
    BY <1>1, <1>2, <1>3, <1>4, <1>5, <1>6, <1>7 DEF LibraryStep

\* A FORK is written while none is under way.
LEMMA RequestForkFork ==
    ASSUME CoreInv, lpc = "idle", NEW c, RequestFork(c),
           UNCHANGED <<toParent, seed, kids>>
    PROVE  ForkIsLast' /\ ReportsChild' /\ OneFork'
  <1>. DEFINE m == Fork(IF Regex THEN 0 ELSE 1)
  <1>1. m \in Messages /\ m.type = "FORK"
    BY MessageType DEF Fork, Msg
  <1>2. wstream' = quapi_write_msg_to_file(wstream, m) /\ lpc' = "fork"
        /\ kids < MaxKids
    BY DEF RequestFork
  <1>. HIDE DEF m
  <1>3. wstream \in Streams /\ NoFork(wstream.buf) /\ NoFork(wstream.pipe)
    BY ForkFree DEF CoreInv, TypeOK
  <1>4. /\ wstream'.buf = <<>>
        /\ \A i \in 1..Len(wstream'.pipe) :
              wstream'.pipe[i].type = "FORK" => i = Len(wstream'.pipe)
    BY <1>1, <1>2, <1>3, WriteFork
  <1>5. ForkIsLast'
    BY <1>2, <1>4 DEF ForkIsLast
  <1>. QED
    BY <1>2, <1>5 DEF CoreInv, ReportsChild, OneFork, NoReport

\* A call of the client asks for a fork only while none is under way.
LEMMA ClientFork ==
    ASSUME CoreInv, ClientStep
    PROVE  ForkIsLast' /\ ReportsChild' /\ OneFork'
  <1>. USE DEF libvars, procvars, clientvars
  <1>. /\ TypeOK /\ ForkIsLast /\ OneFork
       /\ NoReport <=> NoReportIn(toParent)
    BY DEF CoreInv, NoReport, NoReportIn
  <1>1. ASSUME NEW lit \in {1, 0}, quapi_add(lit)
        PROVE  ForkIsLast' /\ ReportsChild' /\ OneFork'
    <2>1. wstream \in Streams /\ Literal(lit) \in Messages
      BY MessageType DEF TypeOK
    <2>2. Literal(lit).type # "FORK"
      BY DEF Literal, Msg
    <2>3. lpc = "idle" /\ wstream' = quapi_write_msg_to_file(wstream, Literal(lit))
      BY <1>1 DEF quapi_add
    <2>4. NoFork(wstream'.buf) /\ NoFork(wstream'.pipe)
      BY <2>1, <2>2, <2>3, ForkFree, WriteOther
    <2>. QED  BY <1>1, <2>3, <2>4, QuietStep DEF quapi_add, OneFork
  <1>2. ASSUME NEW lit \in Lits, quapi_assume(lit)
        PROVE  ForkIsLast' /\ ReportsChild' /\ OneFork'
    <2>1. CASE RequestFork(lit)
      BY <1>2, <2>1, RequestForkFork DEF quapi_assume
    <2>2. CASE SendAssumption(lit) /\ UNCHANGED wstream
      BY <1>2, <2>2, SameForkStep DEF quapi_assume, SendAssumption
    <2>. QED  BY <1>2, <2>1, <2>2 DEF quapi_assume
  <1>3. CASE quapi_solve
    <2>1. CASE RequestFork(0)
      BY <1>3, <2>1, RequestForkFork DEF quapi_solve
    <2>2. CASE SendSolve /\ UNCHANGED wstream
      BY <1>3, <2>2, ForkFree, QuietStep DEF quapi_solve, SendSolve, OneFork
    <2>. QED  BY <1>3, <2>1, <2>2 DEF quapi_solve
  <1>4. CASE quapi_reset_assumptions
    BY <1>4, SameForkStep DEF quapi_reset_assumptions
  <1>5. CASE quapi_release
    <2>1. NoFork(wstream'.buf) /\ NoFork(wstream'.pipe) /\ lpc' # "fork"
      BY <1>5, CloseFork DEF quapi_release
    <2>. QED  BY <1>5, <2>1, QuietStep DEF quapi_release, OneFork
  <1>6. CASE quapi_terminate
    BY <1>6, SameForkStep DEF quapi_terminate
  <1>. QED
    BY <1>1, <1>2, <1>3, <1>4, <1>5, <1>6 DEF ClientStep

\* What reading a message leaves in the seed's pipe.
LEMMA TailFork ==
    ASSUME CoreInv, wstream.pipe # <<>>,
           wstream' = [wstream EXCEPT !.pipe = Tail(@)]
    PROVE  /\ \A i \in 1..Len(wstream'.buf) : wstream'.buf[i].type # "FORK"
           /\ \A i \in 1..Len(wstream'.pipe) :
                 wstream'.pipe[i].type = "FORK" =>
                     i = Len(wstream'.pipe) /\ lpc = "fork" /\ kids < MaxKids
           /\ ~ForkPending => \A i \in 1..Len(wstream'.pipe) :
                                 wstream'.pipe[i].type # "FORK"
           /\ Head(wstream.pipe).type = "FORK" =>
                 ForkPending /\ wstream'.pipe = <<>>
  <1>. DEFINE p == wstream.pipe
              t == wstream'.pipe
  <1>1. p \in Seq(Messages) /\ wstream \in Streams
    BY DEF CoreInv, TypeOK, Streams
  <1>2. t = Tail(p) /\ wstream'.buf = wstream.buf
    BY <1>1 DEF Streams
  <1>3. /\ Len(t) = Len(p) - 1 /\ Len(p) \in Nat /\ Len(p) >= 1
        /\ \A i \in 1..Len(t) : t[i] = p[i + 1]
        /\ Head(p) = p[1] /\ t \in Seq(Messages)
    BY <1>1, <1>2
  <1>4. \A i \in 1..Len(t) : i + 1 \in 1..Len(p)
    BY <1>3
  <1>. HIDE DEF p, t
  <1>5. \A i \in 1..Len(p) :
           p[i].type = "FORK" => i = Len(p) /\ lpc = "fork" /\ kids < MaxKids
    BY DEF CoreInv, ForkIsLast, p
  <1>6. \A i \in 1..Len(t) :
           t[i].type = "FORK" => i = Len(t) /\ lpc = "fork" /\ kids < MaxKids
    BY <1>3, <1>4, <1>5
  <1>7. ForkPending <=> \E i \in 1..Len(p) : p[i].type = "FORK"
    BY DEF ForkPending, p
  <1>8. ~ForkPending => \A i \in 1..Len(t) : t[i].type # "FORK"
    BY <1>3, <1>4, <1>7
  <1>9. ASSUME Head(p).type = "FORK" PROVE ForkPending /\ t = <<>>
    <2>1. 1 \in 1..Len(p) /\ p[1].type = "FORK"
      BY <1>3, <1>9
    <2>2. Len(t) = 0
      BY <1>3, <1>5, <2>1
    <2>. QED  BY <1>3, <1>7, <2>1, <2>2
  <1>. QED
    BY <1>2, <1>6, <1>8, <1>9 DEF CoreInv, ForkIsLast, p, t

\* The seed takes the request, forks, and reports: once each.
LEMMA SeedFork ==
    ASSUME CoreInv, SeedStep
    PROVE  ForkIsLast' /\ ReportsChild' /\ OneFork'
  <1>. USE DEF libvars, procvars, clientvars
  <1>. /\ TypeOK /\ ForkIsLast /\ OneFork /\ ReportsChild
       /\ toParent \in Seq(Messages) /\ kids \in Nat
    BY DEF CoreInv, TypeOK
  <1>. (NoReport <=> NoReportIn(toParent)) /\ OneReportIn(toParent)
    BY DEF NoReport, NoReportIn, OneFork, OneReportIn
  <1>1. CASE SeedStarts
    <2>1. Started \in Messages /\ Started.type # "FORK_REPORT"
      BY MessageType DEF Started, Msg
    <2>2. /\ NoReportIn(toParent) => NoReportIn(toParent')
          /\ OneReportIn(toParent')
      BY <1>1, <2>1, AppendReports DEF SeedStarts
    <2>3. ForkIsLast' /\ (ForkPending' => ForkPending)
      BY <1>1, TailFork DEF SeedStarts, ForkIsLast, ForkPending
    <2>4. seed'.pc = "read" /\ lpc' = lpc
      BY <1>1 DEF SeedStarts, TypeOK
    <2>. QED
      BY <2>2, <2>3, <2>4
         DEF ReportsChild, OneFork, NoReport, NoReportIn, OneReportIn
  <1>2. CASE SeedReads
    <2>1. ForkIsLast' /\ (ForkPending' => ForkPending)
      BY <1>2, TailFork DEF SeedReads, ForkIsLast, ForkPending
    <2>2. seed'.pc = seed.pc /\ seed.pc = "read" /\ UNCHANGED <<lpc, toParent>>
      BY <1>2 DEF SeedReads, TypeOK
    <2>. QED  BY <2>1, <2>2 DEF ReportsChild, OneFork, NoReport
  <1>3. CASE SeedForks
    <2>1. ForkIsLast' /\ ~ForkPending' /\ ForkPending
      BY <1>3, TailFork DEF SeedForks, ForkIsLast, ForkPending
    <2>2. lpc = "fork" /\ NoReport
      BY <2>1 DEF ForkIsLast, ForkPending, OneFork
    <2>3. kids' > 0 /\ UNCHANGED <<lpc, toParent>>
      BY <1>3 DEF SeedForks
    <2>. QED  BY <2>1, <2>2, <2>3 DEF ReportsChild, OneFork, NoReport
  <1>4. CASE SeedReports
    <2>1. NoReport /\ ~ForkPending /\ lpc = "fork"
      BY <1>4 DEF SeedReports, OneFork
    <2>2. ForkReport(kids) \in Messages
      BY MessageType
    <2>3. OneReportIn(toParent')
      BY <1>4, <2>1, <2>2, AppendReports DEF SeedReports
    <2>4. seed'.pc \in {"read", "wait"} /\ UNCHANGED <<lpc, wstream, kids>>
      BY <1>4 DEF SeedReports, TypeOK
    <2>5. ForkIsLast' /\ ~ForkPending'
      BY <2>1, <2>4 DEF ForkIsLast, ForkPending
    <2>. QED
      BY <1>4, <2>1, <2>3, <2>4, <2>5
         DEF ReportsChild, SeedReports, OneFork, OneReportIn
  <1>5. CASE SeedReaps
    <2>1. kids \in Pids
      BY <1>5 DEF SeedReaps, ReportsChild, TypeOK, Pids
    <2>2. ExitCode(child[kids].code) \in Messages
      BY <2>1, MessageType DEF TypeOK, Children
    <2>3. ExitCode(child[kids].code).type # "FORK_REPORT"
      BY DEF ExitCode, Msg
    <2>4. /\ NoReportIn(toParent) => NoReportIn(toParent')
          /\ OneReportIn(toParent')
      BY <1>5, <2>2, <2>3, AppendReports DEF SeedReaps
    <2>5. seed'.pc = "read" /\ UNCHANGED <<lpc, wstream, kids>>
      BY <1>5 DEF SeedReaps, TypeOK
    <2>6. ForkIsLast' /\ (ForkPending' => ForkPending)
      BY <2>5 DEF ForkIsLast, ForkPending
    <2>. QED
      BY <2>4, <2>5, <2>6
         DEF ReportsChild, OneFork, NoReport, NoReportIn, OneReportIn
  <1>6. CASE SeedExits
    <2>1. Destructed \in Messages /\ Destructed.type # "FORK_REPORT"
      BY MessageType DEF Destructed, Msg
    <2>2. /\ NoReportIn(toParent) => NoReportIn(toParent')
          /\ OneReportIn(toParent')
      BY <1>6, <2>1, AppendReports DEF SeedExits, Farewell
    <2>3. seed'.pc = "exited" /\ lpc = "released" /\ UNCHANGED <<lpc, wstream, kids>>
      BY <1>6 DEF SeedExits, TypeOK
    <2>4. ForkIsLast' /\ (ForkPending' => ForkPending)
      BY <2>3 DEF ForkIsLast, ForkPending
    <2>. QED
      BY <2>2, <2>3, <2>4
         DEF ReportsChild, OneFork, NoReport, NoReportIn, OneReportIn
  <1>. QED
    BY <1>1, <1>2, <1>3, <1>4, <1>5, <1>6 DEF SeedStep

\* Children neither request nor report a fork.
LEMMA ChildFork ==
    ASSUME CoreInv, NEW k \in Pids, ChildStep(k) \/ ChildCrashes(k) \/ ChildQuitsEarly(k)
    PROVE  ForkIsLast' /\ ReportsChild' /\ OneFork'
  <1>. USE DEF libvars, procvars, clientvars
  <1>1. UNCHANGED <<lpc, wstream, kids, seed>>
    BY DEF ChildStep, ChildFetches, ChildReads, ChildPrints, ChildExits,
           ChildSeesClose, ChildKilled, ChildCrashes, ChildQuitsEarly
  <1>2. toParent' = toParent \/ toParent' = Farewell(toParent)
    BY DEF ChildStep, ChildFetches, ChildReads, ChildPrints, ChildExits,
           ChildSeesClose, ChildKilled, ChildCrashes, ChildQuitsEarly
  <1>3. toParent \in Seq(Messages)
    BY DEF CoreInv, TypeOK
  <1>4. Destructed \in Messages /\ Destructed.type # "FORK_REPORT"
    BY MessageType DEF Destructed, Msg
  <1>5. /\ NoReportIn(toParent) => NoReportIn(toParent')
        /\ OneReportIn(toParent) => OneReportIn(toParent')
    BY <1>2, <1>3, <1>4, AppendReports DEF Farewell
  <1>. QED  BY <1>1, <1>5, SameForkStep

\* The core invariant holds initially.
LEMMA InitCore == Init => CoreInv
  <1>1. Init => OneFork
    BY DEF Init, OneFork, NoReport
  <1>. QED  BY <1>1, InitType DEF CoreInv

\* Every step preserves the core invariant.
LEMMA NextCore ==
    ASSUME CoreInv, [Next]_vars
    PROVE  CoreInv'
  <1>1. TypeOK'
    BY NextType DEF CoreInv
  <1>2. CubeIsCounted'
    BY NextCounted DEF CoreInv
  <1>3. ForkIsLast' /\ ReportsChild' /\ OneFork'
    <2>1. CASE UNCHANGED vars
      BY <2>1 DEF CoreInv, ForkIsLast, ReportsChild, OneFork, NoReport,
                  ForkPending, vars
    <2>. QED
      BY <2>1, LibraryFork, ClientFork, SeedFork, ChildFork
         DEF Next, Fault, Finished
  <1>. QED  BY <1>1, <1>2, <1>3 DEF CoreInv

\* Every reachable state is a state of the types; in particular a FORK never
\* meets a seed without room for another child, and taking the assumptions off
\* the clause count never goes below zero.
THEOREM TypeCorrect == Spec => []TypeOK
  <1>1. Init => CoreInv
    BY InitCore
  <1>2. CoreInv /\ [Next]_vars => CoreInv'
    BY NextCore
  <1>3. CoreInv => TypeOK
    BY DEF CoreInv
  <1>. QED  BY <1>1, <1>2, <1>3, PTL DEF Spec, Safety
-----------------------------------------------------------------------------
(***************************************************************************)
(* Without a regex, the library and the seed keep in step: at most one     *)
(* child runs, and the exit code a solve reads is that of its own child.   *)
(***************************************************************************)
SyncInv == CoreInv /\ (~Regex => YoungestOnly /\ MessagesInStep)
-----------------------------------------------------------------------------
(***************************************************************************)
(* What the steps do to the children.                                      *)
(***************************************************************************)
\* A SIGKILL is pending until the child next runs: no status changes yet.
LEMMA KillKeeps ==
    ASSUME TypeOK, NEW pid, NEW k \in Pids
    PROVE  /\ Kill(pid)[k].status = child[k].status
           /\ Kill(pid)[k].code = child[k].code
  <1>1. child \in [Pids -> Children]
    BY DEF TypeOK
  <1>2. ASSUME pid \in Pids
        PROVE  [child EXCEPT ![pid].killed = TRUE]
                 = [child EXCEPT ![pid] = [child[pid] EXCEPT !.killed = TRUE]]
    BY Zenon
  <1>3. ASSUME pid \in Pids
        PROVE  /\ [child[pid] EXCEPT !.killed = TRUE].status = child[pid].status
               /\ [child[pid] EXCEPT !.killed = TRUE].code = child[pid].code
    BY <1>1, <1>3 DEF Children
  <1>. QED  BY <1>1, <1>2, <1>3 DEF Kill

\* A child's step is its own.
LEMMA ChildMoves ==
    ASSUME TypeOK, NEW k \in Pids,
           ChildStep(k) \/ ChildCrashes(k) \/ ChildQuitsEarly(k)
    PROVE  /\ Running(k) /\ child'[k].status \in {"running", "zombie"}
           /\ \A j \in Pids : j # k => child'[j] = child[j]
           /\ UNCHANGED <<lpc, lib, solverchild_pid, wstream, seed, kids>>
           /\ ~Regex => toParent' = toParent
  <1>. USE DEF libvars, procvars, clientvars
  <1>1. child \in [Pids -> Children] /\ child[k] \in Children
    BY DEF TypeOK
  <1>2. /\ Running(k)
        /\ UNCHANGED <<lpc, lib, solverchild_pid, wstream, seed, kids>>
        /\ ~Regex => toParent' = toParent
    BY DEF ChildStep, ChildFetches, ChildReads, ChildPrints, ChildExits,
           ChildSeesClose, ChildKilled, ChildCrashes, ChildQuitsEarly, Farewell
  <1>3. ASSUME NEW code, Dies(k, code)
        PROVE  /\ child'[k].status \in {"running", "zombie"}
               /\ \A j \in Pids : j # k => child'[j] = child[j]
    BY <1>1, <1>3 DEF Dies, Unborn
  <1>4. ASSUME NEW c, child' = [child EXCEPT ![k] = c],
               c.status = child[k].status
        PROVE  /\ child'[k].status \in {"running", "zombie"}
               /\ \A j \in Pids : j # k => child'[j] = child[j]
    BY <1>1, <1>2, <1>4 DEF Running
  <1>5. CASE ChildFetches(k)
    <2>. DEFINE b == SubSeq(cstream.pipe, 1,
                       IF Len(cstream.pipe) < FileBuf
                       THEN Len(cstream.pipe) ELSE FileBuf)
    <2>1. child' = [child EXCEPT ![k].inbuf = b]
      BY <1>5 DEF ChildFetches
    <2>. HIDE DEF b
    <2>2. child' = [child EXCEPT ![k] = [child[k] EXCEPT !.inbuf = b]]
      BY <2>1, Zenon
    <2>3. [child[k] EXCEPT !.inbuf = b].status = child[k].status
      BY <1>1 DEF Children
    <2>. QED  BY <1>2, <1>4, <2>2, <2>3
  <1>6. CASE ChildReads(k)
    <2>. DEFINE c == child'[k]
    <2>1. child' = [child EXCEPT ![k] = c] /\ c.status = child[k].status
      BY <1>1, <1>6 DEF ChildReads, Children
    <2>. HIDE DEF c
    <2>. QED  BY <1>2, <1>4, <2>1
  <1>7. CASE ChildPrints(k)
    <2>. DEFINE n == child[k].printed + 1
    <2>1. child' = [child EXCEPT ![k] = [child[k] EXCEPT !.printed = n]]
      BY <1>7, Zenon DEF ChildPrints
    <2>. HIDE DEF n
    <2>2. [child[k] EXCEPT !.printed = n].status = child[k].status
      BY <1>1 DEF Children
    <2>. QED  BY <1>2, <1>4, <2>1, <2>2
  <1>. QED
    BY <1>2, <1>3, <1>5, <1>6, <1>7
       DEF ChildStep, ChildExits, ChildSeesClose, ChildKilled, ChildCrashes,
           ChildQuitsEarly

\* Outside the seed and the children, a step can at most send a SIGKILL.
LEMMA OtherMoves ==
    ASSUME TypeOK, LibraryStep \/ ClientStep
    PROVE  /\ UNCHANGED <<seed, kids>>
           /\ \A k \in Pids : /\ child'[k].status = child[k].status
                              /\ child'[k].code = child[k].code
  <1>. USE DEF libvars, procvars, clientvars
  <1>1. child' = child \/ child' = Kill(solverchild_pid)
    BY DEF LibraryStep, quapi_init, DrainMessage, ReadForkReport, S_POLL,
           S_HANDLE_CHILD, S_HANDLE_EVENTFD, S_HANDLE_SOLVERCHILD,
           ClientStep, quapi_add, quapi_assume, quapi_solve,
           quapi_reset_assumptions, quapi_release, quapi_terminate
  <1>2. UNCHANGED <<seed, kids>>
    BY DEF LibraryStep, quapi_init, DrainMessage, ReadForkReport, S_POLL,
           S_HANDLE_CHILD, S_HANDLE_EVENTFD, S_HANDLE_SOLVERCHILD,
           ClientStep, quapi_add, quapi_assume, quapi_solve,
           quapi_reset_assumptions, quapi_release, quapi_terminate
  <1>. QED  BY <1>1, <1>2, KillKeeps
-----------------------------------------------------------------------------
(***************************************************************************)
(* Only the youngest child runs.                                           *)
(***************************************************************************)
\* A child that runs is the last one forked, and the seed waits for it.
LEMMA RunningIsYoungest ==
    ASSUME CoreInv, YoungestOnly, NEW k \in Pids, Running(k)
    PROVE  k = kids /\ seed.pc \in {"report", "wait"}
  <1>1. kids \in Nat /\ k \in Nat /\ k > 0
    BY DEF CoreInv, TypeOK, Pids
  <1>2. k = kids
    BY <1>1 DEF YoungestOnly, Running
  <1>. QED
    BY <1>1, <1>2 DEF YoungestOnly, Running, CoreInv, TypeOK

\* The seed forks only after it has reaped the child before.
LEMMA SeedYoungest ==
    ASSUME CoreInv, ~Regex, YoungestOnly, SeedStep
    PROVE  YoungestOnly'
  <1>. USE DEF libvars, procvars, clientvars
  <1>. /\ child \in [Pids -> Children] /\ kids \in 0..MaxKids
       /\ seed \in [pc : {"boot", "read", "report", "wait", "exited"},
                    state : PreloadStates, written_clauses : Nat]
    BY DEF CoreInv, TypeOK
  <1>1. CASE SeedStarts
    <2>1. seed.pc = "boot" /\ seed'.pc = "read" /\ UNCHANGED <<child, kids>>
      BY <1>1 DEF SeedStarts
    <2>. QED  BY <2>1 DEF YoungestOnly
  <1>2. CASE SeedReads
    <2>1. seed'.pc = seed.pc /\ UNCHANGED <<child, kids>>
      BY <1>2 DEF SeedReads
    <2>. QED  BY <2>1 DEF YoungestOnly
  <1>3. CASE SeedForks
    <2>1. seed.pc = "read" /\ seed'.pc = "report" /\ kids' = kids + 1
      BY <1>3 DEF SeedForks
    <2>2. kids + 1 \in Pids
      <3>1. kids' \in 0..MaxKids
        BY <1>3, NextType DEF CoreInv, TypeOK, Next, SeedStep
      <3>. QED  BY <2>1, <3>1 DEF Pids
    <2>. DEFINE c == child'[kids + 1]
    <2>3. /\ child' = [child EXCEPT ![kids + 1] = c]
          /\ c.status = "running"
      BY <1>3, <2>2 DEF SeedForks, Unborn
    <2>. HIDE DEF c
    <2>4. \A k \in Pids : k # kids + 1 => child'[k] = child[k]
      BY <2>3
    <2>5. child'[kids + 1].status = "running"
      BY <2>2, <2>3
    <2>6. \A k \in Pids : k < kids + 1 => child'[k].status = "reaped"
      BY <2>1, <2>4 DEF YoungestOnly, Pids
    <2>7. \A k \in Pids : k > kids + 1 => child'[k].status = "none"
      BY <2>4 DEF YoungestOnly, Pids
    <2>. QED  BY <2>1, <2>5, <2>6, <2>7 DEF YoungestOnly
  <1>4. CASE SeedReports
    <2>1. seed.pc = "report" /\ seed'.pc = "wait" /\ UNCHANGED <<child, kids>>
      BY <1>4 DEF SeedReports
    <2>. QED  BY <2>1 DEF YoungestOnly
  <1>5. CASE SeedReaps
    <2>1. kids \in Pids
      BY <1>5 DEF SeedReaps, CoreInv, ReportsChild, Pids
    <2>2. child' = [child EXCEPT ![kids] = [child[kids] EXCEPT !.status = "reaped"]]
      BY <1>5, Zenon DEF SeedReaps
    <2>3. [child[kids] EXCEPT !.status = "reaped"].status = "reaped"
      BY <2>1 DEF Children
    <2>4. /\ child'[kids].status = "reaped"
          /\ \A k \in Pids : k # kids => child'[k] = child[k]
      BY <2>1, <2>2, <2>3
    <2>5. seed'.pc = "read" /\ kids' = kids
      BY <1>5 DEF SeedReaps
    <2>. QED  BY <2>1, <2>4, <2>5 DEF YoungestOnly, Pids
  <1>6. CASE SeedExits
    <2>1. seed.pc = "read" /\ seed'.pc = "exited" /\ UNCHANGED <<child, kids>>
      BY <1>6 DEF SeedExits
    <2>. QED  BY <2>1 DEF YoungestOnly
  <1>. QED
    BY <1>1, <1>2, <1>3, <1>4, <1>5, <1>6 DEF SeedStep

\* A child that dies becomes a zombie for the seed to reap.
LEMMA ChildYoungest ==
    ASSUME CoreInv, ~Regex, YoungestOnly, NEW k \in Pids,
           ChildStep(k) \/ ChildCrashes(k) \/ ChildQuitsEarly(k)
    PROVE  YoungestOnly'
  <1>1. /\ Running(k) /\ child'[k].status \in {"running", "zombie"}
        /\ \A j \in Pids : j # k => child'[j] = child[j]
        /\ UNCHANGED <<seed, kids>>
    BY ChildMoves DEF CoreInv
  <1>2. k = kids /\ seed.pc \in {"report", "wait"}
    BY <1>1, RunningIsYoungest
  <1>. QED  BY <1>1, <1>2 DEF YoungestOnly, Pids

\* Every step keeps the youngest child the only one alive.
LEMMA NextYoungest ==
    ASSUME CoreInv, ~Regex, YoungestOnly, [Next]_vars
    PROVE  YoungestOnly'
  <1>1. CASE UNCHANGED vars
    BY <1>1 DEF YoungestOnly, vars
  <1>2. CASE LibraryStep \/ ClientStep
    <2>1. /\ UNCHANGED <<seed, kids>>
          /\ \A k \in Pids : child'[k].status = child[k].status
      BY <1>2, OtherMoves DEF CoreInv
    <2>2. kids > 0 => kids \in Pids
      BY DEF CoreInv, TypeOK, Pids
    <2>3. seed.pc \in {"report", "wait"} => kids \in Pids
      BY <2>2 DEF CoreInv, ReportsChild
    <2>. QED  BY <2>1, <2>2, <2>3 DEF YoungestOnly
  <1>. QED
    BY <1>1, <1>2, SeedYoungest, ChildYoungest DEF Next, Fault, Finished
-----------------------------------------------------------------------------
(***************************************************************************)
(* The messages the library has not read yet.                              *)
(***************************************************************************)

\* Nothing the invariant speaks of changes.
LEMMA SameMessages ==
    ASSUME CoreInv, MessagesInStep,
           UNCHANGED <<lpc, toParent, kids, solverchild_pid>>,
           NeedsFork(lib) => NeedsFork(lib'),
           lpc = "fork" => (ForkPending' <=> ForkPending),
           seed'.pc = seed.pc,
           kids > 0 => child'[kids].code = child[kids].code
    PROVE  MessagesInStep'
  <1>1. kids' = kids /\ toParent' = toParent
    OBVIOUS
  <1>2. AtMostLastExit => AtMostLastExit'
    BY <1>1 DEF AtMostLastExit
  <1>3. kids > 0 => (ReportAt(1) => ReportAt(1)') /\ (ReportAt(2) => ReportAt(2)')
    BY <1>1 DEF ReportAt
  <1>4. lpc = "fork" => lpc' = "fork"
    OBVIOUS
  <1>. QED  BY <1>1, <1>2, <1>3, <1>4 DEF MessagesInStep

\* The short queues there can be, written out.
LEMMA QueueFacts ==
    ASSUME NEW q \in Seq(Messages)
    PROVE  /\ Len(q) \in Nat /\ (Len(q) = 0 <=> q = <<>>)
           /\ q # <<>> => /\ Head(q) = q[1] /\ Len(Tail(q)) = Len(q) - 1
                          /\ \A i \in 1..Len(Tail(q)) : Tail(q)[i] = q[i + 1]
           /\ \A m \in Messages :
                 /\ Len(Append(q, m)) = Len(q) + 1
                 /\ \A i \in 1..Len(q) : Append(q, m)[i] = q[i]
                 /\ Append(q, m)[Len(q) + 1] = m
  OBVIOUS

\* A queue with at most one message.
LEMMA UpToOne == \A n \in Nat : n <= 1 => n = 0 \/ n = 1
  OBVIOUS

\* The library reads what is expected of the seed, in order.
LEMMA LibraryMessages ==
    ASSUME CoreInv, ~Regex, MessagesInStep, LibraryStep
    PROVE  MessagesInStep'
  <1>. USE DEF libvars, procvars, clientvars
  <1>a. TypeOK /\ toParent \in Seq(Messages) /\ kids \in 0..MaxKids
    BY DEF CoreInv, TypeOK
  <1>b. /\ UNCHANGED <<seed, kids>>
        /\ \A k \in Pids : child'[k].code = child[k].code
    BY <1>a, OtherMoves
  <1>c. kids > 0 => child'[kids].code = child[kids].code
    BY <1>a, <1>b DEF Pids
  <1>d. NeedsFork(DropAssumptions(lib))
    BY <1>a DEF NeedsFork, DropAssumptions, TypeOK, Solvers
  <1>1. CASE quapi_init
    <2>1. /\ lpc = "init" /\ lpc' \in {"idle", "released"} /\ toParent # <<>>
          /\ toParent' = Tail(toParent) /\ lib' = lib
      BY <1>1 DEF quapi_init, CloseStreams
    <2>2. Len(toParent') = 0 /\ seed.pc = "read" /\ NeedsFork(lib)
      <3>1. /\ Len(toParent) \in Nat /\ Len(toParent) >= 1
            /\ Len(toParent') = Len(toParent) - 1
        BY <1>a, <2>1, QueueFacts
      <3>2. Len(toParent) <= 1 /\ seed.pc = "read" /\ NeedsFork(lib)
        BY <2>1, <3>1 DEF MessagesInStep
      <3>. QED  BY <3>1, <3>2
    <2>. QED  BY <1>b, <2>1, <2>2 DEF MessagesInStep, AtMostLastExit
  <1>2. CASE DrainMessage
    <2>1. /\ lpc = "fork" /\ toParent # <<>> /\ toParent' = Tail(toParent)
          /\ Head(toParent).type # "FORK_REPORT"
          /\ UNCHANGED <<lpc, wstream, solverchild_pid, lib>>
      BY <1>2 DEF DrainMessage
    <2>2. /\ Len(toParent) \in Nat /\ Len(toParent) >= 1
          /\ Len(toParent') = Len(toParent) - 1
          /\ \A i \in 1..Len(toParent') : toParent'[i] = toParent[i + 1]
          /\ Head(toParent) = toParent[1]
      BY <1>a, <2>1, QueueFacts
    <2>3. ForkPending' <=> ForkPending
      BY <2>1 DEF ForkPending
    <2>4. CASE Len(toParent) <= 1 /\ ForkPending /\ seed.pc # "report"
      BY <1>b, <2>1, <2>2, <2>3, <2>4 DEF MessagesInStep, AtMostLastExit
    <2>5. CASE Len(toParent) <= 1 /\ ~ForkPending /\ seed.pc = "report"
      BY <1>b, <2>1, <2>2, <2>3, <2>5 DEF MessagesInStep
    <2>6. CASE ~ForkPending /\ kids > 0 /\ ReportAt(1)
      <3>1. toParent[1].type = "FORK_REPORT"
        BY <2>6 DEF ReportAt, ForkReport, Msg
      <3>. QED  BY <2>1, <2>2, <3>1
    <2>7. CASE ~ForkPending /\ kids > 0 /\ ReportAt(2)
      <3>1. toParent[2] = ForkReport(kids)
        BY <2>7 DEF ReportAt
      <3>2. CASE Len(toParent) = 2 /\ seed.pc = "wait"
        <4>1. Len(toParent') = 1 /\ toParent'[1] = ForkReport(kids)
          BY <2>2, <3>1, <3>2
        <4>2. ReportAt(1)'
          BY <1>b, <3>2, <4>1 DEF ReportAt
        <4>. QED  BY <1>b, <2>1, <2>3, <2>7, <3>2, <4>2 DEF MessagesInStep
      <3>3. CASE /\ Len(toParent) = 3 /\ seed.pc = "read"
                 /\ toParent[3] = ExitCode(child[kids].code)
        <4>1. /\ Len(toParent') = 2 /\ toParent'[1] = ForkReport(kids)
              /\ toParent'[2] = ExitCode(child[kids].code)
          BY <2>2, <3>1, <3>3
        <4>2. ReportAt(1)'
          BY <1>b, <1>c, <2>7, <3>3, <4>1 DEF ReportAt
        <4>. QED  BY <1>b, <2>1, <2>3, <2>7, <3>3, <4>2 DEF MessagesInStep
      <3>. QED  BY <2>7, <3>2, <3>3 DEF ReportAt
    <2>. QED
      BY <2>1, <2>4, <2>5, <2>6, <2>7 DEF MessagesInStep, AtMostLastExit
  <1>3. CASE ReadForkReport
    <2>1. /\ lpc = "fork" /\ toParent # <<>> /\ toParent' = Tail(toParent)
          /\ Head(toParent).type = "FORK_REPORT"
          /\ solverchild_pid' = Head(toParent).data
          /\ lpc' \in {"idle", "poll"}
      BY <1>3 DEF ReadForkReport, SendSolve, SendAssumption
    <2>2. /\ Len(toParent) \in Nat /\ Len(toParent) >= 1
          /\ Len(toParent') = Len(toParent) - 1
          /\ \A i \in 1..Len(toParent') : toParent'[i] = toParent[i + 1]
          /\ Head(toParent) = toParent[1]
      BY <1>a, <2>1, QueueFacts
    <2>3. \A c : ExitCode(c).type # "FORK_REPORT"
      BY DEF ExitCode, Msg
    <2>4. kids > 0 /\ ReportAt(1)
      BY <2>1, <2>2, <2>3 DEF MessagesInStep, AtMostLastExit, ReportAt
    <2>5. solverchild_pid' = kids
      BY <2>1, <2>2, <2>4 DEF ReportAt, ForkReport, Msg
    <2>6. AtMostLastExit' /\ seed.pc \in {"read", "wait"}
      <3>1. CASE Len(toParent) = 1 /\ seed.pc = "wait"
        BY <1>b, <2>2, <3>1 DEF AtMostLastExit
      <3>2. CASE /\ Len(toParent) = 2 /\ seed.pc = "read"
                 /\ toParent[2] = ExitCode(child[kids].code)
        <4>1. Len(toParent') = 1 /\ toParent'[1] = ExitCode(child[kids].code)
          BY <2>2, <3>2
        <4>. QED  BY <1>b, <1>c, <2>4, <3>2, <4>1 DEF AtMostLastExit
      <3>. QED  BY <2>4, <3>1, <3>2 DEF ReportAt
    <2>. QED  BY <1>b, <2>1, <2>4, <2>5, <2>6 DEF MessagesInStep
  <1>4. CASE S_POLL
    BY <1>4, <1>b, <1>c, SameMessages DEF S_POLL, ForkPending
  <1>5. CASE S_HANDLE_CHILD
    <2>1. /\ lpc = "poll" /\ toParent # <<>> /\ toParent' = Tail(toParent)
          /\ UNCHANGED solverchild_pid
          /\ lpc' = "poll" \/ (lpc' = "idle" /\ lib' = DropAssumptions(lib))
      BY <1>5 DEF S_HANDLE_CHILD, SolveReturns
    <2>2. Len(toParent') = 0
      <3>1. /\ Len(toParent) \in Nat /\ Len(toParent) >= 1
            /\ Len(toParent') = Len(toParent) - 1
        BY <1>a, <2>1, QueueFacts
      <3>2. Len(toParent) <= 1
        BY <2>1 DEF MessagesInStep, AtMostLastExit
      <3>. QED  BY <3>1, <3>2
    <2>. QED  BY <1>b, <1>d, <2>1, <2>2 DEF MessagesInStep, AtMostLastExit
  <1>6. CASE S_HANDLE_EVENTFD
    <2>1. /\ lpc = "poll" /\ UNCHANGED <<toParent, solverchild_pid>>
          /\ lpc' = "idle" /\ lib' = DropAssumptions(lib)
      BY <1>6 DEF S_HANDLE_EVENTFD, SolveReturns
    <2>2. AtMostLastExit'
      BY <1>b, <1>c, <2>1 DEF MessagesInStep, AtMostLastExit
    <2>. QED  BY <1>b, <1>d, <2>1, <2>2 DEF MessagesInStep
  <1>7. CASE S_HANDLE_SOLVERCHILD
    <2>1. /\ lpc = "poll" /\ UNCHANGED <<toParent, solverchild_pid>>
          /\ lpc' = "poll" \/ (lpc' = "idle" /\ lib' = DropAssumptions(lib))
      BY <1>7 DEF S_HANDLE_SOLVERCHILD, SolveReturns
    <2>2. AtMostLastExit'
      BY <1>b, <1>c, <2>1 DEF MessagesInStep, AtMostLastExit
    <2>. QED  BY <1>b, <1>d, <2>1, <2>2 DEF MessagesInStep
  <1>. QED
    BY <1>1, <1>2, <1>3, <1>4, <1>5, <1>6, <1>7 DEF LibraryStep

\* A FORK goes out while at most the last exit code waits.
LEMMA RequestForkMessages ==
    ASSUME CoreInv, MessagesInStep, lpc = "idle", NEW c, RequestFork(c),
           UNCHANGED <<toParent, seed, child, kids>>
    PROVE  MessagesInStep'
  <1>. DEFINE m == Fork(IF Regex THEN 0 ELSE 1)
  <1>1. m \in Messages /\ m.type = "FORK"
    BY MessageType DEF Fork, Msg
  <1>2. wstream' = quapi_write_msg_to_file(wstream, m) /\ lpc' = "fork"
    BY DEF RequestFork
  <1>. HIDE DEF m
  <1>3. wstream \in Streams /\ NoFork(wstream.buf) /\ NoFork(wstream.pipe)
    BY ForkFree DEF CoreInv, TypeOK
  <1>4. /\ wstream'.pipe \in Seq(Messages) /\ Len(wstream'.pipe) >= 1
        /\ wstream'.pipe[Len(wstream'.pipe)] = m
    BY <1>1, <1>2, <1>3, WriteFork
  <1>5. Len(wstream'.pipe) \in 1..Len(wstream'.pipe)
    BY <1>4
  <1>6. ForkPending'
    BY <1>1, <1>4, <1>5 DEF ForkPending
  <1>7. AtMostLastExit'
    BY DEF MessagesInStep, AtMostLastExit
  <1>. QED  BY <1>2, <1>6, <1>7 DEF MessagesInStep

\* The calls of the client keep the messages in step.
LEMMA ClientMessages ==
    ASSUME CoreInv, ~Regex, MessagesInStep, ClientStep
    PROVE  MessagesInStep'
  <1>. USE DEF libvars, procvars, clientvars
  <1>a. TypeOK /\ kids \in 0..MaxKids /\ lib \in Solvers
    BY DEF CoreInv, TypeOK
  <1>b. /\ UNCHANGED <<seed, kids>>
        /\ kids > 0 => child'[kids].code = child[kids].code
    BY <1>a, OtherMoves DEF Pids
  <1>1. ASSUME NEW lit \in {1, 0}, quapi_add(lit) PROVE MessagesInStep'
    <2>1. NeedsFork(lib')
      BY <1>1, <1>a DEF quapi_add, AfterAdd, NeedsFork, Solvers
    <2>. QED  BY <1>1, <1>b, <2>1, SameMessages DEF quapi_add
  <1>2. ASSUME NEW lit \in Lits, quapi_assume(lit) PROVE MessagesInStep'
    <2>1. CASE RequestFork(lit)
      BY <1>2, <2>1, RequestForkMessages DEF quapi_assume
    <2>2. CASE ~NeedsFork(lib) /\ SendAssumption(lit)
      BY <1>2, <1>b, <2>2, SameMessages DEF quapi_assume, SendAssumption
    <2>. QED  BY <1>2, <2>1, <2>2 DEF quapi_assume
  <1>3. CASE quapi_solve
    <2>1. CASE RequestFork(0)
      BY <1>3, <2>1, RequestForkMessages DEF quapi_solve
    <2>2. CASE ~NeedsFork(lib) /\ SendSolve
      <3>1. /\ lpc = "idle" /\ lpc' = "poll"
            /\ UNCHANGED <<toParent, solverchild_pid, seed, kids, child>>
        BY <1>3, <2>2 DEF quapi_solve, SendSolve
      <3>2. AtMostLastExit'
        BY <3>1 DEF MessagesInStep, AtMostLastExit
      <3>. QED  BY <2>2, <3>1, <3>2 DEF MessagesInStep
    <2>. QED  BY <1>3, <2>1, <2>2 DEF quapi_solve
  <1>4. CASE quapi_reset_assumptions
    <2>1. NeedsFork(lib')
      BY <1>4, <1>a
         DEF quapi_reset_assumptions, DropAssumptions, NeedsFork, Solvers
    <2>. QED  BY <1>4, <1>b, <2>1, SameMessages DEF quapi_reset_assumptions
  <1>5. CASE quapi_release
    BY <1>5 DEF quapi_release, CloseStreams, MessagesInStep
  <1>6. CASE quapi_terminate
    BY <1>6, <1>b, SameMessages DEF quapi_terminate, ForkPending
  <1>. QED
    BY <1>1, <1>2, <1>3, <1>4, <1>5, <1>6 DEF ClientStep

\* A message other than FORK does not take the FORK with it.
LEMMA ForkStays ==
    ASSUME CoreInv, wstream.pipe # <<>>, Head(wstream.pipe).type # "FORK",
           wstream' = [wstream EXCEPT !.pipe = Tail(@)]
    PROVE  ForkPending' <=> ForkPending
  <1>. DEFINE p == wstream.pipe
              t == wstream'.pipe
  <1>1. p \in Seq(Messages) /\ wstream \in Streams
    BY DEF CoreInv, TypeOK, Streams
  <1>2. t = Tail(p)
    BY <1>1 DEF Streams
  <1>3. /\ Len(t) = Len(p) - 1 /\ Len(p) \in Nat
        /\ \A i \in 1..Len(t) : t[i] = p[i + 1]
        /\ Head(p) = p[1]
    BY <1>1, <1>2
  <1>. HIDE DEF p, t
  <1>4. /\ ForkPending <=> \E i \in 1..Len(p) : p[i].type = "FORK"
        /\ ForkPending' <=> \E i \in 1..Len(t) : t[i].type = "FORK"
    BY DEF ForkPending, p, t
  <1>5. ASSUME NEW i \in 1..Len(p), p[i].type = "FORK"
        PROVE  \E j \in 1..Len(t) : t[j].type = "FORK"
    <2>1. i # 1
      BY <1>3, <1>5 DEF p
    <2>2. i - 1 \in 1..Len(t) /\ t[i - 1] = p[i]
      BY <1>3, <2>1
    <2>. QED  BY <1>5, <2>2
  <1>6. ASSUME NEW i \in 1..Len(t), t[i].type = "FORK"
        PROVE  \E j \in 1..Len(p) : p[j].type = "FORK"
    BY <1>3, <1>6
  <1>. QED  BY <1>4, <1>5, <1>6

\* The steps of the seed keep the messages in step.
LEMMA SeedMessages ==
    ASSUME CoreInv, ~Regex, YoungestOnly, MessagesInStep, SeedStep
    PROVE  MessagesInStep'
  <1>. USE DEF libvars, procvars, clientvars
  <1>. /\ TypeOK /\ toParent \in Seq(Messages) /\ kids \in 0..MaxKids
       /\ seed \in [pc : {"boot", "read", "report", "wait", "exited"},
                    state : PreloadStates, written_clauses : Nat]
       /\ child \in [Pids -> Children]
    BY DEF CoreInv, TypeOK
  <1>1. CASE SeedStarts
    <2>1. /\ seed.pc = "boot" /\ seed'.pc = "read"
          /\ toParent' = Append(toParent, Started)
          /\ UNCHANGED <<lpc, lib, kids>>
      BY <1>1 DEF SeedStarts
    <2>2. lpc \in {"init", "released"}
      BY <2>1 DEF MessagesInStep, TypeOK
    <2>3. lpc = "init" => Len(toParent') = 1
      BY <2>1, MessageType, QueueFacts DEF MessagesInStep
    <2>. QED  BY <2>1, <2>2, <2>3 DEF MessagesInStep
  <1>2. CASE SeedReads
    <2>1. ForkPending' <=> ForkPending
      BY <1>2, ForkStays DEF SeedReads
    <2>2. seed'.pc = seed.pc
      BY <1>2 DEF SeedReads
    <2>. QED  BY <1>2, <2>1, <2>2, SameMessages DEF SeedReads
  <1>3. CASE SeedForks
    <2>1. /\ seed.pc = "read" /\ seed'.pc = "report"
          /\ UNCHANGED <<lpc, toParent>>
      BY <1>3 DEF SeedForks
    <2>2. ForkPending /\ ~ForkPending'
      BY <1>3, TailFork DEF SeedForks, ForkPending
    <2>3. lpc = "fork" /\ AtMostLastExit
      BY <2>2 DEF CoreInv, ForkIsLast, ForkPending, MessagesInStep
    <2>4. Len(toParent) = 1 => toParent[1].type = "EXIT_CODE"
      BY <2>3 DEF AtMostLastExit, ExitCode, Msg
    <2>. QED
      BY <2>1, <2>2, <2>3, <2>4 DEF MessagesInStep, AtMostLastExit
  <1>4. CASE SeedReports
    <2>1. /\ seed.pc = "report" /\ seed'.pc = "wait"
          /\ toParent' = Append(toParent, ForkReport(kids))
          /\ UNCHANGED <<lpc, wstream, kids>>
      BY <1>4 DEF SeedReports
    <2>2. lpc = "fork" /\ ~ForkPending /\ ~ForkPending' /\ kids > 0
      BY <2>1 DEF CoreInv, OneFork, ReportsChild, ForkPending
    <2>3. /\ Len(toParent) <= 1
          /\ Len(toParent) = 1 => toParent[1].type = "EXIT_CODE"
      BY <2>1, <2>2 DEF MessagesInStep, ReportAt
    <2>4. ForkReport(kids) \in Messages
      BY MessageType
    <2>5. /\ Len(toParent') = Len(toParent) + 1 /\ Len(toParent) \in Nat
          /\ \A i \in 1..Len(toParent) : toParent'[i] = toParent[i]
          /\ toParent'[Len(toParent) + 1] = ForkReport(kids)
      BY <2>1, <2>4, QueueFacts
    <2>6. CASE Len(toParent) = 0
      <3>1. ReportAt(1)'
        BY <2>1, <2>5, <2>6 DEF ReportAt
      <3>. QED  BY <2>1, <2>2, <3>1 DEF MessagesInStep
    <2>7. CASE Len(toParent) = 1
      <3>1. ReportAt(2)'
        BY <2>1, <2>3, <2>5, <2>7 DEF ReportAt
      <3>. QED  BY <2>1, <2>2, <3>1 DEF MessagesInStep
    <2>8. Len(toParent) = 0 \/ Len(toParent) = 1
      BY <2>3, <2>5, UpToOne, Zenon
    <2>. QED  BY <2>6, <2>7, <2>8
  <1>5. CASE SeedReaps
    <2>1. kids \in Pids
      BY <1>5 DEF SeedReaps, CoreInv, ReportsChild, Pids
    <2>2. child' = [child EXCEPT ![kids] = [child[kids] EXCEPT !.status = "reaped"]]
      BY <1>5, Zenon DEF SeedReaps
    <2>3. [child[kids] EXCEPT !.status = "reaped"].code = child[kids].code
      BY <2>1 DEF Children
    <2>4. child'[kids].code = child[kids].code
      BY <2>1, <2>2, <2>3
    <2>. DEFINE m == ExitCode(child[kids].code)
    <2>5. m \in Messages
      BY <2>1, MessageType DEF Children
    <2>6. /\ seed.pc = "wait" /\ seed'.pc = "read"
          /\ toParent' = Append(toParent, m)
          /\ UNCHANGED <<lpc, lib, wstream, kids, solverchild_pid>>
      BY <1>5 DEF SeedReaps
    <2>7. /\ Len(toParent') = Len(toParent) + 1 /\ Len(toParent) \in Nat
          /\ \A i \in 1..Len(toParent) : toParent'[i] = toParent[i]
          /\ toParent'[Len(toParent) + 1] = m
      BY <2>5, <2>6, QueueFacts
    <2>8. ExitCode(child'[kids'].code) = m /\ kids' > 0
      BY <2>1, <2>4, <2>6 DEF Pids
    <2>9. (ForkPending' <=> ForkPending) /\ lpc # "init"
      BY <2>6 DEF ForkPending, MessagesInStep
    <2>. HIDE DEF m
    <2>10. ASSUME Len(toParent) = 0 PROVE AtMostLastExit'
      BY <2>6, <2>7, <2>8, <2>10 DEF AtMostLastExit
    <2>11. ASSUME NEW p \in {1, 2}, ReportAt(p) PROVE ReportAt(p)'
      BY <2>6, <2>7, <2>8, <2>11 DEF ReportAt
    <2>12. CASE lpc \in {"idle", "poll"}
      <3>1. AtMostLastExit'
        BY <2>6, <2>10, <2>12 DEF MessagesInStep, AtMostLastExit
      <3>. QED  BY <2>6, <2>12, <3>1 DEF MessagesInStep
    <2>13. CASE lpc = "fork"
      <3>1. CASE ForkPending /\ AtMostLastExit
        <4>1. AtMostLastExit'
          BY <2>6, <2>10, <3>1 DEF AtMostLastExit
        <4>. QED  BY <2>6, <2>9, <2>13, <3>1, <4>1 DEF MessagesInStep
      <3>2. CASE ~ForkPending /\ (ReportAt(1) \/ ReportAt(2))
        <4>1. ReportAt(1)' \/ ReportAt(2)'
          BY <2>11, <3>2
        <4>. QED  BY <2>6, <2>8, <2>9, <2>13, <3>2, <4>1 DEF MessagesInStep
      <3>. QED  BY <2>6, <2>13, <3>1, <3>2 DEF MessagesInStep
    <2>14. CASE lpc = "released"
      BY <2>6, <2>14 DEF MessagesInStep
    <2>. QED  BY <2>9, <2>12, <2>13, <2>14 DEF TypeOK
  <1>6. CASE SeedExits
    BY <1>6 DEF SeedExits, MessagesInStep
  <1>. QED
    BY <1>1, <1>2, <1>3, <1>4, <1>5, <1>6 DEF SeedStep

\* A child dies between its fork and the end of the waitpid, when no message
\* speaks of its exit code yet.
LEMMA ChildMessages ==
    ASSUME CoreInv, ~Regex, YoungestOnly, MessagesInStep, NEW k \in Pids,
           ChildStep(k) \/ ChildCrashes(k) \/ ChildQuitsEarly(k)
    PROVE  MessagesInStep'
  <1>1. /\ Running(k)
        /\ UNCHANGED <<lpc, lib, solverchild_pid, wstream, seed, kids, toParent>>
    BY ChildMoves DEF CoreInv
  <1>2. k = kids /\ seed.pc \in {"report", "wait"}
    BY <1>1, RunningIsYoungest
  <1>3. ForkPending' <=> ForkPending
    BY <1>1 DEF ForkPending
  <1>4. AtMostLastExit /\ seed.pc = "wait" => AtMostLastExit'
    BY <1>1 DEF AtMostLastExit
  <1>5. \A p \in {1, 2} : ReportAt(p) => ReportAt(p)'
    BY <1>1, <1>2 DEF ReportAt
  <1>6. CASE lpc = "fork"
    BY <1>1, <1>2, <1>3, <1>4, <1>5, <1>6 DEF MessagesInStep
  <1>7. CASE lpc # "fork"
    BY <1>1, <1>2, <1>4, <1>7 DEF MessagesInStep
  <1>. QED  BY <1>6, <1>7

\* Every step keeps the messages in step.
LEMMA NextMessages ==
    ASSUME CoreInv, ~Regex, YoungestOnly, MessagesInStep, [Next]_vars
    PROVE  MessagesInStep'
  <1>1. CASE UNCHANGED vars
    BY <1>1, SameMessages DEF vars, ForkPending
  <1>. QED
    BY <1>1, LibraryMessages, ClientMessages, SeedMessages, ChildMessages
       DEF Next, Fault, Finished
-----------------------------------------------------------------------------
(***************************************************************************)
(* The theorems.                                                           *)
(***************************************************************************)
\* The whole invariant holds initially.
LEMMA InitSync == Init => SyncInv
  <1>1. Init => CoreInv
    BY InitCore
  <1>2. ASSUME Init PROVE YoungestOnly
    <2>1. \A k \in Pids : child[k].status = "none" /\ ~(k < 0)
      BY <1>2 DEF Init, Unborn, Pids
    <2>. QED  BY <1>2, <2>1 DEF Init, YoungestOnly, Pids
  <1>3. ASSUME Init PROVE MessagesInStep
    BY <1>3 DEF Init, MessagesInStep, NeedsFork, FreshSolver
  <1>. QED  BY <1>1, <1>2, <1>3 DEF SyncInv

\* The whole invariant is inductive.
LEMMA NextSync == SyncInv /\ [Next]_vars => SyncInv'
  BY NextCore, NextYoungest, NextMessages DEF SyncInv

\* The whole invariant holds in every reachable state.
LEMMA AlwaysSync == Spec => []SyncInv
  BY InitSync, NextSync, PTL DEF Spec, Safety

\* The invariant that ties the library's position to the seed's and to every
\* message between them holds in every reachable state.
THEOREM ProtocolInStep == Spec => []ProtocolInv
  <1>1. SyncInv => ProtocolInv
    BY DEF SyncInv, CoreInv, ProtocolInv
  <1>. QED  BY <1>1, AlwaysSync, PTL

\* Without a regex no two children run at the same time, so the assumptions in
\* the pipe they share are read by the child they are meant for.
THEOREM NeverTwoChildren == Spec => []AtMostOneChild
  <1>1. SyncInv => AtMostOneChild
    <2>. SUFFICES ASSUME SyncInv, ~Regex, NEW j \in Pids, NEW k \in Pids,
                         Running(j), Running(k)
                  PROVE  j = k
      BY DEF AtMostOneChild
    <2>. QED  BY RunningIsYoungest DEF SyncInv
  <1>. QED  BY <1>1, AlwaysSync, PTL

\* What waits for the poll loop is the exit code of the youngest child.
LEMMA SyncExit == SyncInv => OwnExitCode
  <1>. SUFFICES ASSUME SyncInv, ~Regex, lpc = "poll"
                PROVE  /\ solverchild_pid = kids
                       /\ toParent # <<>> =>
                            /\ child[solverchild_pid].status = "reaped"
                            /\ toParent = <<ExitCode(child[solverchild_pid].code)>>
    BY DEF OwnExitCode
  <1>1. /\ kids > 0 /\ solverchild_pid = kids /\ AtMostLastExit
        /\ seed.pc \in {"read", "wait"} /\ YoungestOnly
    BY DEF SyncInv, MessagesInStep
  <1>2. toParent \in Seq(Messages)
    BY DEF SyncInv, CoreInv, TypeOK
  <1>3. ASSUME toParent # <<>>
        PROVE  /\ child[kids].status = "reaped"
               /\ toParent = <<ExitCode(child[kids].code)>>
    <2>1. Len(toParent) = 1 /\ seed.pc = "read"
      <3>1. Len(toParent) \in Nat /\ Len(toParent) # 0
        BY <1>2, <1>3, QueueFacts
      <3>2. Len(toParent) <= 1 /\ seed.pc # "wait"
        BY <1>1, <3>1 DEF AtMostLastExit
      <3>3. Len(toParent) = 1
        BY <3>1, <3>2, UpToOne, Zenon
      <3>. QED  BY <1>1, <3>2, <3>3
    <2>2. toParent[1] = ExitCode(child[kids].code)
      BY <1>1, <2>1 DEF AtMostLastExit
    <2>3. toParent = <<toParent[1]>>
      BY <1>2, <2>1
    <2>4. child[kids].status = "reaped"
      BY <1>1, <2>1 DEF YoungestOnly
    <2>. QED  BY <2>2, <2>3, <2>4
  <1>. QED  BY <1>1, <1>3

\* Without a regex the exit code quapi_solve reads is that of the child it
\* forked: the codes of children that were reset or terminated never arrive
\* in a later solve.
THEOREM SolveReadsItsOwnExit == Spec => []OwnExitCode
  BY SyncExit, AlwaysSync, PTL
-----------------------------------------------------------------------------
(***************************************************************************)
(* The inductive invariant.  A clause is counted by the seed when it meets *)
(* a zero inside a clause, and by the library whenever it sends a zero.    *)
(* The two agree because the messages under way are those of clauses, each *)
(* begun where the one before has ended.                                   *)
(***************************************************************************)
\* All that is under way to the seed.
W == Contents(wstream)

\* A clause is open in front of message i.
OpenBefore(i) ==
    IF i = 1 THEN seed.state = "READING_CLAUSE" ELSE W[i - 1] = Literal(1)

\* Before HEADER is read nothing has happened yet.
BootInv ==
    /\ seed.pc = "boot" => seed.state = "WAITING_FOR_HEADER"
    /\ seed.state = "WAITING_FOR_HEADER" =>
          /\ seed.pc \in {"boot", "exited"} /\ lpc = "init" /\ toParent = <<>>
          /\ \A k \in Pids : ~Running(k)
          /\ W = <<Header>> /\ ~open

\* Afterwards, zeros end clauses, and a FORK comes between clauses.
ClauseOrder ==
    /\ seed.state \in {"WAITING_FOR_HEADER", "READING_PREFIX",
                       "READING_MATRIX", "READING_CLAUSE"}
    /\ seed.state # "WAITING_FOR_HEADER" =>
          /\ \A i \in 1..Len(W) :
                \/ W[i] = Literal(IF OpenBefore(i) THEN 0 ELSE 1)
                \/ W[i].type = "FORK" /\ i = Len(W) /\ ~OpenBefore(i)
          /\ open <=> OpenBefore(Len(W) + 1)

ClauseInv == CoreInv /\ BootInv /\ ClauseOrder /\ ClausesConserved
-----------------------------------------------------------------------------
(***************************************************************************)
(* Steps.                                                                  *)
(***************************************************************************)
\* Neither the messages under way nor what the seed has made of the earlier
\* ones change.
LEMMA SameClauses ==
    ASSUME ClauseOrder, ClausesConserved, W' = W, UNCHANGED open,
           seed'.state = seed.state,
           seed'.written_clauses = seed.written_clauses,
           Added(lib') = Added(lib)
    PROVE  ClauseOrder' /\ ClausesConserved'
  <1>1. \A i \in 1..Len(W) + 1 : OpenBefore(i)' <=> OpenBefore(i)
    BY DEF OpenBefore
  <1>2. ClauseOrder'
    BY <1>1 DEF ClauseOrder, OpenBefore
  <1>3. ClausesConserved'
    BY DEF ClausesConserved, Added, W
  <1>. QED  BY <1>2, <1>3

\* A message goes out behind the others.
LEMMA SentClauses ==
    ASSUME ClauseInv, seed.state # "WAITING_FOR_HEADER", lpc # "fork",
           NEW m \in Messages, wstream' = quapi_write_msg_to_file(wstream, m),
           UNCHANGED seed,
           \/ /\ m = Literal(IF open THEN 0 ELSE 1) /\ open' = ~open
              /\ Added(lib') = Added(lib) + (IF open THEN 1 ELSE 0)
           \/ /\ m.type = "FORK" /\ ~open /\ ~open'
              /\ Added(lib') = Added(lib)
    PROVE  ClauseOrder' /\ ClausesConserved'
  <1>1. /\ wstream \in Streams /\ W \in Seq(Messages) /\ W' = Append(W, m)
        /\ lib \in Solvers /\ seed.written_clauses \in Nat /\ open \in BOOLEAN
        /\ Added(lib) \in Int
    BY ContentsWritten, AddedKept DEF ClauseInv, CoreInv, TypeOK, W
  <1>. DEFINE n == Len(W) + 1
  <1>2. /\ Len(W) \in Nat /\ W' \in Seq(Messages) /\ Len(W') = n /\ W'[n] = m
        /\ \A i \in 1..Len(W) : W'[i] = W[i]
    BY <1>1
  <1>3. \A i \in 1..Len(W) : W[i].type # "FORK"
    <2>1. wstream.buf \in Seq(Messages) /\ wstream.pipe \in Seq(Messages)
      BY <1>1 DEF Streams
    <2>. QED
      BY <2>1, ForkFree, NoForkConcat DEF ClauseInv, CoreInv, NoFork, W, Contents
  <1>4. \A i \in 1..n : OpenBefore(i)' <=> OpenBefore(i)
    BY <1>2 DEF OpenBefore
  <1>5. OpenBefore(n) <=> open
    BY DEF ClauseInv, ClauseOrder
  <1>6. \A i \in 1..Len(W) : W[i] = Literal(IF OpenBefore(i) THEN 0 ELSE 1)
    BY <1>3 DEF ClauseInv, ClauseOrder
  <1>7. \A i \in 1..Len(W') :
           \/ W'[i] = Literal(IF OpenBefore(i)' THEN 0 ELSE 1)
           \/ W'[i].type = "FORK" /\ i = Len(W') /\ ~OpenBefore(i)'
    <2>. TAKE i \in 1..Len(W')
    <2>1. CASE i \in 1..Len(W)
      BY <1>2, <1>4, <1>6, <2>1
    <2>2. CASE i = n
      BY <1>2, <1>4, <1>5, <2>2
    <2>. QED  BY <1>2, <2>1, <2>2
  <1>8. open' <=> OpenBefore(Len(W) + 1)'
    <2>1. OpenBefore(Len(W) + 1)' <=> m = Literal(1)
      <3>1. /\ Len(W') + 1 # 1 /\ (Len(W') + 1) - 1 = n
        BY <1>2
      <3>. QED  BY <1>2, <3>1 DEF OpenBefore
    <2>2. /\ Literal(0) # Literal(1) /\ Literal(1).type # "FORK"
      BY DEF Literal, Msg
    <2>. QED  BY <1>1, <2>1, <2>2
  <1>9. ClauseOrder'
    BY <1>7, <1>8 DEF ClauseInv, ClauseOrder
  <1>10. m = Literal(0) <=> (open /\ m.type # "FORK")
    BY DEF Literal, Msg
  <1>11. ClausesConserved'
    <2>1. seed.written_clauses + ClauseEnds(W) = Added(lib)
      BY DEF ClauseInv, ClausesConserved, W, Added
    <2>2. ClauseEnds(W') = ClauseEnds(W) + (IF m = Literal(0) THEN 1 ELSE 0)
      BY <1>1, EndsAppend
    <2>3. ClauseEnds(W) \in Nat
      BY <1>1, EndsFinite
    <2>4. Added(lib') = Added(lib) + (IF m = Literal(0) THEN 1 ELSE 0)
      BY <1>1, <1>10
    <2>5. seed.written_clauses + ClauseEnds(W') = Added(lib')
      BY <1>1, <2>1, <2>2, <2>3, <2>4
    <2>. QED  BY <2>5 DEF ClausesConserved, W, Added
  <1>. QED  BY <1>9, <1>11

\* The seed takes the next message, and counts the clause it ends.
LEMMA ReadClauses ==
    ASSUME ClauseInv, SeedReads
    PROVE  ClauseOrder' /\ ClausesConserved'
  <1>. DEFINE m == Head(wstream.pipe)
  <1>. USE DEF libvars, clientvars
  <1>1. /\ wstream \in Streams /\ wstream.pipe # <<>> /\ seed.pc = "read"
        /\ m.type # "FORK" /\ wstream' = [wstream EXCEPT !.pipe = Tail(@)]
        /\ UNCHANGED <<lib, open>>
        /\ seed \in [pc : {"boot", "read", "report", "wait", "exited"},
                     state : PreloadStates, written_clauses : Nat]
    BY DEF ClauseInv, CoreInv, TypeOK, SeedReads
  <1>2. /\ W \in Seq(Messages) /\ W # <<>> /\ W[1] = m /\ W' = Tail(W)
    BY <1>1, ContentsRead DEF W
  <1>3. /\ Len(W) \in Nat /\ Len(W) >= 1 /\ Len(W') = Len(W) - 1
        /\ \A i \in 1..Len(W') : W'[i] = W[i + 1]
    BY <1>2
  <1>4. seed.state # "WAITING_FOR_HEADER"
    BY <1>1 DEF ClauseInv, BootInv
  <1>5. /\ seed.state \in {"READING_PREFIX", "READING_MATRIX", "READING_CLAUSE"}
        /\ m = Literal(IF seed.state = "READING_CLAUSE" THEN 0 ELSE 1)
    BY <1>1, <1>2, <1>3, <1>4 DEF ClauseInv, ClauseOrder, OpenBefore
  <1>6. /\ seed'.state = AdvanceState(seed.state, m)
        /\ seed'.written_clauses = IF EndsClause(seed.state, m)
                                   THEN seed.written_clauses + 1
                                   ELSE seed.written_clauses
    BY <1>1 DEF SeedReads
  <1>7. /\ Literal(0).type = "LITERAL" /\ Literal(0).data = 0
        /\ Literal(1).type = "LITERAL" /\ Literal(1).data = 1
    BY DEF Literal, Msg
  <1>. HIDE DEF m
  <1>8. /\ seed'.state \in {"READING_MATRIX", "READING_CLAUSE"}
        /\ seed'.state = "READING_CLAUSE" <=> m = Literal(1)
        /\ EndsClause(seed.state, m) <=> m = Literal(0)
    <2>1. CASE seed.state = "READING_CLAUSE"
      BY <1>5, <1>6, <1>7, <2>1 DEF AdvanceState, NextState, EndsClause
    <2>2. CASE seed.state = "READING_MATRIX"
      BY <1>5, <1>6, <1>7, <2>2 DEF AdvanceState, NextState, EndsClause
    <2>3. CASE seed.state = "READING_PREFIX"
      BY <1>5, <1>6, <1>7, <2>3 DEF AdvanceState, NextState, EndsClause
    <2>. QED  BY <1>5, <2>1, <2>2, <2>3
  <1>9. \A i \in 1..Len(W) : OpenBefore(i)' <=> OpenBefore(i + 1)
    <2>. TAKE i \in 1..Len(W)
    <2>1. CASE i = 1
      BY <1>2, <1>8, <2>1 DEF OpenBefore
    <2>2. CASE i # 1
      <3>1. i - 1 \in 1..Len(W') /\ (i - 1) + 1 = (i + 1) - 1 /\ i + 1 # 1
        BY <1>3, <2>2
      <3>2. W'[i - 1] = W[(i + 1) - 1]
        BY <1>3, <3>1
      <3>. QED  BY <2>2, <3>1, <3>2 DEF OpenBefore
    <2>. QED  BY <2>1, <2>2
  <1>10. ClauseOrder'
    <2>1. ASSUME NEW i \in 1..Len(W')
          PROVE  \/ W'[i] = Literal(IF OpenBefore(i)' THEN 0 ELSE 1)
                 \/ W'[i].type = "FORK" /\ i = Len(W') /\ ~OpenBefore(i)'
      <3>1. /\ i + 1 \in 1..Len(W) /\ i \in 1..Len(W) /\ W'[i] = W[i + 1]
            /\ i + 1 = Len(W) => i = Len(W')
        BY <1>3
      <3>2. \/ W[i + 1] = Literal(IF OpenBefore(i + 1) THEN 0 ELSE 1)
            \/ /\ W[i + 1].type = "FORK" /\ i + 1 = Len(W)
               /\ ~OpenBefore(i + 1)
        BY <1>4, <3>1 DEF ClauseInv, ClauseOrder
      <3>. QED  BY <1>9, <3>1, <3>2
    <2>2. open' <=> OpenBefore(Len(W) + 1)'
      <3>1. Len(W') + 1 = Len(W) /\ Len(W) \in 1..Len(W)
        BY <1>3
      <3>2. open <=> OpenBefore(Len(W) + 1)
        BY <1>4 DEF ClauseInv, ClauseOrder
      <3>. QED  BY <1>1, <1>9, <3>1, <3>2 DEF OpenBefore
    <2>. QED  BY <1>8, <2>1, <2>2 DEF ClauseOrder
  <1>11. ClausesConserved'
    <2>1. seed.written_clauses + ClauseEnds(W) = Added(lib)
      BY DEF ClauseInv, ClausesConserved, W, Added
    <2>2. ClauseEnds(W) = ClauseEnds(W') + (IF m = Literal(0) THEN 1 ELSE 0)
      BY <1>2, EndsTail
    <2>3. ClauseEnds(W') \in Nat
      <3>1. W' \in Seq(Messages)
        BY <1>2
      <3>. QED  BY <3>1, EndsFinite
    <2>4. seed'.written_clauses
            = seed.written_clauses + (IF m = Literal(0) THEN 1 ELSE 0)
      BY <1>1, <1>6, <1>8
    <2>5. seed'.written_clauses + ClauseEnds(W') = Added(lib')
      BY <1>1, <2>1, <2>2, <2>3, <2>4
    <2>. QED  BY <2>5 DEF ClausesConserved, W, Added
  <1>. QED  BY <1>10, <1>11

\* The seed takes HEADER, the only message there is.
LEMMA StartClauses ==
    ASSUME ClauseInv, SeedStarts
    PROVE  ClauseOrder' /\ ClausesConserved'
  <1>. USE DEF libvars, clientvars
  <1>1. /\ wstream \in Streams /\ wstream.pipe # <<>> /\ seed.pc = "boot"
        /\ wstream' = [wstream EXCEPT !.pipe = Tail(@)]
        /\ UNCHANGED <<lib, open>>
        /\ seed \in [pc : {"boot", "read", "report", "wait", "exited"},
                     state : PreloadStates, written_clauses : Nat]
    BY DEF ClauseInv, CoreInv, TypeOK, SeedStarts
  <1>2. seed.state = "WAITING_FOR_HEADER" /\ W = <<Header>> /\ ~open
    BY <1>1 DEF ClauseInv, BootInv
  <1>3. W' = Tail(W)
    BY <1>1, ContentsRead DEF W
  <1>4. W' = <<>> /\ Len(W') = 0
    BY <1>2, <1>3
  <1>5. /\ seed'.state = "READING_PREFIX"
        /\ seed'.written_clauses = seed.written_clauses
    BY <1>1, <1>2 DEF SeedStarts, AdvanceState, NextState
  <1>6. ClauseOrder'
    BY <1>1, <1>2, <1>4, <1>5 DEF ClauseOrder, OpenBefore
  <1>7. ClauseEnds(W) = ClauseEnds(W')
    <2>1. W \in Seq(Messages) /\ W # <<>> /\ W[1] = Header
      BY <1>2, MessageType
    <2>2. Header # Literal(0)
      BY DEF Header, Literal, Msg
    <2>3. W' \in Seq(Messages)
      BY <1>4
    <2>4. ClauseEnds(W') \in Nat
      BY <2>3, EndsFinite
    <2>. QED  BY <1>3, <2>1, <2>2, <2>4, EndsTail
  <1>8. ClausesConserved'
    BY <1>1, <1>5, <1>7 DEF ClauseInv, ClausesConserved, W
  <1>. QED  BY <1>6, <1>8

\* The seed takes FORK, behind which there is nothing.
LEMMA ForkClauses ==
    ASSUME ClauseInv, SeedForks
    PROVE  /\ ClauseOrder' /\ ClausesConserved'
           /\ W = <<Head(wstream.pipe)>> /\ seed.written_clauses = Added(lib)
  <1>. USE DEF libvars, clientvars
  <1>. DEFINE m == Head(wstream.pipe)
  <1>1. /\ CoreInv /\ wstream \in Streams /\ wstream.pipe # <<>>
        /\ m.type = "FORK" /\ seed.pc = "read"
        /\ wstream' = [wstream EXCEPT !.pipe = Tail(@)]
        /\ UNCHANGED <<lib, open>>
        /\ seed \in [pc : {"boot", "read", "report", "wait", "exited"},
                     state : PreloadStates, written_clauses : Nat]
    BY DEF ClauseInv, CoreInv, TypeOK, SeedForks
  <1>2. /\ W \in Seq(Messages) /\ W # <<>> /\ W[1] = m /\ W' = Tail(W)
    BY <1>1, ContentsRead DEF W
  <1>3. seed.state # "WAITING_FOR_HEADER"
    BY <1>1 DEF ClauseInv, BootInv
  <1>4. 1 = Len(W) /\ ~OpenBefore(1)
    <2>1. 1 \in 1..Len(W)
      BY <1>2
    <2>2. Literal(0).type # "FORK" /\ Literal(1).type # "FORK"
      BY DEF Literal, Msg
    <2>. HIDE DEF m
    <2>. QED  BY <1>1, <1>2, <1>3, <2>1, <2>2 DEF ClauseInv, ClauseOrder
  <1>5. W = <<m>> /\ W' = <<>> /\ Len(W') = 0
    BY <1>2, <1>4
  <1>6. /\ seed'.state = seed.state
        /\ seed'.written_clauses = seed.written_clauses
    BY <1>1 DEF SeedForks
  <1>7. ~open
    <2>1. open <=> W[1] = Literal(1)
      <3>1. Len(W) + 1 # 1 /\ (Len(W) + 1) - 1 = 1
        BY <1>4
      <3>. QED
        BY <1>3, <3>1 DEF ClauseInv, ClauseOrder, OpenBefore
    <2>2. Literal(1).type # "FORK"
      BY DEF Literal, Msg
    <2>. QED  BY <1>1, <1>2, <2>1, <2>2
  <1>8. ClauseOrder'
    BY <1>1, <1>4, <1>5, <1>6, <1>7 DEF ClauseInv, ClauseOrder, OpenBefore
  <1>9. ClauseEnds(W) = 0 /\ ClauseEnds(W') = 0
    <2>1. Ends(W') = {} /\ W' \in Seq(Messages)
      BY <1>5 DEF Ends
    <2>2. ClauseEnds(W') = 0
      BY <2>1, EndsFinite, FS_EmptySet
    <2>3. m # Literal(0)
      BY <1>1 DEF Literal, Msg
    <2>. QED  BY <1>2, <2>2, <2>3, EndsTail
  <1>10. seed.written_clauses + ClauseEnds(W) = Added(lib)
    BY DEF ClauseInv, ClausesConserved, W, Added
  <1>11. seed.written_clauses = Added(lib)
    BY <1>1, <1>9, <1>10
  <1>12. ClausesConserved'
    BY <1>1, <1>6, <1>9, <1>10 DEF ClausesConserved, W, Added
  <1>. QED  BY <1>5, <1>8, <1>11, <1>12

\* Neither the library nor the client touches the seed.
LEMMA OtherSeed == LibraryStep \/ ClientStep => UNCHANGED seed
  BY DEF libvars, procvars, clientvars, LibraryStep, quapi_init, DrainMessage,
         ReadForkReport, S_POLL, S_HANDLE_CHILD, S_HANDLE_EVENTFD,
         S_HANDLE_SOLVERCHILD, ClientStep, quapi_add, quapi_assume, quapi_solve,
         quapi_reset_assumptions, quapi_release, quapi_terminate

\* Before HEADER is read only the seed can move.
LEMMA NextBoot ==
    ASSUME ClauseInv, [Next]_vars
    PROVE  BootInv'
  <1>. USE DEF libvars, procvars, clientvars
  <1>. /\ BootInv /\ TypeOK
       /\ seed \in [pc : {"boot", "read", "report", "wait", "exited"},
                    state : PreloadStates, written_clauses : Nat]
    BY DEF ClauseInv, CoreInv, TypeOK
  <1>1. CASE seed.state # "WAITING_FOR_HEADER"
    <2>1. seed.pc # "boot"
      BY <1>1 DEF BootInv
    <2>2. ASSUME NEW m PROVE AdvanceState(seed.state, m) # "WAITING_FOR_HEADER"
      BY <1>1 DEF AdvanceState, NextState
    <2>3. seed'.state # "WAITING_FOR_HEADER" /\ seed'.pc # "boot"
      <3>1. CASE SeedStep
        <4>1. CASE SeedReads
          BY <1>1, <2>1, <2>2, <4>1 DEF SeedReads
        <4>2. CASE SeedStarts \/ SeedForks
          BY <1>1, <2>1, <4>2 DEF SeedStarts, SeedForks
        <4>3. CASE SeedReports \/ SeedReaps \/ SeedExits
          BY <1>1, <2>1, <4>3 DEF SeedReports, SeedReaps, SeedExits
        <4>. QED  BY <3>1, <4>1, <4>2, <4>3 DEF SeedStep
      <3>2. CASE UNCHANGED seed
        BY <1>1, <2>1, <3>2
      <3>3. LibraryStep \/ ClientStep => UNCHANGED seed
        BY OtherSeed
      <3>4. ASSUME NEW k \in Pids,
                   ChildStep(k) \/ ChildCrashes(k) \/ ChildQuitsEarly(k)
            PROVE  UNCHANGED seed
        BY <3>4 DEF ChildStep, ChildFetches, ChildReads, ChildPrints, ChildExits,
             ChildSeesClose, ChildKilled, ChildCrashes, ChildQuitsEarly
      <3>. QED
        BY <3>1, <3>2, <3>3, <3>4 DEF Next, Fault, Finished, vars
    <2>. QED  BY <2>3 DEF BootInv
  <1>2. CASE seed.state = "WAITING_FOR_HEADER"
    <2>1. /\ seed.pc \in {"boot", "exited"} /\ lpc = "init" /\ toParent = <<>>
          /\ \A k \in Pids : ~Running(k)
          /\ W = <<Header>> /\ ~open
      BY <1>2 DEF BootInv
    <2>2. CASE SeedStarts
      BY <1>2, <2>2 DEF SeedStarts, AdvanceState, NextState, BootInv
    <2>3. CASE UNCHANGED <<seed, lpc, toParent, child, wstream, open>>
      BY <2>1, <2>3 DEF BootInv, Running, W
    <2>4. LibraryStep \/ ClientStep =>
            UNCHANGED <<seed, lpc, toParent, child, wstream, open>>
      BY <2>1 DEF LibraryStep, quapi_init, DrainMessage, ReadForkReport, S_POLL,
           S_HANDLE_CHILD, S_HANDLE_EVENTFD, S_HANDLE_SOLVERCHILD,
           ClientStep, quapi_add, quapi_assume, quapi_solve,
           quapi_reset_assumptions, quapi_release, quapi_terminate
    <2>5. SeedStep => SeedStarts
      BY <2>1 DEF SeedStep, SeedReads, SeedForks, SeedReports, SeedReaps, SeedExits
    <2>6. \A k \in Pids :
            ~(ChildStep(k) \/ ChildCrashes(k) \/ ChildQuitsEarly(k))
      BY <2>1 DEF ChildStep, ChildFetches, ChildReads, ChildPrints, ChildExits,
           ChildSeesClose, ChildKilled, ChildCrashes, ChildQuitsEarly
    <2>. QED
      BY <2>2, <2>3, <2>4, <2>5, <2>6 DEF Next, Fault, Finished, vars
  <1>. QED  BY <1>1, <1>2

\* The library and the client send a literal, a FORK, or nothing.
LEMMA LibraryClauses ==
    ASSUME ClauseInv, LibraryStep \/ ClientStep
    PROVE  ClauseOrder' /\ ClausesConserved'
  <1>. USE DEF libvars, procvars, clientvars
  <1>0. /\ CoreInv /\ BootInv /\ ClauseOrder /\ ClausesConserved
        /\ lib \in Solvers /\ wstream \in Streams /\ open \in BOOLEAN
    BY DEF ClauseInv, CoreInv, TypeOK
  <1>a. UNCHANGED seed
    BY OtherSeed
  <1>b. lpc = "idle" => seed.state # "WAITING_FOR_HEADER"
    BY <1>0 DEF BootInv
  <1>1. ASSUME NEW lit \in {1, 0}, quapi_add(lit)
        PROVE  ClauseOrder' /\ ClausesConserved'
    <2>1. /\ lpc = "idle"
          /\ open <=> (lit = 0)
          /\ wstream' = quapi_write_msg_to_file(wstream, Literal(lit))
          /\ lib' = AfterAdd(lib, lit) /\ open' = (lit # 0)
      BY <1>1 DEF quapi_add
    <2>2. Literal(lit) \in Messages
      BY MessageType
    <2>3. Added(lib') = Added(lib) + (IF lit = 0 THEN 1 ELSE 0)
      BY <1>0, <2>1, AddedKept
    <2>4. /\ Literal(lit) = Literal(IF open THEN 0 ELSE 1) /\ open' = ~open
          /\ Added(lib') = Added(lib) + (IF open THEN 1 ELSE 0)
      BY <1>0, <2>1, <2>3
    <2>. QED  BY <1>a, <1>b, <2>1, <2>2, <2>4, SentClauses
  <1>2. ASSUME NEW c, lpc = "idle", ~open, UNCHANGED open, RequestFork(c)
        PROVE  ClauseOrder' /\ ClausesConserved'
    <2>. DEFINE m == Fork(IF Regex THEN 0 ELSE 1)
    <2>1. m \in Messages /\ m.type = "FORK"
      BY MessageType DEF Fork, Msg
    <2>2. /\ wstream' = quapi_write_msg_to_file(wstream, m)
          /\ lib' = AfterMakeSolvable(lib)
      BY <1>2 DEF RequestFork
    <2>. HIDE DEF m
    <2>3. Added(lib') = Added(lib)
      BY <1>0, <2>2, AddedKept
    <2>. QED  BY <1>2, <1>a, <1>b, <2>1, <2>2, <2>3, SentClauses
  <1>3. ASSUME wstream' = wstream \/ wstream' = FFlush(wstream), UNCHANGED open,
               \/ lib' = lib \/ lib' = AfterAssume(lib) \/ lib' = Working(lib)
               \/ lib' = DropAssumptions(lib)
        PROVE  ClauseOrder' /\ ClausesConserved'
    <2>1. W' = W
      BY <1>0, <1>3, ContentsWritten, MessageType DEF W
    <2>2. Added(lib') = Added(lib)
      BY <1>0, <1>3, AddedKept
    <2>. QED  BY <1>0, <1>3, <1>a, <2>1, <2>2, SameClauses
  <1>4. CASE LibraryStep
    BY <1>3, <1>4 DEF LibraryStep, quapi_init, CloseStreams, DrainMessage,
         ReadForkReport, S_POLL, S_HANDLE_CHILD, S_HANDLE_EVENTFD,
         S_HANDLE_SOLVERCHILD, SolveReturns, SendSolve, SendAssumption
  <1>5. ASSUME NEW lit \in Lits, quapi_assume(lit)
        PROVE  ClauseOrder' /\ ClausesConserved'
    BY <1>2, <1>3, <1>5 DEF quapi_assume, SendAssumption
  <1>6. CASE quapi_solve
    BY <1>2, <1>3, <1>6 DEF quapi_solve, SendSolve
  <1>7. CASE quapi_reset_assumptions \/ quapi_release \/ quapi_terminate
    BY <1>3, <1>7 DEF quapi_reset_assumptions, quapi_release, quapi_terminate,
         CloseStreams
  <1>. QED  BY <1>1, <1>4, <1>5, <1>6, <1>7 DEF ClientStep

LEMMA NextClauses == ClauseInv /\ [Next]_vars => ClauseInv'
  <1>. SUFFICES ASSUME ClauseInv, [Next]_vars PROVE ClauseInv'
    OBVIOUS
  <1>. USE DEF libvars, procvars, clientvars
  <1>1. CoreInv' /\ BootInv'
    BY NextCore, NextBoot DEF ClauseInv
  <1>. SUFFICES ClauseOrder' /\ ClausesConserved'
    BY <1>1 DEF ClauseInv
  <1>2. ASSUME UNCHANGED <<wstream, open, lib>>, seed'.state = seed.state,
               seed'.written_clauses = seed.written_clauses
        PROVE  ClauseOrder' /\ ClausesConserved'
    BY <1>2, SameClauses DEF ClauseInv, W
  <1>3. CASE SeedStep
    <2>1. seed \in [pc : {"boot", "read", "report", "wait", "exited"},
                    state : PreloadStates, written_clauses : Nat]
      BY DEF ClauseInv, CoreInv, TypeOK
    <2>2. ASSUME NEW pc, seed' = [seed EXCEPT !.pc = pc],
                 UNCHANGED <<wstream, open, lib>>
          PROVE  ClauseOrder' /\ ClausesConserved'
      <3>1. /\ seed'.state = seed.state
            /\ seed'.written_clauses = seed.written_clauses
        BY <2>1, <2>2
      <3>. QED  BY <1>2, <2>2, <3>1
    <2>3. CASE SeedReports
      BY <2>2, <2>3 DEF SeedReports
    <2>4. CASE SeedReaps
      BY <2>2, <2>4 DEF SeedReaps
    <2>5. CASE SeedExits
      BY <2>2, <2>5 DEF SeedExits
    <2>6. CASE SeedStarts \/ SeedReads \/ SeedForks
      BY <2>6, StartClauses, ReadClauses, ForkClauses
    <2>. QED  BY <1>3, <2>3, <2>4, <2>5, <2>6 DEF SeedStep
  <1>4. ASSUME NEW k \in Pids,
               ChildStep(k) \/ ChildCrashes(k) \/ ChildQuitsEarly(k)
        PROVE  ClauseOrder' /\ ClausesConserved'
    BY <1>2, <1>4 DEF ChildStep, ChildFetches, ChildReads, ChildPrints,
         ChildExits, ChildSeesClose, ChildKilled, ChildCrashes, ChildQuitsEarly
  <1>5. CASE UNCHANGED vars
    <2>1. UNCHANGED <<wstream, open, lib, seed>>
      BY <1>5 DEF vars
    <2>. QED  BY <1>2, <2>1
  <1>6. CASE LibraryStep \/ ClientStep
    BY <1>6, LibraryClauses
  <1>. QED  BY <1>3, <1>4, <1>5, <1>6 DEF Next, Fault, Finished

LEMMA InitClauses == Init => ClauseInv
  <1>. SUFFICES ASSUME Init PROVE ClauseInv
    OBVIOUS
  <1>1. CoreInv
    BY InitCore
  <1>2. W = <<Header>>
    <2>1. NoStream \in Streams /\ Contents(NoStream) = <<>>
      BY DEF NoStream, Streams, Contents
    <2>2. Contents(wstream) = Append(<<>>, Header)
      BY <2>1, ContentsWritten, MessageType DEF Init
    <2>. QED  BY <2>2 DEF W
  <1>3. /\ seed.state = "WAITING_FOR_HEADER" /\ seed.pc \in {"boot", "exited"}
        /\ seed.written_clauses = 0
    BY DEF Init
  <1>4. BootInv
    BY <1>2, <1>3 DEF Init, BootInv, Running, Unborn
  <1>5. ClauseOrder
    BY <1>3 DEF ClauseOrder
  <1>6. ClauseEnds(W) = 0
    <2>1. W \in Seq(Messages) /\ W # <<>> /\ W[1] = Header /\ Tail(W) = <<>>
      BY <1>2, MessageType
    <2>2. Header # Literal(0)
      BY DEF Header, Literal, Msg
    <2>3. <<>> \in Seq(Messages) /\ Ends(<<>>) = {}
      BY DEF Ends
    <2>4. ClauseEnds(<<>>) = 0
      BY <2>3, EndsFinite, FS_EmptySet
    <2>5. ClauseEnds(W) = ClauseEnds(<<>>) + 0
      BY <2>1, <2>2, EndsTail
    <2>. QED  BY <2>4, <2>5
  <1>7. ClausesConserved
    BY <1>3, <1>6 DEF Init, FreshSolver, ClausesConserved, W
  <1>. QED  BY <1>1, <1>4, <1>5, <1>7 DEF ClauseInv

\* The clause invariant holds in every reachable state.
LEMMA AlwaysClauses == Spec => []ClauseInv
  BY InitClauses, NextClauses, PTL DEF Spec, Safety

\* No clause is lost or counted twice between quapi_add and the seed: neither
\* a full stdio buffer, nor a fork, a reset, a kill or a failing child changes
\* the sum.
THEOREM NoClauseLost == Spec => []ClausesConserved
  <1>1. ClauseInv => ClausesConserved
    BY DEF ClauseInv
  <1>. QED  BY <1>1, AlwaysClauses, PTL
=============================================================================
