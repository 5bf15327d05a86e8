-------------------------- MODULE QuapiAnswerProofs --------------------------
(***************************************************************************)
(* Answers.  For a client that neither resets nor terminates, and solvers  *)
(* that do not fail, every solve is answered for its own formula and cube, *)
(* and the processes together take the steps of IncrementalSolver.         *)
(***************************************************************************)
EXTENDS QuapiProofs, QuapiRefinement

(***************************************************************************)
(* What is left out is what the code does not survive: assumptions that a  *)
(* killed child leaves in the pipe are read by the next one, and a solver  *)
(* that both prints its answer and exits with it leaves the line to the    *)
(* callback of the next solve.                                             *)
(***************************************************************************)
Undisturbed ==
    /\ ~Regex
    /\ Uses = {} /\ Faults \subseteq {"exec"}
    /\ Callback => ReportsBy # {"code", "line"}

\* The mode in which the answer arrives is one the library looks at.
Reported == ~Callback => "code" \in ReportsBy
-----------------------------------------------------------------------------
(***************************************************************************)
(* The inductive invariant.  The question of the client is spread over the *)
(* child that was forked for it, the messages this child has still to read *)
(* and the counters of the library.                                        *)
(***************************************************************************)
\* A child stands ready for the cube, or works on it.
Asked == lpc = "poll" \/ (lpc = "idle" /\ ~NeedsFork(lib))

\* No child does: the next call that needs one forks it.
Unasked == lpc \in {"init", "fork"} \/ (lpc = "idle" /\ NeedsFork(lib))

\* What the youngest child has still to read.
ToRead == child[kids].inbuf \o Contents(cstream)

LitsOf(s) == {s[i].data : i \in {j \in 1..Len(s) : s[j].type = "LITERAL"
                                                  /\ s[j].data # 0}}

\* Units of the cube, and at the end SOLVE once the library waits for it.
CubeMessages(s) ==
    \A i \in 1..Len(s) : \/ s[i].type = "LITERAL"
                         \/ s[i] = Solve /\ i = Len(s) /\ lpc = "poll"

\* Nobody has been terminated or killed, the dead do not work, and a pipe
\* nobody listens to is not looked at.
ProcessInv ==
    /\ evfd = 0 /\ "event" \notin revents
    /\ ~Callback => "out" \notin revents
    /\ \A k \in Pids : /\ ~child[k].killed
                       /\ child[k].state = "WORKING" => Running(k)

\* The code the child exits with.
Expected == IF "code" \in ReportsBy THEN Verdict(Added(lib), cube) ELSE 0

\* The child reads the cube, works on the question, or has answered it.
AskedInv ==
    Asked =>
      /\ Running(kids) => /\ child[kids].formula = Added(lib)
                          /\ CubeMessages(ToRead)
                          /\ cube = child[kids].cube \cup LitsOf(ToRead)
      /\ Running(kids) /\ child[kids].state = "WORKING" =>
            lpc = "poll" /\ ToRead = <<>>
      /\ ~Running(kids) => /\ lpc = "poll" /\ Contents(cstream) = <<>>
                           /\ child[kids].code = Expected

\* A child that was forked and has not been told anything.
Newborn(c) ==
    /\ c.status = "running" /\ c.state # "WORKING"
    /\ c.formula = Added(lib) /\ c.cube = {} /\ c.inbuf = <<>>

\* A child whose line was the answer: all it can still do is exit.
Done(c) == c.state = "WORKING" /\ c.printed = LinesToPrint

\* Nothing of the last question is left when the next one is asked.
UnaskedInv ==
    Unasked =>
      /\ cube = {} /\ Contents(cstream) = <<>>
      /\ IF lpc = "fork" /\ ~ForkPending
         THEN kids > 0 /\ Newborn(child[kids])
         ELSE \A k \in Pids : Running(k) => Done(child[k])

\* With a callback, a line that says something is the answer awaited.
LinesInv ==
    Callback =>
      \A i \in 1..Len(out) :
         out[i] # 0 => /\ lpc \in {"poll", "released"} /\ "line" \in ReportsBy
                       /\ lpc = "poll" => /\ out[i] = Verdict(Added(lib), cube)
                                          /\ Running(kids) => Done(child[kids])

\* A result is sound, and forgotten when the next solve is prepared.
ResultInv ==
    /\ SolveSound
    /\ lpc \in {"fork", "poll"} \/ (lpc = "idle" /\ ~NeedsFork(lib)) =>
          ret = NoResult
    /\ lpc = "fork" => call \in Lits \cup {0}

QuestionInv ==
    ProcessInv /\ AskedInv /\ UnaskedInv /\ LinesInv /\ ResultInv

AnswerInv == SyncInv /\ ClauseInv /\ (Undisturbed => QuestionInv)
-----------------------------------------------------------------------------
(***************************************************************************)
(* Queues of assumptions.                                                  *)
(***************************************************************************)
LitOf(m) == IF m.type = "LITERAL" /\ m.data # 0 THEN {m.data} ELSE {}

\* A message behind the queue.
LEMMA LitsAppend ==
    ASSUME NEW s \in Seq(Messages), NEW m \in Messages
    PROVE  LitsOf(Append(s, m)) = LitsOf(s) \cup LitOf(m)
  <1>. DEFINE t == Append(s, m)
              n == Len(s) + 1
  <1>1. /\ Len(t) = n /\ Len(s) \in Nat /\ t[n] = m
        /\ \A i \in 1..Len(s) : t[i] = s[i]
    OBVIOUS
  <1>. HIDE DEF t
  <1>2. \A i : i \in 1..Len(t) <=> i \in 1..Len(s) \/ i = n
    BY <1>1
  <1>3. LitsOf(t) = LitsOf(s) \cup LitOf(m)
    BY <1>1, <1>2 DEF LitsOf, LitOf
  <1>. QED  BY <1>3 DEF t

\* A message taken from the front.
LEMMA LitsTail ==
    ASSUME NEW s \in Seq(Messages), s # <<>>
    PROVE  LitsOf(s) = LitOf(Head(s)) \cup LitsOf(Tail(s))
  <1>. DEFINE t == Tail(s)
  <1>1. /\ Len(t) = Len(s) - 1 /\ Len(s) \in Nat /\ Len(s) >= 1
        /\ \A i \in 1..Len(t) : t[i] = s[i + 1]
        /\ Head(s) = s[1]
    OBVIOUS
  <1>. HIDE DEF t
  <1>2. \A i \in 1..Len(s) : i = 1 \/ (i - 1 \in 1..Len(t) /\ t[i - 1] = s[i])
    BY <1>1
  <1>3. \A i \in 1..Len(t) : i + 1 \in 1..Len(s) /\ t[i] = s[i + 1]
    BY <1>1
  <1>4. 1 \in 1..Len(s)
    BY <1>1
  <1>5. ASSUME NEW x \in LitsOf(s) PROVE x \in LitOf(s[1]) \cup LitsOf(t)
    <2>1. PICK i \in 1..Len(s) : s[i].type = "LITERAL" /\ s[i].data # 0
                                 /\ x = s[i].data
      BY <1>5 DEF LitsOf
    <2>. QED  BY <1>2, <2>1 DEF LitsOf, LitOf
  <1>6. LitsOf(t) \subseteq LitsOf(s)
    BY <1>3 DEF LitsOf
  <1>7. LitOf(s[1]) \subseteq LitsOf(s)
    BY <1>4 DEF LitsOf, LitOf
  <1>. QED  BY <1>1, <1>5, <1>6, <1>7 DEF t

\* Nothing is assumed by an empty queue.
LEMMA LitsEmpty == LitsOf(<<>>) = {} /\ Len(<<>>) = 0
  BY DEF LitsOf

\* What fread moves into the buffer of a child stays in front of the rest.
LEMMA FetchedStays ==
    ASSUME NEW p \in Seq(Messages), NEW b \in Seq(Messages), NEW n \in Nat,
           n <= Len(p)
    PROVE  /\ SubSeq(p, 1, n) \in Seq(Messages)
           /\ SubSeq(p, 1, n) \o (SubSeq(p, n + 1, Len(p)) \o b)
                = <<>> \o (p \o b)
  <1>. DEFINE a == SubSeq(p, 1, n)
              z == SubSeq(p, n + 1, Len(p))
  <1>1. a \in Seq(Messages) /\ z \in Seq(Messages) /\ a \o z = p
    <2>1. /\ Len(p) \in Nat /\ n + 1 \in Int
          /\ \A i \in 1..n : p[i] \in Messages
          /\ \A i \in (n + 1)..Len(p) : p[i] \in Messages
      OBVIOUS
    <2>2. /\ a \in Seq(Messages) /\ Len(a) = n
          /\ \A i \in 1..n : a[i] = p[i]
      BY <2>1, SubSeqProperties
    <2>3. /\ z \in Seq(Messages) /\ Len(z) = Len(p) - n
          /\ \A i \in 1..(Len(p) - n) : z[i] = p[n + i]
      BY <2>1, SubSeqProperties
    <2>. HIDE DEF a, z
    <2>4. /\ a \o z \in Seq(Messages) /\ Len(a \o z) = Len(a) + Len(z)
          /\ \A i \in 1..Len(a) + Len(z) :
                (a \o z)[i] = IF i <= Len(a) THEN a[i] ELSE z[i - Len(a)]
      BY <2>2, <2>3, ConcatProperties
    <2>5. Len(a \o z) = Len(p)
      BY <2>1, <2>2, <2>3, <2>4
    <2>6. ASSUME NEW i \in 1..Len(p) PROVE (a \o z)[i] = p[i]
      <3>1. CASE i <= n
        BY <2>1, <2>2, <2>3, <2>4, <3>1
      <3>2. CASE ~(i <= n)
        <4>1. i - n \in 1..(Len(p) - n) /\ n + (i - n) = i
          BY <2>1, <3>2
        <4>. QED  BY <2>1, <2>2, <2>3, <2>4, <3>2, <4>1
      <3>. QED  BY <3>1, <3>2, Zenon
    <2>. QED  BY <2>2, <2>3, <2>4, <2>5, <2>6, SeqEqual
  <1>2. p \o b \in Seq(Messages)
    BY ConcatProperties
  <1>3. (a \o z) \o b = a \o (z \o b)
    BY <1>1, ConcatMessages
  <1>. QED  BY <1>1, <1>2, <1>3, ConcatEmptySeq
-----------------------------------------------------------------------------
(***************************************************************************)
(* What every step of an undisturbed client starts from.                   *)
(***************************************************************************)
Context == SyncInv /\ ClauseInv /\ Undisturbed /\ QuestionInv

LEMMA Situation ==
    ASSUME Context
    PROVE  /\ CoreInv /\ TypeOK /\ ~Regex /\ YoungestOnly /\ MessagesInStep
           /\ lib \in Solvers /\ Added(lib) \in Int
           /\ cstream \in Streams /\ Contents(cstream) \in Seq(Messages)
           /\ child \in [Pids -> Children]
           /\ \A k \in Pids : Running(k) => k = kids
           /\ kids > 0 => kids \in Pids
           /\ Asked => kids \in Pids /\ solverchild_pid = kids
           /\ kids \in Pids => ToRead \in Seq(Messages)
  <1>1. /\ CoreInv /\ TypeOK /\ ~Regex /\ YoungestOnly /\ MessagesInStep
    BY DEF Context, SyncInv, CoreInv, Undisturbed
  <1>2. /\ lib \in Solvers /\ cstream \in Streams /\ kids \in 0..MaxKids
        /\ child \in [Pids -> Children]
    BY <1>1 DEF TypeOK
  <1>3. Added(lib) \in Int
    BY <1>2, AddedKept
  <1>4. Contents(cstream) \in Seq(Messages)
    BY <1>2, ContentsWritten, MessageType
  <1>5. \A k \in Pids : Running(k) => k = kids
    BY <1>1, RunningIsYoungest
  <1>6. kids > 0 => kids \in Pids
    BY <1>2 DEF Pids
  <1>7. Asked => kids > 0 /\ solverchild_pid = kids
    BY <1>1 DEF Asked, MessagesInStep
  <1>8. kids \in Pids => ToRead \in Seq(Messages)
    BY <1>2, <1>4, ConcatProperties DEF ToRead, Children
  <1>. QED  BY <1>1, <1>2, <1>3, <1>4, <1>5, <1>6, <1>7, <1>8

\* Neither the question nor the children that can still do something change;
\* lines may be read off.
LEMMA SameQuestion ==
    ASSUME Context, UNCHANGED <<lpc, cube, cstream, kids, ret, call>>,
           Added(lib') = Added(lib), NeedsFork(lib') <=> NeedsFork(lib),
           out' = out \/ out' = <<>>,
           lpc = "fork" => (ForkPending' <=> ForkPending),
           \A k \in Pids : /\ child'[k].status = "running" <=> Running(k)
                           /\ Running(k) => child'[k] = child[k]
                           /\ child'[k].code = child[k].code
    PROVE  AskedInv' /\ UnaskedInv' /\ LinesInv' /\ ResultInv'
  <1>. QuestionInv
    BY DEF Context
  <1>1. (Asked' <=> Asked) /\ (Unasked' <=> Unasked)
    BY DEF Asked, Unasked
  <1>2. ASSUME kids \in Pids
        PROVE  /\ Running(kids)' <=> Running(kids)
               /\ Running(kids) => /\ child'[kids] = child[kids]
                                   /\ ToRead' = ToRead
               /\ child'[kids].code = child[kids].code
    BY <1>2 DEF Running, ToRead
  <1>3. AskedInv'
    <2>. SUFFICES ASSUME Asked PROVE AskedInv'
      BY <1>1 DEF AskedInv
    <2>1. kids \in Pids
      BY Situation
    <2>2. Running(kids) => (CubeMessages(ToRead) => CubeMessages(ToRead)')
      BY <1>2, <2>1 DEF CubeMessages
    <2>3. Expected' = Expected
      BY DEF Expected
    <2>. QED
      BY <1>1, <1>2, <2>1, <2>2, <2>3 DEF QuestionInv, AskedInv
  <1>4. UnaskedInv'
    <2>. SUFFICES ASSUME Unasked PROVE UnaskedInv'
      BY <1>1 DEF UnaskedInv
    <2>1. cube' = {} /\ Contents(cstream)' = <<>>
      BY DEF QuestionInv, UnaskedInv
    <2>2. CASE lpc = "fork" /\ ~ForkPending
      <3>1. kids > 0 /\ Newborn(child[kids])
        BY <2>2 DEF QuestionInv, UnaskedInv
      <3>2. kids \in Pids /\ Running(kids)
        BY <3>1, Situation DEF Newborn, Running
      <3>3. Newborn(child[kids])'
        BY <1>2, <3>1, <3>2 DEF Newborn
      <3>. QED  BY <2>1, <2>2, <3>1, <3>3 DEF UnaskedInv
    <2>3. CASE ~(lpc = "fork" /\ ~ForkPending)
      <3>1. \A k \in Pids : Running(k) => Done(child[k])
        BY <2>3 DEF QuestionInv, UnaskedInv
      <3>2. \A k \in Pids : Running(k)' => Done(child[k])'
        BY <3>1 DEF Running, Done
      <3>. QED  BY <2>1, <2>3, <3>2 DEF UnaskedInv
    <2>. QED  BY <2>2, <2>3
  <1>5. LinesInv'
    <2>1. CASE out' = <<>>
      BY <2>1 DEF LinesInv
    <2>2. CASE out' = out
      <3>. SUFFICES ASSUME Callback, NEW i \in 1..Len(out), out[i] # 0
                    PROVE  /\ lpc \in {"poll", "released"} /\ "line" \in ReportsBy
                           /\ lpc = "poll" =>
                                 /\ out[i] = Verdict(Added(lib), cube)
                                 /\ Running(kids)' => Done(child[kids])'
        BY <2>2 DEF LinesInv
      <3>1. /\ lpc \in {"poll", "released"} /\ "line" \in ReportsBy
            /\ lpc = "poll" => /\ out[i] = Verdict(Added(lib), cube)
                               /\ Running(kids) => Done(child[kids])
        BY DEF QuestionInv, LinesInv
      <3>2. lpc = "poll" => kids \in Pids
        BY Situation DEF Asked
      <3>. QED  BY <1>2, <3>1, <3>2 DEF Done
    <2>. QED  BY <2>1, <2>2
  <1>6. ResultInv'
    BY DEF QuestionInv, ResultInv, SolveSound
  <1>. QED  BY <1>3, <1>4, <1>5, <1>6

\* Nobody calls quapi_reset_assumptions or quapi_terminate, and no solver fails.
LEMMA NothingDisturbs ==
    ASSUME Context
    PROVE  /\ ~quapi_reset_assumptions /\ ~quapi_terminate /\ ~S_HANDLE_EVENTFD
           /\ ~Fault /\ \A k \in Pids : ~ChildKilled(k)
  <1>1. ProcessInv /\ Uses = {} /\ Faults \subseteq {"exec"}
    BY DEF Context, Undisturbed, QuestionInv
  <1>2. ~quapi_reset_assumptions /\ ~quapi_terminate
    BY <1>1 DEF quapi_reset_assumptions, quapi_terminate
  <1>3. ~S_HANDLE_EVENTFD
    BY <1>1 DEF ProcessInv, S_HANDLE_EVENTFD
  <1>4. ~Fault
    <2>1. "crash" \notin Faults /\ "early" \notin Faults
      BY <1>1
    <2>. QED  BY <2>1 DEF Fault, ChildCrashes, ChildQuitsEarly
  <1>5. \A k \in Pids : ~ChildKilled(k)
    BY <1>1 DEF ProcessInv, ChildKilled
  <1>. QED  BY <1>2, <1>3, <1>4, <1>5

\* So the library and its client leave the children alone.
LEMMA ChildrenLeftAlone ==
    ASSUME Context, LibraryStep \/ ClientStep
    PROVE  UNCHANGED <<child, kids, seed, evfd>>
  BY NothingDisturbs
     DEF libvars, procvars, clientvars, LibraryStep, quapi_init, DrainMessage,
         ReadForkReport, S_POLL, S_HANDLE_CHILD, S_HANDLE_SOLVERCHILD,
         ClientStep, quapi_add, quapi_assume, quapi_solve, quapi_release

\* A child stays unharmed, and poll() never reports the eventfd.
LEMMA NextUnkilled ==
    ASSUME Context, [Next]_vars
    PROVE  ProcessInv'
  <1>. USE DEF libvars, procvars, clientvars
  <1>. /\ ProcessInv /\ ~Regex /\ TypeOK /\ child \in [Pids -> Children]
    BY Situation DEF Context, QuestionInv
  <1>1. CASE UNCHANGED <<evfd, revents, child>>
    BY <1>1 DEF ProcessInv, Running
  <1>2. CASE LibraryStep \/ ClientStep
    <2>1. UNCHANGED <<child, evfd>>
      BY <1>2, ChildrenLeftAlone
    <2>2. revents' \subseteq revents \/ revents' = Ready
      BY <1>2, NothingDisturbs
         DEF LibraryStep, quapi_init, DrainMessage,
         ReadForkReport, S_POLL, S_HANDLE_CHILD, S_HANDLE_SOLVERCHILD,
         ClientStep, quapi_add, quapi_assume, quapi_solve, quapi_release,
         SolveReturns, SendSolve, SendAssumption, RequestFork
    <2>3. /\ "event" \notin revents'
          /\ ~Callback => "out" \notin revents'
      BY <2>2 DEF ProcessInv, Ready
    <2>. QED  BY <2>1, <2>3 DEF ProcessInv, Running
  <1>. DEFINE Fine(c) == ~c.killed /\ (c.state = "WORKING" => c.status = "running")
  <1>3. ASSUME UNCHANGED <<evfd, revents>>,
               \A k \in Pids : child'[k] = child[k] \/ Fine(child'[k])
        PROVE  ProcessInv'
    BY <1>3 DEF ProcessInv, Running
  <1>4. CASE SeedStep
    <2>1. CASE SeedForks
      <3>. DEFINE c == [Unborn EXCEPT !.status = "running",
                                      !.state = seed.state,
                                      !.formula = seed.written_clauses,
                                      !.written_clauses = seed.written_clauses]
      <3>1. Fine(c)
        BY DEF Unborn
      <3>2. child' = [child EXCEPT ![kids + 1] = c] /\ UNCHANGED <<evfd, revents>>
        BY <2>1 DEF SeedForks
      <3>. HIDE DEF c
      <3>3. \A k \in Pids : child'[k] = child[k] \/ child'[k] = c
        BY <3>2
      <3>. QED  BY <1>3, <3>1, <3>2, <3>3
    <2>2. CASE SeedReaps
      <3>1. kids \in Pids
        BY <2>2 DEF SeedReaps, Context, SyncInv, CoreInv, ReportsChild, TypeOK, Pids
      <3>. DEFINE c == [child[kids] EXCEPT !.status = "reaped"]
      <3>2. child' = [child EXCEPT ![kids] = c]
        BY <2>2, Zenon DEF SeedReaps
      <3>3. Fine(c)
        BY <2>2, <3>1 DEF Children, ProcessInv, Running, SeedReaps
      <3>. HIDE DEF c
      <3>4. \A k \in Pids : child'[k] = child[k] \/ child'[k] = c
        BY <3>2
      <3>. QED  BY <1>3, <2>2, <3>3, <3>4 DEF SeedReaps
    <2>3. CASE UNCHANGED <<evfd, revents, child>>
      BY <1>1, <2>3
    <2>. QED
      BY <1>4, <2>1, <2>2, <2>3 DEF SeedStep, SeedStarts, SeedReads, SeedReports,
           SeedExits
  <1>5. ASSUME NEW k \in Pids, ChildStep(k) PROVE ProcessInv'
    <2>1. UNCHANGED <<evfd, revents>> /\ \A j \in Pids : j # k => child'[j] = child[j]
      BY <1>5, ChildMoves DEF ChildStep, ChildFetches, ChildReads, ChildPrints,
           ChildExits, ChildSeesClose, ChildKilled
    <2>. SUFFICES Fine(child'[k])
      BY <1>3, <2>1
    <2>2. child[k] \in Children /\ ~child[k].killed /\ child[k].status = "running"
      BY <1>5, ChildMoves DEF ProcessInv, Running
    <2>3. ASSUME NEW code, Dies(k, code) PROVE Fine(child'[k])
      BY <2>3 DEF Dies, Unborn
    <2>4. CASE ChildFetches(k)
      <3>. DEFINE b == SubSeq(cstream.pipe, 1,
                         IF Len(cstream.pipe) < FileBuf
                         THEN Len(cstream.pipe) ELSE FileBuf)
      <3>1. child' = [child EXCEPT ![k].inbuf = b]
        BY <2>4 DEF ChildFetches
      <3>. HIDE DEF b
      <3>2. child'[k] = [child[k] EXCEPT !.inbuf = b]
        BY <3>1, Zenon
      <3>. QED  BY <2>2, <3>2 DEF Children
    <2>5. CASE ChildReads(k)
      BY <2>2, <2>5 DEF ChildReads, Children
    <2>6. CASE ChildPrints(k)
      <3>1. child'[k] = [child[k] EXCEPT !.printed = @ + 1]
        BY <2>6, Zenon DEF ChildPrints
      <3>. QED  BY <2>2, <3>1 DEF Children
    <2>. QED
      BY <1>5, <2>3, <2>4, <2>5, <2>6 DEF ChildStep, ChildExits, ChildSeesClose,
           ChildKilled
  <1>. QED
    BY <1>1, <1>2, <1>4, <1>5, NothingDisturbs DEF Next, Finished, vars
-----------------------------------------------------------------------------
(***************************************************************************)
(* The library sends to the child, and returns from a solve.               *)
(***************************************************************************)
\* A child stands ready: an old one that has read part of the cube, or a new
\* one for which the fork was made.
LEMMA ChildReady ==
    ASSUME Context,
           \/ lpc = "idle" /\ ~NeedsFork(lib)
           \/ lpc = "fork" /\ ~ForkPending
    PROVE  /\ kids \in Pids /\ Running(kids) /\ child[kids].state # "WORKING"
           /\ child[kids].formula = Added(lib)
           /\ ToRead \in Seq(Messages)
           /\ \A i \in 1..Len(ToRead) : ToRead[i].type = "LITERAL"
           /\ cube = child[kids].cube \cup LitsOf(ToRead)
           /\ Callback => \A i \in 1..Len(out) : out[i] = 0
           /\ ret = NoResult
  <1>. QuestionInv
    BY DEF Context
  <1>1. /\ Callback => \A i \in 1..Len(out) : out[i] = 0
        /\ ret = NoResult
    BY DEF QuestionInv, LinesInv, ResultInv
  <1>2. CASE lpc = "idle" /\ ~NeedsFork(lib)
    <2>1. Asked /\ kids \in Pids
      BY <1>2, Situation DEF Asked
    <2>2. Running(kids) /\ child[kids].state # "WORKING"
      BY <1>2, <2>1 DEF QuestionInv, AskedInv
    <2>3. /\ child[kids].formula = Added(lib) /\ CubeMessages(ToRead)
          /\ cube = child[kids].cube \cup LitsOf(ToRead)
      BY <2>1, <2>2 DEF QuestionInv, AskedInv
    <2>4. \A i \in 1..Len(ToRead) : ToRead[i].type = "LITERAL"
      BY <1>2, <2>3 DEF CubeMessages
    <2>. QED  BY <1>1, <2>1, <2>2, <2>3, <2>4, Situation
  <1>3. CASE lpc = "fork" /\ ~ForkPending
    <2>1. /\ cube = {} /\ Contents(cstream) = <<>>
          /\ kids > 0 /\ Newborn(child[kids])
      BY <1>3 DEF QuestionInv, UnaskedInv, Unasked
    <2>2. ToRead = <<>>
      BY <2>1, ConcatEmptySeq DEF ToRead, Newborn
    <2>3. LitsOf(ToRead) = {} /\ Len(ToRead) = 0
      BY <2>2, LitsEmpty
    <2>. QED
      BY <1>1, <2>1, <2>2, <2>3, Situation DEF Newborn, Running
  <1>. QED  BY <1>2, <1>3

\* quapi_assume sends a unit clause to this child ...
LEMMA AssumptionSent ==
    ASSUME Context, NEW lit \in Lits, SendAssumption(lit),
           UNCHANGED <<child, kids, out, ret>>,
           \/ lpc = "idle" /\ ~NeedsFork(lib)
           \/ lpc = "fork" /\ ~ForkPending
    PROVE  AskedInv' /\ UnaskedInv' /\ LinesInv' /\ ResultInv'
  <1>. DEFINE one == Append(ToRead, Literal(lit))
              two == Append(one, Literal(0))
  <1>1. /\ kids \in Pids /\ Running(kids) /\ child[kids].state # "WORKING"
        /\ child[kids].formula = Added(lib)
        /\ ToRead \in Seq(Messages)
        /\ \A i \in 1..Len(ToRead) : ToRead[i].type = "LITERAL"
        /\ cube = child[kids].cube \cup LitsOf(ToRead)
        /\ Callback => \A i \in 1..Len(out) : out[i] = 0
        /\ ret = NoResult
    BY ChildReady
  <1>2. /\ lit \in Int /\ lit # 0 /\ Literal(lit) \in Messages
        /\ Literal(0) \in Messages
        /\ lib \in Solvers /\ cstream \in Streams
        /\ child[kids].inbuf \in Seq(Messages)
    BY <1>1, QuapiAssumption, MessageType, Situation DEF Children
  <1>3. /\ lpc' = "idle" /\ Added(lib') = Added(lib) /\ ~NeedsFork(lib')
        /\ cube' = cube \cup {lit}
    <2>1. lpc' = "idle" /\ lib' = AfterAssume(lib) /\ cube' = cube \cup {lit}
      BY DEF SendAssumption
    <2>2. AfterAssume(lib).state = "INPUT_ASSUMPTIONS"
      BY <1>2 DEF AfterAssume, Solvers
    <2>. QED  BY <1>2, <2>1, <2>2, AddedKept DEF NeedsFork
  <1>4. ToRead' = two
    <2>1. Contents(cstream')
            = Append(Append(Contents(cstream), Literal(lit)), Literal(0))
      <3>1. quapi_write_msg_to_file(cstream, Literal(lit)) \in Streams
        BY <1>2, StreamType
      <3>. QED  BY <1>2, <3>1, ContentsWritten DEF SendAssumption
    <2>. DEFINE b == child[kids].inbuf
                c == Contents(cstream)
    <2>2. c \in Seq(Messages)
      BY Situation
    <2>3. ASSUME NEW s \in Seq(Messages), NEW m \in Messages
          PROVE  b \o Append(s, m) = Append(b \o s, m)
      <3>. HIDE DEF b
      <3>1. b \in Seq(Messages)
        BY <1>2 DEF b
      <3>. QED  BY <3>1
    <2>4. Append(c, Literal(lit)) \in Seq(Messages)
      BY <1>2, <2>2
    <2>. HIDE DEF b, c
    <2>5. b \o Append(Append(c, Literal(lit)), Literal(0))
            = Append(Append(b \o c, Literal(lit)), Literal(0))
      BY <1>2, <2>2, <2>3, <2>4
    <2>. QED  BY <2>1, <2>5 DEF b, c, ToRead
  <1>5. LitsOf(two) = LitsOf(ToRead) \cup {lit}
    <2>1. LitOf(Literal(lit)) = {lit} /\ LitOf(Literal(0)) = {}
      BY <1>2 DEF LitOf, Literal, Msg
    <2>2. one \in Seq(Messages)
      BY <1>1, <1>2
    <2>. QED  BY <1>1, <1>2, <2>1, <2>2, LitsAppend
  <1>6. \A i \in 1..Len(two) : two[i].type = "LITERAL"
    <2>1. Literal(lit).type = "LITERAL" /\ Literal(0).type = "LITERAL"
      BY DEF Literal, Msg
    <2>2. /\ one \in Seq(Messages) /\ Len(one) = Len(ToRead) + 1
          /\ \A i \in 1..Len(one) : one[i].type = "LITERAL"
      BY <1>1, <1>2, <2>1
    <2>. HIDE DEF one
    <2>. QED  BY <1>2, <2>1, <2>2
  <1>. HIDE DEF one, two
  <1>7. AskedInv'
    <2>1. Running(kids)' /\ child'[kids'].state # "WORKING"
      BY <1>1 DEF Running
    <2>2. CubeMessages(ToRead)'
      BY <1>4, <1>6 DEF CubeMessages
    <2>. QED  BY <1>1, <1>3, <1>4, <1>5, <2>1, <2>2 DEF AskedInv
  <1>8. UnaskedInv'
    BY <1>3 DEF UnaskedInv, Unasked
  <1>9. LinesInv'
    BY <1>1 DEF LinesInv
  <1>10. ResultInv'
    BY <1>1, <1>3 DEF Context, QuestionInv, ResultInv, SolveSound
  <1>. QED  BY <1>7, <1>8, <1>9, <1>10

\* ... and quapi_solve sends SOLVE behind the cube.
LEMMA SolveSent ==
    ASSUME Context, SendSolve, UNCHANGED <<child, kids, out, ret>>,
           \/ lpc = "idle" /\ ~NeedsFork(lib)
           \/ lpc = "fork" /\ ~ForkPending
    PROVE  AskedInv' /\ UnaskedInv' /\ LinesInv' /\ ResultInv'
  <1>. DEFINE q == Append(ToRead, Solve)
  <1>1. /\ kids \in Pids /\ Running(kids) /\ child[kids].state # "WORKING"
        /\ child[kids].formula = Added(lib)
        /\ ToRead \in Seq(Messages)
        /\ \A i \in 1..Len(ToRead) : ToRead[i].type = "LITERAL"
        /\ cube = child[kids].cube \cup LitsOf(ToRead)
        /\ Callback => \A i \in 1..Len(out) : out[i] = 0
        /\ ret = NoResult
    BY ChildReady
  <1>2. /\ Solve \in Messages /\ lib \in Solvers /\ cstream \in Streams
        /\ child[kids].inbuf \in Seq(Messages)
        /\ Contents(cstream) \in Seq(Messages)
    BY <1>1, MessageType, Situation DEF Children
  <1>3. /\ lpc' = "poll" /\ Added(lib') = Added(lib) /\ cube' = cube
    BY <1>2, AddedKept DEF SendSolve
  <1>4. ToRead' = q
    <2>1. Contents(cstream') = Append(Contents(cstream), Solve)
      BY <1>2, ContentsWritten DEF SendSolve
    <2>. DEFINE b == child[kids].inbuf
                c == Contents(cstream)
    <2>2. b \in Seq(Messages) /\ c \in Seq(Messages)
      BY <1>2
    <2>. HIDE DEF b, c
    <2>3. b \o Append(c, Solve) = Append(b \o c, Solve)
      BY <1>2, <2>2
    <2>. QED  BY <2>1, <2>3 DEF b, c, ToRead
  <1>5. LitsOf(q) = LitsOf(ToRead)
    <2>1. LitOf(Solve) = {}
      BY DEF LitOf, Solve, Msg
    <2>. QED  BY <1>1, <1>2, <2>1, LitsAppend
  <1>6. \A i \in 1..Len(q) :
           q[i].type = "LITERAL" \/ (q[i] = Solve /\ i = Len(q))
    BY <1>1, <1>2
  <1>. HIDE DEF q
  <1>7. AskedInv'
    <2>1. Running(kids)' /\ child'[kids'].state # "WORKING"
      BY <1>1 DEF Running
    <2>2. CubeMessages(ToRead)'
      BY <1>3, <1>4, <1>6 DEF CubeMessages
    <2>. QED  BY <1>1, <1>3, <1>4, <1>5, <2>1, <2>2 DEF AskedInv
  <1>8. UnaskedInv'
    BY <1>3 DEF UnaskedInv, Unasked
  <1>9. LinesInv'
    BY <1>1 DEF LinesInv
  <1>10. ResultInv'
    BY <1>1, <1>3 DEF Context, QuestionInv, ResultInv, SolveSound
  <1>. QED  BY <1>7, <1>8, <1>9, <1>10

\* A solve returns once its child has read everything, with the answer to the
\* question or with a code that says nothing.
LEMMA Returned ==
    ASSUME Context, lpc = "poll", NEW code, SolveReturns(code),
           UNCHANGED <<cstream, child, kids>>,
           code \in {10, 20} => code = Verdict(Added(lib), cube),
           Contents(cstream) = <<>>,
           Running(kids) => Done(child[kids]),
           Callback => \A i \in 1..Len(out') : out'[i] = 0
    PROVE  AskedInv' /\ UnaskedInv' /\ LinesInv' /\ ResultInv'
  <1>1. /\ lpc' = "idle" /\ cube' = {} /\ lib' = DropAssumptions(lib)
        /\ ret' = [code |-> code, cube |-> cube, formula |-> Added(lib)]
    BY DEF SolveReturns, Added
  <1>2. NeedsFork(lib')
    BY <1>1, Situation DEF NeedsFork, DropAssumptions, Solvers
  <1>3. AskedInv'
    BY <1>1, <1>2 DEF AskedInv, Asked
  <1>4. UnaskedInv'
    <2>1. \A k \in Pids : Running(k) => Done(child[k])
      BY Situation
    <2>2. \A k \in Pids : Running(k)' => Done(child[k])'
      BY <2>1 DEF Running, Done
    <2>. QED  BY <1>1, <2>2 DEF UnaskedInv
  <1>5. LinesInv'
    BY DEF LinesInv
  <1>6. ResultInv'
    BY <1>1, <1>2 DEF ResultInv, SolveSound
  <1>. QED  BY <1>3, <1>4, <1>5, <1>6

\* The message the poll loop reads is the exit code of the child of this solve.
LEMMA ExitRead ==
    ASSUME Context, lpc = "poll", toParent # <<>>
    PROVE  /\ Head(toParent) = ExitCode(Expected) /\ ~Running(kids)
           /\ Contents(cstream) = <<>>
  <1>1. Asked /\ kids \in Pids /\ solverchild_pid = kids
    BY Situation DEF Asked
  <1>2. child[kids].status = "reaped" /\ toParent = <<ExitCode(child[kids].code)>>
    <2>1. OwnExitCode
      BY SyncExit DEF Context
    <2>. QED  BY <1>1, <2>1, Situation DEF OwnExitCode
  <1>3. ~Running(kids)
    BY <1>2 DEF Running
  <1>4. child[kids].code = Expected /\ Contents(cstream) = <<>>
    BY <1>1, <1>3 DEF Context, QuestionInv, AskedInv
  <1>. QED  BY <1>2, <1>3, <1>4

\* The steps of the library's thread.
LEMMA LibraryAnswers ==
    ASSUME Context, LibraryStep
    PROVE  AskedInv' /\ UnaskedInv' /\ LinesInv' /\ ResultInv'
  <1>. USE DEF libvars, procvars, clientvars
  <1>. QuestionInv /\ Undisturbed
    BY DEF Context
  <1>a. UNCHANGED <<child, kids, seed, evfd>>
    BY ChildrenLeftAlone
  <1>b. \A k \in Pids : /\ child'[k].status = "running" <=> Running(k)
                        /\ child'[k] = child[k]
    BY <1>a DEF Running
  <1>1. CASE quapi_init
    <2>1. /\ lpc = "init" /\ lpc' \in {"idle", "released"} /\ NeedsFork(lib)
          /\ lpc' = "idle" => cstream' = cstream
          /\ UNCHANGED <<lib, cube, out, ret>>
      BY <1>1, Situation DEF quapi_init, CloseStreams, MessagesInStep
    <2>2. AskedInv'
      BY <2>1 DEF AskedInv, Asked
    <2>3. UnaskedInv'
      <3>1. /\ cube = {} /\ Contents(cstream) = <<>>
            /\ \A k \in Pids : Running(k) => Done(child[k])
        BY <2>1 DEF QuestionInv, UnaskedInv, Unasked
      <3>2. \A k \in Pids : Running(k)' => Done(child[k])'
        BY <1>a, <3>1 DEF Running, Done
      <3>. QED  BY <2>1, <3>1, <3>2 DEF UnaskedInv, Unasked
    <2>4. LinesInv'
      BY <2>1 DEF QuestionInv, LinesInv
    <2>5. ResultInv'
      BY <2>1 DEF QuestionInv, ResultInv, SolveSound
    <2>. QED  BY <2>2, <2>3, <2>4, <2>5
  <1>2. CASE DrainMessage
    BY <1>2, <1>a, <1>b, SameQuestion DEF DrainMessage, ForkPending
  <1>3. CASE ReadForkReport
    <2>1. lpc = "fork" /\ ~ForkPending
      <3>1. ~NoReport
        BY <1>3, TailReports, Situation
           DEF ReadForkReport, NoReport, NoReportIn, TypeOK
      <3>. QED  BY <1>3, <3>1, Situation DEF ReadForkReport, CoreInv, OneFork
    <2>2. UNCHANGED <<child, kids, out, ret>>
      BY <1>3 DEF ReadForkReport
    <2>3. CASE call = 0
      BY <1>3, <2>1, <2>2, <2>3, SolveSent DEF ReadForkReport
    <2>4. CASE call # 0
      <3>1. call \in Lits /\ SendAssumption(call)
        BY <1>3, <2>1, <2>4 DEF ReadForkReport, QuestionInv, ResultInv
      <3>. QED  BY <2>1, <2>2, <3>1, AssumptionSent
    <2>. QED  BY <2>3, <2>4
  <1>4. CASE S_POLL
    BY <1>4, <1>a, <1>b, SameQuestion DEF S_POLL, ForkPending
  <1>5. CASE S_HANDLE_CHILD
    <2>1. /\ lpc = "poll" /\ toParent # <<>>
          /\ Head(toParent) = ExitCode(Expected) /\ ~Running(kids)
          /\ Contents(cstream) = <<>>
          /\ UNCHANGED <<cstream, out, call>>
      BY <1>5, ExitRead DEF S_HANDLE_CHILD
    <2>2. ExitCode(Expected).type = "EXIT_CODE" /\ ExitCode(Expected).data = Expected
      BY DEF ExitCode, Msg
    <2>3. CASE AwaitsCallback(Head(toParent))
      BY <1>5, <1>a, <1>b, <2>3, SameQuestion DEF S_HANDLE_CHILD
    <2>4. CASE ~AwaitsCallback(Head(toParent))
      <3>1. SolveReturns(Expected)
        BY <1>5, <2>1, <2>2, <2>4 DEF S_HANDLE_CHILD
      <3>2. Callback => \A i \in 1..Len(out') : out'[i] = 0
        <4>. SUFFICES ASSUME Callback PROVE \A i \in 1..Len(out) : out[i] = 0
          BY <2>1
        <4>1. Expected # 0
          BY <2>1, <2>2, <2>4 DEF AwaitsCallback
        <4>2. "code" \in ReportsBy
          BY <4>1 DEF Expected
        <4>3. "line" \notin ReportsBy
          BY <4>2, QuapiAssumption DEF Undisturbed
        <4>. QED  BY <4>3 DEF QuestionInv, LinesInv
      <3>3. Expected \in {10, 20} => Expected = Verdict(Added(lib), cube)
        BY DEF Expected
      <3>. QED  BY <1>a, <2>1, <3>1, <3>2, <3>3, Returned
    <2>. QED  BY <2>3, <2>4
  <1>6. CASE S_HANDLE_SOLVERCHILD
    <2>1. /\ lpc = "poll" /\ Callback /\ out' = <<>>
          /\ UNCHANGED <<cstream, call>>
      BY <1>6 DEF S_HANDLE_SOLVERCHILD, QuestionInv, ProcessInv
    <2>2. CASE UNCHANGED <<lpc, lib, cube, ret>>
      BY <1>a, <1>b, <2>1, <2>2, SameQuestion
    <2>3. ASSUME NEW i \in AnswerLines, SolveReturns(out[i])
          PROVE  AskedInv' /\ UnaskedInv' /\ LinesInv' /\ ResultInv'
      <3>1. i \in 1..Len(out) /\ out[i] # 0
        BY DEF AnswerLines
      <3>2. /\ out[i] = Verdict(Added(lib), cube)
            /\ Running(kids) => Done(child[kids])
        BY <2>1, <3>1 DEF QuestionInv, LinesInv
      <3>3. Contents(cstream) = <<>>
        <4>1. Asked /\ kids \in Pids
          BY <2>1, Situation DEF Asked
        <4>2. CASE ~Running(kids)
          BY <4>1, <4>2 DEF QuestionInv, AskedInv
        <4>3. CASE Running(kids)
          <5>1. ToRead = <<>>
            BY <3>2, <4>1, <4>3 DEF QuestionInv, AskedInv, Done
          <5>2. /\ child[kids].inbuf \in Seq(Messages)
                /\ Contents(cstream) \in Seq(Messages)
            BY <4>1, Situation DEF Children
          <5>. QED  BY <5>1, <5>2, ConcatProperties DEF ToRead
        <4>. QED  BY <4>2, <4>3
      <3>4. \A j \in 1..Len(out') : out'[j] = 0
        BY <2>1
      <3>. QED  BY <1>a, <2>1, <2>3, <3>2, <3>3, <3>4, Returned
    <2>. QED  BY <1>6, <2>2, <2>3 DEF S_HANDLE_SOLVERCHILD
  <1>. QED
    BY <1>1, <1>2, <1>3, <1>4, <1>5, <1>6, NothingDisturbs DEF LibraryStep

\* make_solvable: the request goes out when nothing is left of the last solve.
LEMMA ForkRequested ==
    ASSUME Context, lpc = "idle", NEW c \in Lits \cup {0}, RequestFork(c),
           UNCHANGED <<child, kids, out>>
    PROVE  AskedInv' /\ UnaskedInv' /\ LinesInv' /\ ResultInv'
  <1>. DEFINE m == Fork(IF Regex THEN 0 ELSE 1)
  <1>1. /\ lpc' = "fork" /\ call' = c /\ ret' = NoResult /\ NeedsFork(lib)
        /\ UNCHANGED <<cstream, cube>>
    BY DEF RequestFork
  <1>2. ForkPending'
    <2>1. m \in Messages /\ m.type = "FORK"
      BY MessageType DEF Fork, Msg
    <2>2. wstream' = quapi_write_msg_to_file(wstream, m)
      BY DEF RequestFork
    <2>. HIDE DEF m
    <2>3. wstream \in Streams /\ NoFork(wstream.buf) /\ NoFork(wstream.pipe)
      BY ForkFree, Situation DEF CoreInv, TypeOK
    <2>4. /\ wstream'.pipe \in Seq(Messages) /\ Len(wstream'.pipe) >= 1
          /\ wstream'.pipe[Len(wstream'.pipe)] = m
      BY <2>1, <2>2, <2>3, WriteFork
    <2>5. Len(wstream'.pipe) \in 1..Len(wstream'.pipe)
      BY <2>4
    <2>. QED  BY <2>1, <2>4, <2>5 DEF ForkPending
  <1>3. AskedInv'
    BY <1>1 DEF AskedInv, Asked
  <1>4. UnaskedInv'
    <2>1. /\ cube = {} /\ Contents(cstream) = <<>>
          /\ \A k \in Pids : Running(k) => Done(child[k])
      BY <1>1 DEF Context, QuestionInv, UnaskedInv, Unasked
    <2>2. \A k \in Pids : Running(k)' => Done(child[k])'
      BY <2>1 DEF Running, Done
    <2>. QED  BY <1>1, <1>2, <2>1, <2>2 DEF UnaskedInv
  <1>5. LinesInv'
    BY DEF Context, QuestionInv, LinesInv
  <1>6. ResultInv'
    BY <1>1 DEF ResultInv, SolveSound, NoResult
  <1>. QED  BY <1>3, <1>4, <1>5, <1>6

\* The calls of the client.
LEMMA ClientAnswers ==
    ASSUME Context, ClientStep
    PROVE  AskedInv' /\ UnaskedInv' /\ LinesInv' /\ ResultInv'
  <1>. USE DEF libvars, procvars, clientvars
  <1>. QuestionInv
    BY DEF Context
  <1>a. UNCHANGED <<child, kids>>
    BY ChildrenLeftAlone
  <1>1. ASSUME NEW lit \in {1, 0}, quapi_add(lit)
        PROVE  AskedInv' /\ UnaskedInv' /\ LinesInv' /\ ResultInv'
    <2>1. /\ lpc = "idle" /\ NeedsFork(lib) /\ lib' = AfterAdd(lib, lit)
          /\ UNCHANGED <<lpc, call, cstream, out, cube, ret>>
      BY <1>1 DEF quapi_add, CanAdd, NeedsFork
    <2>2. NeedsFork(lib')
      BY <2>1, Situation DEF NeedsFork, AfterAdd, Solvers
    <2>3. AskedInv'
      BY <2>1, <2>2 DEF AskedInv, Asked
    <2>4. UnaskedInv'
      <3>1. /\ cube = {} /\ Contents(cstream) = <<>>
            /\ \A k \in Pids : Running(k) => Done(child[k])
        BY <2>1 DEF QuestionInv, UnaskedInv, Unasked
      <3>2. \A k \in Pids : Running(k)' => Done(child[k])'
        BY <1>a, <3>1 DEF Running, Done
      <3>. QED  BY <2>1, <3>1, <3>2 DEF UnaskedInv
    <2>5. LinesInv'
      BY <2>1 DEF QuestionInv, LinesInv
    <2>6. ResultInv'
      BY <2>1, <2>2 DEF QuestionInv, ResultInv, SolveSound
    <2>. QED  BY <2>3, <2>4, <2>5, <2>6
  <1>2. ASSUME NEW lit \in Lits, quapi_assume(lit)
        PROVE  AskedInv' /\ UnaskedInv' /\ LinesInv' /\ ResultInv'
    <2>1. lpc = "idle" /\ out' = out
      BY <1>2 DEF quapi_assume
    <2>2. CASE RequestFork(lit)
      BY <1>a, <2>1, <2>2, ForkRequested
    <2>3. CASE ~NeedsFork(lib) /\ SendAssumption(lit) /\ UNCHANGED ret
      BY <1>a, <2>1, <2>3, AssumptionSent
    <2>. QED  BY <1>2, <2>2, <2>3 DEF quapi_assume
  <1>3. CASE quapi_solve
    <2>1. lpc = "idle" /\ out' = out
      BY <1>3 DEF quapi_solve
    <2>2. CASE RequestFork(0)
      BY <1>a, <2>1, <2>2, ForkRequested
    <2>3. CASE ~NeedsFork(lib) /\ SendSolve /\ UNCHANGED ret
      BY <1>a, <2>1, <2>3, SolveSent
    <2>. QED  BY <1>3, <2>2, <2>3 DEF quapi_solve
  <1>4. CASE quapi_release
    <2>1. lpc' = "released" /\ lpc = "idle" /\ UNCHANGED <<out, ret, lib>>
      BY <1>4 DEF quapi_release, CloseStreams
    <2>. QED
      BY <2>1 DEF AskedInv, Asked, UnaskedInv, Unasked, QuestionInv, LinesInv,
                  ResultInv, SolveSound
  <1>. QED
    BY <1>1, <1>2, <1>3, <1>4, NothingDisturbs DEF ClientStep
-----------------------------------------------------------------------------
(***************************************************************************)
(* The seed forks, and the child works.                                    *)
(***************************************************************************)
\* The new child starts from the clauses the client has added.
LEMMA SeedAnswers ==
    ASSUME Context, SeedStep
    PROVE  AskedInv' /\ UnaskedInv' /\ LinesInv' /\ ResultInv'
  <1>. USE DEF libvars, procvars, clientvars
  <1>. QuestionInv
    BY DEF Context
  <1>a. UNCHANGED <<lpc, call, lib, cube, ret, cstream, out>>
    BY DEF SeedStep, SeedStarts, SeedReads, SeedForks, SeedReports, SeedReaps,
           SeedExits
  <1>b. ASSUME UNCHANGED <<child, kids>>,
               lpc = "fork" => (ForkPending' <=> ForkPending)
        PROVE  AskedInv' /\ UnaskedInv' /\ LinesInv' /\ ResultInv'
    BY <1>a, <1>b, SameQuestion DEF Running
  <1>1. CASE SeedStarts
    <2>1. lpc # "fork"
      BY <1>1, Situation DEF SeedStarts, MessagesInStep
    <2>. QED  BY <1>1, <1>b, <2>1 DEF SeedStarts
  <1>2. CASE SeedReads
    <2>1. ForkPending' <=> ForkPending
      BY <1>2, ForkStays, Situation DEF SeedReads
    <2>. QED  BY <1>2, <1>b, <2>1 DEF SeedReads
  <1>3. CASE SeedReports \/ SeedExits
    BY <1>3, <1>b DEF SeedReports, SeedExits, ForkPending
  <1>4. CASE SeedReaps
    <2>1. kids \in Pids /\ child[kids].status = "zombie"
      BY <1>4, Situation DEF SeedReaps, CoreInv, ReportsChild
    <2>. DEFINE c == [child[kids] EXCEPT !.status = "reaped"]
    <2>2. child' = [child EXCEPT ![kids] = c]
      BY <1>4, Zenon DEF SeedReaps
    <2>3. c.status = "reaped" /\ c.code = child[kids].code
      BY <2>1, Situation DEF Children
    <2>. HIDE DEF c
    <2>4. /\ child'[kids] = c
          /\ \A k \in Pids : k # kids => child'[k] = child[k]
      BY <2>1, <2>2, Situation
    <2>5. \A k \in Pids : /\ child'[k].status = "running" <=> Running(k)
                          /\ Running(k) => child'[k] = child[k]
                          /\ child'[k].code = child[k].code
      BY <2>1, <2>3, <2>4 DEF Running
    <2>6. kids' = kids /\ (ForkPending' <=> ForkPending)
      BY <1>4 DEF SeedReaps, ForkPending
    <2>. QED  BY <1>a, <2>5, <2>6, SameQuestion
  <1>5. CASE SeedForks
    <2>1. ForkPending /\ ~ForkPending'
      BY <1>5, TailFork, Situation DEF SeedForks, ForkPending
    <2>2. lpc = "fork"
      BY <2>1, Situation DEF CoreInv, ForkIsLast, ForkPending
    <2>3. kids + 1 \in Pids /\ kids' = kids + 1
      <3>1. kids' \in 0..MaxKids
        BY <1>5, NextType, Situation DEF CoreInv, TypeOK, Next, SeedStep
      <3>2. kids' = kids + 1 /\ kids \in Nat
        BY <1>5, Situation DEF SeedForks, TypeOK
      <3>. QED  BY <3>1, <3>2 DEF Pids
    <2>. DEFINE c == [Unborn EXCEPT !.status = "running",
                                    !.state = seed.state,
                                    !.formula = seed.written_clauses,
                                    !.written_clauses = seed.written_clauses]
    <2>4. child'[kids + 1] = c
      BY <1>5, <2>3, Situation DEF SeedForks
    <2>5. /\ c.status = "running" /\ c.state = seed.state
          /\ c.formula = seed.written_clauses /\ c.cube = {} /\ c.inbuf = <<>>
      BY DEF Unborn
    <2>. HIDE DEF c
    <2>6. seed.written_clauses = Added(lib)
      BY <1>5, ForkClauses DEF Context
    <2>7. seed.state # "WORKING"
      BY DEF Context, ClauseInv, ClauseOrder
    <2>8. kids' > 0 /\ Newborn(child[kids])'
      BY <1>a, <2>3, <2>4, <2>5, <2>6, <2>7 DEF Newborn, Pids
    <2>9. UnaskedInv'
      <3>1. cube = {} /\ Contents(cstream) = <<>>
        BY <2>2 DEF QuestionInv, UnaskedInv, Unasked
      <3>. QED  BY <1>a, <2>1, <2>2, <2>8, <3>1 DEF UnaskedInv
    <2>10. AskedInv'
      BY <1>a, <2>2 DEF AskedInv, Asked
    <2>11. LinesInv'
      BY <1>a, <2>2 DEF QuestionInv, LinesInv
    <2>12. ResultInv'
      BY <1>a DEF QuestionInv, ResultInv, SolveSound
    <2>. QED  BY <2>9, <2>10, <2>11, <2>12
  <1>. QED  BY <1>1, <1>2, <1>3, <1>4, <1>5 DEF SeedStep

\* A running child is the one that stands ready or works, unless it has given
\* its answer by a line and only has to exit.
LEMMA WhoRuns ==
    ASSUME Context, NEW k \in Pids, Running(k)
    PROVE  /\ k = kids /\ child[k] \in Children
           /\ Asked \/ Unasked \/ lpc = "released"
           /\ Unasked => /\ Contents(cstream) = <<>>
                         /\ IF lpc = "fork" /\ ~ForkPending
                            THEN Newborn(child[k]) ELSE Done(child[k])
           /\ Asked => /\ child[k].formula = Added(lib)
                       /\ CubeMessages(ToRead) /\ ToRead \in Seq(Messages)
                       /\ cube = child[k].cube \cup LitsOf(ToRead)
                       /\ child[k].state = "WORKING" =>
                             lpc = "poll" /\ ToRead = <<>>
           /\ Callback /\ lpc = "poll" /\ ~Done(child[k]) =>
                 \A i \in 1..Len(out) : out[i] = 0
  <1>1. k = kids /\ child[k] \in Children
    BY Situation
  <1>2. lpc \in {"init", "idle", "fork", "poll", "released"}
    BY Situation DEF TypeOK
  <1>3. Asked \/ Unasked \/ lpc = "released"
    BY <1>2 DEF Asked, Unasked
  <1>4. Unasked => /\ Contents(cstream) = <<>>
                   /\ IF lpc = "fork" /\ ~ForkPending
                      THEN Newborn(child[k]) ELSE Done(child[k])
    BY <1>1 DEF Context, QuestionInv, UnaskedInv
  <1>5. Asked => /\ child[k].formula = Added(lib)
                 /\ CubeMessages(ToRead) /\ ToRead \in Seq(Messages)
                 /\ cube = child[k].cube \cup LitsOf(ToRead)
                 /\ child[k].state = "WORKING" => lpc = "poll" /\ ToRead = <<>>
    BY <1>1, Situation DEF Context, QuestionInv, AskedInv
  <1>6. Callback /\ lpc = "poll" /\ ~Done(child[k]) =>
            \A i \in 1..Len(out) : out[i] = 0
    BY <1>1 DEF Context, QuestionInv, LinesInv
  <1>. QED  BY <1>1, <1>3, <1>4, <1>5, <1>6

\* Only SOLVE sets a child to work.
LEMMA WorkBegins ==
    ASSUME NEW st \in PreloadStates, NEW m \in Messages, st # "WORKING",
           AdvanceState(st, m) = "WORKING"
    PROVE  m.type = "SOLVE"
  BY DEF AdvanceState, NextState, PreloadStates

\* A child that does not work yet moves on in the cube it has been sent.
LEMMA CubeRead ==
    ASSUME Context, NEW k \in Pids, Running(k), child[k].state # "WORKING",
           ~Unasked,
           UNCHANGED <<lpc, call, lib, cube, ret, out, kids>>,
           child'[k].status = "running",
           child'[k].formula = child[k].formula,
           Asked => /\ CubeMessages(ToRead')
                    /\ cube = child'[k].cube \cup LitsOf(ToRead')
                    /\ child'[k].state = "WORKING" =>
                          lpc = "poll" /\ ToRead' = <<>>
    PROVE  AskedInv' /\ UnaskedInv' /\ LinesInv' /\ ResultInv'
  <1>1. k = kids /\ (Asked => child[k].formula = Added(lib))
    BY WhoRuns
  <1>2. Running(kids)' /\ (Asked' <=> Asked) /\ ~Unasked'
    BY <1>1 DEF Running, Asked, Unasked
  <1>3. AskedInv'
    <2>. SUFFICES ASSUME Asked PROVE AskedInv'
      BY <1>2 DEF AskedInv
    <2>1. CubeMessages(ToRead)'
      BY DEF CubeMessages
    <2>. QED  BY <1>1, <1>2, <2>1 DEF AskedInv
  <1>4. UnaskedInv'
    BY <1>2 DEF UnaskedInv
  <1>5. LinesInv'
    <2>1. Callback /\ lpc = "poll" => \A i \in 1..Len(out) : out[i] = 0
      BY WhoRuns DEF Done
    <2>2. Callback /\ lpc # "poll" => \A i \in 1..Len(out) :
             out[i] # 0 => lpc = "released" /\ "line" \in ReportsBy
      BY DEF Context, QuestionInv, LinesInv
    <2>. QED  BY <2>1, <2>2 DEF LinesInv
  <1>6. ResultInv'
    BY DEF Context, QuestionInv, ResultInv, SolveSound
  <1>. QED  BY <1>3, <1>4, <1>5, <1>6

LEMMA FetchAnswers ==
    ASSUME Context, NEW k \in Pids, ChildFetches(k)
    PROVE  AskedInv' /\ UnaskedInv' /\ LinesInv' /\ ResultInv'
  <1>. USE DEF libvars, procvars, clientvars
  <1>. DEFINE p == cstream.pipe
              n == IF Len(p) < FileBuf THEN Len(p) ELSE FileBuf
              a == SubSeq(p, 1, n)
              z == SubSeq(p, n + 1, Len(p))
  <1>1. /\ Running(k) /\ child[k].state # "WORKING" /\ child[k].inbuf = <<>>
        /\ p # <<>> /\ child' = [child EXCEPT ![k].inbuf = a]
        /\ cstream' = [cstream EXCEPT !.pipe = z]
        /\ UNCHANGED <<lpc, call, lib, cube, ret, out, kids>>
    BY DEF ChildFetches
  <1>2. /\ p \in Seq(Messages) /\ cstream.buf \in Seq(Messages)
        /\ cstream \in Streams /\ child[k] \in Children /\ k = kids
    BY <1>1, Situation DEF Streams
  <1>3. n \in Nat /\ n <= Len(p)
    BY <1>2, FileBufAssumption
  <1>4. a \o (z \o cstream.buf) = <<>> \o (p \o cstream.buf)
    <2>. HIDE DEF n, p
    <2>. QED  BY <1>2, <1>3, FetchedStays
  <1>5. child'[k] = [child[k] EXCEPT !.inbuf = a]
    <2>. HIDE DEF a
    <2>. QED  BY <1>1, Situation, Zenon
  <1>6. cstream'.pipe = z /\ cstream'.buf = cstream.buf
    <2>. HIDE DEF z
    <2>. QED  BY <1>1, <1>2 DEF Streams
  <1>7. /\ child'[k].inbuf = a /\ child'[k].status = "running"
        /\ child'[k].formula = child[k].formula
        /\ child'[k].state = child[k].state /\ child'[k].cube = child[k].cube
    <2>. HIDE DEF a
    <2>. QED  BY <1>1, <1>2, <1>5 DEF Children, Running
  <1>. HIDE DEF a, z, n
  <1>8. ToRead' = ToRead
    BY <1>1, <1>2, <1>4, <1>6, <1>7 DEF ToRead, Contents
  <1>9. ~Unasked
    <2>1. Contents(cstream) # <<>>
      BY <1>1, <1>2, ContentsRead
    <2>. QED  BY <1>1, <2>1, WhoRuns
  <1>10. Asked => /\ CubeMessages(ToRead')
                  /\ cube = child'[k].cube \cup LitsOf(ToRead')
                  /\ child'[k].state = "WORKING" =>
                        lpc = "poll" /\ ToRead' = <<>>
    BY <1>1, <1>7, <1>8, WhoRuns
  <1>. QED  BY <1>1, <1>7, <1>9, <1>10, CubeRead

LEMMA ReadAnswers ==
    ASSUME Context, NEW k \in Pids, ChildReads(k)
    PROVE  AskedInv' /\ UnaskedInv' /\ LinesInv' /\ ResultInv'
  <1>. USE DEF libvars, procvars, clientvars
  <1>. DEFINE m == Head(child[k].inbuf)
              b == child[k].inbuf
  <1>1. /\ Running(k) /\ child[k].state # "WORKING" /\ b # <<>>
        /\ UNCHANGED <<lpc, call, lib, cube, ret, out, kids, cstream>>
    BY DEF ChildReads
  <1>2. /\ child[k] \in Children /\ k = kids /\ b \in Seq(Messages)
        /\ Contents(cstream) \in Seq(Messages)
        /\ m \in Messages /\ Tail(b) \in Seq(Messages)
        /\ child[k].state \in PreloadStates
    BY <1>1, WhoRuns, Situation, HeadTailProperties DEF Children
  <1>3. /\ child'[k].inbuf = Tail(b) /\ child'[k].status = "running"
        /\ child'[k].formula = child[k].formula
        /\ child'[k].state = AdvanceState(child[k].state, m)
        /\ child'[k].cube = child[k].cube \cup LitOf(m)
    BY <1>1, <1>2, Situation DEF ChildReads, Children, Running, LitOf
  <1>. HIDE DEF m
  <1>4. ToRead # <<>> /\ Head(ToRead) = m /\ ToRead' = Tail(ToRead)
    <2>. DEFINE c == Contents(cstream)
    <2>1. ToRead = b \o c /\ ToRead' = Tail(b) \o c /\ m = Head(b)
      BY <1>1, <1>2, <1>3 DEF ToRead, m
    <2>2. b \in Seq(Messages) /\ c \in Seq(Messages) /\ b # <<>>
      BY <1>1, <1>2
    <2>. HIDE DEF b, c
    <2>3. /\ b \o c \in Seq(Messages) /\ Len(b \o c) = Len(b) + Len(c)
          /\ Len(b) >= 1 /\ (b \o c)[1] = b[1] /\ b[1] = Head(b)
      BY <2>2
    <2>4. b \o c # <<>>
      BY <2>2, <2>3
    <2>5. Head(b \o c) = Head(b)
      BY <2>3, <2>4
    <2>6. Tail(b \o c) = Tail(b) \o c
      BY <2>2, <2>3, <2>4
    <2>. QED  BY <2>1, <2>4, <2>5, <2>6
  <1>5. ~Unasked
    BY <1>1, WhoRuns DEF Newborn, Done
  <1>6. ASSUME Asked
        PROVE  /\ CubeMessages(ToRead')
               /\ cube = child'[k].cube \cup LitsOf(ToRead')
               /\ child'[k].state = "WORKING" => lpc = "poll" /\ ToRead' = <<>>
    <2>1. /\ CubeMessages(ToRead) /\ ToRead \in Seq(Messages)
          /\ cube = child[k].cube \cup LitsOf(ToRead)
      BY <1>1, <1>6, WhoRuns
    <2>. DEFINE r == ToRead
                t == Tail(ToRead)
    <2>2. LitsOf(r) = LitOf(m) \cup LitsOf(t)
      BY <1>4, <2>1, LitsTail
    <2>3. /\ Len(t) = Len(r) - 1 /\ Len(r) \in Nat /\ Len(r) >= 1
          /\ \A i \in 1..Len(t) : t[i] = r[i + 1]
          /\ Head(r) = r[1] /\ t \in Seq(Messages)
      <3>1. r \in Seq(Messages) /\ r # <<>> /\ t = Tail(r)
        BY <1>4, <2>1
      <3>. HIDE DEF r, t
      <3>. QED  BY <3>1
    <2>. HIDE DEF r, t
    <2>4. \A i \in 1..Len(t) : \/ t[i].type = "LITERAL"
                               \/ t[i] = Solve /\ i = Len(t) /\ lpc = "poll"
      <3>1. \A i \in 1..Len(r) : \/ r[i].type = "LITERAL"
                                 \/ r[i] = Solve /\ i = Len(r) /\ lpc = "poll"
        BY <2>1 DEF CubeMessages, r
      <3>. TAKE i \in 1..Len(t)
      <3>2. i + 1 \in 1..Len(r) /\ t[i] = r[i + 1] /\ (i + 1 = Len(r) => i = Len(t))
        BY <2>3
      <3>. QED  BY <3>1, <3>2
    <2>5. ASSUME child'[k].state = "WORKING" PROVE lpc = "poll" /\ t = <<>>
      <3>1. m.type = "SOLVE"
        BY <1>1, <1>2, <1>3, <2>5, WorkBegins
      <3>2. 1 \in 1..Len(r) /\ r[1] = m
        BY <1>4, <2>3 DEF r
      <3>3. Len(r) = 1 /\ lpc = "poll"
        BY <2>1, <3>1, <3>2 DEF CubeMessages, r
      <3>4. Len(t) = Len(r) - 1 /\ t \in Seq(Messages)
        BY <2>3
      <3>5. Len(t) = 0
        BY <3>3, <3>4
      <3>. QED  BY <3>3, <3>4, <3>5
    <2>. QED
      BY <1>3, <1>4, <2>1, <2>2, <2>4, <2>5 DEF CubeMessages, r, t
  <1>. QED  BY <1>1, <1>3, <1>5, <1>6, CubeRead

\* The last line of a child that answers by a line is the answer.
LEMMA PrintAnswers ==
    ASSUME Context, NEW k \in Pids, ChildPrints(k)
    PROVE  AskedInv' /\ UnaskedInv' /\ LinesInv' /\ ResultInv'
  <1>. USE DEF libvars, procvars, clientvars
  <1>. DEFINE c == child[k]
              n == c.printed + 1
              line == IF c.printed < Chatter THEN 0 ELSE Answer(k)
  <1>1. /\ Running(k) /\ c.state = "WORKING" /\ c.printed < LinesToPrint
        /\ out' = Append(out, line)
        /\ UNCHANGED <<lpc, call, lib, cube, ret, kids, cstream, wstream>>
    BY DEF ChildPrints
  <1>2. /\ c \in Children /\ k = kids /\ out \in Seq(Int) /\ line \in Int
    BY <1>1, WhoRuns, Situation DEF TypeOK, Answer, Verdict
  <1>3. child'[k] = [c EXCEPT !.printed = n]
    BY Situation, Zenon DEF ChildPrints
  <1>. HIDE DEF n
  <1>4. /\ child'[k].printed = n /\ child'[k].status = "running"
        /\ child'[k].state = "WORKING" /\ child'[k].inbuf = c.inbuf
        /\ child'[k].formula = c.formula /\ child'[k].cube = c.cube
    BY <1>1, <1>2, <1>3 DEF Children, Running
  <1>5. ~Done(c) /\ ~Unasked
    <2>1. c.printed # LinesToPrint
      BY <1>1, <1>2, QuapiAssumption DEF LinesToPrint, Children
    <2>2. ~Done(c)
      BY <2>1 DEF Done
    <2>. QED  BY <1>1, <2>2, WhoRuns DEF Newborn
  <1>6. Running(kids)' /\ (Asked' <=> Asked) /\ ~Unasked'
    BY <1>1, <1>2, <1>4, <1>5 DEF Running, Asked, Unasked
  <1>7. Asked => /\ lpc = "poll" /\ ToRead = <<>> /\ ToRead' = <<>>
                 /\ c.formula = Added(lib) /\ cube = c.cube
    <2>1. Asked => /\ lpc = "poll" /\ ToRead = <<>> /\ c.formula = Added(lib)
                   /\ cube = c.cube \cup LitsOf(ToRead)
      BY <1>1, WhoRuns
    <2>2. ToRead' = ToRead
      BY <1>1, <1>2, <1>4 DEF ToRead
    <2>. QED  BY <2>1, <2>2, LitsEmpty
  <1>8. AskedInv'
    <2>. SUFFICES ASSUME Asked PROVE AskedInv'
      BY <1>6 DEF AskedInv
    <2>1. CubeMessages(ToRead)' /\ LitsOf(ToRead') = {}
      BY <1>7, LitsEmpty DEF CubeMessages
    <2>. QED  BY <1>1, <1>2, <1>4, <1>6, <1>7, <2>1 DEF AskedInv
  <1>9. UnaskedInv'
    BY <1>6 DEF UnaskedInv
  <1>10. line # 0 => "line" \in ReportsBy /\ line = Answer(k) /\ n = LinesToPrint
    BY <1>1, <1>2, QuapiAssumption DEF LinesToPrint, Children, n
  <1>. HIDE DEF line
  <1>11. /\ Len(out') = Len(out) + 1 /\ Len(out) \in Nat
         /\ out'[Len(out) + 1] = line
         /\ \A i \in 1..Len(out) : out'[i] = out[i]
    BY <1>1, <1>2
  <1>12. LinesInv'
    <2>. SUFFICES ASSUME Callback, NEW i \in 1..Len(out'), out'[i] # 0
                  PROVE  /\ lpc \in {"poll", "released"} /\ "line" \in ReportsBy
                         /\ lpc = "poll" =>
                               /\ out'[i] = Verdict(Added(lib), cube)
                               /\ Running(kids)' => Done(child[kids])'
      BY <1>1 DEF LinesInv
    <2>1. CASE i = Len(out) + 1
      <3>1. line # 0 /\ out'[i] = line
        BY <1>11, <2>1
      <3>2. lpc \in {"poll", "released"}
        BY <1>1, <1>5, <1>7, WhoRuns
      <3>3. lpc = "poll" => out'[i] = Verdict(Added(lib), cube)
        BY <1>7, <1>10, <3>1 DEF Answer, Asked
      <3>4. Done(child[kids])'
        BY <1>1, <1>2, <1>4, <1>10, <3>1 DEF Done
      <3>. QED  BY <1>10, <3>1, <3>2, <3>3, <3>4
    <2>2. CASE i \in 1..Len(out)
      <3>1. out[i] # 0
        BY <1>11, <2>2
      <3>2. /\ lpc \in {"poll", "released"} /\ "line" \in ReportsBy
        BY <2>2, <3>1 DEF Context, QuestionInv, LinesInv
      <3>3. lpc # "poll"
        BY <1>1, <1>5, <2>2, <3>1, WhoRuns
      <3>. QED  BY <3>2, <3>3
    <2>3. i \in 1..Len(out) \/ i = Len(out) + 1
      BY <1>11
    <2>. QED  BY <2>1, <2>2, <2>3
  <1>13. ResultInv'
    BY <1>1 DEF Context, QuestionInv, ResultInv, SolveSound
  <1>. QED  BY <1>8, <1>9, <1>12, <1>13

\* A child exits with the code for its question.
LEMMA ExitAnswers ==
    ASSUME Context, NEW k \in Pids, ChildExits(k) \/ ChildSeesClose(k)
    PROVE  AskedInv' /\ UnaskedInv' /\ LinesInv' /\ ResultInv'
  <1>. USE DEF libvars, procvars, clientvars
  <1>. DEFINE code == IF ChildExits(k) /\ "code" \in ReportsBy THEN Answer(k) ELSE 0
  <1>1. /\ Running(k)
        /\ ChildExits(k) => child[k].state = "WORKING"
        /\ ~ChildExits(k) => lpc = "released"
        /\ UNCHANGED <<lpc, call, lib, cube, ret, kids, cstream, wstream, out>>
        /\ ChildExits(k) => Dies(k, code)
        /\ \E x : Dies(k, x)
    BY DEF ChildExits, ChildSeesClose
  <1>. DEFINE dead(x) == [Unborn EXCEPT !.status = "zombie", !.code = x]
  <1>2. \A x : dead(x).status = "zombie" /\ dead(x).code = x
    BY DEF Unborn
  <1>3. /\ k = kids /\ child \in [Pids -> Children]
    BY <1>1, WhoRuns, Situation
  <1>4. \A x : Dies(k, x) => child' = [child EXCEPT ![k] = dead(x)]
    BY DEF Dies
  <1>. HIDE DEF dead, code
  <1>5. /\ child'[k].status = "zombie"
        /\ ChildExits(k) => child'[k].code = code
        /\ \A j \in Pids : j # k => child'[j] = child[j]
    BY <1>1, <1>2, <1>3, <1>4
  <1>6. \A j \in Pids : ~Running(j)'
    BY <1>3, <1>5, Situation DEF Running
  <1>7. ~Running(kids)'
    BY <1>1, <1>3, <1>6
  <1>8. AskedInv'
    <2>. SUFFICES ASSUME Asked PROVE AskedInv'
      BY <1>1 DEF AskedInv, Asked
    <2>1. ChildExits(k)
      BY <1>1 DEF Asked
    <2>2. /\ lpc = "poll" /\ ToRead = <<>> /\ child[k].formula = Added(lib)
          /\ cube = child[k].cube \cup LitsOf(ToRead)
      BY <1>1, <2>1, WhoRuns
    <2>3. code = Expected
      <3>1. cube = child[k].cube
        BY <2>2, LitsEmpty
      <3>2. Answer(k) = Verdict(Added(lib), cube)
        BY <2>2, <3>1 DEF Answer
      <3>. QED  BY <2>1, <3>2 DEF code, Expected
    <2>4. Contents(cstream) = <<>>
      <3>1. /\ child[kids].inbuf \in Seq(Messages)
            /\ Contents(cstream) \in Seq(Messages)
        BY <1>3, Situation DEF Children
      <3>. QED  BY <2>2, <3>1, ConcatProperties DEF ToRead
    <2>5. Expected' = Expected
      BY <1>1 DEF Expected
    <2>. QED
      BY <1>1, <1>3, <1>5, <1>7, <2>1, <2>2, <2>3, <2>4, <2>5 DEF AskedInv
  <1>9. UnaskedInv'
    <2>. SUFFICES ASSUME Unasked PROVE UnaskedInv'
      BY <1>1 DEF UnaskedInv, Unasked
    <2>1. ChildExits(k)
      BY <1>1 DEF Unasked
    <2>2. ~(lpc = "fork" /\ ~ForkPending)
      BY <1>1, <2>1, WhoRuns DEF Newborn
    <2>3. ForkPending' <=> ForkPending
      BY <1>1 DEF ForkPending
    <2>4. cube = {} /\ Contents(cstream) = <<>>
      BY DEF Context, QuestionInv, UnaskedInv
    <2>. QED  BY <1>1, <1>6, <2>2, <2>3, <2>4 DEF UnaskedInv
  <1>10. LinesInv'
    BY <1>1, <1>7 DEF Context, QuestionInv, LinesInv
  <1>11. ResultInv'
    BY <1>1 DEF Context, QuestionInv, ResultInv, SolveSound
  <1>. QED  BY <1>8, <1>9, <1>10, <1>11
-----------------------------------------------------------------------------
(***************************************************************************)
(* The theorems.                                                           *)
(***************************************************************************)
LEMMA InitAnswer == Init => AnswerInv
  <1>. SUFFICES ASSUME Init PROVE AnswerInv
    OBVIOUS
  <1>1. SyncInv /\ ClauseInv
    BY InitSync, InitClauses
  <1>2. /\ lpc = "init" /\ cube = {} /\ cstream = NoStream /\ out = <<>>
        /\ ret = NoResult /\ evfd = 0 /\ revents = {} /\ kids = 0
        /\ child = [k \in Pids |-> Unborn]
    BY DEF Init
  <1>3. Contents(cstream) = <<>>
    BY <1>2 DEF Contents, NoStream
  <1>4. \A k \in Pids : ~Running(k) /\ ~child[k].killed /\ child[k].state # "WORKING"
    BY <1>2 DEF Running, Unborn
  <1>5. ProcessInv /\ LinesInv
    BY <1>2, <1>4 DEF ProcessInv, LinesInv
  <1>6. AskedInv /\ UnaskedInv
    BY <1>2, <1>3, <1>4 DEF AskedInv, Asked, UnaskedInv, Unasked
  <1>7. ResultInv
    BY <1>2 DEF ResultInv, SolveSound, NoResult
  <1>. QED  BY <1>1, <1>5, <1>6, <1>7 DEF AnswerInv, QuestionInv

LEMMA NextAnswer == AnswerInv /\ [Next]_vars => AnswerInv'
  <1>. SUFFICES ASSUME AnswerInv, [Next]_vars PROVE AnswerInv'
    OBVIOUS
  <1>1. SyncInv' /\ ClauseInv'
    BY NextSync, NextClauses DEF AnswerInv
  <1>2. ASSUME Undisturbed PROVE QuestionInv'
    <2>1. Context
      BY <1>2 DEF AnswerInv, Context
    <2>2. ProcessInv'
      BY <2>1, NextUnkilled
    <2>. SUFFICES AskedInv' /\ UnaskedInv' /\ LinesInv' /\ ResultInv'
      BY <2>2 DEF QuestionInv
    <2>3. CASE UNCHANGED vars
      BY <2>1, <2>3, SameQuestion DEF vars, ForkPending, Running
    <2>4. ASSUME NEW k \in Pids, ChildStep(k)
          PROVE  AskedInv' /\ UnaskedInv' /\ LinesInv' /\ ResultInv'
      BY <2>1, <2>4, FetchAnswers, ReadAnswers, PrintAnswers, ExitAnswers,
         NothingDisturbs DEF ChildStep
    <2>. QED
      BY <2>1, <2>3, <2>4, LibraryAnswers, ClientAnswers, SeedAnswers,
         NothingDisturbs DEF Next, Finished
  <1>3. Undisturbed' <=> Undisturbed
    BY DEF Undisturbed
  <1>. QED  BY <1>1, <1>2, <1>3 DEF AnswerInv

LEMMA AlwaysAnswer == Spec => []AnswerInv
  BY InitAnswer, NextAnswer, PTL DEF Spec, Safety

\* The child that works for quapi_solve works on the clauses added so far and
\* on the assumptions made since the last solve: none is left over for the
\* next child, and none is read by the wrong one.
THEOREM WorksOnOwnQuestion ==
    ASSUME Undisturbed
    PROVE  Spec => []OwnQuestion
  <1>1. AnswerInv => OwnQuestion
    <2>. SUFFICES ASSUME AnswerInv,
                         lpc = "poll", child[solverchild_pid].state = "WORKING"
                  PROVE  /\ child[solverchild_pid].cube = cube
                         /\ child[solverchild_pid].formula = Added(lib)
      BY DEF OwnQuestion, Added
    <2>1. Context
      BY DEF AnswerInv, Context
    <2>2. Asked /\ kids \in Pids /\ solverchild_pid = kids
      BY <2>1, Situation DEF Asked
    <2>3. Running(kids)
      BY <2>1, <2>2 DEF Context, QuestionInv, ProcessInv
    <2>4. /\ child[kids].formula = Added(lib) /\ ToRead = <<>>
          /\ cube = child[kids].cube \cup LitsOf(ToRead)
      BY <2>1, <2>2, <2>3, WhoRuns
    <2>. QED  BY <2>2, <2>4, LitsEmpty
  <1>. QED  BY <1>1, AlwaysAnswer, PTL

\* quapi_solve never returns 10 for a question that is unsatisfiable, nor 20
\* for one that is satisfiable, whether the exit code or a line decides.
THEOREM AnswersAreSound ==
    ASSUME Undisturbed
    PROVE  Spec => []SolveSound
  <1>1. AnswerInv => SolveSound
    BY DEF AnswerInv, QuestionInv, ResultInv
  <1>. QED  BY <1>1, AlwaysAnswer, PTL
-----------------------------------------------------------------------------
(***************************************************************************)
(* Refinement, step by step: the processes implement IncrementalSolver.    *)
(***************************************************************************)
Solving == lpc = "poll" \/ (lpc = "fork" /\ call = 0)

\* Nothing the client can see has happened.
LEMMA Unseen ==
    ASSUME Added(lib') = Added(lib), UNCHANGED <<cube, ret>>, Solving' <=> Solving
    PROVE  UNCHANGED Contract!spec_vars
  <1>1. (lpc = "poll" \/ (lpc = "fork" /\ call = 0))'
          = (lpc = "poll" \/ (lpc = "fork" /\ call = 0))
    BY Zenon DEF Solving
  <1>. QED  BY <1>1 DEF Contract!spec_vars, Added

\* The steps of the interface, in terms of the library.
LEMMA Seen ==
    /\ /\ ~Solving /\ ~Solving' /\ Added(lib') = Added(lib) + 1
       /\ UNCHANGED <<cube, ret>>
       => Contract!AddClause
    /\ \A lit : /\ ~Solving /\ ~Solving' /\ Added(lib') = Added(lib)
                /\ cube' = cube \cup {lit} /\ UNCHANGED ret
                => Contract!Assume(lit)
    /\ /\ ~Solving /\ ~Solving' /\ Added(lib') = Added(lib)
       /\ UNCHANGED cube /\ ret' = NoResult
       => Contract!GoOn
    /\ /\ ~Solving /\ Solving' /\ Added(lib') = Added(lib)
       /\ UNCHANGED cube /\ ret' = NoResult
       => Contract!Call
    /\ /\ Solving /\ ~Solving' /\ Added(lib') = Added(lib) /\ cube' = {}
       /\ ret' = [code |-> Verdict(Added(lib), cube), formula |-> Added(lib),
                  cube |-> cube]
       => Contract!Answer
  <1>. DEFINE sol == lpc = "poll" \/ (lpc = "fork" /\ call = 0)
  <1>1. (sol <=> Solving) /\ (sol' <=> Solving')
    BY Zenon DEF Solving
  <1>2. ~Solving /\ ~Solving' => sol' = sol
    BY <1>1, Zenon
  <1>3. (Solving' => sol' = TRUE) /\ (~Solving' => sol' = FALSE)
    BY <1>1, Zenon
  <1>. HIDE DEF sol
  <1>. QED
    BY <1>1, <1>2, <1>3
       DEF sol, Added, NoResult, Contract!NoAnswer, Contract!AddClause,
           Contract!Assume, Contract!GoOn, Contract!Call, Contract!Answer

\* The counters without the cube, over the calls that keep them.
LEMMA CallsKeep ==
    ASSUME Context
    PROVE  /\ SendSolve => /\ Added(lib') = Added(lib) /\ cube' = cube
                           /\ lpc' = "poll"
           /\ \A lit : SendAssumption(lit) =>
                          /\ Added(lib') = Added(lib) /\ cube' = cube \cup {lit}
                          /\ lpc' = "idle"
           /\ \A c : RequestFork(c) =>
                        /\ Added(lib') = Added(lib) /\ cube' = cube
                        /\ lpc' = "fork" /\ call' = c /\ ret' = NoResult
           /\ \A c : SolveReturns(c) =>
                        /\ Added(lib') = Added(lib) /\ cube' = {}
                        /\ lpc' = "idle"
                        /\ ret' = [code |-> c, formula |-> Added(lib),
                                   cube |-> cube]
  BY Situation, AddedKept
     DEF SendSolve, SendAssumption, RequestFork, SolveReturns, Added

LEMMA LibraryImplements ==
    ASSUME Context, Reported, LibraryStep
    PROVE  [Contract!Next]_(Contract!spec_vars)
  <1>. USE DEF libvars, procvars, clientvars
  <1>. QuestionInv /\ Undisturbed
    BY DEF Context
  <1>1. CASE quapi_init
    BY <1>1, Unseen DEF quapi_init, CloseStreams, Solving
  <1>2. CASE DrainMessage
    BY <1>2, Unseen DEF DrainMessage, Solving
  <1>3. CASE S_POLL
    BY <1>3, Unseen DEF S_POLL, Solving
  <1>4. CASE ReadForkReport
    <2>1. lpc = "fork" /\ UNCHANGED <<call, ret>>
      BY <1>4 DEF ReadForkReport
    <2>2. CASE call = 0
      <3>1. SendSolve
        BY <1>4, <2>2 DEF ReadForkReport
      <3>2. Solving /\ Solving'
        BY <2>1, <2>2, <3>1, CallsKeep DEF Solving
      <3>. QED  BY <2>1, <3>1, <3>2, CallsKeep, Unseen
    <2>3. CASE call # 0
      <3>1. SendAssumption(call) /\ call \in Lits
        BY <1>4, <2>1, <2>3 DEF ReadForkReport, QuestionInv, ResultInv
      <3>2. ~Solving /\ ~Solving'
        BY <2>1, <2>3, <3>1, CallsKeep DEF Solving
      <3>3. Contract!Assume(call)
        BY <2>1, <3>1, <3>2, CallsKeep, Seen
      <3>. QED  BY <3>1, <3>3 DEF Contract!Next
    <2>. QED  BY <2>2, <2>3
  <1>5. CASE S_HANDLE_CHILD
    <2>1. /\ lpc = "poll" /\ toParent # <<>>
          /\ Head(toParent) = ExitCode(Expected) /\ UNCHANGED call
      BY <1>5, ExitRead DEF S_HANDLE_CHILD
    <2>2. ExitCode(Expected).type = "EXIT_CODE" /\ ExitCode(Expected).data = Expected
      BY DEF ExitCode, Msg
    <2>3. CASE AwaitsCallback(Head(toParent))
      BY <1>5, <2>3, Unseen DEF S_HANDLE_CHILD, Solving
    <2>4. CASE ~AwaitsCallback(Head(toParent))
      <3>1. SolveReturns(Expected)
        BY <1>5, <2>1, <2>2, <2>4 DEF S_HANDLE_CHILD
      <3>2. "code" \in ReportsBy
        BY <2>1, <2>2, <2>4 DEF AwaitsCallback, Expected, Reported
      <3>3. Expected = Verdict(Added(lib), cube)
        BY <3>2 DEF Expected
      <3>4. Solving /\ ~Solving'
        BY <2>1, <3>1, CallsKeep DEF Solving
      <3>5. Contract!Answer
        BY <3>1, <3>3, <3>4, CallsKeep, Seen
      <3>. QED  BY <3>5 DEF Contract!Next
    <2>. QED  BY <2>3, <2>4
  <1>6. CASE S_HANDLE_SOLVERCHILD
    <2>1. lpc = "poll" /\ Callback /\ UNCHANGED call
      BY <1>6 DEF S_HANDLE_SOLVERCHILD, QuestionInv, ProcessInv
    <2>2. CASE UNCHANGED <<lpc, lib, cube, ret>>
      BY <2>1, <2>2, Unseen DEF Solving
    <2>3. ASSUME NEW i \in AnswerLines, SolveReturns(out[i])
          PROVE  Contract!Next
      <3>1. out[i] = Verdict(Added(lib), cube)
        BY <2>1 DEF QuestionInv, LinesInv, AnswerLines
      <3>2. Solving /\ ~Solving'
        BY <2>1, <2>3, CallsKeep DEF Solving
      <3>3. Contract!Answer
        BY <2>3, <3>1, <3>2, CallsKeep, Seen
      <3>. QED  BY <3>3 DEF Contract!Next
    <2>. QED  BY <1>6, <2>2, <2>3 DEF S_HANDLE_SOLVERCHILD
  <1>. QED
    BY <1>1, <1>2, <1>3, <1>4, <1>5, <1>6, NothingDisturbs DEF LibraryStep

LEMMA ClientImplements ==
    ASSUME Context, ClientStep
    PROVE  [Contract!Next]_(Contract!spec_vars)
  <1>. USE DEF libvars, procvars, clientvars
  <1>1. ASSUME NEW lit \in {1, 0}, quapi_add(lit)
        PROVE  [Contract!Next]_(Contract!spec_vars)
    <2>1. /\ UNCHANGED <<lpc, call, cube, ret>> /\ lpc = "idle"
          /\ lib' = AfterAdd(lib, lit)
      BY <1>1 DEF quapi_add
    <2>2. ~Solving /\ ~Solving'
      BY <2>1 DEF Solving
    <2>3. /\ Added(lib) \in Int
          /\ Added(lib') = Added(lib) + (IF lit = 0 THEN 1 ELSE 0)
      BY <2>1, Situation, AddedKept
    <2>4. CASE lit = 0
      <3>1. Contract!AddClause
        BY <2>1, <2>2, <2>3, <2>4, Seen
      <3>. QED  BY <3>1 DEF Contract!Next
    <2>5. CASE lit = 1
      <3>1. Added(lib') = Added(lib)
        BY <2>3, <2>5
      <3>. QED  BY <2>1, <2>2, <3>1, Unseen
    <2>. QED  BY <2>4, <2>5
  <1>2. ASSUME NEW lit \in Lits, quapi_assume(lit)
        PROVE  [Contract!Next]_(Contract!spec_vars)
    <2>1. lpc = "idle" /\ lit # 0
      BY <1>2, QuapiAssumption DEF quapi_assume
    <2>2. CASE RequestFork(lit)
      <3>1. ~Solving /\ ~Solving'
        BY <2>1, <2>2, CallsKeep DEF Solving
      <3>2. Contract!GoOn
        BY <2>2, <3>1, CallsKeep, Seen
      <3>. QED  BY <3>2 DEF Contract!Next
    <2>3. CASE SendAssumption(lit) /\ UNCHANGED ret
      <3>1. ~Solving /\ ~Solving'
        BY <2>1, <2>3, CallsKeep DEF Solving
      <3>2. Contract!Assume(lit)
        BY <2>3, <3>1, CallsKeep, Seen
      <3>. QED  BY <3>2 DEF Contract!Next
    <2>. QED  BY <1>2, <2>2, <2>3 DEF quapi_assume
  <1>3. CASE quapi_solve
    <2>1. lpc = "idle"
      BY <1>3 DEF quapi_solve
    <2>2. ASSUME Added(lib') = Added(lib), cube' = cube, ret' = NoResult, Solving'
          PROVE  Contract!Next
      <3>1. ~Solving
        BY <2>1 DEF Solving
      <3>2. Contract!Call
        BY <2>2, <3>1, Seen
      <3>. QED  BY <3>2 DEF Contract!Next
    <2>3. CASE RequestFork(0)
      BY <2>2, <2>3, CallsKeep DEF Solving
    <2>4. CASE ~NeedsFork(lib) /\ SendSolve /\ UNCHANGED ret
      <3>1. ret = NoResult
        BY <2>1, <2>4 DEF Context, QuestionInv, ResultInv
      <3>. QED  BY <2>2, <2>4, <3>1, CallsKeep DEF Solving
    <2>. QED  BY <1>3, <2>3, <2>4 DEF quapi_solve
  <1>4. CASE quapi_release
    BY <1>4, Unseen DEF quapi_release, CloseStreams, Solving
  <1>. QED
    BY <1>1, <1>2, <1>3, <1>4, NothingDisturbs DEF ClientStep

LEMMA NextImplements ==
    ASSUME Context, Reported, [Next]_vars
    PROVE  [Contract!Next]_(Contract!spec_vars)
  <1>. USE DEF libvars, procvars, clientvars
  <1>1. CASE UNCHANGED <<lpc, call, lib, cube, ret>>
    BY <1>1, Unseen DEF Solving
  <1>2. SeedStep => UNCHANGED <<lpc, call, lib, cube, ret>>
    BY DEF SeedStep, SeedStarts, SeedReads, SeedForks, SeedReports, SeedReaps,
           SeedExits
  <1>3. \A k \in Pids : ChildStep(k) => UNCHANGED <<lpc, call, lib, cube, ret>>
    BY DEF ChildStep, ChildFetches, ChildReads, ChildPrints, ChildExits,
           ChildSeesClose, ChildKilled
  <1>. QED
    BY <1>1, <1>2, <1>3, LibraryImplements, ClientImplements, NothingDisturbs
       DEF Next, Finished, vars

\* What ImplementsSolver says of single steps: it starts, and goes on, as an
\* incremental solver.
SolverSteps == Contract!Init /\ [][Contract!Next]_(Contract!spec_vars)

\* Whatever library, seed and children do, the client of a solver whose answers
\* the library looks at sees the steps of one incremental solver: clauses stay,
\* assumptions go with the solve they were made for, and a solve returns with
\* the verdict on exactly its own clauses and assumptions.
THEOREM ImplementsSolverSteps ==
    ASSUME Undisturbed, Reported
    PROVE  Spec => SolverSteps
  <1>1. Init => Contract!Init
    BY DEF Init, Contract!Init, Contract!NoAnswer, NoResult, FreshSolver
  <1>2. AnswerInv /\ [Next]_vars => [Contract!Next]_(Contract!spec_vars)
    BY NextImplements DEF AnswerInv, Context
  <1>. QED  BY <1>1, <1>2, AlwaysAnswer, PTL DEF Spec, Safety, SolverSteps
=============================================================================
