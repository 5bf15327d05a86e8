# QuAPI in TLA+

QuAPI turns a SAT or QBF solver that reads a file from its standard input into
an incremental solver with assumptions.  A library in the client's process
starts the solver executable with a preloaded runtime that intercepts its
reads.  The runtime receives the formula as messages and hands it on as QDIMACS
text.  For every solve it forks: the *child* reads the assumptions of that
solve and becomes the solver; the original process, the *seed*, keeps the
formula and waits for the next fork.

This directory models that system: TLA+ modules, TLC configurations, proofs
checked by TLAPS, and `PROJECT.json`, which maps every definition to the lines
it models.

## Inventory

| component | state | operations | interacts through |
|---|---|---|---|
| library (`lib/src/quapi.c`) | `quapi_solver`: `state`, `written_clauses`, `written_assumptions`, `written_quantifier_literals`, `universal_prefix_depth`, `solverchild_pid`, poll set | `quapi_init`, `_quantify`, `_add`, `_assume`, `_solve`, `_reset_assumptions`, `_terminate`, `_release`, `_set_stdout_cb` | two stdio streams to the seed and to the children, one message pipe back, the pipe behind the children's standard output, an eventfd between threads, `SIGKILL` |
| messages (`common/src/common.c`, `message.h`) | none; the streams' buffers | write, read, flush after `HEADER`, `FORK`, `SOLVE`, `STARTED` | pipes |
| runtime state machine (`preload/src/runtime.c`) | state function, `outbuf`, `written_clauses`, `quantifier_count`, `repeat_state`, `filler_clause` | `quapi_read`, `advance_state`, one function per state | called by the solver's `read()` |
| forking (`fork_solving_child`, `inject_main.c`) | pid of the child, whether the destructor reports | fork, report, `waitpid`, exit code, `DESTRUCTED` | message pipe, exit status |
| read interception (`inject_read.c`) | none of its own | `read`, `fread`, `fgetc`, `getc`, `__uflow`, `gzread` | forwards to `quapi_read` |
| solver executable (external) | its formula | reads to the end of file, prints, exits | standard input and output, exit code |
| zero-copy pipes (`common/src/zero-copy-pipes-linux.c`) | writer: two buffers of 64 KiB, each with a counter in front, and a prepared pointer; reader: a mapped file and a position | prepare, write, flush, read | `vmsplice`, `splice`; off by default |
| `quapify` (`quapify/src/quapify.c`) | configuration, assumption lists, integer splits, counts of the formula | reads options, parses the formula twice, expands splits, solves once per list | public API |
| DIMACS parser (`quapify/src/parse.c`) | position in header or body, open block, counts | one pass over a file in one of three modes | calls `add_quantifier`, `add_lit` |
| file layer (`quapify/src/file.c`, from Kissat) | an open file | open, decompress, read a character | |
| timing, logging, scripts | counters for the log | none that matter to the protocol | |

What is hard here: two processes and a varying number of children share three
pipes; stdio keeps messages back; children are killed from another thread at any
point of their reading; a fork copies a state machine in the middle of a step;
answers arrive as exit codes, as lines, or as a destructor's message, and one
pipe serves all solves.  Correct means: the solver is given exactly the formula
the client described (per component: the counters agree, the text is the
reference text), a solve's answer is the answer to its question, calls that wait
come back, and release leaves nothing running.  `hazards` in `PROJECT.json`
lists the places one by one.

## Modules

| module | models | lines it stands for |
|---|---|---|
| `QuapiMessages` | message types, stdio streams and the flushing rule | `message.h`, `quapi_write_msg_to_file` |
| `QuapiLibrary` | counters and states of `quapi_solver`: guard and effect of each call | `quapi.c` |
| `PreloadControl` | which state function follows which | `runtime.c` |
| `PreloadRuntime` | the state functions with the text they emit | `runtime.c` |
| `Serialization` | client, library and one followed runtime: from calls to text | `quapi.c`, `runtime.c`, `inject_read.c` |
| `SerializationProperties` | reference text of a formula, properties | |
| `Quapi` | library, seed, children and pipes: the fork protocol and the poll loop | `quapi.c`, `runtime.c`, `inject_main.c` |
| `IncrementalSolver` | what the API promises: clauses accumulate, assumptions last for one solve, a solve answers its own question | `quapi.c` as seen by its client |
| `QuapiRefinement` | `Quapi` as an implementation of it | |
| `MessageChannel` | what a pipe promises its two ends | `common.c` as seen by its callers |
| `ZeroCopyPipe` | one zero-copy pipe, page by page, as an implementation of it | `zero-copy-pipes-linux.c`, `common.c` |
| `DimacsParser` | the parser's automaton over tokens and the calls it makes | `parse.c` |
| `AssumptionLists` | `struct config`, the array of lists, the integer splits | `quapify.c` |
| `Quapify` | the driver, with `QuapiLibrary` as its library | `quapify.c` |
| `QuapifyProperties` | reference definition of the lists, properties | |
| `MCSerialization`, `MCQuapi`, `MCQuapify` | instances for TLC | |
| `MessageProofs` | lemmas about messages, streams, queues and counters, for the proofs below | |
| `CountingProofs` | lemmas that count up through an interval, and the values of recursive functions | |
| `QuapiProofs`, `QuapiAnswerProofs` | theorems about `Quapi` | |
| `ZeroCopyProofs` | theorems about `ZeroCopyPipe` | |
| `SerializationProofs`, `SerializationTextProofs` | theorems about `Serialization` | |
| `QuapifyProofs` | theorems about `Quapify` | |

`QuapiMessages` and `PreloadControl` are shared by `Serialization` and `Quapi`,
and `QuapiLibrary` by these two and `Quapify`, so a change in the library's
bookkeeping shows up in all of them.

### Serialization

One process is followed.  It begins as the seed; at each `FORK` TLC explores both
its remaining the seed (a sibling then reads and answers) and its becoming the
child.  A step of the process is a `read()` that returns buffered text, a
`read()` that repeats the last message (`repeat_state`), the wait for a message,
its arrival, and one turn of `advance_state`'s inner loop.  Text is a sequence of
lexemes, with blanks and line feeds as lexemes of their own since the functions
emit them apart from the numbers they separate.  `Habits` switches on what only
some clients and solvers do: ending a block with 0, solving with an open block,
empty clauses, reading past the end of file.

A state function that formats an integer with `%s` is undefined behaviour; the
values in question are small, no address of a string is, and the model treats it
as the crash it is on the supported platforms (`CRASHED`).

### Quapi

The formula is its number of clauses, a cube a set of literals.  The library
thread is at `init`, `idle`, `fork` (in the read loop of `make_solvable`), `poll`
(in `solve_internal`) or `released`; `revents` holds the descriptors that the
last `poll()` reported and that are not yet handled, in the order message pipe,
eventfd, output.  A `SIGKILL` is pending until the child takes its next step.
Children fetch up to a stdio buffer of messages from the pipe they share.  A
child that reaches the end of its input is the solver: it prints, blocks when the
pipe is full, and exits.  `Uses` and `Faults` switch on `reset`, `terminate`,
failing `execvpe`, crashing children and children that reject their input.

`quapi_terminate` is enabled while the solver is `WORKING`, as its documentation
demands; the thread that calls it does not synchronise with the poll loop.

### IncrementalSolver and QuapiRefinement

The abstract solver has a formula, a cube, a flag for a solve under way and the
last result.  Its only steps are: a clause is added, a literal is assumed, a solve
is called, a solve is answered, and the client forgets the result.  `Quapi` maps
its clause counter without the unit clauses of the cube to the formula, and the
time from `quapi_solve` to the end of the poll loop, the fork included, to the
flag.  Everything that processes, streams and pipes do in between is stuttering.
The refinement includes the abstract fairness: every solve is answered.

### ZeroCopyPipe and MessageChannel

The writer fills one buffer while the pages of the other are in the pipe; it is
never told when they have been read.  A page in the pipe is a reference: the
reader sees what the page holds at the moment it splices it out, so a writer
that comes back to a buffer too early changes messages that are already sent.
Buffers are arrays of cells, cell 0 the counter, the others numbered units of
messages; `flush_out` is one step per `vmsplice`, which takes as many pages as
the pipe has room for.

`ZeroCopyAssumption` says that the pipe holds exactly one buffer (16 pages, what
Linux gives by default).  It is what the code relies on, and it is tight: with
one page less or more the channel loses or repeats units, and with room for two
buffers a page changes while it is in the pipe (`PagesSettled`).  A user above
the kernel's soft limit for pipe pages gets smaller pipes.

### Quapify, AssumptionLists and DimacsParser

A file is a sequence of tokens; of its text only what the three modes tell apart
is kept.  The parser is a function from its local state and a token to its next
state, and `CallFor` names the call the token leads to.  `Quapify` runs it
twice, once with `add_quantifier` and `add_lit` counting, once with the library
behind them.  `add_to_assumptions` keeps its static counter in the
configuration.  The option `-a` takes one number of its open list per step;
with another option in the place of the number it reads an uninitialised
variable, and both outcomes are explored; with `--` there the tool fails, and with
nothing getopt rejects the option.  `Child` is what the child that the library would use next has
been given: nothing right after a fork, the earlier literals otherwise.  `rows`
records each line of output together with the cube the answering child was
given.

The reference for the splits numbers the combinations, takes the digits of a number
in mixed radix by division and writes them in binary, without counter, carry or bit
tricks.  That `ceil_log2` is the rounded-up logarithm, for every positive `int`, is
the lemma `CeilLog2`.

## Runs

| run | question | distinct states |
|---|---|---|
| `serialization` | is the text the formula, for every short prefix, over two solves with clauses in between and every way to cut reads; do the counters agree, is a solve refused wrongly, does it return? | 112 thousand |
| `quapi_protocol` | does the protocol stay in step under reset, terminate, crashes and early exits; do calls return, does release end all? | 240 thousand |
| `quapi_answers` | is every answer the answer to its question, over four solves; do processes and pipes implement `IncrementalSolver`? | 8 thousand |
| `quapi_callback` | the same for answers printed to a callback | 655 |
| `zero_copy` | does a page ever change while it is in the pipe, does prepared memory stay valid, does a message lie across buffers; does the pipe implement `MessageChannel`? | 27 thousand |
| `quapify` | are the lists the ones asked for, is each solved once, and under its own literals unless the one before was refused, does the header suffice, are the library's assertions met, does the tool end? | 176 thousand |

Each property of these runs is violated under a mutant of the code it is about,
listed in `PROJECT.json`.

The other runs show where the code departs from what its documentation, comments
or messages say.  Each is one `finding`:

| run | what happens |
|---|---|
| `universal_guard` | one assumption too few passes the check for leading universals |
| `empty_clause` | a clause without literals is counted by the library only; its 0 runs together with the next clause, so the solver is given a different formula |
| `reset_leaves_assumptions` | the next child reads assumptions of a reset cube |
| `late_terminate` | a terminate that comes with the answer ends the next solve |
| `stdout_full` | nobody reads the children's output; when the pipe is full all wait |
| `refused_cube` | a list that `quapi_solve` refuses leaves its literals with the waiting child; the next list is solved under both, and its answer is printed as its own |

The models show more of the kind, for which no run is kept:

- `quapi_init` waits forever when `execvpe` fails, since the library holds the
  write end of the pipe it reads (`Faults = {"exec"}`, `CallsReturn`);
- with a callback and a solver that also uses exit codes, a line left in the pipe
  is taken for the answer of a later solve (`Callback = TRUE`,
  `ReportsBy = {"code", "line"}`, `SolveSound`);
- a solve that `quapi_terminate` ends leaves unread assumptions to the next child
  as a reset does (`Uses = {"terminate"}`, `SolveSound`);
- in regex mode an answer or a `DESTRUCTED` of an earlier child can end a later
  solve (`Regex = TRUE`, `SolveSound`);
- with a callback, a child that dies before it prints is reported with code 0,
  and `quapi_solve` waits for a line that never comes (`Callback = TRUE`,
  `Faults = {"crash"}`, `CallsReturn`);
- a solve inside an open quantifier block reaches the runtime's error path that
  formats an integer as a string (`Habits = {"no_matrix"}`, `RuntimeSurvives`);
- `quapi_assume` accepts twice the assumptions the header reserves room for
  (`MaxCube` above `MaxAssumptions`); more clauses follow the problem line than it
  announces;
- a solver that reads again after the end of file, when fillers were needed, is
  kept waiting for a message (`ReadNeedsMessage` after `eof`);
- `waitpid` in `quapi_reset_assumptions` is called on a process that is not a
  child and returns at once;
- the parser accepts a quantifier block behind a clause, where `quapi_quantify`
  asserts that there is none (`CallsAllowed`); it also counts the zero that ends a
  block when it looks for too many clauses, and accepts an empty block that the
  end of the file leaves open;
- `varcount` is the largest variable of the clauses: a variable that is only
  quantified may be above the number of literals announced to the solver, and an
  integer split over it ends with an error at the first assumption.

Seen while reading, outside the models: `quapify file -a1` never ends, because
`parse_cli` sets getopt's index back to the option itself; `quapify -` cannot work,
as standard input is read twice; in the zero-copy build `HEADER` is moved inside a
mapping without write permission, and `quapi_release` neither flushes nor closes
the pipes.

Because of these, the passing runs on answers leave the interference out that
breaks them: `quapi_answers` has neither reset nor terminate, `quapi_callback` a
solver that answers in one way only.  `quapi_protocol` has all of it, and shows
that what is broken is the content of the shared pipe, never the order of
messages.

Regex mode is part of `Quapi` and of the proofs, but of no run: the build never
switches it on (`lib/CMakeLists.txt` tests a target's name as if it were a
variable).  With `Regex = TRUE` and `ReportsBy = {"line"}`, `CallsReturn` and
`ReleaseEndsAll` hold on 29 thousand states.

### Bounds

- `MaxKids` (3, 4), `MaxSolves` (2): three forks are the shortest history in which
  the leftovers of one solve pass a second one; four are used where the state
  is small.
- `MaxPrefix` 3: existential and universal, inside and outside the prefix depth of
  2, with a block ended by 0 or by the other quantifier.
- `FileBuf` 3: a buffer of three messages spills in the middle of the unit clauses
  of a cube of two, which is what 4096 bytes do to a long cube.
- `ReadSizes` {1, 64}: byte-wise and all at once; a number is one lexeme.
- `OutCap`: 4 where output is read, 1 to reach the full pipe.
- `ClauseCount`, `MaxLen`, `Lits`, `Chatter`: one or two of each.
- `PageCells` 2, `BufPages` 3, `HeaderCells` 3, `MaxSent` 14: a buffer takes four
  units beside its counter, so each of the two buffers is filled at least twice;
  a header of three cells is read in two calls; every message may flush or not.
  `MaxSent` is at least `HeaderCells`: a pipe that is used at all carries `HEADER`.
- `MCFiles`: 565 files, from up to two blocks and two clauses, closed or not,
  under counts that are right or wrong, and with every odd line and ending the
  modes tell apart.  Blocks come before clauses (`BlocksFirst`), which is the
  hypothesis of the theorem about `CallsAllowed`.
- `MCCommandLines`: every option, lists with and without their zero, splits of 1
  to 5 (below, at and above powers of two), two and three splits nested, a split
  too long for its prefix or over two blocks, `-I` inside and outside the lists,
  and a list behind one that is refused.
- `evfd` is 0 or 1: further writes change nothing that `read()` on it can tell.

`MCSatisfiable` changes with every clause and every literal, so that an answer to
a different question is a different answer.

### Fairness

Weak fairness of the library, of the seed and of every child: a process that can
run is scheduled, and a solver that has its formula ends (it is external, and
nothing follows for one that does not).  The client owes no call, and a fault
need not happen.  In `ZeroCopyPipe` a write that has begun goes on and the reader
reads, while the client need not write; in `Quapify` the one process runs, and a
solve ends as `CallsReturn` of `Quapi` says.  No strong fairness is used.
`CHECK_DEADLOCK FALSE` stands only where the subject is that everybody waits.

## Proofs

The theorems hold for every value of the constants that their `ASSUME`s allow,
and so for any number of solves, clauses and assumptions.  Each follows from an
inductive invariant; the provers check its initial states, one lemma per group
of actions, and that it implies the property.  The invariants were checked with
TLC on the instances above before they were proved.

### The fork protocol (`Quapi`)

| theorem | module | property |
|---|---|---|
| `TypeCorrect` | `QuapiProofs` | `TypeOK` |
| `ProtocolInStep` | `QuapiProofs` | `ProtocolInv` |
| `NeverTwoChildren` | `QuapiProofs` | `AtMostOneChild` |
| `SolveReadsItsOwnExit` | `QuapiProofs` | `OwnExitCode` |
| `NoClauseLost` | `QuapiProofs` | `ClausesConserved` |
| `WorksOnOwnQuestion` | `QuapiAnswerProofs` | `OwnQuestion`, if `Undisturbed` |
| `AnswersAreSound` | `QuapiAnswerProofs` | `SolveSound`, if `Undisturbed` |
| `ImplementsSolverSteps` | `QuapiAnswerProofs` | every step is one of `IncrementalSolver`, if `Undisturbed` and `Reported` |

The types are not inductive alone: forking must stay within `MaxKids`, and
subtracting the cube from the clause count must not go below zero.  `CoreInv` adds

- `ForkIsLast`: a `FORK` is never in the stdio buffer, and in the pipe it is last,
  with the library waiting and room for a child;
- `CubeIsCounted`: `written_assumptions <= written_clauses`;
- `ReportsChild`, `OneFork`: request, fork and report of one fork follow each other.

`SyncInv` adds, when there is no regex,

- `YoungestOnly`: all children but the last are reaped, and the last is alive only
  between its fork and the end of the seed's `waitpid`;
- `MessagesInStep`: for each position of the library, which messages the pipe back
  can hold.  At most the exit code of the last child is left when the next `FORK`
  is sent; `make_solvable` drops it, so the poll loop meets the child's own code.

`ProtocolInv` consists of the same parts and is an invariant of `quapi_protocol`.

`ClauseInv` adds to `CoreInv` what makes counting sound: the library counts every
0 it sends, the seed only a 0 inside a clause, and the two agree because the
messages under way continue clauses where the one before has ended
(`ClauseOrder`).

`QuestionInv` says where the client's question is.  While a child stands ready or
works (`Asked`), the cube is what this child has read together with the literals
it has still to read, in its own buffer, in the pipe and in the library's stdio
buffer; otherwise (`Unasked`) nothing of the last question is left anywhere.
`LinesInv` says the same of lines on the way to a callback.  It takes `SyncInv`
to know who reads the shared pipe, and `ClauseInv` to know the formula the child
has inherited.

`Undisturbed` leaves out what the code does not survive, as the runs above show:
a reset or terminate leaves unread assumptions in the pipe for the next child, a
child that dies early leaves them too, a regex lets answers of an earlier child
end a later solve, and a solver that both prints and exits with its answer
leaves a line for the next callback.  A failing `execvpe` is allowed: the library
then waits in `quapi_init` and no answer is ever given.  `Reported` says that the
solver answers in a way the library looks at (by exit code when there is no
callback); a solve that ends with code 0 is no step of the abstract solver.

### Zero-copy pipes (`ZeroCopyPipe`)

`TypesKept` (`TypeOK`), `SpliceBlocksReuse` (`PagesSettled`), `PreparedStaysNext`
(`PreparedIsNext`), `ReadAssertionHolds` (`BuffersUsedUp`) and `StepsOfTheChannel`
(every step is one of `MessageChannel`) in `ZeroCopyProofs`, for all sizes of pages,
buffers and headers.  `IInv` says that the pipe never holds a part of a buffer when
the writer comes back to it, and that every unit is in one place: given to the
reader, in its mapping, in the pages of the pipe, or in the buffer being filled;
the contents of each place continue those of the one before.  From
`ZeroCopyAssumption` the argument needs that the pipe holds exactly one buffer,
that `HEADER` fits beside the counter, and that the bound on sent units leaves
room for `HEADER`.

### From calls to text (`Serialization`)

| theorem in `SerializationProofs` | property |
|---|---|
| `SerializationTypes` | `TypeOK` |
| `SeedServesOn` | `SeedNeverEnds` |
| `RefusalsJustified` | `NoFalseRefusal` |
| `MessagesExpected` | `RuntimeSurvives`, if `CommonUse` |
| `CountersAgree` | `ClausesAccounted`, if `CommonUse` |

All rest on `RunFacts`: what each state function of the runtime makes of a message
(`Ran`), and whether it leaves text (`Leaves`), for every runtime and message.

The first three hold for every client.  Their invariant `BasicInv` has the types,
`SeedInv` (no `SOLVE` on the way to the seed; its runtime never repeats a message,
closes or works) and `PrefixInv` (`universal_prefix_depth` is one less than the
rank of the last universal that was flipped).

The other two are about clients that end their blocks before a solve without
clauses and add no empty clause (`CommonUse`): with an open block the runtime
does reach the error path, and an empty clause is counted by the library alone
(`empty_clause`).  How far a formula has come is one of five *stages*, each message
`Follows` some and leads to one.  `OrderInv` says that the client's stage is the
one at the end of the queue to the seed, and that every message in a queue
follows the stage in front of it (`Orderly`); that a `FORK` is last in its queue
and nothing follows `SOLVE`; and who waits for whom, since a child inherits the
stage in which the seed met the `FORK` (`SeedSync`, `ChildSync`).

### The text of a formula (`Serialization`)

`FormulaDelivered` in `SerializationTextProofs`, if `CommonUse`, states
`DeliversFormula`: what a solving child has read when its input ends is the
reference text, for any number of calls and solves, any buffer and any lengths of
reads.  The reference is written per entry of the prefix, per clause and per
filler; the runtime writes per message, and what it writes for one depends on the
message before.  The proof goes through the messages:

- `Script` is every message of the formula that the followed process is sent, so
  far, computed from the client's calls; `Taken` are those the runtime has turned
  into text.  `QueueInv` says that the rest of the script is in the runtime's hands
  and in its stream, in order.
- `Says` is the text of one message behind another, `Rendered` that of a sequence.
  `StateInv` says that the state function is the one the last message leads to and
  the filler the one the first message chose; `TextInv` that what the solver has and
  what waits in the buffer is the problem line, `Rendered(Taken)` and as many
  fillers as have been written behind it.
- `ScriptInv` (`Told`) says what the text of the script is in terms of prefix,
  clauses and the open clause, up to the blank or the end of the block that only the
  next message brings; it is kept by each literal and each zero.
- `CallsInv` says when a client may send assumptions.

`DeliveryInv` is all of these, on top of `CommonInv`.  At the end of the input the
stream is empty, so `Taken` is the script; `PrefixText` moves the ends of the blocks
to where the reference has them, and `FillerIsRight` compares the fillers.

Without `CommonUse` the theorem is false: `empty_clause` is the counterexample, and
a solve inside an open block reaches the runtime's error path.

### Counting (`CountingProofs`)

The library's induction theorems have a parameter the provers cannot instantiate.
`CountingUp` and `CountingTo` take their place: a set that has 0, and with every k
below n has k + 1, has all of 0..n. They are proved from the library's facts about
finite sets by the pigeonhole principle: a set that is closed under +1 and ends
before n would be mapped by +1 into itself without 0. `Iteration` says that a
function defined by recursion over an interval exists, which is what the recursive
definitions of the model and `FlattenSeq` (`FlattenIs`) need to be what they are
written to be. With them, what the recursive *functions* of the model compute is
proved for every input; the modules with theorems declare no `RECURSIVE` operator.

### quapify (`Quapify`)

| theorem in `QuapifyProofs` | property |
|---|---|
| `QuapifyTypes` | `TypeOK` |
| `QuapifyHeader` | `HeaderSuffices` |
| `QuapifyLists` | `EveryListOnce` |
| `QuapifySplits` | `SplitsExact` |
| `QuapifyAnswers` | `OnlyRefusalsMix` |
| `QuapifyAllAnswers` | `RowsAnswerTheirLists`, if `AllowMissing` |
| `QuapifyCalls` | `CallsAllowed`, if `PrefixFirst` |

They hold for every set of files and command lines.  The invariant `QuapifyInv` is
`TypeOK` together with

- `InputInv`: what is left of the command line ends with the solver;
- `PassInv`: both passes are where `Progress` says, a function of the file and the
  position alone.  So the second pass makes the calls the first one counted, and
  `clausecount` is what it sends;
- `ListsInv`: the lists in the array are counted by their zeros, and no stretch
  without a zero is longer than `add_to_assumptions` has counted;
- `CursorInv`: the cursor stands in list number `assumption_id`, which began at
  `assstart`;
- `CubeInv`: the child has the numbers from `assstart` to the cursor, and the
  library's counters agree, unless a refused list has left something (`Leftovers`);
- `RowsInv`: one row for each selected list behind the cursor, in order.

`HeaderSuffices` is about children without such leftovers.  With them the code
can send more clauses than the header announces, and the property says so in its
hypothesis.  `RowsAnswerTheirLists` is what the tool is meant to do; it fails after a
refusal (`refused_cube`), and without refusals it is a theorem.

`SplitsInv` says that the states of `inflate_intsplits` are the numbers from 0 on, in
the mixed radix of the splits, least digit first, and that number n has n
combinations behind it.  `NextNumber` shows that the carry adds one, `LastNumber`
that only the largest number ends the loop, `CombinationOfState` that the bits of a
state are those of its number.

`BlockInv` relates the parser's block to the tokens read.  Its hypothesis
`PrefixFirst` is needed: the parser lets a block behind the clauses pass, and
`quapi_quantify` asserts there is none.

### Only model-checked

- Liveness and fairness, which are outside the prover: `CallsReturn`,
  `ReleaseEndsAll`, `EverySolveReturns`, `Terminates`, and the fair halves of
  `ImplementsSolver` and `ImplementsChannel`.

All safety properties of the passing runs are theorems, those marked *if* above under
hypotheses that the runs meet.

## Not modelled

- The file layer of `quapify` (opening, decompressing, reading characters), taken
  from Kissat, and files that are missing or change between the passes.
- Closing a zero-copy pipe, and failing calls in it; `EPIPE` is among them.
- The frame of a message.  Messages are five bytes, and stdio passes on 4096 at a
  time, so one can lie across two writes.  `fread` waits for the rest, which makes
  this invisible to a process that reads on; a child killed in between leaves a
  part of a message in the pipe where the model leaves whole ones.  The width of
  `int_to_str`'s buffer.
- The search for the preload library, failing system calls other than `execvpe`,
  the stand-ins for `/dev/stdin` and gz files, timing, logging and the evaluation
  scripts.
- Pids are not reused.

## Plan

Done: the modules above with their runs; theorems for all safety properties of the
passing runs, and the steps of both refinements.

What is left is modelling: closing a zero-copy pipe with the calls that may fail in
it, and the frame of a message, whose parts a killed child leaves in the pipe.
