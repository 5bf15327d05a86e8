------------------------- MODULE SerializationProofs -------------------------
(***************************************************************************)
(* What holds of Serialization for every value of its constants: its       *)
(* types, the seed's input that never ends, the refusals of quapi_solve,   *)
(* and, for a client that ends its prefix and its clauses, a runtime that  *)
(* meets no message it does not expect and counts every clause.            *)
(***************************************************************************)
EXTENDS SerializationProperties, MessageProofs

\* All that is under way to the seed, and to the child.
W == Contents(wstream)
C == Contents(cstream)

-----------------------------------------------------------------------------
(***************************************************************************)
(* The seed's input never ends: SOLVE travels through the children's       *)
(* stream only, and nothing else closes an input.                          *)
(***************************************************************************)
SeedInv ==
    /\ \A i \in 1..Len(W) : W[i].type # "SOLVE"
    /\ role = "seed" =>
          /\ ~eof /\ rt.state # "WORKING" /\ ~rt.repeat_state
          /\ rt.outbuf_len # "closed" /\ msg.type # "SOLVE"

(***************************************************************************)
(* The prefix in the counters: written_quantifier_literals is the number   *)
(* of variables, and universal_prefix_depth is one less than the rank of   *)
(* the last universal that is flipped.                                     *)
(***************************************************************************)
PrefixInv ==
    /\ lib.written_quantifier_literals = Rank(Len(prefix))
    /\ lib.universal_prefix_depth >= 0 =>
          \E i \in DOMAIN prefix : /\ prefix[i] < 0
                                   /\ Rank(i) <= MaxAssumptions
                                   /\ Rank(i) = lib.universal_prefix_depth + 1

\* The cube is counted among the clauses, so taking it off is safe.
CubeIsCounted == lib.written_assumptions <= lib.written_clauses

BasicInv == TypeOK /\ CubeIsCounted /\ SeedInv /\ PrefixInv
-----------------------------------------------------------------------------
(***************************************************************************)
(* The order of messages.  How far a formula has come is one of five       *)
(* stages; every message belongs behind some of them and leads to one.     *)
(***************************************************************************)
StageOf(st) ==
    CASE st = "READING_PREFIX" -> "prefix"
      [] st \in {"READING_EXISTS", "READING_FORALL"} -> "block"
      [] st = "READING_CLAUSE" -> "clause"
      [] st = "READING_MATRIX" -> "matrix"
      [] OTHER -> "end"

After(m) ==
    CASE m.type = "QUANTIFIER" -> IF m.data = 0 THEN "prefix" ELSE "block"
      [] m.type = "LITERAL"    -> IF m.data = 0 THEN "matrix" ELSE "clause"
      [] OTHER -> "end"

Follows(stage, m) ==
    \/ /\ m.type = "QUANTIFIER"
       /\ stage = "block" \/ (stage = "prefix" /\ m.data # 0)
    \/ /\ m.type = "LITERAL"
       /\ IF m.data = 0 THEN stage = "clause" ELSE stage # "end"
    \/ m.type \in {"FORK", "SOLVE"} /\ stage \in {"prefix", "matrix"}

\* The stage the followed process reaches with the message it has in hand.
Here ==
    IF rt.repeat_state \/ (rpc = "dispatch" /\ msg.type # "FORK")
    THEN After(msg) ELSE StageOf(rt.state)

\* The stage in front of message i of the queue s.
StageAt(s, here, i) == IF i = 1 THEN here ELSE After(s[i - 1])

Orderly(s, here) == \A i \in 1..Len(s) : Follows(StageAt(s, here, i), s[i])

\* The stage of the client, by what it has called so far.
ClientStage ==
    IF open # <<>> THEN "clause"
    ELSE IF clauses # <<>> THEN "matrix"
    ELSE IF BlockOpen THEN "block" ELSE "prefix"

\* A FORK is under way to the seed, or in its hands.
ForkSent == W # <<>> /\ W[Len(W)].type = "FORK"
ForkAhead == ForkSent \/ (rpc = "dispatch" /\ msg.type = "FORK")

\* The runtime, with the message it has in hand.
RuntimeInv ==
    /\ rt.state \notin {"CRASHED", "WAITING_FOR_HEADER"}
    /\ rt.repeat_state => /\ msg.type = "SOLVE" /\ rpc # "fetch"
                          /\ rt.state = "READING_MATRIX"
    /\ rpc = "dispatch" => \/ Follows(StageOf(rt.state), msg)
                           \/ rt.state = "WORKING" /\ msg.type = "SOLVE"
    /\ rpc = "dispatch" => rt.outbuf_len = "len"
    /\ rt.filler_clause # <<>>
    /\ rt.outbuf_len = "closed" => rt.state = "WORKING"
    /\ rt.state = "WORKING" => rt.outbuf = <<>>
    /\ eof => rt.state = "WORKING" /\ rpc # "dispatch"

\* What the client calls and what the seed reads.
SeedOrder ==
    role = "seed" =>
      /\ \A i \in 1..Len(W) : W[i].type = "FORK" => i = Len(W)
      /\ rpc = "dispatch" /\ msg.type = "FORK" => W = <<>>
      /\ Orderly(W, Here)
      /\ ClientStage = StageAt(W, Here, IF ForkSent THEN Len(W) ELSE Len(W) + 1)
      /\ lib.state = "INPUT" => open = <<>> /\ clauses = <<>>

\* What the library sends to a child and what the followed child reads.
ChildOrder ==
    role = "child" =>
      /\ \A i \in 1..Len(C) : C[i].type # "FORK"
      /\ rpc = "dispatch" => msg.type # "FORK"
      /\ Orderly(C, Here)
      /\ ~eof => IF lpc = "solving"
                 THEN StageAt(C, Here, Len(C) + 1) = "end"
                 ELSE StageAt(C, Here, Len(C) + 1) \in {"prefix", "matrix"}

\* Who waits for whom while the seed is followed.
SeedSync ==
    role = "seed" =>
      /\ ~sibling => C = <<>>
      /\ \A i \in 1..Len(C) : C[i].type = "SOLVE" => i = Len(C) /\ lpc = "solving"
      /\ ForkAhead => lpc = "fork" /\ ~sibling /\ toParent = <<>>
      /\ lpc = "fork" /\ ~ForkAhead => sibling /\ C = <<>>
      /\ lpc = "idle" => /\ toParent = <<>> /\ lib.state # "WORKING"
                         /\ sibling <=> lib.state = "INPUT_ASSUMPTIONS"
      /\ lpc = "solving" => (toParent = <<>> <=> sibling)
      /\ Len(toParent) <= 1
      /\ lpc # "idle" /\ toParent # <<>> =>
            (toParent[1].type = "FORK_REPORT" <=> lpc = "fork")

\* The same while the child is followed.
ChildSync ==
    role = "child" =>
      /\ ~sibling
      /\ lpc = "fork" => C = <<>> /\ ~eof /\ Len(toParent) = 1
      /\ lpc = "idle" /\ ~eof => lib.state = "INPUT_ASSUMPTIONS"
      /\ lpc # "fork" /\ ~eof => toParent = <<>>

OrderInv == RuntimeInv /\ SeedOrder /\ ChildOrder /\ SeedSync /\ ChildSync
-----------------------------------------------------------------------------
(***************************************************************************)
(* The state functions of the runtime.                                     *)
(***************************************************************************)
\* Text a state function emits is text.
LEMMA LexemeType ==
    /\ SP \in Lexemes /\ NL \in Lexemes /\ Exists \in Lexemes
    /\ Forall \in Lexemes /\ Problem \in Lexemes
    /\ \A n \in Int : Num(n) \in Lexemes
  BY DEF SP, NL, Exists, Forall, Problem, Num, Lexemes

\* Emitting text, with or without an update of the other fields.
LEMMA EmitFacts ==
    ASSUME NEW r \in Runtimes, NEW m \in Messages, NEW t \in Seq(Lexemes)
    PROVE  /\ Emit(r, m, t) \in Runtimes
           /\ Emit(r, m, t).outbuf = t
           /\ Emit(r, m, t).state = NextState(r.state, m, Enough(r))
           /\ Emit(r, m, t).outbuf_len = r.outbuf_len
           /\ Emit(r, m, t).repeat_state = r.repeat_state
           /\ Emit(r, m, t).written_clauses = r.written_clauses
           /\ Emit(r, m, t).quantifier_count = r.quantifier_count
           /\ Emit(r, m, t).filler_clause = r.filler_clause
  <1>. DEFINE n == NextState(r.state, m, Enough(r))
  <1>1. n \in PreloadStates
    BY DEF NextState, PreloadStates, Runtimes
  <1>2. Emit(r, m, t) = [r EXCEPT !.outbuf = t, !.state = n]
    BY DEF Emit
  <1>. HIDE DEF n
  <1>. QED  BY <1>1, <1>2 DEF Runtimes, n

\* What any state function makes of r and the message m, but for the text.
Ran(r, m, s) ==
    /\ s \in Runtimes
    /\ s.state = NextState(r.state, m, Enough(r))
    /\ s.outbuf_len =
          IF r.state = "WORKING" THEN "closed"
          ELSE IF m.type = "FORK" /\ r.state \in {"READING_PREFIX", "READING_MATRIX"}
               THEN "again" ELSE r.outbuf_len
    /\ s.repeat_state =
          IF m.type = "SOLVE" /\ r.state = "READING_PREFIX" THEN TRUE
          ELSE IF m.type = "SOLVE" /\ r.state = "READING_MATRIX"
               THEN ~Enough(r) ELSE r.repeat_state
    /\ s.written_clauses = r.written_clauses +
          ( IF \/ EndsClause(r.state, m)
               \/ /\ m.type = "SOLVE" /\ r.state = "READING_MATRIX"
                  /\ ~Enough(r)
            THEN 1 ELSE 0 )
    /\ r.filler_clause # <<>> => s.filler_clause # <<>>

\* Whether it leaves text, for the messages a client's calls lead to.
Leaves(r, m, s) ==
    /\ r.state = "READING_PREFIX" /\ m.type \in {"LITERAL", "SOLVE"}
          => s.outbuf = <<>>
    /\ r.state = "WORKING" => s.outbuf = r.outbuf
    /\ r.state = "READING_MATRIX" /\ m.type = "SOLVE"
          => s.outbuf = IF Enough(r) THEN <<>> ELSE r.filler_clause
    /\ \/ /\ m.type = "LITERAL"
          /\ r.state \in {"READING_MATRIX", "READING_CLAUSE", "READING_EXISTS",
                          "READING_FORALL"}
       \/ /\ m.type = "QUANTIFIER"
          /\ \/ r.state \in {"READING_EXISTS", "READING_FORALL"}
             \/ r.state = "READING_PREFIX" /\ m.data # 0
       => s.outbuf # <<>>

\* The problem line.
LEMMA HeaderFacts ==
    ASSUME NEW r \in Runtimes, NEW m \in Messages,
           r.state = "WAITING_FOR_HEADER"
    PROVE  LET s == WAITING_FOR_HEADER(r, m) IN Ran(r, m, s) /\ Leaves(r, m, s)
  <1>. DEFINE t == <<Problem, SP, Num(LitCount), SP, Num(HeaderClauses), NL>>
              e == Emit(r, m, t)
              f == IF LitCount = 0 THEN <<Num(0), NL>> ELSE e.filler_clause
              s == WAITING_FOR_HEADER(r, m)
  <1>1. t \in Seq(Lexemes) /\ <<Num(0), NL>> \in Seq(Lexemes)
    BY LexemeType, RuntimeAssumption, LibraryAssumption DEF HeaderClauses
  <1>2. /\ e \in Runtimes /\ e.state = NextState(r.state, m, Enough(r))
        /\ e.outbuf_len = r.outbuf_len /\ e.repeat_state = r.repeat_state
        /\ e.written_clauses = r.written_clauses
        /\ e.filler_clause = r.filler_clause
    BY <1>1, EmitFacts
  <1>3. s = [e EXCEPT !.filler_clause = f]
    BY DEF WAITING_FOR_HEADER
  <1>. HIDE DEF e, s
  <1>4. f \in Seq(Lexemes) /\ (r.filler_clause # <<>> => f # <<>>)
    BY <1>1, <1>2 DEF Runtimes
  <1>. HIDE DEF f
  <1>5. /\ s \in Runtimes /\ s.state = e.state /\ s.outbuf_len = e.outbuf_len
        /\ s.repeat_state = e.repeat_state /\ s.filler_clause = f
        /\ s.written_clauses = e.written_clauses
    BY <1>2, <1>3, <1>4 DEF Runtimes
  <1>6. Ran(r, m, s)
    BY <1>2, <1>4, <1>5 DEF Ran, EndsClause, Runtimes
  <1>7. Leaves(r, m, s)
    BY DEF Leaves
  <1>. QED  BY <1>6, <1>7 DEF s

\* Text without another change, unless a clause ends, a child is asked for or
\* SOLVE is met between clauses.
LEMMA JustText ==
    ASSUME NEW r \in Runtimes, NEW m \in Messages, NEW t \in Seq(Lexemes),
           r.state # "WORKING", ~EndsClause(r.state, m),
           r.state \in {"READING_PREFIX", "READING_MATRIX"}
             => m.type \notin {"FORK", "SOLVE"}
    PROVE  Ran(r, m, Emit(r, m, t)) /\ Emit(r, m, t).outbuf = t
  <1>. DEFINE e == Emit(r, m, t)
  <1>1. /\ e \in Runtimes /\ e.state = NextState(r.state, m, Enough(r))
        /\ e.outbuf_len = r.outbuf_len /\ e.repeat_state = r.repeat_state
        /\ e.written_clauses = r.written_clauses /\ e.outbuf = t
        /\ e.filler_clause = r.filler_clause
    BY EmitFacts
  <1>. HIDE DEF e
  <1>2. Ran(r, m, e)
    <2>1. ~(m.type = "FORK" /\ r.state \in {"READING_PREFIX", "READING_MATRIX"})
      OBVIOUS
    <2>2. /\ ~(m.type = "SOLVE" /\ r.state = "READING_PREFIX")
          /\ ~(m.type = "SOLVE" /\ r.state = "READING_MATRIX")
      OBVIOUS
    <2>3. e.written_clauses = r.written_clauses + 0
      BY <1>1 DEF Runtimes
    <2>. QED  BY <1>1, <2>1, <2>2, <2>3 DEF Ran
  <1>. QED  BY <1>1, <1>2 DEF e

Counted(e, q, f) == [e EXCEPT !.quantifier_count = q, !.filler_clause = f]

\* The same for a quantifier, which may decide the filler clause as well.
LEMMA CountedText ==
    ASSUME NEW r \in Runtimes, NEW m \in Messages, NEW t \in Seq(Lexemes),
           NEW q \in Nat, NEW f \in Seq(Lexemes), NEW s,
           r.state # "WORKING", m.type = "QUANTIFIER",
           r.filler_clause # <<>> => f # <<>>,
           s = Counted(Emit(r, m, t), q, f)
    PROVE  Ran(r, m, s) /\ s.outbuf = t
  <1>. DEFINE e == Emit(r, m, t)
  <1>1. ~EndsClause(r.state, m)
    BY DEF EndsClause
  <1>2. e \in Runtimes /\ Ran(r, m, e) /\ e.outbuf = t
    BY <1>1, JustText, EmitFacts
  <1>. HIDE DEF e
  <1>3. s = [e EXCEPT !.quantifier_count = q, !.filler_clause = f]
    BY DEF e, Counted
  <1>4. /\ s \in Runtimes /\ s.state = e.state /\ s.outbuf_len = e.outbuf_len
        /\ s.repeat_state = e.repeat_state
        /\ s.written_clauses = e.written_clauses /\ s.outbuf = e.outbuf
        /\ s.filler_clause = f
    BY <1>2, <1>3 DEF Runtimes
  <1>5. Ran(r, m, s)
    BY <1>2, <1>4 DEF Ran
  <1>. QED  BY <1>2, <1>4, <1>5

\* The prefix.
LEMMA PrefixFacts ==
    ASSUME NEW r \in Runtimes, NEW m \in Messages, r.state = "READING_PREFIX"
    PROVE  LET s == READING_PREFIX(r, m) IN Ran(r, m, s) /\ Leaves(r, m, s)
  <1>. DEFINE s == READING_PREFIX(r, m)
              q == r.quantifier_count + 1
  <1>1. /\ m.data \in Int /\ -m.data \in Int /\ q \in Nat
        /\ r.filler_clause \in Seq(Lexemes) /\ r.quantifier_count \in Nat
        /\ ~EndsClause(r.state, m) /\ r.state # "WORKING"
    BY DEF Messages, Runtimes, EndsClause
  <1>. SUFFICES Ran(r, m, s) /\ Leaves(r, m, s)
    OBVIOUS
  <1>. HIDE DEF s
  <1>2. \A t \in Seq(Lexemes) : /\ Emit(r, m, t).quantifier_count + 1 = q
                                /\ Emit(r, m, t).filler_clause = r.filler_clause
                                /\ Emit(r, m, t) \in Runtimes
    BY <1>1, EmitFacts
  <1>3. CASE m.type = "QUANTIFIER" /\ m.data > 0
    <2>. DEFINE t == <<Exists, SP, Num(m.data)>>
                e == Emit(r, m, t)
                u == UnitTautology(m.data, -m.data)
                f == IF r.quantifier_count = 0 THEN u ELSE r.filler_clause
    <2>1. t \in Seq(Lexemes) /\ t # <<>>
      BY <1>1, LexemeType
    <2>2. u \in Seq(Lexemes) /\ u # <<>>
      BY <1>1, LexemeType DEF UnitTautology
    <2>3. /\ e.quantifier_count + 1 = q /\ e.filler_clause = r.filler_clause
          /\ e \in Runtimes
      BY <1>2, <2>1
    <2>4. f \in Seq(Lexemes) /\ (r.filler_clause # <<>> => f # <<>>)
      BY <1>1, <2>2
    <2>5. s = [e EXCEPT !.quantifier_count = @ + 1, !.filler_clause =
                        IF r.quantifier_count = 0 THEN u ELSE @]
      BY <1>1, <1>3 DEF READING_PREFIX, s
    <2>. HIDE DEF u, q, e
    <2>6. s = Counted(e, q, f)
      BY <2>3, <2>5 DEF Runtimes, Counted
    <2>. HIDE DEF f, t
    <2>7. Ran(r, m, s) /\ s.outbuf = t
      BY <1>1, <1>3, <2>1, <2>4, <2>6, CountedText DEF e
    <2>. QED  BY <1>3, <2>1, <2>7 DEF Leaves
  <1>4. CASE m.type = "QUANTIFIER" /\ m.data < 0
    <2>. DEFINE t == <<Forall, SP, Num(-m.data)>>
                e == Emit(r, m, t)
    <2>1. t \in Seq(Lexemes) /\ t # <<>>
      BY <1>1, LexemeType
    <2>2. /\ e.quantifier_count + 1 = q /\ e.filler_clause = r.filler_clause
          /\ e \in Runtimes
      BY <1>2, <2>1
    <2>3. s = [e EXCEPT !.quantifier_count = @ + 1]
      BY <1>1, <1>4 DEF READING_PREFIX, s
    <2>. HIDE DEF e, q, t
    <2>4. s = Counted(e, q, r.filler_clause)
      BY <2>2, <2>3 DEF Runtimes, Counted
    <2>5. Ran(r, m, s) /\ s.outbuf = t
      BY <1>1, <1>4, <2>1, <2>4, CountedText DEF e
    <2>. QED  BY <1>4, <2>1, <2>5 DEF Leaves
  <1>5. CASE m.type = "FORK"
    <2>. DEFINE e == Emit(r, m, <<>>)
    <2>1. /\ e \in Runtimes /\ e.state = NextState(r.state, m, Enough(r))
          /\ e.filler_clause = r.filler_clause
          /\ e.repeat_state = r.repeat_state
          /\ e.written_clauses = r.written_clauses + 0
      <3>1. <<>> \in Seq(Lexemes) /\ r.written_clauses + 0 = r.written_clauses
        BY DEF Runtimes
      <3>. QED  BY <3>1, EmitFacts
    <2>2. s = [e EXCEPT !.outbuf_len = "again"]
      BY <1>5 DEF READING_PREFIX, s
    <2>. HIDE DEF e
    <2>3. /\ s \in Runtimes /\ s.state = e.state /\ s.outbuf_len = "again"
          /\ s.filler_clause = e.filler_clause
          /\ s.repeat_state = e.repeat_state
          /\ s.written_clauses = e.written_clauses
      BY <2>1, <2>2 DEF Runtimes
    <2>. QED  BY <1>1, <1>5, <2>1, <2>3 DEF Ran, Leaves
  <1>6. CASE m.type = "SOLVE"
    <2>. DEFINE e == Emit(r, m, <<>>)
    <2>1. /\ e \in Runtimes /\ e.state = NextState(r.state, m, Enough(r))
          /\ e.filler_clause = r.filler_clause
          /\ e.outbuf_len = r.outbuf_len /\ e.outbuf = <<>>
          /\ e.written_clauses = r.written_clauses + 0
      <3>1. <<>> \in Seq(Lexemes) /\ r.written_clauses + 0 = r.written_clauses
        BY DEF Runtimes
      <3>. QED  BY <3>1, EmitFacts
    <2>2. s = [e EXCEPT !.repeat_state = TRUE]
      BY <1>6 DEF READING_PREFIX, s
    <2>. HIDE DEF e
    <2>3. /\ s \in Runtimes /\ s.state = e.state /\ s.repeat_state = TRUE
          /\ s.filler_clause = e.filler_clause
          /\ s.outbuf_len = e.outbuf_len /\ s.outbuf = <<>>
          /\ s.written_clauses = e.written_clauses
      BY <2>1, <2>2 DEF Runtimes
    <2>. QED  BY <1>1, <1>6, <2>1, <2>3 DEF Ran, Leaves
  <1>7. CASE /\ m.type \notin {"FORK", "SOLVE"}
             /\ m.type # "QUANTIFIER" \/ m.data = 0
    <2>1. s = Emit(r, m, <<>>) /\ <<>> \in Seq(Lexemes)
      BY <1>1, <1>7 DEF READING_PREFIX, s
    <2>2. Ran(r, m, s) /\ s.outbuf = <<>>
      BY <1>1, <1>7, <2>1, JustText
    <2>. QED  BY <1>7, <2>2 DEF Leaves
  <1>. QED  BY <1>1, <1>3, <1>4, <1>5, <1>6, <1>7

\* An open block of the prefix.
LEMMA BlockFacts ==
    ASSUME NEW r \in Runtimes, NEW m \in Messages, NEW continues \in BOOLEAN,
           r.state \in {"READING_EXISTS", "READING_FORALL"}
    PROVE  LET s == ReadingBlock(r, m, continues)
           IN  Ran(r, m, s) /\ Leaves(r, m, s)
  <1>. DEFINE s == ReadingBlock(r, m, continues)
              q == r.quantifier_count + 1
              z == <<SP, Num(0), NL>>
  <1>1. /\ m.data \in Int /\ -m.data \in Int /\ q \in Nat
        /\ r.filler_clause \in Seq(Lexemes) /\ r.quantifier_count \in Nat
        /\ ~EndsClause(r.state, m) /\ r.state # "WORKING"
        /\ r.state \notin {"READING_PREFIX", "READING_MATRIX"}
    BY DEF Messages, Runtimes, EndsClause
  <1>. SUFFICES Ran(r, m, s) /\ Leaves(r, m, s)
    OBVIOUS
  <1>. HIDE DEF s
  <1>2. z \in Seq(Lexemes) /\ z # <<>>
    BY LexemeType
  <1>3. CASE m.type = "QUANTIFIER" /\ m.data = 0
    <2>1. s = Emit(r, m, z)
      BY <1>3 DEF ReadingBlock, s
    <2>2. Ran(r, m, s) /\ s.outbuf = z
      BY <1>1, <1>2, <2>1, JustText
    <2>. QED  BY <1>1, <1>2, <2>2 DEF Leaves
  <1>4. CASE m.type = "QUANTIFIER" /\ m.data # 0
    <2>. DEFINE b == IF m.data > 0 THEN <<Exists, SP, Num(m.data)>>
                                   ELSE <<Forall, SP, Num(-m.data)>>
                t == IF continues
                     THEN <<SP, Num(IF m.data < 0 THEN -m.data ELSE m.data)>>
                     ELSE z \o b
                e == Emit(r, m, t)
    <2>1. /\ <<SP, Num(IF m.data < 0 THEN -m.data ELSE m.data)>> \in Seq(Lexemes)
          /\ <<SP, Num(IF m.data < 0 THEN -m.data ELSE m.data)>> # <<>>
      BY <1>1, LexemeType
    <2>2. b \in Seq(Lexemes)
      BY <1>1, LexemeType
    <2>3. z \o b \in Seq(Lexemes) /\ z \o b # <<>>
      <3>. HIDE DEF b
      <3>1. Len(z) = 3 /\ Len(b) \in Nat
        BY <2>2
      <3>. HIDE DEF z
      <3>2. z \o b \in Seq(Lexemes) /\ Len(z \o b) = Len(z) + Len(b)
        BY <1>2, <2>2
      <3>. QED  BY <3>1, <3>2
    <2>4. t \in Seq(Lexemes) /\ t # <<>>
      BY <2>1, <2>3
    <2>5. s = [e EXCEPT !.quantifier_count = @ + 1]
      BY <1>4 DEF ReadingBlock, s
    <2>. HIDE DEF t
    <2>6. /\ e.quantifier_count + 1 = q /\ e.filler_clause = r.filler_clause
          /\ e \in Runtimes
      BY <2>4, EmitFacts
    <2>. HIDE DEF e, q, t
    <2>7. s = Counted(e, q, r.filler_clause)
      BY <2>5, <2>6 DEF Runtimes, Counted
    <2>8. Ran(r, m, s) /\ s.outbuf = t
      BY <1>1, <1>4, <2>4, <2>7, CountedText DEF e
    <2>. QED  BY <1>1, <1>4, <2>4, <2>8 DEF Leaves
  <1>5. CASE m.type = "LITERAL"
    <2>. DEFINE t == <<SP, Num(0), NL, Num(m.data)>>
    <2>1. t \in Seq(Lexemes) /\ t # <<>>
      BY <1>1, LexemeType
    <2>2. s = Emit(r, m, t)
      BY <1>5 DEF ReadingBlock, s
    <2>3. Ran(r, m, s) /\ s.outbuf = t
      BY <1>1, <2>1, <2>2, JustText
    <2>. QED  BY <1>1, <2>1, <2>3 DEF Leaves
  <1>6. CASE m.type \notin {"QUANTIFIER", "LITERAL"}
    <2>1. s = Emit(r, m, <<>>) /\ <<>> \in Seq(Lexemes)
      BY <1>6 DEF ReadingBlock, s
    <2>2. Ran(r, m, s)
      BY <1>1, <2>1, JustText
    <2>. QED  BY <1>1, <1>6, <2>2 DEF Leaves
  <1>. QED  BY <1>3, <1>4, <1>5, <1>6

\* A clause.
LEMMA ClauseFacts ==
    ASSUME NEW r \in Runtimes, NEW m \in Messages, r.state = "READING_CLAUSE"
    PROVE  LET s == READING_CLAUSE(r, m) IN Ran(r, m, s) /\ Leaves(r, m, s)
  <1>. DEFINE s == READING_CLAUSE(r, m)
              c == r.written_clauses + 1
  <1>1. m.data \in Int /\ c \in Nat
    BY DEF Messages, Runtimes
  <1>. SUFFICES Ran(r, m, s) /\ Leaves(r, m, s)
    OBVIOUS
  <1>. HIDE DEF s
  <1>2. CASE m.type = "LITERAL" /\ m.data = 0
    <2>. DEFINE t == <<SP, Num(0), NL>>
                e == Emit(r, m, t)
    <2>1. t \in Seq(Lexemes) /\ t # <<>>
      BY LexemeType
    <2>2. s = [e EXCEPT !.written_clauses = @ + 1]
      BY <1>2 DEF READING_CLAUSE, s
    <2>. HIDE DEF t
    <2>3. /\ e \in Runtimes /\ e.state = NextState(r.state, m, Enough(r))
          /\ e.filler_clause = r.filler_clause
          /\ e.outbuf_len = r.outbuf_len /\ e.outbuf = t
          /\ e.repeat_state = r.repeat_state
          /\ e.written_clauses + 1 = c
      BY <2>1, EmitFacts
    <2>. HIDE DEF e, c
    <2>4. /\ s \in Runtimes /\ s.state = e.state /\ s.outbuf_len = e.outbuf_len
          /\ s.filler_clause = e.filler_clause
          /\ s.repeat_state = e.repeat_state
          /\ s.written_clauses = c /\ s.outbuf = t
      BY <1>1, <2>2, <2>3 DEF Runtimes
    <2>5. Ran(r, m, s)
      BY <1>2, <2>3, <2>4 DEF Ran, EndsClause, c
    <2>. QED  BY <2>1, <2>4, <2>5 DEF Leaves
  <1>3. CASE m.type = "LITERAL" /\ m.data # 0
    <2>. DEFINE t == <<SP, Num(m.data)>>
    <2>1. t \in Seq(Lexemes) /\ t # <<>>
      BY <1>1, LexemeType
    <2>2. s = Emit(r, m, t)
      BY <1>3 DEF READING_CLAUSE, s
    <2>3. Ran(r, m, s) /\ s.outbuf = t
      BY <1>3, <2>1, <2>2, JustText DEF EndsClause
    <2>. QED  BY <2>1, <2>3 DEF Leaves
  <1>4. CASE m.type # "LITERAL"
    <2>1. s = Emit(r, m, <<>>) /\ <<>> \in Seq(Lexemes)
      BY <1>4 DEF READING_CLAUSE, s
    <2>2. Ran(r, m, s)
      BY <1>4, <2>1, JustText DEF EndsClause
    <2>. QED  BY <1>4, <2>2 DEF Leaves
  <1>. QED  BY <1>2, <1>3, <1>4

\* Between clauses.
LEMMA MatrixFacts ==
    ASSUME NEW r \in Runtimes, NEW m \in Messages, r.state = "READING_MATRIX"
    PROVE  LET s == READING_MATRIX(r, m) IN Ran(r, m, s) /\ Leaves(r, m, s)
  <1>. DEFINE s == READING_MATRIX(r, m)
              c == r.written_clauses + 1
  <1>1. /\ m.data \in Int /\ c \in Nat /\ r.filler_clause \in Seq(Lexemes)
        /\ <<>> \in Seq(Lexemes) /\ ~EndsClause(r.state, m)
        /\ r.written_clauses + 0 = r.written_clauses
    BY DEF Messages, Runtimes, EndsClause
  <1>. SUFFICES Ran(r, m, s) /\ Leaves(r, m, s)
    OBVIOUS
  <1>. HIDE DEF s
  <1>2. CASE m.type = "LITERAL"
    <2>. DEFINE t == <<Num(m.data)>>
    <2>1. t \in Seq(Lexemes) /\ t # <<>>
      BY <1>1, LexemeType
    <2>2. s = Emit(r, m, t)
      BY <1>2 DEF READING_MATRIX, s
    <2>3. Ran(r, m, s) /\ s.outbuf = t
      BY <1>1, <1>2, <2>1, <2>2, JustText
    <2>. QED  BY <1>2, <2>1, <2>3 DEF Leaves
  <1>3. CASE m.type = "FORK"
    <2>. DEFINE e == Emit(r, m, <<>>)
    <2>1. /\ e \in Runtimes /\ e.state = NextState(r.state, m, Enough(r))
          /\ e.filler_clause = r.filler_clause
          /\ e.repeat_state = r.repeat_state
          /\ e.written_clauses = r.written_clauses + 0
      BY <1>1, EmitFacts
    <2>2. s = [e EXCEPT !.outbuf_len = "again"]
      BY <1>3 DEF READING_MATRIX, s
    <2>. HIDE DEF e
    <2>3. /\ s \in Runtimes /\ s.state = e.state /\ s.outbuf_len = "again"
          /\ s.filler_clause = e.filler_clause
          /\ s.repeat_state = e.repeat_state
          /\ s.written_clauses = e.written_clauses
      BY <2>1, <2>2 DEF Runtimes
    <2>. QED  BY <1>1, <1>3, <2>1, <2>3 DEF Ran, Leaves
  <1>4. CASE m.type = "SOLVE" /\ ~Enough(r)
    <2>. DEFINE e == Emit(r, m, r.filler_clause)
    <2>1. /\ e \in Runtimes /\ e.state = NextState(r.state, m, Enough(r))
          /\ e.filler_clause = r.filler_clause
          /\ e.outbuf_len = r.outbuf_len /\ e.written_clauses + 1 = c
          /\ e.outbuf = r.filler_clause
      BY <1>1, EmitFacts
    <2>2. s = [e EXCEPT !.written_clauses = @ + 1, !.repeat_state = TRUE]
      BY <1>4 DEF READING_MATRIX, s
    <2>. HIDE DEF e, c
    <2>3. /\ s \in Runtimes /\ s.state = e.state /\ s.outbuf_len = e.outbuf_len
          /\ s.filler_clause = e.filler_clause
          /\ s.repeat_state = TRUE /\ s.written_clauses = c
          /\ s.outbuf = r.filler_clause
      BY <1>1, <2>1, <2>2 DEF Runtimes
    <2>. QED  BY <1>1, <1>4, <2>1, <2>3 DEF Ran, Leaves, c
  <1>5. CASE m.type = "SOLVE" /\ Enough(r)
    <2>. DEFINE e == Emit(r, m, <<>>)
    <2>1. /\ e \in Runtimes /\ e.state = NextState(r.state, m, Enough(r))
          /\ e.filler_clause = r.filler_clause
          /\ e.outbuf_len = r.outbuf_len /\ e.outbuf = <<>>
          /\ e.written_clauses = r.written_clauses + 0
      BY <1>1, EmitFacts
    <2>2. s = [e EXCEPT !.repeat_state = FALSE]
      BY <1>5 DEF READING_MATRIX, s
    <2>. HIDE DEF e
    <2>3. /\ s \in Runtimes /\ s.state = e.state /\ s.outbuf_len = e.outbuf_len
          /\ s.filler_clause = e.filler_clause
          /\ s.repeat_state = FALSE /\ s.written_clauses = e.written_clauses
          /\ s.outbuf = <<>>
      BY <2>1, <2>2 DEF Runtimes
    <2>. QED  BY <1>1, <1>5, <2>1, <2>3 DEF Ran, Leaves
  <1>6. CASE m.type \notin {"LITERAL", "FORK", "SOLVE"}
    <2>1. s = Emit(r, m, <<>>)
      BY <1>6 DEF READING_MATRIX, s
    <2>2. Ran(r, m, s)
      BY <1>1, <1>6, <2>1, JustText
    <2>. QED  BY <1>6, <2>2 DEF Leaves
  <1>. QED  BY <1>2, <1>3, <1>4, <1>5, <1>6

\* Every state function.
LEMMA RunFacts ==
    ASSUME NEW r \in Runtimes, NEW m \in Messages
    PROVE  Ran(r, m, RunState(r, m)) /\ Leaves(r, m, RunState(r, m))
  <1>. DEFINE s == RunState(r, m)
  <1>. SUFFICES Ran(r, m, s) /\ Leaves(r, m, s)
    OBVIOUS
  <1>. HIDE DEF s
  <1>1. CASE r.state = "WAITING_FOR_HEADER"
    BY <1>1, HeaderFacts DEF RunState, s
  <1>2. CASE r.state = "READING_PREFIX"
    BY <1>2, PrefixFacts DEF RunState, s
  <1>3. CASE r.state \in {"READING_EXISTS", "READING_FORALL"}
    <2>1. (m.data > 0) \in BOOLEAN /\ (m.data < 0) \in BOOLEAN
      OBVIOUS
    <2>2. \/ s = ReadingBlock(r, m, m.data > 0)
          \/ s = ReadingBlock(r, m, m.data < 0)
      BY <1>3 DEF RunState, READING_EXISTS, READING_FORALL, s
    <2>. QED  BY <1>3, <2>1, <2>2, BlockFacts
  <1>4. CASE r.state = "READING_CLAUSE"
    BY <1>4, ClauseFacts DEF RunState, s
  <1>5. CASE r.state = "READING_MATRIX"
    BY <1>5, MatrixFacts DEF RunState, s
  <1>6. CASE r.state = "WORKING"
    <2>1. s = [r EXCEPT !.outbuf_len = "closed"]
      BY <1>6 DEF RunState, WORKING, s
    <2>2. /\ s \in Runtimes /\ s.state = r.state /\ s.outbuf_len = "closed"
          /\ s.repeat_state = r.repeat_state /\ s.outbuf = r.outbuf
          /\ s.written_clauses = r.written_clauses + 0
          /\ s.filler_clause = r.filler_clause
      BY <2>1 DEF Runtimes
    <2>3. NextState(r.state, m, Enough(r)) = r.state /\ ~EndsClause(r.state, m)
      BY <1>6 DEF NextState, EndsClause
    <2>. QED  BY <1>6, <2>2, <2>3 DEF Ran, Leaves
  <1>7. CASE r.state = "CRASHED"
    <2>1. s = r
      BY <1>7 DEF RunState, s
    <2>2. NextState(r.state, m, Enough(r)) = r.state /\ ~EndsClause(r.state, m)
      BY <1>7 DEF NextState, EndsClause
    <2>3. s.written_clauses = r.written_clauses + 0
      BY <2>1 DEF Runtimes
    <2>. QED  BY <1>7, <2>1, <2>2, <2>3 DEF Ran, Leaves
  <1>. QED
    BY <1>1, <1>2, <1>3, <1>4, <1>5, <1>6, <1>7 DEF Runtimes, PreloadStates

\* All but the text.
Kept(r, s) == /\ s.state = r.state /\ s.outbuf_len = r.outbuf_len
              /\ s.filler_clause = r.filler_clause
              /\ s.repeat_state = r.repeat_state
              /\ s.written_clauses = r.written_clauses

\* read() takes text from the buffer and leaves the rest of the runtime alone.
LEMMA ReturnFacts ==
    ASSUME TypeOK, NEW r \in Runtimes, NEW n \in Nat \ {0}, ReturnFromRead(r, n)
    PROVE  /\ rpc' = "solver" /\ rt' \in Runtimes /\ Kept(r, rt')
           /\ text' \in Seq(Lexemes) /\ eof' \in BOOLEAN
           /\ eof' = (r.outbuf_len = "closed" \/ r.outbuf = <<>>)
           /\ toParent' = IF eof' /\ ~eof THEN Append(toParent, ExitCode(10))
                                          ELSE toParent
           /\ toParent' \in Seq(Messages)
           /\ r.outbuf = <<>> => rt'.outbuf = <<>>
  <1>. DEFINE taken == IF Len(r.outbuf) < n THEN Len(r.outbuf) ELSE n
              empty == r.outbuf_len = "closed" \/ r.outbuf = <<>>
              rest == SubSeq(r.outbuf, taken + 1, Len(r.outbuf))
              given == SubSeq(r.outbuf, 1, taken)
  <1>1. /\ r.outbuf \in Seq(Lexemes) /\ Len(r.outbuf) \in Nat
        /\ taken \in 0..Len(r.outbuf) /\ text \in Seq(Lexemes)
        /\ toParent \in Seq(Messages)
    BY DEF Runtimes, TypeOK
  <1>2. /\ rpc' = "solver" /\ eof' = empty
        /\ text' = IF empty THEN text ELSE text \o given
        /\ rt' = IF empty THEN r ELSE [r EXCEPT !.outbuf = rest]
        /\ toParent' = IF empty /\ ~eof THEN Append(toParent, ExitCode(10))
                                        ELSE toParent
    BY DEF ReturnFromRead
  <1>. HIDE DEF taken
  <1>3. given \in Seq(Lexemes) /\ rest \in Seq(Lexemes)
    BY <1>1
  <1>. HIDE DEF given, rest
  <1>4. text' \in Seq(Lexemes)
    BY <1>1, <1>2, <1>3
  <1>5. rt' \in Runtimes /\ Kept(r, rt')
    BY <1>2, <1>3 DEF Runtimes, Kept
  <1>6. ExitCode(10) \in Messages
    BY MessageType
  <1>7. toParent' \in Seq(Messages)
    BY <1>1, <1>2, <1>6
  <1>8. empty \in BOOLEAN
    OBVIOUS
  <1>. QED  BY <1>2, <1>4, <1>5, <1>7, <1>8
-----------------------------------------------------------------------------
(***************************************************************************)
(* Types, the seed's input and the counters of the prefix.                 *)
(***************************************************************************)
\* The calls of the client with what the library does for them, and the steps
\* of the processes.
LibraryStep ==
    \/ \E lit \in {NewVar, -NewVar, 0} : quapi_quantify(lit)
    \/ \E lit \in ClauseLits \cup {0} : quapi_add(lit)
    \/ \E lit \in {Len(cube) + 1, -(Len(cube) + 1)} : quapi_assume(lit)
    \/ quapi_solve
    \/ ReadForkReport
    \/ SolveReturns

ProcessStep ==
    \/ \E n \in ReadSizes : ReadBuffered(n) \/ ReadRepeated(n) \/ Dispatch(n)
    \/ ReadNeedsMessage
    \/ Fetch
    \/ DispatchFork
    \/ SiblingReads

\* The variables quantified by the first i entries of p.
RankIn(p, i) == Cardinality({j \in 1..i : p[j] # 0})

\* Another entry of the prefix leaves the ranks of the others alone.
LEMMA RankFacts ==
    ASSUME NEW p \in Seq(Int), NEW lit \in Int
    PROVE  /\ \A i \in 0..Len(p) :
                 /\ RankIn(p, i) \in Nat
                 /\ RankIn(Append(p, lit), i) = RankIn(p, i)
           /\ RankIn(Append(p, lit), Len(p) + 1)
                = RankIn(p, Len(p)) + (IF lit # 0 THEN 1 ELSE 0)
  <1>. DEFINE q == Append(p, lit)
              k == Len(p) + 1
              S(s, i) == {j \in 1..i : s[j] # 0}
  <1>1. /\ Len(p) \in Nat /\ q[k] = lit
        /\ \A j \in 1..Len(p) : q[j] = p[j]
    OBVIOUS
  <1>. HIDE DEF q
  <1>2. ASSUME NEW i \in 0..Len(p)
        PROVE  /\ IsFiniteSet(S(p, i)) /\ Cardinality(S(p, i)) \in Nat
               /\ S(q, i) = S(p, i)
    <2>1. IsFiniteSet(1..i) /\ S(p, i) \subseteq 1..i
      BY <1>1, FS_Interval
    <2>2. IsFiniteSet(S(p, i))
      BY <2>1, FS_Subset
    <2>3. S(q, i) = S(p, i)
      BY <1>1
    <2>. QED  BY <2>2, <2>3, FS_CardinalityType
  <1>3. S(q, k) = IF lit # 0 THEN S(p, Len(p)) \cup {k} ELSE S(p, Len(p))
    BY <1>1
  <1>4. k \notin S(p, Len(p)) /\ Len(p) \in 0..Len(p)
    BY <1>1
  <1>. HIDE DEF S
  <1>5. Cardinality(S(p, Len(p)) \cup {k}) = Cardinality(S(p, Len(p))) + 1
    BY <1>2, <1>4, FS_AddElement
  <1>6. Cardinality(S(q, k)) = Cardinality(S(p, Len(p))) + (IF lit # 0 THEN 1 ELSE 0)
    BY <1>2, <1>3, <1>4, <1>5
  <1>7. \A s, i : RankIn(s, i) = Cardinality(S(s, i))
    BY DEF RankIn, S
  <1>. QED  BY <1>2, <1>6, <1>7 DEF q

\* Variables of the prefix are numbers.
LEMMA NewVarType == TypeOK => NewVar \in Nat /\ Rank(Len(prefix)) \in Nat
  <1>. SUFFICES ASSUME TypeOK PROVE Rank(Len(prefix)) \in Nat
    BY DEF NewVar
  <1>1. prefix \in Seq(Int) /\ Len(prefix) \in 0..Len(prefix)
    BY DEF TypeOK
  <1>. QED  BY <1>1, RankFacts, 0 \in Int DEF Rank, RankIn

\* A message other than SOLVE goes to the seed.
LEMMA SentToSeed ==
    ASSUME TypeOK, SeedInv, NEW m \in Messages, m.type # "SOLVE",
           wstream' = quapi_write_msg_to_file(wstream, m),
           UNCHANGED <<role, eof, rt, msg>>
    PROVE  SeedInv' /\ wstream' \in Streams
  <1>1. wstream \in Streams
    BY DEF TypeOK
  <1>2. W \in Seq(Messages) /\ W' = Append(W, m) /\ wstream' \in Streams
    BY <1>1, ContentsWritten, StreamType DEF W
  <1>3. \A i \in 1..Len(W') : W'[i].type # "SOLVE"
    BY <1>2 DEF SeedInv
  <1>. QED  BY <1>2, <1>3 DEF SeedInv

\* The stream to the seed is left alone.
LEMMA SameSeed ==
    ASSUME SeedInv, UNCHANGED <<wstream, role, eof, rt, msg>>
    PROVE  SeedInv'
  <1>1. UNCHANGED W
    BY DEF W
  <1>. QED  BY <1>1 DEF SeedInv

\* The counters of the prefix are left alone.
LEMMA SamePrefix ==
    ASSUME PrefixInv, UNCHANGED prefix,
           lib'.written_quantifier_literals = lib.written_quantifier_literals,
           lib'.universal_prefix_depth = lib.universal_prefix_depth
    PROVE  PrefixInv'
  BY DEF PrefixInv, Rank

\* Prefix.
LEMMA QuantifyBasic ==
    ASSUME BasicInv, NEW lit \in Int, quapi_quantify(lit)
    PROVE  BasicInv'
  <1>. USE DEF procvars
  <1>1. /\ lib \in Solvers /\ prefix \in Seq(Int) /\ TypeOK
        /\ MaxAssumptions \in Nat
    BY LibraryAssumption DEF BasicInv, TypeOK
  <1>2. /\ lib' = AfterQuantify(lib, lit) /\ prefix' = Append(prefix, lit)
        /\ UNCHANGED <<rpc, rt, msg, role, sibling, text, eof, toParent,
                       lpc, call, cstream, forks, clauses, open, cube>>
        /\ wstream' = quapi_write_msg_to_file(wstream,
                          Quantifier(SentQuantifier(lib, lit)))
    BY DEF quapi_quantify, Client
  <1>3. SentQuantifier(lib, lit) \in Int
    BY DEF SentQuantifier
  <1>4. SeedInv' /\ wstream' \in Streams
    <2>1. /\ Quantifier(SentQuantifier(lib, lit)) \in Messages
          /\ Quantifier(SentQuantifier(lib, lit)).type # "SOLVE"
      BY <1>3, MessageType DEF Quantifier, Msg
    <2>. QED  BY <1>2, <2>1, SentToSeed DEF BasicInv
  <1>5. lib' \in Solvers /\ prefix' \in Seq(Int)
    BY <1>1, <1>2, SolverType
  <1>6. TypeOK'
    BY <1>1, <1>2, <1>4, <1>5 DEF TypeOK
  <1>. DEFINE d == lib.universal_prefix_depth
              w == lib.written_quantifier_literals
              k == Len(prefix) + 1
  <1>7. /\ lib'.universal_prefix_depth = IF lit < 0 /\ w < MaxAssumptions
                                         THEN w ELSE d
        /\ lib'.written_quantifier_literals = IF lit # 0 THEN w + 1 ELSE w
        /\ lib'.written_clauses = lib.written_clauses
        /\ lib'.written_assumptions = lib.written_assumptions
        /\ w \in Nat /\ d \in Nat \cup {-1}
    BY <1>1, <1>2 DEF AfterQuantify, InPrefixDepth, Solvers
  <1>8. CubeIsCounted'
    BY <1>7 DEF BasicInv, CubeIsCounted
  <1>9. /\ \A i \in 0..Len(prefix) : RankIn(prefix', i) = Rank(i) /\ Rank(i) \in Nat
        /\ RankIn(prefix', k) = Rank(Len(prefix)) + (IF lit # 0 THEN 1 ELSE 0)
        /\ Len(prefix') = k /\ prefix'[k] = lit /\ Len(prefix) \in Nat
        /\ \A i \in 1..Len(prefix) : prefix'[i] = prefix[i]
        /\ DOMAIN prefix = 1..Len(prefix) /\ DOMAIN prefix' = 1..k
    <2>1. /\ \A i \in 0..Len(prefix) : RankIn(prefix', i) = Rank(i) /\ Rank(i) \in Nat
          /\ RankIn(prefix', k) = Rank(Len(prefix)) + (IF lit # 0 THEN 1 ELSE 0)
      <3>1. \A i : Rank(i) = RankIn(prefix, i)
        BY DEF Rank, RankIn
      <3>. QED  BY <1>1, <1>2, <3>1, RankFacts
    <2>2. /\ Len(prefix') = k /\ prefix'[k] = lit /\ Len(prefix) \in Nat
          /\ \A i \in 1..Len(prefix) : prefix'[i] = prefix[i]
          /\ DOMAIN prefix = 1..Len(prefix) /\ DOMAIN prefix' = 1..k
      BY <1>1, <1>2
    <2>. QED  BY <2>1, <2>2
  <1>10. w = Rank(Len(prefix))
    BY DEF BasicInv, PrefixInv
  <1>11. lib'.written_quantifier_literals = Rank(Len(prefix))'
    BY <1>7, <1>9, <1>10 DEF Rank, RankIn
  <1>12. ASSUME lib'.universal_prefix_depth >= 0
         PROVE  \E i \in DOMAIN prefix' :
                   /\ prefix'[i] < 0 /\ RankIn(prefix', i) <= MaxAssumptions
                   /\ RankIn(prefix', i) = lib'.universal_prefix_depth + 1
    <2>1. CASE lit < 0 /\ w < MaxAssumptions
      <3>1. /\ k \in DOMAIN prefix' /\ prefix'[k] < 0
            /\ RankIn(prefix', k) = lib'.universal_prefix_depth + 1
            /\ RankIn(prefix', k) <= MaxAssumptions
        BY <1>1, <1>7, <1>9, <1>10, <2>1
      <3>. QED  BY <3>1
    <2>2. CASE ~(lit < 0 /\ w < MaxAssumptions)
      <3>1. PICK i \in DOMAIN prefix :
               /\ prefix[i] < 0 /\ Rank(i) <= MaxAssumptions /\ Rank(i) = d + 1
        BY <1>7, <1>12, <2>2 DEF BasicInv, PrefixInv
      <3>2. /\ i \in DOMAIN prefix' /\ prefix'[i] < 0 /\ RankIn(prefix', i) = Rank(i)
        BY <1>9, <3>1
      <3>. QED  BY <1>7, <2>2, <3>1, <3>2
    <2>. QED  BY <2>1, <2>2
  <1>13. PrefixInv'
    BY <1>11, <1>12 DEF PrefixInv, Rank, RankIn
  <1>. QED  BY <1>4, <1>6, <1>8, <1>13 DEF BasicInv

\* Matrix.
LEMMA AddBasic ==
    ASSUME BasicInv, NEW lit \in Int, quapi_add(lit)
    PROVE  BasicInv'
  <1>. USE DEF procvars
  <1>1. lib \in Solvers /\ TypeOK
    BY DEF BasicInv, TypeOK
  <1>2. /\ lib' = AfterAdd(lib, lit)
        /\ UNCHANGED <<rpc, rt, msg, role, sibling, text, eof, toParent,
                       lpc, call, cstream, forks, prefix, cube>>
        /\ wstream' = quapi_write_msg_to_file(wstream, Literal(lit))
        /\ open' = IF lit = 0 THEN <<>> ELSE Append(open, lit)
        /\ clauses' = IF lit = 0 THEN Append(clauses, open) ELSE clauses
    BY DEF quapi_add, Client
  <1>3. SeedInv' /\ wstream' \in Streams
    <2>1. Literal(lit) \in Messages /\ Literal(lit).type # "SOLVE"
      BY MessageType DEF Literal, Msg
    <2>. QED  BY <1>2, <2>1, SentToSeed DEF BasicInv
  <1>4. open' \in Seq(Int) /\ clauses' \in Seq(Seq(Int))
    <2>1. open \in Seq(Int) /\ clauses \in Seq(Seq(Int))
      BY DEF BasicInv, TypeOK
    <2>2. open' \in Seq(Int)
      BY <1>2, <2>1
    <2>3. Append(clauses, open) \in Seq(Seq(Int))
      BY <2>1, AppendProperties
    <2>. QED  BY <1>2, <2>1, <2>2, <2>3
  <1>5. lib' \in Solvers
    BY <1>1, <1>2, SolverType
  <1>6. TypeOK'
    BY <1>1, <1>2, <1>3, <1>4, <1>5 DEF TypeOK
  <1>7. /\ lib'.written_quantifier_literals = lib.written_quantifier_literals
        /\ lib'.universal_prefix_depth = lib.universal_prefix_depth
        /\ lib'.written_assumptions = lib.written_assumptions
        /\ lib'.written_clauses >= lib.written_clauses
    BY <1>1, <1>2 DEF AfterAdd, Solvers
  <1>8. CubeIsCounted'
    BY <1>1, <1>5, <1>7 DEF BasicInv, CubeIsCounted, Solvers
  <1>9. PrefixInv'
    BY <1>2, <1>7, SamePrefix DEF BasicInv
  <1>. QED  BY <1>3, <1>6, <1>8, <1>9 DEF BasicInv

\* What quapi_assume and quapi_solve have in common.
LEMMA RequestForkBasic ==
    ASSUME BasicInv, NEW c \in Int, RequestFork(c),
           UNCHANGED <<procvars, toParent, prefix, clauses, open>>
    PROVE  BasicInv'
  <1>. USE DEF procvars
  <1>1. lib \in Solvers /\ TypeOK /\ forks \in Nat
    BY DEF BasicInv, TypeOK
  <1>2. /\ lib' = AfterMakeSolvable(lib) /\ lpc' = "fork" /\ call' = c
        /\ wstream' = quapi_write_msg_to_file(wstream, Fork(1))
        /\ forks' = forks + 1 /\ UNCHANGED <<cstream, cube>>
    BY DEF RequestFork
  <1>3. SeedInv' /\ wstream' \in Streams
    <2>1. Fork(1) \in Messages /\ Fork(1).type # "SOLVE"
      BY MessageType DEF Fork, Msg
    <2>. QED  BY <1>2, <2>1, SentToSeed DEF BasicInv
  <1>4. lib' \in Solvers
    BY <1>1, <1>2, SolverType, 0 \in Int
  <1>5. forks' \in Nat
    BY <1>1, <1>2
  <1>6. TypeOK'
    BY <1>1, <1>2, <1>3, <1>4, <1>5 DEF TypeOK
  <1>7. /\ lib'.written_quantifier_literals = lib.written_quantifier_literals
        /\ lib'.universal_prefix_depth = lib.universal_prefix_depth
        /\ lib'.written_assumptions = lib.written_assumptions
        /\ lib'.written_clauses = lib.written_clauses
    BY <1>1, <1>2 DEF AfterMakeSolvable, Solvers
  <1>8. CubeIsCounted'
    BY <1>7 DEF BasicInv, CubeIsCounted
  <1>9. PrefixInv'
    BY <1>7, SamePrefix DEF BasicInv
  <1>. QED  BY <1>3, <1>6, <1>8, <1>9 DEF BasicInv

\* A unit clause for the child.
LEMMA SendAssumptionBasic ==
    ASSUME BasicInv, NEW lit \in Int, SendAssumption(lit),
           UNCHANGED <<procvars, call, wstream, forks, prefix, clauses, open>>,
           toParent' \in Seq(Messages)
    PROVE  BasicInv'
  <1>. USE DEF procvars
  <1>1. lib \in Solvers /\ TypeOK /\ cstream \in Streams /\ cube \in Seq(Int)
    BY DEF BasicInv, TypeOK
  <1>2. /\ lib' = AfterAssume(lib) /\ lpc' = "idle" /\ cube' = Append(cube, lit)
        /\ cstream' = quapi_write_msg_to_file(
              quapi_write_msg_to_file(cstream, Literal(lit)), Literal(0))
    BY DEF SendAssumption
  <1>3. cstream' \in Streams
    <2>1. Literal(lit) \in Messages /\ Literal(0) \in Messages
      BY MessageType
    <2>2. quapi_write_msg_to_file(cstream, Literal(lit)) \in Streams
      BY <1>1, <2>1, StreamType
    <2>. QED  BY <1>2, <2>1, <2>2, StreamType
  <1>4. lib' \in Solvers /\ cube' \in Seq(Int)
    BY <1>1, <1>2, SolverType
  <1>5. SeedInv'
    BY SameSeed DEF BasicInv
  <1>6. TypeOK'
    BY <1>1, <1>2, <1>3, <1>4 DEF TypeOK
  <1>7. /\ lib'.written_quantifier_literals = lib.written_quantifier_literals
        /\ lib'.universal_prefix_depth = lib.universal_prefix_depth
        /\ lib'.written_assumptions = lib.written_assumptions + 1
        /\ lib'.written_clauses = lib.written_clauses + 1
    BY <1>1, <1>2 DEF AfterAssume, Solvers
  <1>8. CubeIsCounted'
    BY <1>1, <1>7 DEF BasicInv, CubeIsCounted, Solvers
  <1>9. PrefixInv'
    BY <1>7, SamePrefix DEF BasicInv
  <1>. QED  BY <1>5, <1>6, <1>8, <1>9 DEF BasicInv

\* SOLVE for the child.
LEMMA SendSolveBasic ==
    ASSUME BasicInv, SendSolve,
           UNCHANGED <<procvars, call, wstream, forks, prefix, clauses, open>>,
           toParent' \in Seq(Messages)
    PROVE  BasicInv'
  <1>. USE DEF procvars
  <1>1. lib \in Solvers /\ TypeOK /\ cstream \in Streams
    BY DEF BasicInv, TypeOK
  <1>2. /\ lib' = Working(lib) /\ lpc' = "solving" /\ cube' = cube
        /\ cstream' = quapi_write_msg_to_file(cstream, Solve)
    BY DEF SendSolve
  <1>3. cstream' \in Streams /\ lib' \in Solvers
    BY <1>1, <1>2, MessageType, StreamType, SolverType, 0 \in Int
  <1>4. SeedInv'
    BY SameSeed DEF BasicInv
  <1>5. TypeOK'
    BY <1>1, <1>2, <1>3 DEF TypeOK
  <1>6. /\ lib'.written_quantifier_literals = lib.written_quantifier_literals
        /\ lib'.universal_prefix_depth = lib.universal_prefix_depth
        /\ lib'.written_assumptions = lib.written_assumptions
        /\ lib'.written_clauses = lib.written_clauses
    BY <1>1, <1>2 DEF Working, Solvers
  <1>7. CubeIsCounted'
    BY <1>6 DEF BasicInv, CubeIsCounted
  <1>8. PrefixInv'
    BY <1>6, SamePrefix DEF BasicInv
  <1>. QED  BY <1>4, <1>5, <1>7, <1>8 DEF BasicInv

\* The calls and what the library does for them.
LEMMA LibraryBasic ==
    ASSUME BasicInv, LibraryStep
    PROVE  BasicInv'
  <1>. USE DEF procvars
  <1>1. /\ TypeOK /\ lib \in Solvers /\ toParent \in Seq(Messages)
        /\ cube \in Seq(Int) /\ call \in Int /\ NewVar \in Nat
    BY NewVarType DEF BasicInv, TypeOK
  <1>2. ASSUME NEW lit \in {NewVar, -NewVar, 0}, quapi_quantify(lit)
        PROVE  BasicInv'
    <2>1. lit \in Int
      BY <1>1
    <2>. QED  BY <1>2, <2>1, QuantifyBasic
  <1>3. ASSUME NEW lit \in ClauseLits \cup {0}, quapi_add(lit)
        PROVE  BasicInv'
    <2>1. lit \in Int
      BY SerializationAssumption
    <2>. QED  BY <1>3, <2>1, AddBasic
  <1>4. ASSUME NEW lit \in {Len(cube) + 1, -(Len(cube) + 1)}, quapi_assume(lit)
        PROVE  BasicInv'
    <2>1. lit \in Int
      BY <1>1
    <2>2. UNCHANGED <<procvars, toParent, prefix, clauses, open>>
      BY <1>4 DEF quapi_assume, Client
    <2>3. CASE RequestFork(lit)
      BY <2>1, <2>2, <2>3, RequestForkBasic
    <2>4. CASE SendAssumption(lit) /\ UNCHANGED <<call, wstream, forks>>
      BY <1>1, <2>1, <2>2, <2>4, SendAssumptionBasic
    <2>. QED  BY <1>4, <2>3, <2>4 DEF quapi_assume
  <1>5. CASE quapi_solve
    <2>1. UNCHANGED <<procvars, toParent, prefix, clauses, open>>
      BY <1>5 DEF quapi_solve, Client
    <2>2. CASE RequestFork(0)
      BY <2>1, <2>2, RequestForkBasic
    <2>3. CASE SendSolve /\ UNCHANGED <<call, wstream, forks>>
      BY <1>1, <2>1, <2>3, SendSolveBasic
    <2>. QED  BY <1>5, <2>2, <2>3 DEF quapi_solve
  <1>6. CASE ReadForkReport
    <2>1. /\ UNCHANGED <<call, wstream, forks, procvars, prefix, clauses, open>>
          /\ toParent' = Tail(toParent) /\ toParent # <<>>
          /\ IF call = 0 THEN SendSolve ELSE SendAssumption(call)
      BY <1>6 DEF ReadForkReport
    <2>2. toParent' \in Seq(Messages)
      BY <1>1, <2>1
    <2>. QED  BY <1>1, <2>1, <2>2, SendSolveBasic, SendAssumptionBasic
  <1>7. CASE SolveReturns
    <2>1. /\ UNCHANGED <<call, wstream, cstream, forks, procvars, prefix,
                         clauses, open>>
          /\ toParent' = Tail(toParent) /\ toParent # <<>>
          /\ lib' = DropAssumptions(lib) /\ lpc' = "idle"
          /\ cube' = IF eof THEN cube ELSE <<>>
      BY <1>7 DEF SolveReturns
    <2>2. toParent' \in Seq(Messages) /\ cube' \in Seq(Int)
      BY <1>1, <2>1
    <2>3. lib' \in Solvers
      BY <1>1, <2>1, SolverType, 0 \in Int DEF BasicInv, CubeIsCounted
    <2>4. TypeOK'
      BY <1>1, <2>1, <2>2, <2>3 DEF TypeOK
    <2>5. /\ lib'.written_quantifier_literals = lib.written_quantifier_literals
          /\ lib'.universal_prefix_depth = lib.universal_prefix_depth
          /\ lib'.written_assumptions = 0
      BY <1>1, <2>1 DEF DropAssumptions, Solvers
    <2>6. CubeIsCounted'
      BY <2>3, <2>5 DEF CubeIsCounted, Solvers
    <2>7. PrefixInv' /\ SeedInv'
      BY <2>1, <2>5, SamePrefix, SameSeed DEF BasicInv
    <2>. QED  BY <2>4, <2>6, <2>7 DEF BasicInv
  <1>. QED  BY <1>2, <1>3, <1>4, <1>5, <1>6, <1>7 DEF LibraryStep

\* What the steps of the processes leave alone.
LEMMA ProcessQuiet ==
    ASSUME BasicInv, Runtime
    PROVE  /\ UNCHANGED <<lpc, call, lib, forks, prefix, clauses, open, cube>>
           /\ PrefixInv' /\ CubeIsCounted'
           /\ /\ wstream' \in Streams /\ cstream' \in Streams
              /\ toParent' \in Seq(Messages)
              /\ rpc' \in {"solver", "fetch", "dispatch"}
              /\ rt' \in Runtimes /\ msg' \in Messages
              /\ role' \in {"seed", "child"} /\ sibling' \in BOOLEAN
              /\ text' \in Seq(Lexemes) /\ eof' \in BOOLEAN
              => TypeOK'
  <1>1. UNCHANGED <<lpc, call, lib, forks, prefix, clauses, open, cube>>
    BY DEF Runtime
  <1>2. PrefixInv' /\ CubeIsCounted'
    BY <1>1, SamePrefix DEF BasicInv, CubeIsCounted
  <1>. QED  BY <1>1, <1>2 DEF BasicInv, TypeOK

\* What the seed makes of a message other than SOLVE: no end of its input.
LEMMA SeedRuns ==
    ASSUME NEW r \in Runtimes, NEW m \in Messages, m.type # "SOLVE",
           r.state # "WORKING", ~r.repeat_state, r.outbuf_len # "closed"
    PROVE  LET s == RunState(r, m)
           IN  /\ s.state # "WORKING" /\ ~s.repeat_state
               /\ s.outbuf_len # "closed"
  <1>. DEFINE s == RunState(r, m)
  <1>1. Ran(r, m, s)
    BY RunFacts
  <1>. HIDE DEF s
  <1>2. NextState(r.state, m, Enough(r)) # "WORKING"
    BY DEF NextState
  <1>3. s.outbuf_len # "closed" /\ ~s.repeat_state /\ s.state # "WORKING"
    BY <1>1, <1>2 DEF Ran
  <1>. QED  BY <1>3 DEF s

\* A message is taken from a stream.
LEMMA StreamRead ==
    ASSUME NEW f \in Streams, f.pipe # <<>>
    PROVE  [f EXCEPT !.pipe = Tail(@)] \in Streams /\ Head(f.pipe) \in Messages
  <1>1. f.pipe \in Seq(Messages)
    BY DEF Streams
  <1>2. Tail(f.pipe) \in Seq(Messages) /\ Head(f.pipe) \in Messages
    BY <1>1, HeadTailProperties
  <1>. QED  BY <1>2 DEF Streams

\* read() and the steps of advance_state.
LEMMA ProcessBasic ==
    ASSUME BasicInv, ProcessStep
    PROVE  BasicInv'
  <1>1. /\ TypeOK /\ SeedInv /\ rt \in Runtimes /\ msg \in Messages
        /\ wstream \in Streams /\ cstream \in Streams
        /\ toParent \in Seq(Messages) /\ forks \in Nat
        /\ role \in {"seed", "child"} /\ sibling \in BOOLEAN /\ eof \in BOOLEAN
        /\ text \in Seq(Lexemes) /\ rpc \in {"solver", "fetch", "dispatch"}
    BY DEF BasicInv, TypeOK
  <1>2. ASSUME NEW n \in ReadSizes, ReadBuffered(n)
        PROVE  BasicInv'
    <2>1. /\ Runtime /\ ReturnFromRead(rt, n)
          /\ UNCHANGED <<wstream, cstream, msg, role, sibling>>
          /\ Pending # <<>> \/ rt.outbuf_len = "closed"
      BY <1>2 DEF ReadBuffered
    <2>2. n \in Nat \ {0}
      BY SerializationAssumption
    <2>3. /\ rpc' = "solver" /\ rt' \in Runtimes /\ Kept(rt, rt')
          /\ text' \in Seq(Lexemes) /\ eof' \in BOOLEAN
          /\ eof' = (rt.outbuf_len = "closed" \/ rt.outbuf = <<>>)
          /\ toParent' \in Seq(Messages)
      BY <1>1, <2>1, <2>2, ReturnFacts
    <2>4. SeedInv'
      <3>1. role = "seed" => ~eof'
        BY <1>1, <2>1, <2>3 DEF SeedInv, Pending
      <3>2. UNCHANGED W
        BY <2>1 DEF W
      <3>. QED  BY <1>1, <2>1, <2>3, <3>1, <3>2 DEF SeedInv, Kept
    <2>. QED  BY <1>1, <2>1, <2>3, <2>4, ProcessQuiet DEF BasicInv
  <1>3. ASSUME NEW n \in ReadSizes, ReadRepeated(n)
        PROVE  BasicInv'
    <2>. DEFINE q == [rt EXCEPT !.outbuf_len = "len"]
                r == RunState(q, msg)
    <2>1. /\ Runtime /\ ReturnFromRead(r, n) /\ rt.repeat_state
          /\ UNCHANGED <<wstream, cstream, msg, role, sibling>>
      BY <1>3 DEF ReadRepeated
    <2>2. n \in Nat \ {0}
      BY SerializationAssumption
    <2>3. q \in Runtimes
      BY <1>1 DEF Runtimes
    <2>. HIDE DEF q
    <2>4. r \in Runtimes
      BY <1>1, <2>3, RunFacts DEF Ran
    <2>. HIDE DEF r
    <2>5. /\ rpc' = "solver" /\ rt' \in Runtimes
          /\ text' \in Seq(Lexemes) /\ eof' \in BOOLEAN
          /\ toParent' \in Seq(Messages)
      BY <1>1, <2>1, <2>2, <2>4, ReturnFacts
    <2>6. SeedInv'
      <3>1. UNCHANGED W /\ role # "seed"
        BY <1>1, <2>1 DEF W, SeedInv
      <3>. QED  BY <1>1, <2>1, <3>1 DEF SeedInv
    <2>. QED  BY <1>1, <2>1, <2>5, <2>6, ProcessQuiet DEF BasicInv
  <1>4. ASSUME NEW n \in ReadSizes, Dispatch(n)
        PROVE  BasicInv'
    <2>. DEFINE r == RunState(rt, msg)
    <2>1. /\ Runtime /\ r.outbuf_len # "again"
          /\ \/ /\ r.outbuf = <<>> /\ r.outbuf_len = "len"
                /\ rt' = r /\ UNCHANGED <<rpc, text, eof, toParent>>
             \/ /\ ~(r.outbuf = <<>> /\ r.outbuf_len = "len")
                /\ ReturnFromRead(r, n)
          /\ UNCHANGED <<wstream, cstream, msg, role, sibling>>
      BY <1>4 DEF Dispatch
    <2>2. n \in Nat \ {0}
      BY SerializationAssumption
    <2>3. r \in Runtimes
      BY <1>1, RunFacts DEF Ran
    <2>4. role = "seed" => /\ r.state # "WORKING" /\ ~r.repeat_state
                           /\ r.outbuf_len # "closed"
      BY <1>1, SeedRuns DEF SeedInv
    <2>. HIDE DEF r
    <2>5. r.outbuf_len \in {"len", "again", "closed"}
      BY <2>3 DEF Runtimes
    <2>6. /\ rpc' \in {"solver", "fetch", "dispatch"} /\ rt' \in Runtimes
          /\ Kept(r, rt') /\ text' \in Seq(Lexemes) /\ eof' \in BOOLEAN
          /\ toParent' \in Seq(Messages)
          /\ \/ eof' = eof
             \/ eof' = (r.outbuf_len = "closed" \/ r.outbuf = <<>>)
                /\ ~(r.outbuf = <<>> /\ r.outbuf_len = "len")
      <3>1. CASE rt' = r /\ UNCHANGED <<rpc, text, eof, toParent>>
        BY <1>1, <2>3, <3>1 DEF Kept
      <3>2. CASE /\ ~(r.outbuf = <<>> /\ r.outbuf_len = "len")
                 /\ ReturnFromRead(r, n)
        <4>1. /\ rpc' = "solver" /\ rt' \in Runtimes /\ Kept(r, rt')
              /\ text' \in Seq(Lexemes) /\ eof' \in BOOLEAN
              /\ eof' = (r.outbuf_len = "closed" \/ r.outbuf = <<>>)
              /\ toParent' \in Seq(Messages)
          BY <1>1, <2>2, <2>3, <3>2, ReturnFacts
        <4>. QED  BY <3>2, <4>1
      <3>. QED  BY <2>1, <3>1, <3>2
    <2>7. SeedInv'
      <3>1. role = "seed" => ~eof'
        BY <1>1, <2>1, <2>4, <2>5, <2>6 DEF SeedInv
      <3>2. UNCHANGED W
        BY <2>1 DEF W
      <3>. QED  BY <1>1, <2>1, <2>4, <2>6, <3>1, <3>2 DEF SeedInv, Kept
    <2>. QED  BY <1>1, <2>1, <2>6, <2>7, ProcessQuiet DEF BasicInv
  <1>5. CASE ReadNeedsMessage
    <2>1. /\ Runtime /\ rpc' = "fetch"
          /\ UNCHANGED <<rt, msg, role, sibling, text, eof, wstream, cstream,
                         toParent>>
      BY <1>5 DEF ReadNeedsMessage
    <2>2. SeedInv'
      BY <1>1, <2>1, SameSeed
    <2>. QED  BY <1>1, <2>1, <2>2, ProcessQuiet DEF BasicInv
  <1>6. CASE Fetch
    <2>1. /\ Runtime /\ rpc' = "dispatch"
          /\ rt' = [rt EXCEPT !.outbuf_len = "len"]
          /\ UNCHANGED <<role, sibling, text, eof, toParent>>
      BY <1>6 DEF Fetch
    <2>2. /\ rt' \in Runtimes /\ rt'.outbuf_len = "len" /\ rt'.state = rt.state
          /\ rt'.repeat_state = rt.repeat_state
      BY <1>1, <2>1 DEF Runtimes
    <2>3. CASE /\ role = "seed" /\ wstream.pipe # <<>>
               /\ msg' = Head(wstream.pipe) /\ UNCHANGED cstream
               /\ wstream' = [wstream EXCEPT !.pipe = Tail(@)]
      <3>1. wstream' \in Streams /\ msg' \in Messages
        BY <1>1, <2>3, StreamRead
      <3>2. W \in Seq(Messages) /\ W # <<>> /\ W[1] = msg' /\ W' = Tail(W)
        BY <1>1, <2>3, ContentsRead DEF W
      <3>3. /\ msg'.type # "SOLVE"
            /\ \A i \in 1..Len(W') : W'[i].type # "SOLVE"
        BY <1>1, <3>2 DEF SeedInv
      <3>4. SeedInv'
        BY <1>1, <2>1, <2>2, <3>3 DEF SeedInv
      <3>. QED
        BY <1>1, <2>1, <2>2, <2>3, <3>1, <3>4, ProcessQuiet DEF BasicInv
    <2>4. CASE /\ role = "child" /\ cstream.pipe # <<>>
               /\ msg' = Head(cstream.pipe) /\ UNCHANGED wstream
               /\ cstream' = [cstream EXCEPT !.pipe = Tail(@)]
      <3>1. cstream' \in Streams /\ msg' \in Messages
        BY <1>1, <2>4, StreamRead
      <3>2. SeedInv'
        <4>1. UNCHANGED W
          BY <2>4 DEF W
        <4>. QED  BY <1>1, <2>1, <2>4, <4>1 DEF SeedInv
      <3>. QED
        BY <1>1, <2>1, <2>2, <2>4, <3>1, <3>2, ProcessQuiet DEF BasicInv
    <2>. QED  BY <1>6, <2>3, <2>4 DEF Fetch
  <1>7. CASE DispatchFork
    <2>. DEFINE r == RunState(rt, msg)
    <2>1. /\ Runtime /\ rt' = r /\ rpc' = "fetch"
          /\ toParent' = Append(toParent, ForkReport(forks))
          /\ \/ role' = "child" /\ UNCHANGED sibling
             \/ sibling' = TRUE /\ UNCHANGED role
          /\ UNCHANGED <<wstream, cstream, msg, text, eof>>
      BY <1>7 DEF DispatchFork
    <2>2. r \in Runtimes
      BY <1>1, RunFacts DEF Ran
    <2>3. role = "seed" => /\ r.state # "WORKING" /\ ~r.repeat_state
                           /\ r.outbuf_len # "closed"
      BY <1>1, SeedRuns DEF SeedInv
    <2>. HIDE DEF r
    <2>4. ForkReport(forks) \in Messages
      BY <1>1, MessageType
    <2>5. /\ toParent' \in Seq(Messages) /\ role' \in {"seed", "child"}
          /\ sibling' \in BOOLEAN /\ (role' = "seed" => role = "seed")
      <3>1. toParent' \in Seq(Messages)
        BY <1>1, <2>1, <2>4
      <3>2. role' \in {"seed", "child"} /\ (role' = "seed" => role = "seed")
        BY <1>1, <2>1
      <3>3. sibling' \in BOOLEAN
        BY <1>1, <2>1, Zenon
      <3>. QED  BY <3>1, <3>2, <3>3
    <2>6. SeedInv'
      <3>1. UNCHANGED W
        BY <2>1 DEF W
      <3>. QED  BY <1>1, <2>1, <2>3, <2>5, <3>1 DEF SeedInv
    <2>. QED  BY <1>1, <2>1, <2>2, <2>5, <2>6, ProcessQuiet DEF BasicInv
  <1>8. CASE SiblingReads
    <2>1. /\ Runtime /\ cstream.pipe # <<>>
          /\ cstream' = [cstream EXCEPT !.pipe = Tail(@)]
          /\ \/ sibling' = FALSE /\ toParent' = Append(toParent, ExitCode(20))
             \/ UNCHANGED <<sibling, toParent>>
          /\ UNCHANGED <<wstream, rpc, rt, msg, role, text, eof>>
      BY <1>8 DEF SiblingReads
    <2>2. cstream' \in Streams
      BY <1>1, <2>1, StreamRead
    <2>3. ExitCode(20) \in Messages
      BY MessageType
    <2>4. toParent' \in Seq(Messages) /\ sibling' \in BOOLEAN
      <3>1. toParent' \in Seq(Messages)
        <4>1. Append(toParent, ExitCode(20)) \in Seq(Messages)
          BY <1>1, <2>3, AppendProperties
        <4>. QED  BY <1>1, <2>1, <4>1
      <3>2. sibling' \in BOOLEAN
        BY <1>1, <2>1, Zenon
      <3>. QED  BY <3>1, <3>2
    <2>5. SeedInv'
      BY <1>1, <2>1, SameSeed
    <2>. QED  BY <1>1, <2>1, <2>2, <2>4, <2>5, ProcessQuiet DEF BasicInv
  <1>. QED  BY <1>2, <1>3, <1>4, <1>5, <1>6, <1>7, <1>8 DEF ProcessStep

\* HEADER sent and STARTED received: the state in which quapi_init returns.
LEMMA InitBasic == Init => BasicInv
  <1>. SUFFICES ASSUME Init PROVE BasicInv
    OBVIOUS
  <1>1. wstream \in Streams /\ cstream \in Streams /\ W = <<>>
    <2>1. wstream = [buf |-> <<>>, pipe |-> <<>>] /\ cstream = wstream
      BY DEF Init, NoStream
    <2>2. W = <<>> \o <<>>
      BY <2>1 DEF W, Contents
    <2>. QED  BY <2>1, <2>2 DEF Streams
  <1>2. lib \in Solvers /\ CubeIsCounted /\ lib.universal_prefix_depth = -1
    BY DEF Init, FreshSolver, Solvers, LibStates, CubeIsCounted
  <1>3. Header \in Messages /\ Header.type = "HEADER"
    BY MessageType DEF Header, Msg
  <1>. DEFINE i == quapi_runtime_init
  <1>4. /\ i \in Runtimes /\ i.state = "WAITING_FOR_HEADER"
        /\ i.outbuf_len = "len" /\ i.repeat_state = FALSE
        /\ i.written_clauses = 0
    <2>1. UnitTautology(-1, 1) \in Seq(Lexemes)
      BY LexemeType DEF UnitTautology
    <2>. QED  BY <2>1 DEF quapi_runtime_init, Runtimes, PreloadStates
  <1>5. rt = RunState(i, Header)
    BY DEF Init
  <1>. HIDE DEF i
  <1>6. Ran(i, Header, rt)
    BY <1>3, <1>4, <1>5, RunFacts
  <1>7. /\ rt \in Runtimes /\ rt.state = "READING_PREFIX" /\ ~rt.repeat_state
        /\ rt.outbuf_len = "len" /\ rt.written_clauses = 0
    BY <1>3, <1>4, <1>6 DEF Ran, NextState, EndsClause
  <1>8. TypeOK
    <2>1. /\ sibling \in BOOLEAN /\ eof \in BOOLEAN
      BY Zenon DEF Init
    <2>. QED  BY <1>1, <1>2, <1>3, <1>7, <2>1 DEF Init, TypeOK
  <1>9. SeedInv
    BY <1>1, <1>3, <1>7 DEF Init, SeedInv
  <1>10. PrefixInv
    <2>1. {j \in 1..Len(prefix) : prefix[j] # 0} = {}
      BY DEF Init
    <2>2. Rank(Len(prefix)) = 0
      BY <2>1, FS_EmptySet DEF Rank
    <2>. QED  BY <1>2, <2>2 DEF Init, FreshSolver, PrefixInv
  <1>. QED  BY <1>2, <1>8, <1>9, <1>10 DEF BasicInv

\* Every step, stuttering included.
LEMMA NextBasic == BasicInv /\ [Next]_vars => BasicInv'
  <1>. SUFFICES ASSUME BasicInv, [Next]_vars PROVE BasicInv'
    OBVIOUS
  <1>1. CASE LibraryStep
    BY <1>1, LibraryBasic
  <1>2. CASE ProcessStep
    BY <1>2, ProcessBasic
  <1>3. CASE UNCHANGED vars
    <2>1. UNCHANGED <<wstream, role, eof, rt, msg, prefix, lib>> /\ TypeOK'
      BY <1>3 DEF vars, BasicInv, TypeOK
    <2>. QED  BY <2>1, SameSeed, SamePrefix DEF BasicInv, CubeIsCounted
  <1>. QED
    BY <1>1, <1>2, <1>3 DEF Next, LibraryStep, ProcessStep, ClientStops

LEMMA AlwaysBasic == Spec => []BasicInv
  BY InitBasic, NextBasic, PTL DEF Spec

\* The types of library, streams and runtime, whatever the client's habits.
THEOREM SerializationTypes == Spec => []TypeOK
  <1>1. BasicInv => TypeOK
    BY DEF BasicInv
  <1>. QED  BY <1>1, AlwaysBasic, PTL

\* The seed is never told that its input is over, however the reads of the
\* solver are cut and whatever the client does: it can serve the next FORK.
THEOREM SeedServesOn == Spec => []SeedNeverEnds
  <1>1. BasicInv => SeedNeverEnds
    BY DEF BasicInv, SeedInv, SeedNeverEnds
  <1>. QED  BY <1>1, AlwaysBasic, PTL

\* When quapi_solve refuses, a flipped universal is without its assumption: the
\* refusal compares with the rank of the last one.
THEOREM RefusalsJustified == Spec => []NoFalseRefusal
  <1>1. BasicInv => NoFalseRefusal
    <2>. SUFFICES ASSUME BasicInv, SolveRefused(lib)
                  PROVE  \E i \in DOMAIN prefix :
                            /\ prefix[i] < 0 /\ Rank(i) <= MaxAssumptions
                            /\ Rank(i) > lib.written_assumptions
      BY DEF NoFalseRefusal
    <2>1. /\ lib.written_assumptions \in Nat
          /\ lib.universal_prefix_depth \in Nat \cup {-1}
          /\ lib.written_assumptions < lib.universal_prefix_depth
      BY DEF BasicInv, TypeOK, Solvers, SolveRefused
    <2>2. PICK i \in DOMAIN prefix :
             /\ prefix[i] < 0 /\ Rank(i) <= MaxAssumptions
             /\ Rank(i) = lib.universal_prefix_depth + 1
      BY <2>1 DEF BasicInv, PrefixInv
    <2>. QED  BY <2>1, <2>2
  <1>. QED  BY <1>1, AlwaysBasic, PTL
-----------------------------------------------------------------------------
(***************************************************************************)
(* The order of messages.  The client of this part ends a block of the     *)
(* prefix before it solves without a matrix, and adds no empty clause; the *)
(* runtime is not written for the others.                                  *)
(***************************************************************************)
CommonUse == Habits \cap {"no_matrix", "empty_clause"} = {}

CommonInv == BasicInv /\ OrderInv /\ ClausesAccounted

\* A message at the back of a queue.
LEMMA OrderlyAppend ==
    ASSUME NEW s \in Seq(Messages), NEW m \in Messages, NEW h, Orderly(s, h),
           Follows(StageAt(s, h, Len(s) + 1), m)
    PROVE  LET t == Append(s, m)
           IN  /\ t \in Seq(Messages) /\ t # <<>> /\ Len(t) = Len(s) + 1
               /\ t[Len(t)] = m /\ \A i \in 1..Len(s) : t[i] = s[i]
               /\ Orderly(t, h) /\ StageAt(t, h, Len(t) + 1) = After(m)
               /\ StageAt(t, h, Len(t)) = StageAt(s, h, Len(s) + 1)
  <1>. DEFINE t == Append(s, m)
  <1>1. /\ t \in Seq(Messages) /\ Len(t) = Len(s) + 1 /\ Len(s) \in Nat
        /\ t[Len(s) + 1] = m /\ \A i \in 1..Len(s) : t[i] = s[i]
    OBVIOUS
  <1>. HIDE DEF t
  <1>2. \A i \in 1..Len(s) + 1 : StageAt(t, h, i) = StageAt(s, h, i)
    BY <1>1 DEF StageAt
  <1>3. Orderly(t, h)
    <2>. SUFFICES ASSUME NEW i \in 1..Len(t)
                  PROVE  Follows(StageAt(t, h, i), t[i])
      BY DEF Orderly
    <2>1. CASE i \in 1..Len(s)
      BY <1>1, <1>2, <2>1 DEF Orderly
    <2>2. CASE i = Len(s) + 1
      BY <1>1, <1>2, <2>2
    <2>. QED  BY <1>1, <2>1, <2>2
  <1>4. StageAt(t, h, Len(t) + 1) = After(m)
    <2>1. Len(t) + 1 # 1 /\ (Len(t) + 1) - 1 = Len(s) + 1
      BY <1>1
    <2>. QED  BY <1>1, <2>1 DEF StageAt
  <1>5. StageAt(t, h, Len(t)) = StageAt(s, h, Len(s) + 1)
    <2>1. Len(s) + 1 \in 1..Len(s) + 1
      BY <1>1
    <2>. QED  BY <1>1, <1>2, <2>1
  <1>6. t # <<>> /\ t[Len(t)] = m
    BY <1>1
  <1>. QED  BY <1>1, <1>3, <1>4, <1>5, <1>6 DEF t

\* A message at the front of a queue.
LEMMA OrderlyTail ==
    ASSUME NEW s \in Seq(Messages), NEW h, Orderly(s, h), s # <<>>
    PROVE  LET t == Tail(s)
           IN  /\ Follows(h, s[1]) /\ Orderly(t, After(s[1]))
               /\ t \in Seq(Messages) /\ Len(t) = Len(s) - 1
               /\ Len(s) \in Nat /\ Len(s) >= 1
               /\ \A i \in 1..Len(t) : t[i] = s[i + 1]
               /\ \A i \in 1..Len(s) :
                     StageAt(t, After(s[1]), i) = StageAt(s, h, i + 1)
  <1>. DEFINE t == Tail(s)
  <1>1. /\ t \in Seq(Messages) /\ Len(t) = Len(s) - 1 /\ Len(s) \in Nat
        /\ Len(s) >= 1 /\ \A i \in 1..Len(t) : t[i] = s[i + 1]
    OBVIOUS
  <1>. HIDE DEF t
  <1>2. Follows(h, s[1])
    <2>1. 1 \in 1..Len(s) /\ StageAt(s, h, 1) = h
      BY <1>1 DEF StageAt
    <2>. QED  BY <2>1 DEF Orderly
  <1>3. ASSUME NEW i \in 1..Len(s)
        PROVE  StageAt(t, After(s[1]), i) = StageAt(s, h, i + 1)
    <2>1. i + 1 # 1 /\ (i + 1) - 1 = i
      OBVIOUS
    <2>2. StageAt(s, h, i + 1) = After(s[i])
      BY <2>1 DEF StageAt
    <2>3. CASE i = 1
      BY <2>2, <2>3 DEF StageAt
    <2>4. CASE i # 1
      <3>1. i - 1 \in 1..Len(t) /\ (i - 1) + 1 = i
        BY <1>1, <2>4
      <3>2. t[i - 1] = s[i]
        BY <1>1, <3>1
      <3>. QED  BY <2>2, <2>4, <3>2 DEF StageAt
    <2>. QED  BY <2>3, <2>4
  <1>4. Orderly(t, After(s[1]))
    <2>. SUFFICES ASSUME NEW i \in 1..Len(t)
                  PROVE  Follows(StageAt(t, After(s[1]), i), t[i])
      BY DEF Orderly
    <2>1. i \in 1..Len(s) /\ i + 1 \in 1..Len(s)
      BY <1>1
    <2>. QED  BY <1>1, <1>3, <2>1 DEF Orderly
  <1>. QED  BY <1>1, <1>2, <1>3, <1>4 DEF t

\* Nothing follows SOLVE.
LEMMA NothingFollows ==
    ASSUME NEW s \in Seq(Messages), Orderly(s, "end")
    PROVE  s = <<>> /\ Len(s) = 0
  <1>1. ASSUME s # <<>> PROVE FALSE
    <2>1. Follows("end", s[1])
      BY <1>1, OrderlyTail
    <2>. QED  BY <2>1 DEF Follows
  <1>. QED  BY <1>1

\* The queues are queues.
LEMMA QueueType ==
    ASSUME TypeOK
    PROVE  W \in Seq(Messages) /\ C \in Seq(Messages)
  <1>1. wstream \in Streams /\ cstream \in Streams /\ Solve \in Messages
    BY MessageType DEF TypeOK
  <1>. QED  BY <1>1, ContentsWritten DEF W, C

\* The clause whose end the runtime has in hand.
Held == IF rpc = "dispatch" /\ EndsClause(rt.state, msg) THEN 1 ELSE 0

\* ClausesAccounted in these terms.
LEMMA Account ==
    ClausesAccounted <=>
      (role = "seed" => rt.written_clauses + Held + ClauseEnds(W) = Added(lib))
  BY DEF ClausesAccounted, Held, W, Added

\* A client that adds to the formula finds the seed, and no child.
LEMMA ClientIsSeed ==
    ASSUME CommonInv, lpc = "idle", ~eof,
           lib.state \in {"INPUT", "INPUT_LITERALS"}
    PROVE  /\ role = "seed" /\ ~ForkAhead /\ ~sibling /\ toParent = <<>>
           /\ C = <<>> /\ Orderly(W, Here)
           /\ ClientStage = StageAt(W, Here, Len(W) + 1)
  <1>1. role = "seed"
    BY DEF CommonInv, BasicInv, TypeOK, OrderInv, ChildSync
  <1>2. /\ ~ForkAhead /\ ~sibling /\ toParent = <<>> /\ C = <<>>
    BY <1>1 DEF CommonInv, OrderInv, SeedSync
  <1>3. ~ForkSent
    BY <1>2 DEF ForkAhead
  <1>. QED  BY <1>1, <1>2, <1>3 DEF CommonInv, OrderInv, SeedOrder

\* One more message of the formula.
LEMMA FormulaSent ==
    ASSUME CommonInv, lpc = "idle", ~eof,
           lib.state \in {"INPUT", "INPUT_LITERALS"},
           NEW m \in Messages, m.type \in {"QUANTIFIER", "LITERAL"},
           Follows(ClientStage, m), ClientStage' = After(m),
           wstream' = quapi_write_msg_to_file(wstream, m),
           UNCHANGED <<lpc, cstream, toParent, procvars>>,
           lib'.state \in {"INPUT", "INPUT_LITERALS"},
           lib'.state = "INPUT" => open' = <<>> /\ clauses' = <<>>,
           Added(lib') = Added(lib) + (IF m = Literal(0) THEN 1 ELSE 0)
    PROVE  OrderInv' /\ ClausesAccounted'
  <1>. USE DEF procvars
  <1>1. /\ role = "seed" /\ ~ForkAhead /\ ~sibling /\ toParent = <<>>
        /\ C = <<>> /\ Orderly(W, Here)
        /\ ClientStage = StageAt(W, Here, Len(W) + 1)
    BY ClientIsSeed
  <1>2. /\ TypeOK /\ wstream \in Streams /\ lib \in Solvers
        /\ rt.written_clauses \in Nat
    BY DEF CommonInv, BasicInv, TypeOK, Runtimes
  <1>3. W \in Seq(Messages) /\ W' = Append(W, m)
    BY <1>2, ContentsWritten DEF W
  <1>4. UNCHANGED <<Here, C, role, rpc, msg>>
    BY DEF Here, C
  <1>5. /\ W' \in Seq(Messages) /\ W' # <<>> /\ Len(W') = Len(W) + 1
        /\ W'[Len(W')] = m /\ \A i \in 1..Len(W) : W'[i] = W[i]
        /\ Orderly(W', Here) /\ StageAt(W', Here, Len(W') + 1) = After(m)
    BY <1>1, <1>3, OrderlyAppend
  <1>6. ~ForkSent' /\ ~ForkAhead'
    BY <1>1, <1>4, <1>5 DEF ForkSent, ForkAhead
  <1>7. \A i \in 1..Len(W') : W'[i].type # "FORK"
    <2>1. \A i \in 1..Len(W) : W[i].type # "FORK"
      <3>1. \A i \in 1..Len(W) : W[i].type = "FORK" => i = Len(W)
        BY <1>1 DEF CommonInv, OrderInv, SeedOrder
      <3>2. W = <<>> \/ W[Len(W)].type # "FORK"
        BY <1>1 DEF ForkAhead, ForkSent
      <3>. QED  BY <1>3, <3>1, <3>2
    <2>2. Len(W) \in Nat
      BY <1>3
    <2>. QED  BY <1>5, <2>1, <2>2
  <1>8. SeedOrder'
    <2>1. ~(rpc = "dispatch" /\ msg.type = "FORK")
      BY <1>1 DEF ForkAhead
    <2>2. ClientStage' = StageAt(W', Here', IF ForkSent' THEN Len(W') ELSE Len(W') + 1)
      BY <1>4, <1>5, <1>6
    <2>. QED  BY <1>4, <1>5, <1>7, <2>1, <2>2 DEF SeedOrder
  <1>9. SeedSync'
    BY <1>1, <1>4, <1>6 DEF SeedSync
  <1>10. RuntimeInv' /\ ChildOrder' /\ ChildSync'
    BY <1>1, <1>4 DEF CommonInv, OrderInv, RuntimeInv, ChildOrder, ChildSync
  <1>11. ClausesAccounted'
    <2>1. rt.written_clauses + Held + ClauseEnds(W) = Added(lib)
      BY <1>1, Account DEF CommonInv
    <2>2. ClauseEnds(W') = ClauseEnds(W) + (IF m = Literal(0) THEN 1 ELSE 0)
      BY <1>3, EndsAppend
    <2>3. ClauseEnds(W) \in Nat /\ Held \in Nat /\ Held' = Held
      BY <1>3, EndsFinite DEF Held
    <2>4. rt'.written_clauses + Held' + ClauseEnds(W') = Added(lib')
      BY <1>2, <2>1, <2>2, <2>3
    <2>. QED  BY <2>4 DEF ClausesAccounted, Held, W, Added
  <1>. QED  BY <1>8, <1>9, <1>10, <1>11 DEF OrderInv

\* Prefix.
LEMMA QuantifyOrder ==
    ASSUME CommonInv, NEW lit \in Int, quapi_quantify(lit)
    PROVE  OrderInv' /\ ClausesAccounted'
  <1>. DEFINE x == SentQuantifier(lib, lit)
              m == Quantifier(x)
  <1>1. /\ lpc = "idle" /\ ~eof /\ lib.state = "INPUT"
        /\ UNCHANGED <<procvars, toParent, lpc, cstream, clauses, open>>
        /\ wstream' = quapi_write_msg_to_file(wstream, m)
        /\ lib' = AfterQuantify(lib, lit) /\ prefix' = Append(prefix, lit)
        /\ lit = 0 => BlockOpen
    BY DEF quapi_quantify, Client, CanQuantify
  <1>2. lib \in Solvers /\ prefix \in Seq(Int)
    BY DEF CommonInv, BasicInv, TypeOK
  <1>3. x \in Int /\ (x = 0 <=> lit = 0)
    BY DEF SentQuantifier
  <1>. HIDE DEF x
  <1>4. m \in Messages /\ m.type = "QUANTIFIER" /\ m.data = x
    BY <1>3, MessageType DEF Quantifier, Msg
  <1>. HIDE DEF m
  <1>5. role = "seed"
    BY <1>1, ClientIsSeed
  <1>6. open = <<>> /\ clauses = <<>>
    BY <1>1, <1>5 DEF CommonInv, OrderInv, SeedOrder
  <1>7. Follows(ClientStage, m)
    BY <1>1, <1>3, <1>4, <1>6 DEF ClientStage, Follows
  <1>8. BlockOpen' <=> lit # 0
    <2>1. /\ prefix' # <<>> /\ prefix'[Len(prefix')] = lit
      BY <1>1, <1>2
    <2>. QED  BY <2>1 DEF BlockOpen
  <1>9. ClientStage' = After(m)
    BY <1>1, <1>3, <1>4, <1>6, <1>8 DEF ClientStage, After
  <1>10. lib'.state = "INPUT"
    BY <1>1, <1>2 DEF AfterQuantify, Solvers
  <1>11. Added(lib') = Added(lib) + (IF m = Literal(0) THEN 1 ELSE 0)
    <2>1. m # Literal(0)
      BY <1>4 DEF Literal, Msg
    <2>. QED  BY <1>1, <1>2, <2>1, AddedKept
  <1>. QED
    BY <1>1, <1>4, <1>6, <1>7, <1>9, <1>10, <1>11, FormulaSent

\* Matrix.
LEMMA AddOrder ==
    ASSUME CommonUse, CommonInv, NEW lit \in Int, quapi_add(lit)
    PROVE  OrderInv' /\ ClausesAccounted'
  <1>. DEFINE m == Literal(lit)
  <1>1. /\ lpc = "idle" /\ ~eof /\ lib.state \in {"INPUT", "INPUT_LITERALS"}
        /\ UNCHANGED <<procvars, toParent, lpc, cstream, prefix>>
        /\ wstream' = quapi_write_msg_to_file(wstream, m)
        /\ lib' = AfterAdd(lib, lit)
        /\ open' = IF lit = 0 THEN <<>> ELSE Append(open, lit)
        /\ clauses' = IF lit = 0 THEN Append(clauses, open) ELSE clauses
        /\ lit = 0 => open # <<>>
    BY DEF quapi_add, Client, CanAdd, CommonUse
  <1>2. /\ lib \in Solvers /\ open \in Seq(Int) /\ clauses \in Seq(Seq(Int))
    BY DEF CommonInv, BasicInv, TypeOK
  <1>3. /\ m \in Messages /\ m.type = "LITERAL" /\ m.data = lit
        /\ m = Literal(0) <=> lit = 0
    BY MessageType DEF Literal, Msg
  <1>. HIDE DEF m
  <1>4. Follows(ClientStage, m)
    BY <1>1, <1>3 DEF ClientStage, Follows
  <1>5. ClientStage' = After(m)
    <2>1. lit = 0 => open' = <<>> /\ clauses' # <<>>
      BY <1>1, <1>2
    <2>2. lit # 0 => open' # <<>>
      <3>1. open \in Seq(Int)
        BY <1>2
      <3>2. Append(open, lit) # <<>>
        BY <3>1, AppendProperties
      <3>. QED  BY <1>1, <3>2
    <2>. QED  BY <1>3, <2>1, <2>2 DEF ClientStage, After
  <1>6. lib'.state = "INPUT_LITERALS"
    BY <1>1, <1>2 DEF AfterAdd, Solvers
  <1>7. Added(lib') = Added(lib) + (IF m = Literal(0) THEN 1 ELSE 0)
    BY <1>1, <1>2, <1>3, AddedKept
  <1>. QED  BY <1>1, <1>3, <1>4, <1>5, <1>6, <1>7, FormulaSent

\* FORK goes out behind whole clauses and a closed prefix.
LEMMA RequestForkOrder ==
    ASSUME CommonUse, CommonInv, NEW c \in Int, RequestFork(c), Client, Settled,
           UNCHANGED <<prefix, clauses, open>>
    PROVE  OrderInv' /\ ClausesAccounted'
  <1>. USE DEF procvars
  <1>. DEFINE m == Fork(1)
  <1>1. /\ lpc = "idle" /\ ~eof /\ lib.state \in {"INPUT", "INPUT_LITERALS"}
        /\ UNCHANGED <<rpc, rt, msg, role, sibling, text, eof, toParent, cstream>>
        /\ wstream' = quapi_write_msg_to_file(wstream, m)
        /\ lib' = AfterMakeSolvable(lib) /\ lpc' = "fork"
    BY DEF RequestFork, Client, NeedsFork
  <1>2. /\ TypeOK /\ wstream \in Streams /\ lib \in Solvers
        /\ rt.written_clauses \in Nat
    BY DEF CommonInv, BasicInv, TypeOK, Runtimes
  <1>3. m \in Messages /\ m.type = "FORK" /\ m # Literal(0)
    <2>1. m \in Messages /\ m.type = "FORK"
      BY MessageType DEF Fork, Msg
    <2>2. Literal(0).type = "LITERAL"
      BY DEF Literal, Msg
    <2>. QED  BY <2>1, <2>2
  <1>. HIDE DEF m
  <1>4. /\ role = "seed" /\ ~ForkAhead /\ ~sibling /\ toParent = <<>>
        /\ C = <<>> /\ Orderly(W, Here)
        /\ ClientStage = StageAt(W, Here, Len(W) + 1)
    BY <1>1, ClientIsSeed
  <1>5. ClientStage \in {"prefix", "matrix"}
    BY DEF Settled, CommonUse, ClientStage
  <1>6. W \in Seq(Messages) /\ W' = Append(W, m)
    BY <1>1, <1>2, <1>3, ContentsWritten DEF W
  <1>7. Follows(StageAt(W, Here, Len(W) + 1), m)
    BY <1>3, <1>4, <1>5 DEF Follows
  <1>8. /\ W' \in Seq(Messages) /\ W' # <<>> /\ Len(W') = Len(W) + 1
        /\ W'[Len(W')] = m /\ \A i \in 1..Len(W) : W'[i] = W[i]
        /\ Orderly(W', Here)
        /\ StageAt(W', Here, Len(W')) = StageAt(W, Here, Len(W) + 1)
    BY <1>3, <1>4, <1>6, <1>7, OrderlyAppend
  <1>9. UNCHANGED <<Here, C, ClientStage>>
    BY <1>1 DEF Here, C, ClientStage, BlockOpen
  <1>10. ForkSent'
    BY <1>3, <1>8 DEF ForkSent
  <1>11. \A i \in 1..Len(W') : W'[i].type = "FORK" => i = Len(W')
    <2>1. \A i \in 1..Len(W) : W[i].type # "FORK"
      <3>1. \A i \in 1..Len(W) : W[i].type = "FORK" => i = Len(W)
        BY <1>4 DEF CommonInv, OrderInv, SeedOrder
      <3>2. W = <<>> \/ W[Len(W)].type # "FORK"
        BY <1>4 DEF ForkAhead, ForkSent
      <3>. QED  BY <1>6, <3>1, <3>2
    <2>2. Len(W) \in Nat
      BY <1>6
    <2>. QED  BY <1>8, <2>1, <2>2
  <1>12. lib'.state = "INPUT_ASSUMPTIONS"
    BY <1>1, <1>2 DEF AfterMakeSolvable, Solvers
  <1>13. SeedOrder'
    <2>1. ~(rpc = "dispatch" /\ msg.type = "FORK")
      BY <1>4 DEF ForkAhead
    <2>2. ClientStage' = StageAt(W', Here', IF ForkSent' THEN Len(W') ELSE Len(W') + 1)
      BY <1>4, <1>8, <1>9, <1>10
    <2>3. Orderly(W', Here')
      BY <1>8, <1>9
    <2>. QED  BY <1>1, <1>11, <1>12, <2>1, <2>2, <2>3 DEF SeedOrder
  <1>14. SeedSync'
    BY <1>1, <1>4, <1>9, <1>10 DEF SeedSync, ForkAhead
  <1>15. RuntimeInv' /\ ChildOrder' /\ ChildSync'
    BY <1>1, <1>4 DEF CommonInv, OrderInv, RuntimeInv, ChildOrder, ChildSync
  <1>16. ClausesAccounted'
    <2>1. rt.written_clauses + Held + ClauseEnds(W) = Added(lib)
      BY <1>4, Account DEF CommonInv
    <2>2. ClauseEnds(W') = ClauseEnds(W) + 0 /\ ClauseEnds(W) \in Nat
      BY <1>3, <1>6, EndsAppend, EndsFinite
    <2>3. Held' = Held /\ Added(lib') = Added(lib)
      BY <1>1, <1>2, AddedKept DEF Held
    <2>4. rt'.written_clauses + Held' + ClauseEnds(W') = Added(lib')
      BY <1>1, <2>1, <2>2, <2>3
    <2>. QED  BY <2>4 DEF ClausesAccounted, Held, W, Added
  <1>. QED  BY <1>13, <1>14, <1>15, <1>16 DEF OrderInv

\* A child is there to be written to, and has not been told to solve.
Ready == /\ role = "seed" => sibling /\ ~ForkAhead
         /\ lpc # "solving" /\ ~eof

\* What stays with the seed while the child is written to.
LEMMA SeedUntouched ==
    ASSUME CommonInv, UNCHANGED <<procvars, wstream, prefix, clauses, open>>,
           lib'.state # "INPUT", Added(lib') = Added(lib)
    PROVE  /\ UNCHANGED <<W, Here, ForkAhead>>
           /\ SeedOrder' /\ RuntimeInv' /\ ClausesAccounted'
  <1>. USE DEF procvars
  <1>1. UNCHANGED <<W, Here, ClientStage, ForkSent, ForkAhead, Held>>
    BY DEF W, Here, ClientStage, BlockOpen, ForkSent, ForkAhead, Held
  <1>2. SeedOrder' /\ RuntimeInv'
    BY <1>1 DEF CommonInv, OrderInv, SeedOrder, RuntimeInv
  <1>3. ClausesAccounted'
    <2>1. role = "seed" => rt.written_clauses + Held + ClauseEnds(W) = Added(lib)
      BY Account DEF CommonInv
    <2>2. role' = "seed" =>
             rt'.written_clauses + Held' + ClauseEnds(W') = Added(lib')
      BY <1>1, <2>1
    <2>. QED  BY <2>2 DEF ClausesAccounted, Held, W, Added
  <1>. QED  BY <1>1, <1>2, <1>3

\* A unit clause for the child.
LEMMA SendAssumptionOrder ==
    ASSUME CommonInv, Ready, NEW lit \in Int \ {0}, SendAssumption(lit),
           UNCHANGED <<procvars, wstream, prefix, clauses, open>>,
           toParent' = <<>>
    PROVE  OrderInv' /\ ClausesAccounted'
  <1>. USE DEF procvars
  <1>. DEFINE f == quapi_write_msg_to_file(cstream, Literal(lit))
              B == Contents(f)
  <1>1. TypeOK /\ cstream \in Streams /\ lib \in Solvers /\ C \in Seq(Messages)
    BY QueueType DEF CommonInv, BasicInv, TypeOK
  <1>2. /\ lib' = AfterAssume(lib) /\ lpc' = "idle"
        /\ cstream' = quapi_write_msg_to_file(f, Literal(0))
    BY DEF SendAssumption
  <1>3. /\ Literal(lit) \in Messages /\ Literal(0) \in Messages
        /\ Literal(lit).type = "LITERAL" /\ Literal(0).type = "LITERAL"
        /\ Literal(lit).data = lit /\ Literal(0).data = 0
    BY MessageType DEF Literal, Msg
  <1>4. f \in Streams /\ B = Append(C, Literal(lit))
    BY <1>1, <1>3, StreamType, ContentsWritten DEF C
  <1>. HIDE DEF f
  <1>5. C' = Append(B, Literal(0)) /\ B \in Seq(Messages)
    BY <1>2, <1>3, <1>4, ContentsWritten DEF C
  <1>. HIDE DEF B
  <1>6. lib'.state = "INPUT_ASSUMPTIONS" /\ Added(lib') = Added(lib)
    BY <1>1, <1>2, AddedKept DEF AfterAssume, Solvers
  <1>7. /\ UNCHANGED <<W, Here, ForkAhead>>
        /\ SeedOrder' /\ RuntimeInv' /\ ClausesAccounted'
    BY <1>6, SeedUntouched
  <1>8. SeedSync'
    <2>1. ASSUME role = "seed"
          PROVE  \A i \in 1..Len(C') : C'[i].type # "SOLVE"
      <3>1. \A i \in 1..Len(C) : C[i].type # "SOLVE"
        BY <2>1 DEF CommonInv, OrderInv, SeedSync, Ready
      <3>2. \A i \in 1..Len(B) : B[i].type # "SOLVE"
        BY <1>1, <1>3, <1>4, <3>1
      <3>. QED  BY <1>3, <1>5, <3>2
    <2>. QED  BY <1>2, <1>6, <1>7, <2>1 DEF SeedSync, Ready
  <1>9. ASSUME role = "child"
        PROVE  ChildOrder'
    <2>1. /\ \A i \in 1..Len(C) : C[i].type # "FORK"
          /\ rpc = "dispatch" => msg.type # "FORK"
          /\ Orderly(C, Here)
          /\ StageAt(C, Here, Len(C) + 1) \in {"prefix", "matrix"}
      BY <1>9 DEF CommonInv, OrderInv, ChildOrder, Ready
    <2>2. Follows(StageAt(C, Here, Len(C) + 1), Literal(lit))
      BY <1>3, <2>1 DEF Follows
    <2>3. /\ Orderly(B, Here) /\ StageAt(B, Here, Len(B) + 1) = After(Literal(lit))
      BY <1>1, <1>3, <1>4, <2>1, <2>2, OrderlyAppend
    <2>4. Follows(StageAt(B, Here, Len(B) + 1), Literal(0))
      BY <1>3, <2>3 DEF Follows, After
    <2>5. /\ Orderly(C', Here)
          /\ StageAt(C', Here, Len(C') + 1) = After(Literal(0))
      BY <1>3, <1>5, <2>3, <2>4, OrderlyAppend
    <2>6. StageAt(C', Here', Len(C') + 1) = "matrix" /\ Orderly(C', Here')
      BY <1>3, <1>7, <2>5 DEF After
    <2>7. \A i \in 1..Len(C') : C'[i].type # "FORK"
      <3>1. \A i \in 1..Len(B) : B[i].type # "FORK"
        BY <1>1, <1>3, <1>4, <2>1
      <3>. QED  BY <1>3, <1>5, <3>1
    <2>. QED  BY <1>2, <2>1, <2>6, <2>7 DEF ChildOrder
  <1>10. ChildOrder' /\ ChildSync'
    <2>1. ChildOrder'
      BY <1>9 DEF ChildOrder
    <2>2. ChildSync'
      BY <1>2, <1>6 DEF CommonInv, OrderInv, ChildSync
    <2>. QED  BY <2>1, <2>2
  <1>. QED  BY <1>7, <1>8, <1>10 DEF OrderInv

\* SOLVE for the child.
LEMMA SendSolveOrder ==
    ASSUME CommonInv, Ready, SendSolve,
           UNCHANGED <<procvars, wstream, prefix, clauses, open>>,
           toParent' = <<>>
    PROVE  OrderInv' /\ ClausesAccounted'
  <1>. USE DEF procvars
  <1>1. TypeOK /\ cstream \in Streams /\ lib \in Solvers /\ C \in Seq(Messages)
    BY QueueType DEF CommonInv, BasicInv, TypeOK
  <1>2. /\ lib' = Working(lib) /\ lpc' = "solving"
        /\ cstream' = quapi_write_msg_to_file(cstream, Solve)
    BY DEF SendSolve
  <1>3. Solve \in Messages /\ Solve.type = "SOLVE"
    BY MessageType DEF Solve, Msg
  <1>4. C' = Append(C, Solve)
    BY <1>1, <1>2, <1>3, ContentsWritten DEF C
  <1>5. lib'.state = "WORKING" /\ Added(lib') = Added(lib)
    BY <1>1, <1>2, AddedKept DEF Working, Solvers
  <1>6. /\ UNCHANGED <<W, Here, ForkAhead>>
        /\ SeedOrder' /\ RuntimeInv' /\ ClausesAccounted'
    BY <1>5, SeedUntouched
  <1>7. SeedSync'
    <2>1. ASSUME role = "seed"
          PROVE  \A i \in 1..Len(C') : C'[i].type = "SOLVE" => i = Len(C')
      <3>1. \A i \in 1..Len(C) : C[i].type # "SOLVE"
        BY <2>1 DEF CommonInv, OrderInv, SeedSync, Ready
      <3>. QED  BY <1>1, <1>3, <1>4, <3>1
    <2>. QED  BY <1>2, <1>5, <1>6, <2>1 DEF SeedSync, Ready
  <1>8. ASSUME role = "child"
        PROVE  ChildOrder'
    <2>1. /\ \A i \in 1..Len(C) : C[i].type # "FORK"
          /\ rpc = "dispatch" => msg.type # "FORK"
          /\ Orderly(C, Here)
          /\ StageAt(C, Here, Len(C) + 1) \in {"prefix", "matrix"}
      BY <1>8 DEF CommonInv, OrderInv, ChildOrder, Ready
    <2>2. Follows(StageAt(C, Here, Len(C) + 1), Solve)
      BY <1>3, <2>1 DEF Follows
    <2>3. Orderly(C', Here) /\ StageAt(C', Here, Len(C') + 1) = After(Solve)
      BY <1>1, <1>3, <1>4, <2>1, <2>2, OrderlyAppend
    <2>4. StageAt(C', Here', Len(C') + 1) = "end" /\ Orderly(C', Here')
      BY <1>3, <1>6, <2>3 DEF After
    <2>5. \A i \in 1..Len(C') : C'[i].type # "FORK"
      BY <1>1, <1>3, <1>4, <2>1
    <2>. QED  BY <1>2, <2>1, <2>4, <2>5 DEF ChildOrder
  <1>9. ChildOrder' /\ ChildSync'
    <2>1. ChildOrder'
      BY <1>8 DEF ChildOrder
    <2>2. ChildSync'
      BY <1>2, <1>5 DEF CommonInv, OrderInv, ChildSync
    <2>. QED  BY <2>1, <2>2
  <1>. QED  BY <1>6, <1>7, <1>9 DEF OrderInv

\* The only message of a queue is taken.
LEMMA OneTaken ==
    ASSUME NEW q \in Seq(Messages), q # <<>>, Len(q) <= 1
    PROVE  Tail(q) = <<>> /\ Len(q) = 1
  <1>1. Len(q) \in Nat \ {0}
    BY EmptySeq
  <1>2. Len(q) = 1
    BY <1>1
  <1>3. Tail(q) \in Seq(Messages) /\ Len(Tail(q)) = Len(q) - 1
    BY HeadTailProperties
  <1>4. Tail(q) # <<>> => Len(Tail(q)) \in Nat \ {0}
    BY <1>3, EmptySeq
  <1>. QED  BY <1>2, <1>3, <1>4

\* The calls and what the library does for them.
LEMMA LibraryOrder ==
    ASSUME CommonUse, CommonInv, LibraryStep
    PROVE  OrderInv' /\ ClausesAccounted'
  <1>. USE DEF procvars
  <1>1. /\ TypeOK /\ lib \in Solvers /\ toParent \in Seq(Messages)
        /\ cube \in Seq(Int) /\ call \in Int /\ NewVar \in Nat
        /\ role \in {"seed", "child"} /\ eof \in BOOLEAN
    BY NewVarType DEF CommonInv, BasicInv, TypeOK
  <1>2. ASSUME NEW lit \in {NewVar, -NewVar, 0}, quapi_quantify(lit)
        PROVE  OrderInv' /\ ClausesAccounted'
    <2>1. lit \in Int
      BY <1>1
    <2>. QED  BY <1>2, <2>1, QuantifyOrder
  <1>3. ASSUME NEW lit \in ClauseLits \cup {0}, quapi_add(lit)
        PROVE  OrderInv' /\ ClausesAccounted'
    <2>1. lit \in Int
      BY SerializationAssumption
    <2>. QED  BY <1>3, <2>1, AddOrder
  \* A client that finds a child finds it ready.
  <1>4. ASSUME Client, ~NeedsFork(lib)
        PROVE  Ready /\ toParent = <<>>
    <2>1. /\ lpc = "idle" /\ ~eof
          /\ lib.state \in {"INPUT_ASSUMPTIONS", "WORKING"}
      BY <1>1, <1>4 DEF Client, NeedsFork, Solvers, LibStates
    <2>2. CASE role = "seed"
      BY <2>1, <2>2 DEF CommonInv, OrderInv, SeedSync, Ready
    <2>3. CASE role = "child"
      BY <2>1, <2>3 DEF CommonInv, OrderInv, ChildSync, Ready
    <2>. QED  BY <1>1, <2>2, <2>3
  <1>5. ASSUME NEW lit \in {Len(cube) + 1, -(Len(cube) + 1)}, quapi_assume(lit)
        PROVE  OrderInv' /\ ClausesAccounted'
    <2>1. lit \in Int \ {0}
      BY <1>1
    <2>2. /\ Client /\ Settled /\ UNCHANGED <<prefix, clauses, open>>
          /\ UNCHANGED <<procvars, toParent>>
      BY <1>5 DEF quapi_assume, Client
    <2>3. CASE RequestFork(lit)
      BY <2>1, <2>2, <2>3, RequestForkOrder
    <2>4. CASE /\ ~NeedsFork(lib) /\ SendAssumption(lit)
               /\ UNCHANGED <<call, wstream, forks>>
      <3>1. Ready /\ toParent' = <<>>
        BY <1>4, <2>2, <2>4
      <3>. QED  BY <2>1, <2>2, <2>4, <3>1, SendAssumptionOrder
    <2>. QED  BY <1>5, <2>3, <2>4 DEF quapi_assume
  <1>6. CASE quapi_solve
    <2>1. /\ Client /\ Settled /\ UNCHANGED <<prefix, clauses, open>>
          /\ UNCHANGED <<procvars, toParent>>
      BY <1>6 DEF quapi_solve, Client
    <2>2. CASE RequestFork(0)
      BY <2>1, <2>2, RequestForkOrder
    <2>3. CASE /\ ~NeedsFork(lib) /\ SendSolve
               /\ UNCHANGED <<call, wstream, forks>>
      <3>1. Ready /\ toParent' = <<>>
        BY <1>4, <2>1, <2>3
      <3>. QED  BY <2>1, <2>3, <3>1, SendSolveOrder
    <2>. QED  BY <1>6, <2>2, <2>3 DEF quapi_solve
  <1>7. CASE ReadForkReport
    <2>1. /\ UNCHANGED <<call, wstream, forks, procvars, prefix, clauses, open>>
          /\ toParent' = Tail(toParent) /\ toParent # <<>> /\ lpc = "fork"
          /\ IF call = 0 THEN SendSolve ELSE SendAssumption(call)
      BY <1>7 DEF ReadForkReport
    <2>2. Len(toParent) <= 1
      BY <1>1, <2>1 DEF CommonInv, OrderInv, SeedSync, ChildSync
    <2>3. toParent' = <<>>
      <3>1. Tail(toParent) = <<>>
        BY <1>1, <2>1, <2>2, OneTaken
      <3>. QED  BY <2>1, <3>1
    <2>4. Ready
      <3>1. CASE role = "seed"
        BY <2>1, <3>1 DEF CommonInv, BasicInv, SeedInv, OrderInv, SeedSync, Ready
      <3>2. CASE role = "child"
        BY <2>1, <3>2 DEF CommonInv, OrderInv, ChildSync, Ready
      <3>. QED  BY <1>1, <3>1, <3>2
    <2>. QED  BY <1>1, <2>1, <2>3, <2>4, SendSolveOrder, SendAssumptionOrder
  <1>8. CASE SolveReturns
    <2>1. /\ UNCHANGED <<call, wstream, cstream, forks, procvars, prefix,
                         clauses, open>>
          /\ toParent' = Tail(toParent) /\ toParent # <<>> /\ lpc = "solving"
          /\ lib' = DropAssumptions(lib) /\ lpc' = "idle"
      BY <1>8 DEF SolveReturns
    <2>2. lib'.state = "INPUT_LITERALS" /\ Added(lib') = Added(lib)
      BY <1>1, <2>1, AddedKept DEF DropAssumptions, Solvers
    <2>3. /\ UNCHANGED <<W, Here, ForkAhead>>
          /\ SeedOrder' /\ RuntimeInv' /\ ClausesAccounted'
      BY <2>1, <2>2, SeedUntouched
    <2>4. UNCHANGED C
      BY <2>1 DEF C
    <2>5. ASSUME role = "seed" PROVE SeedSync'
      <3>1. /\ Len(toParent) <= 1 /\ ~sibling /\ C = <<>> /\ ~ForkAhead
        BY <2>1, <2>5 DEF CommonInv, OrderInv, SeedSync
      <3>2. toParent' = <<>>
        <4>1. Tail(toParent) = <<>>
          BY <1>1, <2>1, <3>1, OneTaken
        <4>. QED  BY <2>1, <4>1
      <3>. QED  BY <2>1, <2>2, <2>3, <2>4, <3>1, <3>2 DEF SeedSync
    <2>6. ASSUME role = "child" PROVE ChildOrder' /\ ChildSync'
      <3>1. eof /\ ~sibling
        BY <2>1, <2>6 DEF CommonInv, OrderInv, ChildSync
      <3>2. ChildSync'
        BY <2>1, <3>1 DEF ChildSync
      <3>3. ChildOrder'
        BY <2>1, <2>3, <2>4, <2>6, <3>1 DEF CommonInv, OrderInv, ChildOrder
      <3>. QED  BY <3>2, <3>3
    <2>7. SeedSync'
      BY <2>1, <2>5 DEF SeedSync
    <2>8. ChildOrder' /\ ChildSync'
      BY <2>1, <2>6 DEF ChildOrder, ChildSync
    <2>. QED  BY <2>3, <2>7, <2>8 DEF OrderInv
  <1>. QED  BY <1>2, <1>3, <1>5, <1>6, <1>7, <1>8 DEF LibraryStep

-----------------------------------------------------------------------------
\* A step of the followed process that takes no message and asks for no child.
LEMMA QuietStep ==
    ASSUME CommonInv, BasicInv', Runtime, RuntimeInv',
           UNCHANGED <<wstream, cstream, msg, role, sibling>>, Here' = Here,
           rpc = "dispatch" => msg.type # "FORK",
           rpc' = "dispatch" => msg.type # "FORK",
           eof => eof', eof' => Here = "end",
           eof' = eof => toParent' = toParent,
           role = "seed" => rt'.written_clauses + Held' = rt.written_clauses + Held
    PROVE  OrderInv' /\ ClausesAccounted'
  <1>1. /\ TypeOK /\ W \in Seq(Messages) /\ C \in Seq(Messages)
        /\ role \in {"seed", "child"} /\ eof \in BOOLEAN /\ eof' \in BOOLEAN
    BY QueueType DEF CommonInv, BasicInv, TypeOK
  <1>2. /\ UNCHANGED <<lpc, call, lib, forks, prefix, clauses, open, cube>>
    BY DEF Runtime
  <1>3. UNCHANGED <<W, C, ClientStage, ForkSent>>
    BY <1>2 DEF W, C, ClientStage, BlockOpen, ForkSent
  <1>4. ForkAhead' = ForkAhead
    BY <1>3 DEF ForkAhead
  <1>5. SeedOrder'
    BY <1>2, <1>3 DEF CommonInv, OrderInv, SeedOrder
  <1>6. SeedSync'
    <2>1. role = "seed" => ~eof /\ ~eof'
      BY DEF CommonInv, BasicInv, SeedInv
    <2>2. role = "seed" => toParent' = toParent
      BY <1>1, <2>1
    <2>. QED  BY <1>2, <1>3, <1>4, <2>2 DEF CommonInv, OrderInv, SeedSync
  <1>7. ChildOrder'
    BY <1>1, <1>2, <1>3 DEF CommonInv, OrderInv, ChildOrder
  <1>8. ChildSync'
    <2>1. ASSUME role = "child", lpc = "fork" PROVE ~eof'
      <3>1. C = <<>> /\ ~eof
        BY <2>1 DEF CommonInv, OrderInv, ChildSync
      <3>2. StageAt(C, Here, Len(C) + 1) \in {"prefix", "matrix"}
        BY <2>1, <3>1 DEF CommonInv, OrderInv, ChildOrder
      <3>3. Len(C) + 1 = 1
        BY <3>1
      <3>4. Here \in {"prefix", "matrix"}
        BY <3>2, <3>3 DEF StageAt
      <3>. QED  BY <3>4
    <2>2. ~eof' => toParent' = toParent
      BY <1>1
    <2>. QED  BY <1>1, <1>2, <1>3, <2>1, <2>2 DEF CommonInv, OrderInv, ChildSync
  <1>9. ClausesAccounted'
    <2>1. role = "seed" => rt.written_clauses + Held + ClauseEnds(W) = Added(lib)
      BY Account DEF CommonInv
    <2>2. role' = "seed" =>
             rt'.written_clauses + Held' + ClauseEnds(W') = Added(lib')
      BY <1>2, <1>3, <2>1
    <2>. QED  BY <2>2 DEF ClausesAccounted, Held, W, Added
  <1>. QED  BY <1>5, <1>6, <1>7, <1>8, <1>9 DEF OrderInv

\* Text that is left, or the end of the input once more.
LEMMA ReadBufferedOrder ==
    ASSUME CommonInv, BasicInv', NEW n \in ReadSizes, ReadBuffered(n)
    PROVE  OrderInv' /\ ClausesAccounted'
  <1>1. /\ Runtime /\ ReturnFromRead(rt, n) /\ rpc = "solver"
        /\ UNCHANGED <<wstream, cstream, msg, role, sibling>>
        /\ Pending # <<>> \/ rt.outbuf_len = "closed"
    BY DEF ReadBuffered
  <1>2. /\ n \in Nat \ {0} /\ TypeOK /\ rt \in Runtimes /\ RuntimeInv
        /\ eof \in BOOLEAN
    BY SerializationAssumption DEF CommonInv, BasicInv, TypeOK, OrderInv
  <1>3. /\ rpc' = "solver" /\ rt' \in Runtimes /\ Kept(rt, rt')
        /\ eof' = (rt.outbuf_len = "closed" \/ rt.outbuf = <<>>)
        /\ toParent' = IF eof' /\ ~eof THEN Append(toParent, ExitCode(10))
                                       ELSE toParent
        /\ rt.outbuf = <<>> => rt'.outbuf = <<>>
    BY <1>1, <1>2, ReturnFacts
  <1>4. eof' => rt.outbuf_len = "closed" /\ rt.state = "WORKING"
    BY <1>1, <1>2, <1>3 DEF Pending, RuntimeInv
  <1>5. eof => eof'
    BY <1>2, <1>3 DEF RuntimeInv
  <1>6. RuntimeInv'
    BY <1>1, <1>2, <1>3, <1>4 DEF RuntimeInv, Kept
  <1>7. Here' = Here
    BY <1>1, <1>3 DEF Here, Kept
  <1>8. eof' => Here = "end"
    BY <1>1, <1>2, <1>4 DEF Here, RuntimeInv, StageOf
  <1>9. rt'.written_clauses + Held' = rt.written_clauses + Held
    BY <1>1, <1>3 DEF Held, Kept
  <1>10. eof' = eof => toParent' = toParent
    BY <1>3
  <1>. QED  BY <1>1, <1>3, <1>5, <1>6, <1>7, <1>8, <1>9, <1>10, QuietStep

\* SOLVE once more: another filler clause, or the end of the input.
LEMMA ReadRepeatedOrder ==
    ASSUME CommonInv, BasicInv', NEW n \in ReadSizes, ReadRepeated(n)
    PROVE  OrderInv' /\ ClausesAccounted'
  <1>. DEFINE q == [rt EXCEPT !.outbuf_len = "len"]
              r == RunState(q, msg)
  <1>1. /\ Runtime /\ ReturnFromRead(r, n) /\ rt.repeat_state /\ rpc = "solver"
        /\ UNCHANGED <<wstream, cstream, msg, role, sibling>>
    BY DEF ReadRepeated
  <1>2. /\ n \in Nat \ {0} /\ TypeOK /\ rt \in Runtimes /\ RuntimeInv
        /\ eof \in BOOLEAN /\ msg \in Messages /\ SeedInv
    BY SerializationAssumption DEF CommonInv, BasicInv, TypeOK, OrderInv
  <1>3. /\ msg.type = "SOLVE" /\ rt.state = "READING_MATRIX" /\ ~eof
        /\ role # "seed" /\ rt.filler_clause # <<>>
    BY <1>1, <1>2 DEF RuntimeInv, SeedInv
  <1>4. /\ q \in Runtimes /\ q.state = "READING_MATRIX" /\ q.outbuf_len = "len"
        /\ q.filler_clause # <<>>
    BY <1>2, <1>3 DEF Runtimes
  <1>. HIDE DEF q
  <1>5. Ran(q, msg, r) /\ Leaves(q, msg, r)
    BY <1>2, <1>4, RunFacts
  <1>. HIDE DEF r
  <1>6. /\ r \in Runtimes /\ r.outbuf_len = "len" /\ r.filler_clause # <<>>
        /\ r.repeat_state = ~Enough(q)
        /\ r.state = IF Enough(q) THEN "WORKING" ELSE "READING_MATRIX"
        /\ r.outbuf = IF Enough(q) THEN <<>> ELSE q.filler_clause
    BY <1>3, <1>4, <1>5 DEF Ran, Leaves, NextState
  <1>7. /\ rpc' = "solver" /\ rt' \in Runtimes /\ Kept(r, rt')
        /\ eof' = (r.outbuf_len = "closed" \/ r.outbuf = <<>>)
        /\ toParent' = IF eof' /\ ~eof THEN Append(toParent, ExitCode(10))
                                       ELSE toParent
        /\ r.outbuf = <<>> => rt'.outbuf = <<>>
    BY <1>1, <1>2, <1>6, ReturnFacts
  <1>8. ~Enough(q) => ~eof'
    BY <1>4, <1>6, <1>7
  <1>9. RuntimeInv'
    <2>1. CASE Enough(q)
      BY <1>1, <1>3, <1>6, <1>7, <2>1 DEF RuntimeInv, Kept
    <2>2. CASE ~Enough(q)
      BY <1>1, <1>3, <1>6, <1>7, <1>8, <2>2 DEF RuntimeInv, Kept
    <2>. QED  BY <2>1, <2>2
  <1>10. Here = "end" /\ Here' = "end"
    <2>1. After(msg) = "end" /\ StageOf("WORKING") = "end"
      BY <1>3 DEF After, StageOf
    <2>2. Here = "end"
      BY <1>1, <2>1 DEF Here
    <2>3. CASE Enough(q)
      BY <1>1, <1>6, <1>7, <2>1, <2>2, <2>3 DEF Here, Kept
    <2>4. CASE ~Enough(q)
      BY <1>1, <1>6, <1>7, <2>1, <2>2, <2>4 DEF Here, Kept
    <2>. QED  BY <2>3, <2>4
  <1>11. eof' = eof => toParent' = toParent
    BY <1>7
  <1>. QED  BY <1>1, <1>3, <1>7, <1>9, <1>10, <1>11, QuietStep

\* The buffer is empty: a message is needed.
LEMMA ReadNeedsMessageOrder ==
    ASSUME CommonInv, BasicInv', ReadNeedsMessage
    PROVE  OrderInv' /\ ClausesAccounted'
  <1>1. /\ Runtime /\ rpc = "solver" /\ rpc' = "fetch" /\ ~rt.repeat_state
        /\ UNCHANGED <<rt, msg, role, sibling, text, eof, wstream, cstream,
                       toParent>>
    BY DEF ReadNeedsMessage
  <1>2. RuntimeInv
    BY DEF CommonInv, OrderInv
  <1>3. RuntimeInv'
    BY <1>1, <1>2 DEF RuntimeInv
  <1>4. Here' = Here /\ (eof => Here = "end")
    BY <1>1, <1>2 DEF Here, RuntimeInv, StageOf
  <1>5. Held' = Held
    BY <1>1 DEF Held
  <1>. QED  BY <1>1, <1>3, <1>4, <1>5, QuietStep

\* What the inner loop of advance_state leaves behind: the message stays in
\* hand, or read() returns.
LEMMA DispatchEnds ==
    ASSUME CommonInv, NEW n \in ReadSizes, Dispatch(n)
    PROVE  LET r == RunState(rt, msg)
           IN  /\ Runtime /\ UNCHANGED <<wstream, cstream, msg, role, sibling>>
               /\ rpc = "dispatch" /\ ~eof /\ r.outbuf_len # "again"
               /\ Ran(rt, msg, r) /\ Leaves(rt, msg, r)
               /\ rt' \in Runtimes /\ Kept(r, rt')
               /\ r.outbuf = <<>> => rt'.outbuf = <<>>
               /\ eof' = eof => toParent' = toParent
               /\ \/ /\ r.outbuf = <<>> /\ r.outbuf_len = "len"
                     /\ rpc' = "dispatch" /\ ~eof'
                  \/ /\ ~(r.outbuf = <<>> /\ r.outbuf_len = "len")
                     /\ rpc' = "solver"
                     /\ eof' = (r.outbuf_len = "closed" \/ r.outbuf = <<>>)
  <1>. DEFINE r == RunState(rt, msg)
  <1>1. /\ Runtime /\ r.outbuf_len # "again" /\ rpc = "dispatch"
        /\ UNCHANGED <<wstream, cstream, msg, role, sibling>>
        /\ \/ /\ r.outbuf = <<>> /\ r.outbuf_len = "len"
              /\ rt' = r /\ UNCHANGED <<rpc, text, eof, toParent>>
           \/ /\ ~(r.outbuf = <<>> /\ r.outbuf_len = "len")
              /\ ReturnFromRead(r, n)
    BY DEF Dispatch
  <1>2. /\ n \in Nat \ {0} /\ TypeOK /\ rt \in Runtimes /\ msg \in Messages
        /\ eof \in BOOLEAN /\ RuntimeInv
    BY SerializationAssumption DEF CommonInv, BasicInv, TypeOK, OrderInv
  <1>3. ~eof
    BY <1>1, <1>2 DEF RuntimeInv
  <1>4. Ran(rt, msg, r) /\ Leaves(rt, msg, r) /\ r \in Runtimes
    BY <1>2, RunFacts DEF Ran
  <1>. HIDE DEF r
  <1>5. /\ rt' \in Runtimes /\ Kept(r, rt')
        /\ r.outbuf = <<>> => rt'.outbuf = <<>>
        /\ eof' = eof => toParent' = toParent
        /\ \/ /\ r.outbuf = <<>> /\ r.outbuf_len = "len"
              /\ rpc' = "dispatch" /\ ~eof'
           \/ /\ ~(r.outbuf = <<>> /\ r.outbuf_len = "len")
              /\ rpc' = "solver"
              /\ eof' = (r.outbuf_len = "closed" \/ r.outbuf = <<>>)
    <2>1. CASE /\ r.outbuf = <<>> /\ r.outbuf_len = "len"
               /\ rt' = r /\ UNCHANGED <<rpc, text, eof, toParent>>
      BY <1>1, <1>3, <1>4, <2>1 DEF Kept
    <2>2. CASE /\ ~(r.outbuf = <<>> /\ r.outbuf_len = "len")
               /\ ReturnFromRead(r, n)
      <3>1. /\ rpc' = "solver" /\ rt' \in Runtimes /\ Kept(r, rt')
            /\ eof' = (r.outbuf_len = "closed" \/ r.outbuf = <<>>)
            /\ toParent' = IF eof' /\ ~eof THEN Append(toParent, ExitCode(10))
                                           ELSE toParent
            /\ r.outbuf = <<>> => rt'.outbuf = <<>>
        BY <1>2, <1>4, <2>2, ReturnFacts
      <3>. QED  BY <2>2, <3>1
    <2>. QED  BY <1>1, <2>1, <2>2
  <1>. QED  BY <1>1, <1>3, <1>4, <1>5 DEF r

\* The states in front of which a message may stand.
LEMMA StatesOfStages ==
    ASSUME NEW st \in PreloadStates
    PROVE  /\ StageOf(st) = "prefix" <=> st = "READING_PREFIX"
           /\ StageOf(st) = "block" <=> st \in {"READING_EXISTS", "READING_FORALL"}
           /\ StageOf(st) = "clause" <=> st = "READING_CLAUSE"
           /\ StageOf(st) = "matrix" <=> st = "READING_MATRIX"
  BY DEF StageOf, PreloadStates

\* One message through one state function.
LEMMA DispatchOrder ==
    ASSUME CommonInv, BasicInv', NEW n \in ReadSizes, Dispatch(n)
    PROVE  OrderInv' /\ ClausesAccounted'
  <1>. DEFINE r == RunState(rt, msg)
  <1>1. /\ Runtime /\ UNCHANGED <<wstream, cstream, msg, role, sibling>>
        /\ rpc = "dispatch" /\ ~eof /\ r.outbuf_len # "again"
        /\ Ran(rt, msg, r) /\ Leaves(rt, msg, r)
        /\ rt' \in Runtimes /\ Kept(r, rt')
        /\ r.outbuf = <<>> => rt'.outbuf = <<>>
        /\ eof' = eof => toParent' = toParent
        /\ \/ /\ r.outbuf = <<>> /\ r.outbuf_len = "len"
              /\ rpc' = "dispatch" /\ ~eof'
           \/ /\ ~(r.outbuf = <<>> /\ r.outbuf_len = "len")
              /\ rpc' = "solver"
              /\ eof' = (r.outbuf_len = "closed" \/ r.outbuf = <<>>)
    BY DispatchEnds
  <1>. HIDE DEF r
  <1>2. /\ rt \in Runtimes /\ rt.state \in PreloadStates /\ msg \in Messages
        /\ msg.data \in Int /\ RuntimeInv /\ SeedInv /\ rt.repeat_state \in BOOLEAN
        /\ rt.written_clauses \in Nat
    BY DEF CommonInv, BasicInv, TypeOK, OrderInv, Runtimes, Messages
  <1>3. /\ \/ Follows(StageOf(rt.state), msg)
           \/ rt.state = "WORKING" /\ msg.type = "SOLVE"
        /\ rt.outbuf_len = "len" /\ rt.filler_clause # <<>>
        /\ rt.repeat_state => msg.type = "SOLVE" /\ rt.state = "READING_MATRIX"
        /\ rt.state = "WORKING" => rt.outbuf = <<>>
    BY <1>1, <1>2 DEF RuntimeInv
  <1>4. msg.type # "FORK"
    <2>1. ASSUME msg.type = "FORK" PROVE FALSE
      <3>1. rt.state \in {"READING_PREFIX", "READING_MATRIX"}
        BY <1>2, <1>3, <2>1, StatesOfStages DEF Follows
      <3>. QED  BY <1>1, <2>1, <3>1 DEF Ran
    <2>. QED  BY <2>1
  <1>5. Here = After(msg)
    BY <1>1, <1>4 DEF Here
  <1>6. r.filler_clause # <<>> /\ rt'.filler_clause # <<>>
    BY <1>1, <1>3 DEF Ran, Kept
  \* read() returns with text.
  <1>7. ASSUME r.outbuf # <<>>, r.outbuf_len = "len", ~r.repeat_state,
               StageOf(r.state) = After(msg),
               r.state \notin {"CRASHED", "WAITING_FOR_HEADER", "WORKING"}
        PROVE  RuntimeInv' /\ Here' = Here /\ ~eof' /\ rpc' = "solver"
    <2>1. /\ rpc' = "solver" /\ ~eof'
      BY <1>1, <1>7
    <2>2. RuntimeInv'
      BY <1>1, <1>6, <1>7, <2>1 DEF RuntimeInv, Kept
    <2>3. Here' = Here
      BY <1>1, <1>5, <1>7, <2>1 DEF Here, Kept
    <2>. QED  BY <2>1, <2>2, <2>3
  <1>8. CASE msg.type = "QUANTIFIER"
    <2>1. \/ rt.state \in {"READING_EXISTS", "READING_FORALL"}
          \/ rt.state = "READING_PREFIX" /\ msg.data # 0
      BY <1>2, <1>3, <1>8, StatesOfStages DEF Follows
    <2>2. r.outbuf # <<>>
      BY <1>1, <1>8, <2>1 DEF Leaves
    <2>3. /\ r.outbuf_len = "len" /\ ~r.repeat_state
          /\ r.written_clauses = rt.written_clauses
      BY <1>1, <1>2, <1>3, <1>8, <2>1 DEF Ran, EndsClause
    <2>4. r.state = NextState(rt.state, msg, Enough(rt))
      BY <1>1 DEF Ran
    <2>5. /\ r.state \in {"READING_EXISTS", "READING_FORALL", "READING_PREFIX"}
          /\ r.state = "READING_PREFIX" <=> msg.data = 0
      <3>1. msg.data > 0 \/ msg.data < 0 \/ msg.data = 0
        BY <1>2
      <3>. QED  BY <1>2, <1>8, <2>1, <2>4, <3>1 DEF NextState
    <2>6. StageOf(r.state) = After(msg)
      BY <1>8, <2>5 DEF StageOf, After
    <2>7. RuntimeInv' /\ Here' = Here /\ ~eof' /\ rpc' = "solver"
      BY <1>7, <2>2, <2>3, <2>5, <2>6
    <2>8. rt'.written_clauses + Held' = rt.written_clauses + Held
      BY <1>1, <1>8, <2>3, <2>7 DEF Held, EndsClause, Kept
    <2>. QED  BY <1>1, <1>4, <2>7, <2>8, QuietStep
  <1>9. CASE msg.type = "LITERAL" /\ rt.state = "READING_PREFIX"
    <2>1. msg.data # 0
      BY <1>3, <1>9 DEF Follows, StageOf
    <2>2. /\ r.outbuf = <<>> /\ r.outbuf_len = "len" /\ ~r.repeat_state
          /\ r.written_clauses = rt.written_clauses
          /\ r.state = "READING_MATRIX"
      BY <1>1, <1>2, <1>3, <1>9 DEF Ran, Leaves, EndsClause, NextState
    <2>3. rpc' = "dispatch" /\ ~eof'
      BY <1>1, <2>2
    <2>4. Follows(StageOf("READING_MATRIX"), msg)
      BY <1>9, <2>1 DEF Follows, StageOf
    <2>5. RuntimeInv'
      BY <1>1, <1>6, <2>2, <2>3, <2>4 DEF RuntimeInv, Kept
    <2>6. Here' = Here
      BY <1>1, <1>4, <1>5, <2>3 DEF Here
    <2>7. rt'.written_clauses + Held' = rt.written_clauses + Held
      BY <1>1, <1>9, <2>2, <2>3 DEF Held, EndsClause, Kept
    <2>. QED  BY <1>1, <1>4, <2>3, <2>5, <2>6, <2>7, QuietStep
  <1>10. CASE msg.type = "LITERAL" /\ rt.state # "READING_PREFIX"
    <2>1. /\ rt.state \in {"READING_EXISTS", "READING_FORALL", "READING_CLAUSE",
                           "READING_MATRIX"}
          /\ msg.data = 0 => rt.state = "READING_CLAUSE"
      <3>1. StageOf(rt.state) # "end" /\ (msg.data = 0 => StageOf(rt.state) = "clause")
        BY <1>3, <1>10 DEF Follows
      <3>. QED  BY <1>2, <1>10, <3>1, StatesOfStages DEF StageOf
    <2>2. r.outbuf # <<>>
      BY <1>1, <1>10, <2>1 DEF Leaves
    <2>3. r.outbuf_len = "len" /\ ~r.repeat_state
      BY <1>1, <1>2, <1>3, <1>10, <2>1 DEF Ran
    <2>4. r.state = NextState(rt.state, msg, Enough(rt))
      BY <1>1 DEF Ran
    <2>5. r.state = IF msg.data = 0 THEN "READING_MATRIX" ELSE "READING_CLAUSE"
      BY <1>2, <1>10, <2>1, <2>4 DEF NextState
    <2>6. StageOf(r.state) = After(msg)
      BY <1>10, <2>5 DEF StageOf, After
    <2>7. RuntimeInv' /\ Here' = Here /\ ~eof' /\ rpc' = "solver"
      BY <1>7, <2>2, <2>3, <2>5, <2>6
    <2>8. r.written_clauses = rt.written_clauses + Held
      BY <1>1, <1>10 DEF Ran, Held
    <2>9. Held' = 0 /\ rt'.written_clauses = r.written_clauses
      BY <1>1, <2>7 DEF Held, Kept
    <2>10. rt'.written_clauses \in Nat
      BY <1>1 DEF Runtimes
    <2>11. rt'.written_clauses + Held' = rt.written_clauses + Held
      BY <2>8, <2>9, <2>10
    <2>. QED  BY <1>1, <1>4, <2>7, <2>11, QuietStep
  <1>11. CASE msg.type = "SOLVE"
    <2>1. /\ role # "seed" /\ After(msg) = "end" /\ Here = "end"
          /\ rt.state \in {"READING_PREFIX", "READING_MATRIX", "WORKING"}
      <3>1. role # "seed"
        BY <1>2, <1>11 DEF SeedInv
      <3>2. After(msg) = "end"
        BY <1>11 DEF After
      <3>3. rt.state \in {"READING_PREFIX", "READING_MATRIX", "WORKING"}
        BY <1>2, <1>3, <1>11, StatesOfStages DEF Follows
      <3>. QED  BY <1>5, <3>1, <3>2, <3>3
    \* The message stays in hand and becomes the one to repeat.
    <2>2. CASE rt.state = "READING_PREFIX"
      <3>1. /\ r.outbuf = <<>> /\ r.outbuf_len = "len" /\ r.repeat_state
            /\ r.state = "READING_MATRIX"
        BY <1>1, <1>3, <1>11, <2>2 DEF Ran, Leaves, NextState
      <3>2. rpc' = "dispatch" /\ ~eof'
        BY <1>1, <3>1
      <3>3. Follows(StageOf("READING_MATRIX"), msg)
        BY <1>11 DEF Follows, StageOf
      <3>4. RuntimeInv'
        BY <1>1, <1>6, <1>11, <3>1, <3>2, <3>3 DEF RuntimeInv, Kept
      <3>5. Here' = Here
        BY <1>1, <1>4, <1>5, <3>2 DEF Here
      <3>. QED  BY <1>1, <1>4, <2>1, <3>2, <3>4, <3>5, QuietStep
    \* A filler clause is still owed.
    <2>3. CASE rt.state = "READING_MATRIX" /\ ~Enough(rt)
      <3>1. /\ r.outbuf # <<>> /\ r.outbuf_len = "len" /\ r.repeat_state
            /\ r.state = "READING_MATRIX"
        BY <1>1, <1>3, <1>11, <2>3 DEF Ran, Leaves, NextState
      <3>2. rpc' = "solver" /\ ~eof'
        BY <1>1, <3>1
      <3>3. RuntimeInv'
        BY <1>1, <1>6, <1>11, <3>1, <3>2 DEF RuntimeInv, Kept
      <3>4. Here' = Here
        BY <1>1, <1>5, <3>1 DEF Here, Kept
      <3>. QED  BY <1>1, <1>4, <2>1, <3>2, <3>3, <3>4, QuietStep
    \* The announced number is reached.
    <2>4. CASE rt.state = "READING_MATRIX" /\ Enough(rt)
      <3>1. /\ r.outbuf = <<>> /\ r.outbuf_len = "len" /\ ~r.repeat_state
            /\ r.state = "WORKING"
        BY <1>1, <1>3, <1>11, <2>4 DEF Ran, Leaves, NextState
      <3>2. rpc' = "dispatch" /\ ~eof' /\ rt'.outbuf = <<>>
        BY <1>1, <3>1
      <3>3. RuntimeInv'
        BY <1>1, <1>6, <1>11, <3>1, <3>2 DEF RuntimeInv, Kept
      <3>4. Here' = Here
        BY <1>1, <1>4, <1>5, <3>2 DEF Here
      <3>. QED  BY <1>1, <1>4, <2>1, <3>2, <3>3, <3>4, QuietStep
    \* The end of the input.
    <2>5. CASE rt.state = "WORKING"
      <3>1. /\ r.outbuf = <<>> /\ r.outbuf_len = "closed" /\ ~r.repeat_state
            /\ r.state = "WORKING"
        <4>1. ~rt.repeat_state /\ rt.outbuf = <<>>
          BY <1>3, <2>5
        <4>. QED  BY <1>1, <1>11, <2>5, <4>1 DEF Ran, Leaves, NextState
      <3>2. rpc' = "solver" /\ eof' /\ rt'.outbuf = <<>>
        BY <1>1, <3>1
      <3>3. RuntimeInv'
        BY <1>1, <1>6, <1>11, <3>1, <3>2 DEF RuntimeInv, Kept
      <3>4. Here' = Here
        BY <1>1, <2>1, <3>1, <3>2 DEF Here, Kept, StageOf
      <3>. QED  BY <1>1, <1>4, <2>1, <3>2, <3>3, <3>4, QuietStep
    <2>. QED  BY <2>1, <2>2, <2>3, <2>4, <2>5
  <1>. QED  BY <1>3, <1>4, <1>8, <1>9, <1>10, <1>11 DEF Follows

\* The fields of the runtime that a fetch leaves alone.
LEMMA FetchedRuntime ==
    ASSUME NEW r \in Runtimes
    PROVE  LET q == [r EXCEPT !.outbuf_len = "len"]
           IN  /\ q.outbuf_len = "len" /\ q.state = r.state /\ q.outbuf = r.outbuf
               /\ q.repeat_state = r.repeat_state
               /\ q.filler_clause = r.filler_clause
               /\ q.written_clauses = r.written_clauses
  BY DEF Runtimes

\* The message in hand fits the state it is met in.
LEMMA FetchRuntime ==
    ASSUME CommonInv, rpc = "fetch", rpc' = "dispatch", ~eof, eof' = eof,
           rt' = [rt EXCEPT !.outbuf_len = "len"], Follows(Here, msg')
    PROVE  /\ RuntimeInv' /\ Here = StageOf(rt.state)
           /\ rt'.state = rt.state /\ rt'.written_clauses = rt.written_clauses
           /\ Here' = IF msg'.type = "FORK" THEN Here ELSE After(msg')
  <1>1. rt \in Runtimes /\ RuntimeInv
    BY DEF CommonInv, BasicInv, TypeOK, OrderInv
  <1>2. /\ rt'.outbuf_len = "len" /\ rt'.state = rt.state
        /\ rt'.outbuf = rt.outbuf /\ rt'.repeat_state = rt.repeat_state
        /\ rt'.filler_clause = rt.filler_clause
        /\ rt'.written_clauses = rt.written_clauses
    BY <1>1, FetchedRuntime
  <1>3. ~rt.repeat_state
    BY <1>1 DEF RuntimeInv
  <1>4. Here = StageOf(rt.state)
    BY <1>3 DEF Here
  <1>5. RuntimeInv'
    BY <1>1, <1>2, <1>3, <1>4 DEF RuntimeInv
  <1>6. Here' = IF msg'.type = "FORK" THEN Here ELSE After(msg')
    BY <1>2, <1>3, <1>4 DEF Here
  <1>. QED  BY <1>2, <1>4, <1>5, <1>6

\* The seed takes a message.
LEMMA SeedFetchOrder ==
    ASSUME CommonInv, Runtime, rpc = "fetch", rpc' = "dispatch", role = "seed",
           wstream.pipe # <<>>, msg' = Head(wstream.pipe), UNCHANGED cstream,
           wstream' = [wstream EXCEPT !.pipe = Tail(@)],
           rt' = [rt EXCEPT !.outbuf_len = "len"],
           UNCHANGED <<role, sibling, text, eof, toParent>>
    PROVE  OrderInv' /\ ClausesAccounted'
  <1>1. /\ TypeOK /\ wstream \in Streams /\ ~eof /\ rt \in Runtimes
        /\ rt.state \in PreloadStates /\ rt.written_clauses \in Nat
    BY DEF CommonInv, BasicInv, TypeOK, SeedInv, Runtimes
  <1>2. /\ UNCHANGED <<lpc, call, lib, forks, prefix, clauses, open, cube>>
    BY DEF Runtime
  <1>3. W \in Seq(Messages) /\ W # <<>> /\ W[1] = msg' /\ W' = Tail(W)
    BY <1>1, ContentsRead DEF W
  <1>4. /\ \A i \in 1..Len(W) : W[i].type = "FORK" => i = Len(W)
        /\ Orderly(W, Here)
        /\ ClientStage = StageAt(W, Here, IF ForkSent THEN Len(W) ELSE Len(W) + 1)
        /\ lib.state = "INPUT" => open = <<>> /\ clauses = <<>>
    BY DEF CommonInv, OrderInv, SeedOrder
  <1>5. /\ Follows(Here, msg') /\ Orderly(W', After(msg'))
        /\ W' \in Seq(Messages) /\ Len(W') = Len(W) - 1
        /\ Len(W) \in Nat /\ Len(W) >= 1
        /\ \A i \in 1..Len(W') : W'[i] = W[i + 1]
        /\ \A i \in 1..Len(W) :
              StageAt(W', After(msg'), i) = StageAt(W, Here, i + 1)
    BY <1>3, <1>4, OrderlyTail
  <1>6. /\ RuntimeInv' /\ Here = StageOf(rt.state)
        /\ rt'.state = rt.state /\ rt'.written_clauses = rt.written_clauses
        /\ Here' = IF msg'.type = "FORK" THEN Here ELSE After(msg')
    BY <1>1, <1>5, FetchRuntime
  <1>7. UNCHANGED <<C, ClientStage>>
    BY <1>2 DEF C, ClientStage, BlockOpen
  <1>8. SeedOrder' /\ ForkAhead' = ForkAhead
    <2>1. CASE msg'.type = "FORK"
      <3>1. Len(W) = 1 /\ Len(W') = 0 /\ W' = <<>>
        <4>1. 1 \in 1..Len(W)
          BY <1>5
        <4>2. Len(W) = 1
          BY <1>3, <1>4, <2>1, <4>1
        <4>3. W' = <<>>
          BY <1>3, <4>2, OneTaken
        <4>. QED  BY <4>2, <4>3
      <3>2. ForkSent /\ ~ForkSent' /\ ForkAhead /\ ForkAhead'
        BY <1>3, <2>1, <3>1 DEF ForkSent, ForkAhead
      <3>3. ClientStage = Here /\ Here' = Here
        BY <1>4, <1>6, <2>1, <3>1, <3>2 DEF StageAt
      <3>4. StageAt(W', Here', Len(W') + 1) = Here
        BY <3>1, <3>3 DEF StageAt
      <3>5. Orderly(W', Here')
        BY <3>1 DEF Orderly
      <3>6. SeedOrder'
        BY <1>2, <1>4, <1>7, <3>1, <3>2, <3>3, <3>4, <3>5 DEF SeedOrder
      <3>. QED  BY <3>2, <3>6 DEF ForkAhead
    <2>2. CASE msg'.type # "FORK"
      <3>1. Here' = After(msg')
        BY <1>6, <2>2
      <3>2. \A i \in 1..Len(W') : W'[i].type = "FORK" => i = Len(W')
        BY <1>4, <1>5
      <3>3. ForkSent' <=> ForkSent
        <4>1. CASE Len(W) = 1
          <5>1. W' = <<>>
            BY <1>3, <4>1, OneTaken
          <5>. QED  BY <1>3, <2>2, <4>1, <5>1 DEF ForkSent
        <4>2. CASE Len(W) # 1
          <5>1. Len(W') \in 1..Len(W') /\ Len(W') + 1 = Len(W)
            BY <1>5, <4>2
          <5>2. W'[Len(W')] = W[Len(W)] /\ W' # <<>>
            BY <1>5, <5>1
          <5>. QED  BY <1>3, <5>2 DEF ForkSent
        <4>. QED  BY <4>1, <4>2
      <3>4. ForkAhead' = ForkAhead
        BY <2>2, <3>3 DEF ForkAhead, ForkSent
      <3>5. ClientStage' = StageAt(W', Here', IF ForkSent' THEN Len(W') ELSE Len(W') + 1)
        <4>1. CASE ForkSent
          <5>1. Len(W) # 1
            BY <1>3, <2>2, <4>1 DEF ForkSent
          <5>2. Len(W') \in 1..Len(W) /\ Len(W') + 1 = Len(W)
            BY <1>5, <5>1
          <5>3. StageAt(W', Here', Len(W')) = StageAt(W, Here, Len(W))
            BY <1>5, <3>1, <5>2
          <5>. QED  BY <1>4, <1>7, <3>3, <4>1, <5>3
        <4>2. CASE ~ForkSent
          <5>1. Len(W') + 1 = Len(W) /\ Len(W) \in 1..Len(W)
            BY <1>5
          <5>2. StageAt(W', Here', Len(W)) = StageAt(W, Here, Len(W) + 1)
            BY <1>5, <3>1, <5>1
          <5>. QED  BY <1>4, <1>7, <3>3, <4>2, <5>1, <5>2
        <4>. QED  BY <4>1, <4>2
      <3>6. SeedOrder'
        BY <1>2, <1>4, <1>5, <2>2, <3>1, <3>2, <3>5 DEF SeedOrder
      <3>. QED  BY <3>4, <3>6
    <2>. QED  BY <2>1, <2>2
  <1>9. SeedSync'
    BY <1>2, <1>7, <1>8 DEF CommonInv, OrderInv, SeedSync
  <1>10. ChildOrder' /\ ChildSync'
    BY DEF ChildOrder, ChildSync
  <1>11. ClausesAccounted'
    <2>1. rt.written_clauses + Held + ClauseEnds(W) = Added(lib)
      BY Account DEF CommonInv
    <2>2. ClauseEnds(W) = ClauseEnds(W') + (IF msg' = Literal(0) THEN 1 ELSE 0)
      BY <1>3, EndsTail
    <2>3. ClauseEnds(W') \in Nat
      BY <1>5, EndsFinite
    <2>4. Held = 0
      BY DEF Held
    <2>5. msg' \in Messages
      BY <1>1, StreamRead
    <2>6. Held' = IF msg' = Literal(0) THEN 1 ELSE 0
      <3>1. msg' = Literal(0) <=> msg'.type = "LITERAL" /\ msg'.data = 0
        BY <2>5 DEF Messages, Literal, Msg
      <3>2. msg'.type = "LITERAL" /\ msg'.data = 0 => rt.state = "READING_CLAUSE"
        BY <1>1, <1>5, <1>6, StatesOfStages DEF Follows
      <3>. QED  BY <1>6, <3>1, <3>2 DEF Held, EndsClause
    <2>7. ClauseEnds(W) = Held' + ClauseEnds(W') /\ Held' \in Nat
      BY <2>2, <2>3, <2>6
    <2>8. Added(lib') = Added(lib) /\ rt'.written_clauses = rt.written_clauses
      BY <1>2, <1>6
    <2>9. rt'.written_clauses + Held' + ClauseEnds(W') = Added(lib')
      BY <1>1, <2>1, <2>3, <2>4, <2>7, <2>8
    <2>. QED  BY <2>9 DEF ClausesAccounted, Held, W, Added
  <1>. QED  BY <1>6, <1>8, <1>9, <1>10, <1>11 DEF OrderInv

\* The followed child takes a message.
LEMMA ChildFetchOrder ==
    ASSUME CommonInv, Runtime, rpc = "fetch", rpc' = "dispatch", role = "child",
           cstream.pipe # <<>>, msg' = Head(cstream.pipe), UNCHANGED wstream,
           cstream' = [cstream EXCEPT !.pipe = Tail(@)],
           rt' = [rt EXCEPT !.outbuf_len = "len"],
           UNCHANGED <<role, sibling, text, eof, toParent>>
    PROVE  OrderInv' /\ ClausesAccounted'
  <1>1. TypeOK /\ cstream \in Streams /\ rt \in Runtimes /\ eof \in BOOLEAN
    BY DEF CommonInv, BasicInv, TypeOK
  <1>2. /\ UNCHANGED <<lpc, call, lib, forks, prefix, clauses, open, cube>>
    BY DEF Runtime
  <1>3. C \in Seq(Messages) /\ C # <<>> /\ C[1] = msg' /\ C' = Tail(C)
    BY <1>1, ContentsRead DEF C
  <1>4. /\ \A i \in 1..Len(C) : C[i].type # "FORK"
        /\ Orderly(C, Here)
        /\ ~eof => IF lpc = "solving"
                   THEN StageAt(C, Here, Len(C) + 1) = "end"
                   ELSE StageAt(C, Here, Len(C) + 1) \in {"prefix", "matrix"}
    BY DEF CommonInv, OrderInv, ChildOrder
  \* A child that has read SOLVE finds nothing more to read.
  <1>5. ~eof
    <2>1. ASSUME eof PROVE FALSE
      <3>1. rt.state = "WORKING" /\ ~rt.repeat_state
        BY <2>1 DEF CommonInv, OrderInv, RuntimeInv
      <3>2. Here = "end"
        BY <3>1 DEF Here, StageOf
      <3>. QED  BY <1>3, <1>4, <3>2, NothingFollows
    <2>. QED  BY <2>1
  <1>6. /\ Follows(Here, msg') /\ Orderly(C', After(msg'))
        /\ C' \in Seq(Messages) /\ Len(C') = Len(C) - 1
        /\ Len(C) \in Nat /\ Len(C) >= 1
        /\ \A i \in 1..Len(C') : C'[i] = C[i + 1]
        /\ \A i \in 1..Len(C) :
              StageAt(C', After(msg'), i) = StageAt(C, Here, i + 1)
    BY <1>3, <1>4, OrderlyTail
  <1>7. msg'.type # "FORK"
    <2>1. 1 \in 1..Len(C)
      BY <1>6
    <2>. QED  BY <1>3, <1>4, <2>1
  <1>8. RuntimeInv' /\ Here' = After(msg')
    BY <1>5, <1>6, <1>7, FetchRuntime
  <1>9. ChildOrder'
    <2>1. \A i \in 1..Len(C') : C'[i].type # "FORK"
      BY <1>4, <1>6
    <2>2. Len(C') + 1 = Len(C) /\ Len(C) \in 1..Len(C)
      BY <1>6
    <2>3. StageAt(C', Here', Len(C') + 1) = StageAt(C, Here, Len(C) + 1)
      BY <1>6, <1>8, <2>2
    <2>. QED  BY <1>2, <1>4, <1>6, <1>7, <1>8, <2>1, <2>3 DEF ChildOrder
  <1>10. ChildSync'
    BY <1>2, <1>3, <1>5 DEF CommonInv, OrderInv, ChildSync
  <1>11. SeedOrder' /\ SeedSync' /\ ClausesAccounted'
    BY DEF SeedOrder, SeedSync, ClausesAccounted
  <1>. QED  BY <1>8, <1>9, <1>10, <1>11 DEF OrderInv

\* FORK: the process followed from here on is the seed or its new child.
LEMMA DispatchForkOrder ==
    ASSUME CommonInv, DispatchFork
    PROVE  OrderInv' /\ ClausesAccounted'
  <1>. DEFINE r == RunState(rt, msg)
  <1>1. /\ Runtime /\ rpc = "dispatch" /\ r.outbuf_len = "again"
        /\ rt' = r /\ rpc' = "fetch"
        /\ toParent' = Append(toParent, ForkReport(forks))
        /\ \/ role' = "child" /\ UNCHANGED sibling
           \/ sibling' = TRUE /\ UNCHANGED role
        /\ UNCHANGED <<wstream, cstream, msg, text, eof>>
    BY DEF DispatchFork
  <1>2. /\ rt \in Runtimes /\ msg \in Messages /\ RuntimeInv /\ forks \in Nat
        /\ role \in {"seed", "child"} /\ rt.state \in PreloadStates
        /\ rt.written_clauses \in Nat
    BY DEF CommonInv, BasicInv, TypeOK, OrderInv, Runtimes
  <1>3. Ran(rt, msg, r)
    BY <1>2, RunFacts
  <1>. HIDE DEF r
  <1>4. /\ msg.type = "FORK"
        /\ rt.state \in {"READING_PREFIX", "READING_MATRIX"}
    BY <1>1, <1>2, <1>3 DEF Ran, RuntimeInv
  <1>5. role = "seed"
    BY <1>1, <1>2, <1>4 DEF CommonInv, OrderInv, ChildOrder
  <1>6. ~eof /\ ~rt.repeat_state
    BY <1>5 DEF CommonInv, BasicInv, SeedInv
  <1>7. ForkAhead
    BY <1>1, <1>4 DEF ForkAhead
  <1>8. /\ lpc = "fork" /\ ~sibling /\ toParent = <<>> /\ C = <<>> /\ W = <<>>
    BY <1>1, <1>4, <1>5, <1>7 DEF CommonInv, OrderInv, SeedSync, SeedOrder
  <1>9. /\ UNCHANGED <<lpc, call, lib, forks, prefix, clauses, open, cube>>
        /\ UNCHANGED <<W, C, ClientStage>>
    BY <1>1 DEF Runtime, W, C, ClientStage, BlockOpen
  <1>10. /\ r.state = rt.state /\ ~r.repeat_state /\ r.filler_clause # <<>>
         /\ r.written_clauses = rt.written_clauses
    BY <1>2, <1>3, <1>4, <1>6 DEF Ran, NextState, EndsClause, RuntimeInv
  <1>11. Here' = Here /\ Here \in {"prefix", "matrix"}
    BY <1>1, <1>4, <1>6, <1>10 DEF Here, StageOf
  <1>12. RuntimeInv'
    BY <1>1, <1>4, <1>6, <1>10 DEF RuntimeInv
  <1>13. Len(toParent') = 1 /\ toParent'[1].type = "FORK_REPORT" /\ toParent' # <<>>
    <2>1. toParent' = <<ForkReport(forks)>>
      BY <1>1, <1>8
    <2>. QED  BY <2>1 DEF ForkReport, Msg
  <1>14. /\ Len(W') = 0 /\ W' = <<>> /\ Len(C') = 0 /\ C' = <<>>
         /\ ~ForkSent' /\ ~ForkAhead' /\ ~ForkSent
    BY <1>1, <1>8, <1>9 DEF ForkSent, ForkAhead
  <1>15. CASE role' = "child" /\ UNCHANGED sibling
    <2>1. StageAt(C', Here', Len(C') + 1) = Here'
      BY <1>14 DEF StageAt
    <2>2. ChildOrder'
      BY <1>1, <1>8, <1>9, <1>11, <1>14, <2>1 DEF ChildOrder, Orderly
    <2>3. ChildSync'
      BY <1>1, <1>6, <1>8, <1>9, <1>13, <1>14, <1>15 DEF ChildSync
    <2>4. SeedOrder' /\ SeedSync' /\ ClausesAccounted'
      BY <1>15 DEF SeedOrder, SeedSync, ClausesAccounted
    <2>. QED  BY <1>12, <2>2, <2>3, <2>4 DEF OrderInv
  <1>16. CASE sibling' = TRUE /\ UNCHANGED role
    <2>1. ClientStage = Here
      <3>1. ClientStage = StageAt(W, Here, Len(W) + 1)
        BY <1>5, <1>14 DEF CommonInv, OrderInv, SeedOrder
      <3>2. Len(W) + 1 = 1
        BY <1>8
      <3>. QED  BY <3>1, <3>2 DEF StageAt
    <2>2. StageAt(W', Here', Len(W') + 1) = ClientStage'
      BY <1>9, <1>11, <1>14, <2>1 DEF StageAt
    <2>3. SeedOrder'
      <3>1. lib'.state = "INPUT" => open' = <<>> /\ clauses' = <<>>
        BY <1>5, <1>9 DEF CommonInv, OrderInv, SeedOrder
      <3>. QED  BY <1>14, <2>2, <3>1 DEF SeedOrder, Orderly
    <2>4. SeedSync'
      BY <1>8, <1>9, <1>13, <1>14, <1>16 DEF SeedSync
    <2>5. ChildOrder' /\ ChildSync'
      BY <1>5, <1>16 DEF ChildOrder, ChildSync
    <2>6. ClausesAccounted'
      <3>1. rt.written_clauses + Held + ClauseEnds(W) = Added(lib)
        BY <1>5, Account DEF CommonInv
      <3>2. Held = 0 /\ Held' = 0
        BY <1>1, <1>4 DEF Held, EndsClause
      <3>3. rt'.written_clauses + Held' + ClauseEnds(W') = Added(lib')
        BY <1>1, <1>9, <1>10, <3>1, <3>2
      <3>. QED  BY <3>3 DEF ClausesAccounted, Held, W, Added
    <2>. QED  BY <1>12, <2>3, <2>4, <2>5, <2>6 DEF OrderInv
  <1>. QED  BY <1>1, <1>15, <1>16

\* A child that is not followed takes a message.
LEMMA SiblingReadsOrder ==
    ASSUME CommonInv, SiblingReads
    PROVE  OrderInv' /\ ClausesAccounted'
  <1>1. /\ Runtime /\ sibling /\ cstream.pipe # <<>>
        /\ cstream' = [cstream EXCEPT !.pipe = Tail(@)]
        /\ IF Head(cstream.pipe).type = "SOLVE"
           THEN sibling' = FALSE /\ toParent' = Append(toParent, ExitCode(20))
           ELSE UNCHANGED <<sibling, toParent>>
        /\ UNCHANGED <<wstream, rpc, rt, msg, role, text, eof>>
    BY DEF SiblingReads
  <1>2. cstream \in Streams /\ role \in {"seed", "child"}
    BY DEF CommonInv, BasicInv, TypeOK
  <1>3. /\ C \in Seq(Messages) /\ C # <<>> /\ C[1] = Head(cstream.pipe)
        /\ C' = Tail(C)
    BY <1>1, <1>2, ContentsRead DEF C
  <1>4. /\ C' \in Seq(Messages) /\ Len(C') = Len(C) - 1 /\ Len(C) \in Nat \ {0}
        /\ \A i \in 1..Len(C') : C'[i] = C[i + 1]
    <2>1. Len(C) \in Nat \ {0}
      BY <1>3, EmptySeq
    <2>. QED  BY <1>3, <2>1, HeadTailProperties
  <1>5. role = "seed"
    BY <1>1, <1>2 DEF CommonInv, OrderInv, ChildSync
  <1>6. /\ UNCHANGED <<lpc, call, lib, forks, prefix, clauses, open, cube>>
        /\ UNCHANGED <<W, Here, ClientStage, ForkSent, ForkAhead, Held>>
    BY <1>1 DEF Runtime, W, Here, ClientStage, BlockOpen, ForkSent, ForkAhead, Held
  <1>7. ~ForkAhead /\ lpc # "fork"
    BY <1>1, <1>3, <1>5 DEF CommonInv, OrderInv, SeedSync
  <1>8. \A i \in 1..Len(C') : C'[i].type = "SOLVE" => i = Len(C') /\ lpc = "solving"
    <2>. SUFFICES ASSUME NEW i \in 1..Len(C'), C'[i].type = "SOLVE"
                  PROVE  i = Len(C') /\ lpc = "solving"
      OBVIOUS
    <2>1. i + 1 \in 1..Len(C) /\ C[i + 1].type = "SOLVE"
      BY <1>4
    <2>2. i + 1 = Len(C) /\ lpc = "solving"
      BY <1>5, <2>1 DEF CommonInv, OrderInv, SeedSync
    <2>. QED  BY <1>4, <2>2
  <1>9. SeedSync'
    <2>1. CASE C[1].type = "SOLVE"
      <3>1. 1 \in 1..Len(C)
        BY <1>4
      <3>2. Len(C) = 1 /\ lpc = "solving"
        BY <1>5, <2>1, <3>1 DEF CommonInv, OrderInv, SeedSync
      <3>3. C' = <<>>
        BY <1>3, <3>2, OneTaken
      <3>4. toParent = <<>>
        BY <1>1, <1>5, <3>2 DEF CommonInv, OrderInv, SeedSync
      <3>5. sibling' = FALSE /\ toParent' = <<ExitCode(20)>>
        BY <1>1, <1>3, <2>1, <3>4
      <3>6. /\ Len(toParent') = 1 /\ toParent' # <<>>
            /\ toParent'[1].type # "FORK_REPORT"
        BY <3>5 DEF ExitCode, Msg
      <3>. QED
        BY <1>6, <1>7, <1>8, <3>2, <3>3, <3>5, <3>6 DEF SeedSync
    <2>2. CASE C[1].type # "SOLVE"
      <3>1. UNCHANGED <<sibling, toParent>>
        BY <1>1, <1>3, <2>2
      <3>. QED
        BY <1>1, <1>5, <1>6, <1>7, <1>8, <3>1 DEF CommonInv, OrderInv, SeedSync
    <2>. QED  BY <2>1, <2>2
  <1>10. SeedOrder' /\ RuntimeInv'
    BY <1>1, <1>6 DEF CommonInv, OrderInv, SeedOrder, RuntimeInv
  <1>11. ChildOrder' /\ ChildSync'
    BY <1>1, <1>5 DEF ChildOrder, ChildSync
  <1>12. ClausesAccounted'
    <2>1. rt.written_clauses + Held + ClauseEnds(W) = Added(lib)
      BY <1>5, Account DEF CommonInv
    <2>2. rt'.written_clauses + Held' + ClauseEnds(W') = Added(lib')
      BY <1>1, <1>6, <2>1
    <2>. QED  BY <2>2 DEF ClausesAccounted, Held, W, Added
  <1>. QED  BY <1>9, <1>10, <1>11, <1>12 DEF OrderInv

\* read() and the steps of advance_state.
LEMMA ProcessOrder ==
    ASSUME CommonInv, ProcessStep
    PROVE  OrderInv' /\ ClausesAccounted'
  <1>1. BasicInv'
    BY ProcessBasic DEF CommonInv
  <1>2. ASSUME NEW n \in ReadSizes,
               ReadBuffered(n) \/ ReadRepeated(n) \/ Dispatch(n)
        PROVE  OrderInv' /\ ClausesAccounted'
    BY <1>1, <1>2, ReadBufferedOrder, ReadRepeatedOrder, DispatchOrder
  <1>3. CASE ReadNeedsMessage
    BY <1>1, <1>3, ReadNeedsMessageOrder
  <1>4. CASE Fetch
    <2>1. /\ Runtime /\ rpc = "fetch" /\ rpc' = "dispatch"
          /\ rt' = [rt EXCEPT !.outbuf_len = "len"]
          /\ UNCHANGED <<role, sibling, text, eof, toParent>>
      BY <1>4 DEF Fetch
    <2>2. CASE /\ role = "seed" /\ wstream.pipe # <<>>
               /\ msg' = Head(wstream.pipe) /\ UNCHANGED cstream
               /\ wstream' = [wstream EXCEPT !.pipe = Tail(@)]
      BY <2>1, <2>2, SeedFetchOrder
    <2>3. CASE /\ role = "child" /\ cstream.pipe # <<>>
               /\ msg' = Head(cstream.pipe) /\ UNCHANGED wstream
               /\ cstream' = [cstream EXCEPT !.pipe = Tail(@)]
      BY <2>1, <2>3, ChildFetchOrder
    <2>. QED  BY <1>4, <2>2, <2>3 DEF Fetch
  <1>5. CASE DispatchFork
    BY <1>5, DispatchForkOrder
  <1>6. CASE SiblingReads
    BY <1>6, SiblingReadsOrder
  <1>. QED  BY <1>2, <1>3, <1>4, <1>5, <1>6 DEF ProcessStep

\* Nothing is under way when quapi_init returns.
LEMMA InitOrder == Init => OrderInv /\ ClausesAccounted
  <1>. SUFFICES ASSUME Init PROVE OrderInv /\ ClausesAccounted
    OBVIOUS
  <1>1. W = <<>> /\ C = <<>> /\ Len(W) = 0 /\ Len(C) = 0
    <2>1. /\ wstream.buf = <<>> /\ wstream.pipe = <<>>
          /\ cstream.buf = <<>> /\ cstream.pipe = <<>>
      BY DEF Init, NoStream
    <2>. QED  BY <2>1 DEF W, C, Contents
  <1>. DEFINE i == quapi_runtime_init
  <1>2. Header \in Messages /\ Header.type = "HEADER"
    BY MessageType DEF Header, Msg
  <1>3. /\ i \in Runtimes /\ i.state = "WAITING_FOR_HEADER"
        /\ i.outbuf_len = "len" /\ i.repeat_state = FALSE
        /\ i.written_clauses = 0 /\ i.filler_clause # <<>>
    <2>1. /\ UnitTautology(-1, 1) \in Seq(Lexemes) /\ UnitTautology(-1, 1) # <<>>
      BY LexemeType DEF UnitTautology
    <2>. QED  BY <2>1 DEF quapi_runtime_init, Runtimes, PreloadStates
  <1>4. rt = RunState(i, Header)
    BY DEF Init
  <1>. HIDE DEF i
  <1>5. Ran(i, Header, rt)
    BY <1>2, <1>3, <1>4, RunFacts
  <1>6. /\ rt.state = "READING_PREFIX" /\ ~rt.repeat_state
        /\ rt.outbuf_len = "len" /\ rt.written_clauses = 0
        /\ rt.filler_clause # <<>>
    BY <1>2, <1>3, <1>5 DEF Ran, NextState, EndsClause
  <1>7. RuntimeInv
    BY <1>6 DEF RuntimeInv, Init
  <1>8. ~ForkSent /\ ~ForkAhead
    BY <1>1 DEF ForkSent, ForkAhead, Init
  <1>9. SeedOrder
    <2>1. Here = "prefix"
      BY <1>6 DEF Here, StageOf, Init
    <2>2. ClientStage = "prefix"
      BY DEF ClientStage, BlockOpen, Init
    <2>3. StageAt(W, Here, Len(W) + 1) = Here
      BY <1>1 DEF StageAt
    <2>. QED  BY <1>1, <1>8, <2>1, <2>2, <2>3 DEF SeedOrder, Orderly, Init
  <1>10. SeedSync
    <2>1. Len(toParent) = 0 /\ lib.state = "INPUT"
      BY DEF Init, FreshSolver
    <2>. QED  BY <1>1, <1>8, <2>1 DEF SeedSync, Init
  <1>11. ChildOrder /\ ChildSync
    BY DEF ChildOrder, ChildSync, Init
  <1>12. ClausesAccounted
    <2>1. Ends(W) = {}
      BY <1>1 DEF Ends
    <2>2. ClauseEnds(W) = 0
      BY <2>1, <1>1, FS_EmptySet DEF ClauseEnds, Ends
    <2>3. Held = 0 /\ Added(lib) = 0
      BY DEF Held, Added, Init, FreshSolver
    <2>4. rt.written_clauses + Held + ClauseEnds(W) = Added(lib)
      BY <1>6, <2>2, <2>3
    <2>. QED  BY <2>4, Account
  <1>. QED  BY <1>7, <1>9, <1>10, <1>11, <1>12 DEF OrderInv

\* Every step, stuttering included.
LEMMA NextCommon == ASSUME CommonUse PROVE CommonInv /\ [Next]_vars => CommonInv'
  <1>. SUFFICES ASSUME CommonInv, [Next]_vars PROVE CommonInv'
    OBVIOUS
  <1>1. BasicInv'
    BY NextBasic DEF CommonInv
  <1>2. CASE LibraryStep
    BY <1>1, <1>2, LibraryOrder DEF CommonInv
  <1>3. CASE ProcessStep
    BY <1>1, <1>3, ProcessOrder DEF CommonInv
  <1>4. CASE UNCHANGED vars
    <2>1. UNCHANGED <<W, C, Here, ClientStage, ForkSent, ForkAhead>>
      BY <1>4 DEF vars, W, C, Here, ClientStage, BlockOpen, ForkSent, ForkAhead
    <2>2. RuntimeInv' /\ SeedOrder' /\ ChildOrder'
      BY <1>4, <2>1 DEF vars, CommonInv, OrderInv, RuntimeInv, SeedOrder, ChildOrder
    <2>3. SeedSync' /\ ChildSync'
      BY <1>4, <2>1 DEF vars, CommonInv, OrderInv, SeedSync, ChildSync
    <2>4. ClausesAccounted'
      BY <1>4 DEF vars, CommonInv, ClausesAccounted
    <2>. QED  BY <1>1, <2>2, <2>3, <2>4 DEF CommonInv, OrderInv
  <1>. QED
    BY <1>2, <1>3, <1>4 DEF Next, LibraryStep, ProcessStep, ClientStops

LEMMA AlwaysCommon == ASSUME CommonUse PROVE Spec => []CommonInv
  <1>1. Init => CommonInv
    BY InitBasic, InitOrder DEF CommonInv
  <1>2. CommonInv /\ [Next]_vars => CommonInv'
    BY NextCommon
  <1>. QED  BY <1>1, <1>2, PTL DEF Spec

\* No message of a client that ends its prefix and its clauses takes the
\* runtime to the error paths that format an integer as a string: every message
\* is met by a state function that expects it, in the seed and in every child,
\* however the reads of the solver cut the text.
THEOREM MessagesExpected == ASSUME CommonUse PROVE Spec => []RuntimeSurvives
  <1>1. CommonInv => RuntimeSurvives
    BY DEF CommonInv, OrderInv, RuntimeInv, RuntimeSurvives
  <1>. QED  BY <1>1, AlwaysCommon, PTL

\* For that client no clause is lost or doubled between quapi_add and the seed:
\* the library's counter is what the runtime has counted and what is under way.
THEOREM CountersAgree == ASSUME CommonUse PROVE Spec => []ClausesAccounted
  <1>1. CommonInv => ClausesAccounted
    BY DEF CommonInv
  <1>. QED  BY <1>1, AlwaysCommon, PTL
=============================================================================
