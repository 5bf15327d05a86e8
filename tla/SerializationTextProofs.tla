----------------------- MODULE SerializationTextProofs -----------------------
(***************************************************************************)
(* The text a solving child reads is the file the client's calls describe, *)
(* for every value of the constants and a client that ends its prefix and  *)
(* its clauses.                                                            *)
(***************************************************************************)
EXTENDS SerializationProofs, CountingProofs

(***************************************************************************)
(* The messages a formula is sent as, and what is emitted for each.        *)
(***************************************************************************)
Literals(c) == [i \in 1..Len(c) |-> Literal(c[i])]

PrefixMessages == [i \in 1..Len(prefix) |-> Quantifier(Bound(i))]

MatrixMessages(cs) ==
    FlattenSeq([i \in 1..Len(cs) |-> Append(Literals(cs[i]), Literal(0))])

\* A prefix, clauses, and the literals of another one.
Sends(p, cs, o) == (p \o MatrixMessages(cs)) \o Literals(o)

\* The clauses the followed process is sent.
Matrix == IF role = "child" THEN Written ELSE clauses

\* Every message of the formula that the followed process is sent.
Script == Sends(PrefixMessages, Matrix, open)

\* The message in front of whatever comes behind s.
Before(s) == IF s = <<>> THEN Header ELSE s[Len(s)]

Closing == <<SP, Num(0), NL>>

Opened(d) == IF d > 0 THEN <<Exists, SP, Num(d)>> ELSE <<Forall, SP, Num(-d)>>

\* The text of m behind p.
Says(p, m) ==
    LET block  == p.type = "QUANTIFIER" /\ p.data # 0
        clause == p.type = "LITERAL" /\ p.data # 0
    IN  IF m.type = "QUANTIFIER"
        THEN IF m.data = 0 THEN IF block THEN Closing ELSE <<>>
             ELSE IF ~block THEN Opened(m.data)
             ELSE IF (m.data > 0) <=> (p.data > 0)
                  THEN <<SP, Num(Abs(m.data))>>
                  ELSE Closing \o Opened(m.data)
        ELSE IF block THEN Closing \o <<Num(m.data)>>
             ELSE IF ~clause THEN <<Num(m.data)>>
             ELSE IF m.data = 0 THEN Closing ELSE <<SP, Num(m.data)>>

Rendered(s) ==
    FlattenSeq([i \in 1..Len(s) |->
                   Says(IF i = 1 THEN Header ELSE s[i - 1], s[i])])

ProblemLine == <<Problem, SP, Num(LitCount), SP, Num(HeaderClauses), NL>>

Filling(f, t) == FlattenSeq([i \in 1..f |-> t])
-----------------------------------------------------------------------------
(***************************************************************************)
(* How far the followed process has come.                                  *)
(***************************************************************************)
Stream == IF role = "seed" THEN W ELSE C

\* Messages of the formula in the runtime's hands, and in the stream.
Hand == IF rpc = "dispatch" /\ msg.type \in {"QUANTIFIER", "LITERAL"} THEN 1 ELSE 0

Ended == Stream # <<>> /\ Stream[Len(Stream)].type \in {"FORK", "SOLVE"}

Ahead == IF Ended THEN Len(Stream) - 1 ELSE Len(Stream)

Done == Len(Script) - (Hand + Ahead)

\* What the runtime has turned into text.
Taken == SubSeq(Script, 1, Done)

\* What is under way is the rest of the formula.
QueueInv ==
    /\ Done >= 0
    /\ \A i \in 1..Ahead : Stream[i] = Script[Done + Hand + i]
    /\ Hand = 1 => msg = Script[Done + 1]
    /\ role = "child" /\ msg.type = "SOLVE" => C = <<>> /\ (lpc = "solving" \/ eof)

\* The state function behind p.
StateBehind(p) ==
    IF p.type = "QUANTIFIER" /\ p.data # 0
    THEN IF p.data > 0 THEN "READING_EXISTS" ELSE "READING_FORALL"
    ELSE IF p.type = "LITERAL"
         THEN IF p.data = 0 THEN "READING_MATRIX" ELSE "READING_CLAUSE"
         ELSE "READING_PREFIX"

\* Fillers follow a formula that has a quantifier in front, or none.
FillerFor(p) ==
    IF p.type = "QUANTIFIER" /\ p.data > 0 THEN UnitTautology(p.data, -p.data)
    ELSE IF LitCount = 0 THEN <<Num(0), NL>> ELSE UnitTautology(-1, 1)

First(s) == IF s = <<>> THEN Header ELSE s[1]

\* The runtime is where the last message it took has left it.
StateInv ==
    /\ \/ rt.state = StateBehind(Before(Taken))
       \/ /\ rt.state = "READING_MATRIX"
          /\ StateBehind(Before(Taken)) = "READING_PREFIX"
          /\ (rpc = "dispatch" /\ msg.type = "LITERAL") \/ msg.type = "SOLVE"
       \/ rt.state = "WORKING" /\ msg.type = "SOLVE" /\ Enough(rt)
    /\ rt.filler_clause = FillerFor(First(Taken))
    /\ rt.quantifier_count = 0 <=> First(Taken).type # "QUANTIFIER"
    /\ rt.quantifier_count = 0 /\ Taken # <<>> =>
          rt.state \in {"READING_CLAUSE", "READING_MATRIX", "WORKING"}
    /\ rpc # "solver" => rt.outbuf = <<>>

Fillers == rt.written_clauses - ClauseEnds(Taken)

\* What the solver has and what waits in the buffer is the text of those messages,
\* and of the fillers behind the last of them.
TextInv ==
    /\ Fillers >= 0
    /\ Fillers > 0 => /\ role = "child" /\ msg.type = "SOLVE"
                      /\ rt.written_clauses <= HeaderClauses
    /\ text \o rt.outbuf = (ProblemLine \o Rendered(Taken)) \o Filling(Fillers, rt.filler_clause)
-----------------------------------------------------------------------------
(***************************************************************************)
(* What the messages of the formula say.                                   *)
(***************************************************************************)
MatrixText(cs) == FlattenSeq([i \in 1..Len(cs) |-> ClauseText(cs[i])])

Numbers(c) == FlattenSeq([i \in 1..Len(c) |-> <<Num(c[i]), SP>>])

\* What the text of the messages lacks, behind a prefix that ends in a block or
\* does not: the end of the block, or a blank.
Lacks(block, cs, o) ==
    IF o # <<>> THEN <<SP>>
    ELSE IF cs = <<>> /\ block THEN Closing ELSE <<>>

Closed(p, block) == Rendered(p) \o (IF block THEN Closing ELSE <<>>)

Told(p, block, cs, o) ==
    /\ ClauseEnds(Sends(p, cs, o)) = Len(cs)
    /\ Rendered(Sends(p, cs, o)) \o Lacks(block, cs, o)
         = (Closed(p, block) \o MatrixText(cs)) \o Numbers(o)
    /\ o # <<>> => o[Len(o)] # 0
    /\ cs # <<>> /\ o = <<>> => Before(Sends(p, cs, o)) = Literal(0)

ScriptInv == Told(PrefixMessages, BlockOpen, Matrix, open)

\* Assumptions come behind whole clauses and a closed prefix, and with a child.
CallsInv ==
    /\ prefix # <<>> => prefix[1] # 0
    /\ role = "child" \/ lpc = "fork" =>
          open = <<>> /\ (BlockOpen => clauses # <<>>)
    /\ lpc = "fork" \/ (role = "seed" /\ NeedsFork(lib)) => cube = <<>>

DeliveryInv == QueueInv /\ StateInv /\ TextInv /\ ScriptInv /\ CallsInv
-----------------------------------------------------------------------------
(***************************************************************************)
(* Texts one behind the other.                                             *)
(***************************************************************************)
\* FlattenSeq counts up.
LEMMA FlattenIs ==
    ASSUME NEW X, NEW s \in Seq(Seq(X)), Len(s) >= 1
    PROVE  \E g \in [1..Len(s) -> Seq(X)] :
              /\ g[1] = s[1] /\ FlattenSeq(s) = g[Len(s)]
              /\ \A k \in 2..Len(s) : g[k] = g[k - 1] \o s[k]
  <1>. DEFINE n == Len(s)
              F == [x \in Seq(X) |-> [k \in 1..n |-> x \o s[k]]]
              Solves(f) == f = [i \in 1..n |-> IF i = 1 THEN s[i] ELSE f[i - 1] \o s[i]]
              flatten == CHOOSE f : Solves(f)
  <1>1. n \in Nat /\ n >= 1 /\ \A k \in 1..n : s[k] \in Seq(X)
    BY ElementOfSeq, LenProperties
  <1>2. F \in [Seq(X) -> [1..n -> Seq(X)]]
    <2>1. ASSUME NEW x \in Seq(X), NEW k \in 1..n PROVE x \o s[k] \in Seq(X)
      BY <1>1, ConcatProperties
    <2>. HIDE DEF n
    <2>. QED  BY <2>1
  <1>3. PICK h : Iterates(h, Seq(X), <<>>, n, F)
    <2>1. <<>> \in Seq(X)
      OBVIOUS
    <2>. HIDE DEF F, n
    <2>. QED  BY <1>1, <1>2, <2>1, Iteration
  <1>4. /\ h \in [0..n -> Seq(X)] /\ h[0] = <<>>
        /\ \A k \in 1..n : h[k] = h[k - 1] \o s[k]
    <2>1. h \in [0..n -> Seq(X)] /\ h[0] = <<>> /\ \A k \in 1..n : h[k] = F[h[k - 1]][k]
      <3>. HIDE DEF F, n
      <3>. QED  BY <1>3 DEF Iterates
    <2>2. ASSUME NEW k \in 1..n PROVE h[k] = h[k - 1] \o s[k]
      <3>1. k - 1 \in 0..n
        BY <1>1
      <3>2. h[k - 1] \in Seq(X) /\ h[k] = F[h[k - 1]][k]
        BY <2>1, <3>1
      <3>. QED  BY <3>2
    <2>. QED  BY <2>1, <2>2
  <1>. HIDE DEF F, n
  <1>. DEFINE g == [i \in 1..n |-> h[i]]
  <1>5. g \in [1..n -> Seq(X)]
    <2>1. \A i \in 1..n : i \in 0..n
      BY <1>1
    <2>. QED  BY <1>4, <2>1
  <1>6. g[1] = s[1]
    <2>1. 1 \in 1..n /\ 1 - 1 = 0
      BY <1>1
    <2>2. h[1] = <<>> \o s[1] /\ s[1] \in Seq(X)
      BY <1>1, <1>4, <2>1
    <2>. QED  BY <2>1, <2>2, ConcatEmptySeq
  <1>7. ASSUME NEW k \in 2..n PROVE g[k] = g[k - 1] \o s[k]
    <2>1. k \in 1..n /\ k - 1 \in 1..n
      BY <1>1
    <2>. QED  BY <1>4, <2>1
  <1>8. Solves(g)
    <2>1. ASSUME NEW i \in 1..n
          PROVE  h[i] = IF i = 1 THEN s[i] ELSE g[i - 1] \o s[i]
      <3>1. g[i] = h[i]
        OBVIOUS
      <3>2. i = 1 \/ i \in 2..n
        BY <1>1
      <3>. HIDE DEF g
      <3>. QED  BY <1>6, <1>7, <3>1, <3>2
    <2>2. g = [i \in 1..n |-> IF i = 1 THEN s[i] ELSE g[i - 1] \o s[i]]
      BY <2>1, Zenon
    <2>. QED  BY <2>2
  <1>9. Solves(flatten)
    <2>. HIDE DEF g
    <2>. QED  BY <1>8
  <1>10. FlattenSeq(s) = flatten[n]
    BY <1>1 DEF FlattenSeq, n
  <1>. HIDE DEF g, flatten
  <1>11. ASSUME NEW i \in 1..n PROVE flatten[i] = g[i]
    <2>. DEFINE T == {k \in 0..n : k = 0 \/ flatten[k] = g[k]}
    <2>1. 0 \in T
      BY <1>1
    <2>2. ASSUME NEW k \in 0..n - 1, k \in T PROVE k + 1 \in T
      <3>1. /\ k + 1 \in 1..n /\ (k + 1) - 1 = k
            /\ flatten[k + 1] = IF k + 1 = 1 THEN s[k + 1] ELSE flatten[(k + 1) - 1] \o s[k + 1]
        <4>1. k + 1 \in 1..n /\ (k + 1) - 1 = k
          BY <1>1
        <4>2. \A j \in 1..n : flatten[j] = IF j = 1 THEN s[j] ELSE flatten[j - 1] \o s[j]
          BY <1>9, Zenon
        <4>. QED  BY <4>1, <4>2, Zenon
      <3>2. CASE k = 0
        BY <1>6, <3>1, <3>2
      <3>3. CASE k # 0
        <4>1. k + 1 \in 2..n /\ k + 1 # 1
          BY <3>1, <3>3
        <4>2. g[k + 1] = g[k] \o s[k + 1]
          BY <1>7, <3>1, <4>1
        <4>3. flatten[k] = g[k]
          BY <2>2, <3>3
        <4>4. flatten[k + 1] = g[k + 1]
          BY <3>1, <4>1, <4>2, <4>3
        <4>. QED  BY <3>1, <4>4
      <3>. QED  BY <3>2, <3>3
    <2>3. 0..n \subseteq T
      <3>. HIDE DEF T
      <3>. QED  BY <1>1, <2>1, <2>2, CountingTo
    <2>4. i \in 0..n /\ i # 0
      BY <1>1
    <2>. QED  BY <2>3, <2>4
  <1>12. FlattenSeq(s) = g[n]
    BY <1>1, <1>10, <1>11
  <1>. QED  BY <1>5, <1>6, <1>7, <1>12 DEF n

LEMMA FlattenEmpty == FlattenSeq(<<>>) = <<>>
  BY DEF FlattenSeq

\* One more text.
LEMMA FlattenAppend ==
    ASSUME NEW X, NEW s \in Seq(Seq(X)), NEW x \in Seq(X)
    PROVE  /\ FlattenSeq(s) \in Seq(X)
           /\ FlattenSeq(Append(s, x)) = FlattenSeq(s) \o x
  <1>. DEFINE t == Append(s, x)
              n == Len(s)
  <1>1. /\ t \in Seq(Seq(X)) /\ Len(t) = n + 1 /\ n \in Nat /\ t[n + 1] = x
        /\ \A i \in 1..n : t[i] = s[i]
    OBVIOUS
  <1>. HIDE DEF t
  <1>2. PICK h \in [1..n + 1 -> Seq(X)] :
           /\ h[1] = t[1] /\ FlattenSeq(t) = h[n + 1]
           /\ \A k \in 2..n + 1 : h[k] = h[k - 1] \o t[k]
    <2>1. Len(t) >= 1 /\ t \in Seq(Seq(X))
      BY <1>1
    <2>. HIDE DEF n
    <2>2. \E h \in [1..Len(t) -> Seq(X)] :
             /\ h[1] = t[1] /\ FlattenSeq(t) = h[Len(t)]
             /\ \A k \in 2..Len(t) : h[k] = h[k - 1] \o t[k]
      BY <2>1, FlattenIs
    <2>. QED  BY <1>1, <2>2
  <1>3. CASE n = 0
    <2>1. s = <<>> /\ FlattenSeq(s) = <<>>
      BY <1>3, FlattenEmpty, EmptySeq
    <2>2. FlattenSeq(t) = x
      BY <1>1, <1>2, <1>3
    <2>3. <<>> \o x = x /\ <<>> \in Seq(X)
      BY ConcatEmptySeq
    <2>. QED  BY <2>1, <2>2, <2>3 DEF t
  <1>4. CASE n # 0
    <2>1. n >= 1
      BY <1>1, <1>4
    <2>2. PICK g \in [1..n -> Seq(X)] :
             /\ g[1] = s[1] /\ FlattenSeq(s) = g[n]
             /\ \A k \in 2..n : g[k] = g[k - 1] \o s[k]
      BY <2>1, FlattenIs
    <2>. HIDE DEF n
    <2>. DEFINE T == {k \in 0..n : k = 0 \/ h[k] = g[k]}
    <2>3. 0 \in T
      BY <1>1
    <2>4. ASSUME NEW k \in 0..n - 1, k \in T PROVE k + 1 \in T
      <3>1. k + 1 \in 1..n /\ (k + 1) - 1 = k /\ t[k + 1] = s[k + 1]
        BY <1>1
      <3>2. CASE k = 0
        BY <1>2, <2>2, <3>1, <3>2
      <3>3. CASE k # 0
        <4>1. k + 1 \in 2..n /\ k + 1 \in 2..n + 1
          BY <1>1, <3>1, <3>3
        <4>2. g[k + 1] = g[k] \o s[k + 1] /\ h[k + 1] = h[k] \o t[k + 1]
          BY <1>2, <2>2, <3>1, <4>1
        <4>3. h[k] = g[k]
          BY <2>4, <3>3
        <4>4. h[k + 1] = g[k + 1]
          BY <3>1, <4>2, <4>3
        <4>. QED  BY <3>1, <4>4
      <3>. QED  BY <3>2, <3>3
    <2>5. 0..n \subseteq T
      <3>. HIDE DEF T
      <3>. QED  BY <1>1, <2>3, <2>4, CountingTo
    <2>6. h[n] = g[n] /\ g[n] \in Seq(X)
      <3>1. n \in 0..n /\ n \in 1..n
        BY <1>1, <2>1
      <3>. QED  BY <1>4, <2>2, <2>5, <3>1
    <2>7. n + 1 \in 2..n + 1 /\ (n + 1) - 1 = n
      BY <1>1, <2>1
    <2>8. FlattenSeq(t) = FlattenSeq(s) \o x
      BY <1>1, <1>2, <2>2, <2>6, <2>7
    <2>. QED  BY <2>2, <2>6, <2>8 DEF t
  <1>. QED  BY <1>3, <1>4

\* The same for texts given by functions.
LEMMA FlattenGrows ==
    \A X : \A n \in Nat : \A f \in [1..n -> Seq(X)] : \A g \in [1..n + 1 -> Seq(X)] :
       (\A i \in 1..n : g[i] = f[i])
          => /\ FlattenSeq(f) \in Seq(X)
             /\ FlattenSeq(g) = FlattenSeq(f) \o g[n + 1]
  <1>. SUFFICES ASSUME NEW X, NEW n \in Nat, NEW f \in [1..n -> Seq(X)],
                       NEW g \in [1..n + 1 -> Seq(X)], \A i \in 1..n : g[i] = f[i]
                PROVE  /\ FlattenSeq(f) \in Seq(X)
                       /\ FlattenSeq(g) = FlattenSeq(f) \o g[n + 1]
    OBVIOUS
  <1>1. f \in Seq(Seq(X)) /\ Len(f) = n
    OBVIOUS
  <1>2. g \in Seq(Seq(X)) /\ Len(g) = n + 1
    OBVIOUS
  <1>3. g[n + 1] \in Seq(X)
    OBVIOUS
  <1>4. g = Append(f, g[n + 1])
    <2>. DEFINE x == g[n + 1]
                h == Append(f, x)
    <2>1. /\ h \in Seq(Seq(X)) /\ Len(h) = n + 1 /\ h[n + 1] = x
          /\ \A i \in 1..n : h[i] = f[i]
      BY <1>1, <1>3
    <2>. HIDE DEF h
    <2>2. \A i \in 1..n + 1 : h[i] = g[i]
      BY <2>1
    <2>3. h = g
      BY <1>2, <2>1, <2>2, SeqEqual
    <2>. QED  BY <2>3 DEF h
  <1>. QED  BY <1>1, <1>3, <1>4, FlattenAppend

\* The literals of a clause, as messages and as text.
LEMMA ClauseGrows ==
    ASSUME NEW c \in Seq(Int), NEW l \in Int
    PROVE  /\ Literals(c) \in Seq(Messages) /\ Len(Literals(c)) = Len(c)
           /\ Literals(Append(c, l)) = Append(Literals(c), Literal(l))
           /\ Numbers(c) \in Seq(Lexemes) /\ ClauseText(c) \in Seq(Lexemes)
           /\ Numbers(Append(c, l)) = Numbers(c) \o <<Num(l), SP>>
           /\ ClauseText(c) = Numbers(c) \o <<Num(0), NL>>
  <1>. DEFINE n == Len(c)
              d == Append(c, l)
              f == [i \in 1..n |-> <<Num(c[i]), SP>>]
              g == [i \in 1..Len(d) |-> <<Num(d[i]), SP>>]
  <1>1. /\ n \in Nat /\ Len(d) = n + 1 /\ d[n + 1] = l
        /\ \A i \in 1..n : d[i] = c[i] /\ c[i] \in Int
        /\ \A i \in 1..n + 1 : d[i] \in Int
    OBVIOUS
  <1>. HIDE DEF d
  <1>2. \A k \in Int : Literal(k) \in Messages
    BY MessageType
  <1>3. Literals(c) \in Seq(Messages) /\ Len(Literals(c)) = n
        /\ \A i \in 1..n : Literals(c)[i] = Literal(c[i])
    BY <1>1, <1>2 DEF Literals
  <1>4. Literals(d) \in Seq(Messages) /\ Len(Literals(d)) = n + 1
        /\ \A i \in 1..n + 1 : Literals(d)[i] = Literal(d[i])
    BY <1>1, <1>2 DEF Literals
  <1>5. Literals(d) = Append(Literals(c), Literal(l))
    <2>. DEFINE e == Append(Literals(c), Literal(l))
    <2>1. /\ e \in Seq(Messages) /\ Len(e) = n + 1 /\ e[n + 1] = Literal(l)
          /\ \A i \in 1..n : e[i] = Literal(c[i])
      BY <1>1, <1>2, <1>3
    <2>. HIDE DEF e
    <2>2. \A i \in 1..n + 1 : Literals(d)[i] = e[i]
      BY <1>1, <1>4, <2>1
    <2>3. Literals(d) = e
      BY <1>4, <2>1, <2>2, SeqEqual
    <2>. QED  BY <2>3 DEF e
  <1>6. \A k \in Int : <<Num(k), SP>> \in Seq(Lexemes)
    BY LexemeType
  <1>7. f \in [1..n -> Seq(Lexemes)] /\ \A i \in 1..n : f[i] = <<Num(c[i]), SP>>
    BY <1>1, <1>6
  <1>8. g \in [1..n + 1 -> Seq(Lexemes)]
        /\ \A i \in 1..n + 1 : g[i] = <<Num(d[i]), SP>>
    BY <1>1, <1>6
  <1>9. Numbers(c) = FlattenSeq(f) /\ Numbers(d) = FlattenSeq(g)
    BY DEF Numbers
  <1>. HIDE DEF n, f, g
  <1>10. /\ FlattenSeq(f) \in Seq(Lexemes)
         /\ FlattenSeq(g) = FlattenSeq(f) \o g[n + 1]
    <2>1. \A i \in 1..n : g[i] = f[i]
      <3>1. \A i \in 1..n : i \in 1..n + 1
        BY <1>1
      <3>. QED  BY <1>1, <1>7, <1>8, <3>1
    <2>2. /\ n \in Nat /\ f \in [1..n -> Seq(Lexemes)]
          /\ g \in [1..n + 1 -> Seq(Lexemes)]
      BY <1>1, <1>7, <1>8
    <2>. QED  BY <2>1, <2>2, FlattenGrows
  <1>11. g[n + 1] = <<Num(l), SP>>
    <2>1. n + 1 \in 1..n + 1
      BY <1>1
    <2>. QED  BY <1>1, <1>8, <2>1
  <1>12. ClauseText(c) = Numbers(c) \o <<Num(0), NL>>
    BY DEF ClauseText, Numbers
  <1>13. ClauseText(c) \in Seq(Lexemes)
    <2>1. <<Num(0), NL>> \in Seq(Lexemes)
      BY LexemeType
    <2>. QED  BY <1>9, <1>10, <1>12, <2>1, ConcatProperties
  <1>. QED
    BY <1>3, <1>5, <1>9, <1>10, <1>11, <1>12, <1>13 DEF d, n

\* The clauses, as messages and as text.
LEMMA MatrixGrows ==
    ASSUME NEW cs \in Seq(Seq(Int)), NEW c \in Seq(Int)
    PROVE  /\ MatrixMessages(cs) \in Seq(Messages)
           /\ MatrixMessages(Append(cs, c))
                = MatrixMessages(cs) \o Append(Literals(c), Literal(0))
           /\ MatrixText(cs) \in Seq(Lexemes)
           /\ MatrixText(Append(cs, c)) = MatrixText(cs) \o ClauseText(c)
  <1>. DEFINE n == Len(cs)
              ds == Append(cs, c)
              Sent(x) == Append(Literals(x), Literal(0))
              f == [i \in 1..n |-> Sent(cs[i])]
              g == [i \in 1..Len(ds) |-> Sent(ds[i])]
              p == [i \in 1..n |-> ClauseText(cs[i])]
              q == [i \in 1..Len(ds) |-> ClauseText(ds[i])]
  <1>1. /\ n \in Nat /\ Len(ds) = n + 1 /\ ds[n + 1] = c
        /\ \A i \in 1..n : ds[i] = cs[i] /\ cs[i] \in Seq(Int)
        /\ \A i \in 1..n + 1 : ds[i] \in Seq(Int)
    OBVIOUS
  <1>. HIDE DEF ds
  <1>2. ASSUME NEW x \in Seq(Int)
        PROVE  Sent(x) \in Seq(Messages) /\ ClauseText(x) \in Seq(Lexemes)
    <2>1. 0 \in Int /\ Literal(0) \in Messages
      BY MessageType
    <2>. QED  BY <2>1, ClauseGrows, AppendProperties
  <1>. HIDE DEF Sent
  <1>3. f \in [1..n -> Seq(Messages)] /\ \A i \in 1..n : f[i] = Sent(cs[i])
    BY <1>1, <1>2
  <1>4. g \in [1..n + 1 -> Seq(Messages)] /\ \A i \in 1..n + 1 : g[i] = Sent(ds[i])
    BY <1>1, <1>2
  <1>5. p \in [1..n -> Seq(Lexemes)] /\ \A i \in 1..n : p[i] = ClauseText(cs[i])
    BY <1>1, <1>2
  <1>6. q \in [1..n + 1 -> Seq(Lexemes)] /\ \A i \in 1..n + 1 : q[i] = ClauseText(ds[i])
    BY <1>1, <1>2
  <1>7. MatrixMessages(cs) = FlattenSeq(f) /\ MatrixMessages(ds) = FlattenSeq(g)
    BY DEF MatrixMessages, Sent
  <1>8. MatrixText(cs) = FlattenSeq(p) /\ MatrixText(ds) = FlattenSeq(q)
    BY DEF MatrixText
  <1>. HIDE DEF n, f, g, p, q
  <1>9. n + 1 \in 1..n + 1 /\ \A i \in 1..n : i \in 1..n + 1
    BY <1>1
  <1>10. /\ FlattenSeq(f) \in Seq(Messages)
         /\ FlattenSeq(g) = FlattenSeq(f) \o g[n + 1]
    <2>1. \A i \in 1..n : g[i] = f[i]
      BY <1>1, <1>3, <1>4, <1>9
    <2>2. /\ n \in Nat /\ f \in [1..n -> Seq(Messages)]
          /\ g \in [1..n + 1 -> Seq(Messages)]
      BY <1>1, <1>3, <1>4
    <2>. QED  BY <2>1, <2>2, FlattenGrows
  <1>11. /\ FlattenSeq(p) \in Seq(Lexemes)
         /\ FlattenSeq(q) = FlattenSeq(p) \o q[n + 1]
    <2>1. \A i \in 1..n : q[i] = p[i]
      BY <1>1, <1>5, <1>6, <1>9
    <2>2. /\ n \in Nat /\ p \in [1..n -> Seq(Lexemes)]
          /\ q \in [1..n + 1 -> Seq(Lexemes)]
      BY <1>1, <1>5, <1>6
    <2>. QED  BY <2>1, <2>2, FlattenGrows
  <1>12. g[n + 1] = Append(Literals(c), Literal(0)) /\ q[n + 1] = ClauseText(c)
    BY <1>1, <1>4, <1>6, <1>9 DEF Sent
  <1>. QED  BY <1>7, <1>8, <1>10, <1>11, <1>12 DEF ds

\* Nothing says nothing.
LEMMA NothingSaid ==
    /\ Literals(<<>>) = <<>> /\ Numbers(<<>>) = <<>>
    /\ MatrixMessages(<<>>) = <<>> /\ MatrixText(<<>>) = <<>>
    /\ Rendered(<<>>) = <<>> /\ \A t : Filling(0, t) = <<>>
  <1>1. \A e : Len(<<>>) = 0 /\ [i \in 1..0 |-> e] = <<>>
    OBVIOUS
  <1>2. \A f : DOMAIN f = 1..0 /\ f = [i \in DOMAIN f |-> f[i]] => f = <<>>
    OBVIOUS
  <1>. QED
    BY <1>1, <1>2, FlattenEmpty
    DEF Literals, Numbers, MatrixMessages, MatrixText, Rendered, Filling

\* Text is text.
LEMMA SaysType ==
    \A p, m \in Messages : Says(p, m) \in Seq(Lexemes)
  <1>. SUFFICES ASSUME NEW p \in Messages, NEW m \in Messages
                PROVE  Says(p, m) \in Seq(Lexemes)
    OBVIOUS
  <1>1. m.data \in Int /\ -m.data \in Int /\ Abs(m.data) \in Int
    BY DEF Messages, Abs
  <1>2. Closing \in Seq(Lexemes) /\ Opened(m.data) \in Seq(Lexemes)
        /\ <<Num(m.data)>> \in Seq(Lexemes)
    BY <1>1, LexemeType DEF Closing, Opened
  <1>3. <<SP, Num(Abs(m.data))>> \in Seq(Lexemes)
        /\ <<SP, Num(m.data)>> \in Seq(Lexemes) /\ <<>> \in Seq(Lexemes)
    BY <1>1, LexemeType
  <1>4. /\ Closing \o Opened(m.data) \in Seq(Lexemes)
        /\ Closing \o <<Num(m.data)>> \in Seq(Lexemes)
    BY <1>2, ConcatProperties
  <1>. QED  BY <1>2, <1>3, <1>4, Zenon DEF Says

\* One more message.
LEMMA RenderedGrows ==
    ASSUME NEW s \in Seq(Messages), NEW m \in Messages
    PROVE  /\ Rendered(s) \in Seq(Lexemes) /\ Before(s) \in Messages
           /\ Rendered(Append(s, m)) = Rendered(s) \o Says(Before(s), m)
           /\ Before(Append(s, m)) = m
  <1>. DEFINE n == Len(s)
              t == Append(s, m)
              Prior(x, i) == IF i = 1 THEN Header ELSE x[i - 1]
              f == [i \in 1..n |-> Says(Prior(s, i), s[i])]
              g == [i \in 1..Len(t) |-> Says(Prior(t, i), t[i])]
  <1>1. /\ n \in Nat /\ t \in Seq(Messages) /\ Len(t) = n + 1 /\ t[n + 1] = m
        /\ \A i \in 1..n : t[i] = s[i] /\ s[i] \in Messages
        /\ \A i \in 1..n + 1 : t[i] \in Messages
    OBVIOUS
  <1>2. \A i \in 1..n : i - 1 \in 1..n \/ i = 1
    BY <1>1
  <1>3. \A i \in 1..n + 1 : i - 1 \in 1..n \/ i = 1
    BY <1>1
  <1>. HIDE DEF t
  <1>4. Header \in Messages
    BY MessageType
  <1>5. \A i \in 1..n : Prior(s, i) \in Messages
    BY <1>1, <1>2, <1>4
  <1>6. \A i \in 1..n + 1 : Prior(t, i) \in Messages
    BY <1>1, <1>3, <1>4
  <1>7. \A i \in 1..n : Prior(t, i) = Prior(s, i)
    BY <1>1, <1>2
  <1>8. Prior(t, n + 1) = Before(s)
    <2>1. CASE s = <<>>
      <3>1. n + 1 = 1
        BY <2>1
      <3>. QED  BY <2>1, <3>1 DEF Before
    <2>2. CASE s # <<>>
      <3>1. n + 1 # 1 /\ (n + 1) - 1 = n /\ n \in 1..n
        BY <1>1, <2>2, EmptySeq
      <3>. QED  BY <1>1, <2>2, <3>1 DEF Before
    <2>. QED  BY <2>1, <2>2
  <1>. HIDE DEF Prior
  <1>9. f \in [1..n -> Seq(Lexemes)] /\ \A i \in 1..n : f[i] = Says(Prior(s, i), s[i])
    BY <1>1, <1>5, SaysType
  <1>10. /\ g \in [1..n + 1 -> Seq(Lexemes)]
         /\ \A i \in 1..n + 1 : g[i] = Says(Prior(t, i), t[i])
    BY <1>1, <1>6, SaysType
  <1>11. Rendered(s) = FlattenSeq(f) /\ Rendered(t) = FlattenSeq(g)
    BY DEF Rendered, Prior
  <1>. HIDE DEF f, g, n
  <1>12. n + 1 \in 1..n + 1 /\ \A i \in 1..n : i \in 1..n + 1
    BY <1>1
  <1>13. \A i \in 1..n : g[i] = f[i]
    BY <1>1, <1>7, <1>9, <1>10, <1>12
  <1>14. /\ FlattenSeq(f) \in Seq(Lexemes)
         /\ FlattenSeq(g) = FlattenSeq(f) \o g[n + 1]
    BY <1>1, <1>9, <1>10, <1>13, FlattenGrows
  <1>15. g[n + 1] = Says(Before(s), m)
    BY <1>1, <1>8, <1>10, <1>12
  <1>16. Before(t) = m /\ Before(s) \in Messages
    <2>1. t # <<>>
      BY <1>1
    <2>2. s = <<>> \/ n \in 1..n
      BY <1>1, EmptySeq DEF n
    <2>. QED  BY <1>1, <1>4, <2>1, <2>2 DEF Before, n
  <1>. QED  BY <1>11, <1>14, <1>15, <1>16 DEF t

\* One more filler.
LEMMA FillingGrows ==
    ASSUME NEW k \in Nat, NEW t \in Seq(Lexemes)
    PROVE  /\ Filling(k, t) \in Seq(Lexemes)
           /\ Filling(k + 1, t) = Filling(k, t) \o t
  <1>. DEFINE f == [i \in 1..k |-> t]
              g == [i \in 1..k + 1 |-> t]
  <1>1. /\ f \in [1..k -> Seq(Lexemes)] /\ g \in [1..k + 1 -> Seq(Lexemes)]
        /\ g[k + 1] = t /\ \A i \in 1..k : g[i] = f[i]
    OBVIOUS
  <1>2. Filling(k, t) = FlattenSeq(f) /\ Filling(k + 1, t) = FlattenSeq(g)
    BY DEF Filling
  <1>. HIDE DEF f, g
  <1>. QED  BY <1>1, <1>2, FlattenGrows
-----------------------------------------------------------------------------
(***************************************************************************)
(* A formula that grows by a literal, or by the end of a clause.           *)
(***************************************************************************)
LEMMA Joined ==
    \A X : \A a, b \in Seq(X) :
       /\ a \o b \in Seq(X) /\ Len(a \o b) = Len(a) + Len(b)
       /\ Len(a) \in Nat /\ Len(b) \in Nat
       /\ \A i \in 1..Len(a) + Len(b) :
             (a \o b)[i] = IF i <= Len(a) THEN a[i] ELSE b[i - Len(a)]
  BY ConcatProperties, LenProperties

LEMMA ConcatText ==
    \A a, b, c \in Seq(Lexemes) : (a \o b) \o c = a \o (b \o c)
  BY ConcatAssociative

LEMMA ConcatAppend ==
    \A a, b \in Seq(Messages) : \A m \in Messages :
       a \o Append(b, m) = Append(a \o b, m)
  <1>. SUFFICES ASSUME NEW a \in Seq(Messages), NEW b \in Seq(Messages), NEW m \in Messages
                PROVE  a \o Append(b, m) = Append(a \o b, m)
    OBVIOUS
  <1>1. a \o b \in Seq(Messages) /\ <<m>> \in Seq(Messages)
    BY ConcatProperties
  <1>2. Append(b, m) = b \o <<m>> /\ Append(a \o b, m) = (a \o b) \o <<m>>
    BY <1>1, AppendIsConcat
  <1>3. (a \o b) \o <<m>> = a \o (b \o <<m>>)
    BY <1>1, ConcatMessages
  <1>. QED  BY <1>2, <1>3

\* Lexemes side by side.
LEMMA Side ==
    \A a, b, c \in Lexemes :
       /\ <<a, b>> \o <<c>> = <<a>> \o <<b, c>>
       /\ <<a>> \o <<b>> = <<a, b>> /\ <<a, b, c>> = <<a>> \o <<b, c>>
  <1>. SUFFICES ASSUME NEW a \in Lexemes, NEW b \in Lexemes, NEW c \in Lexemes
                PROVE  /\ <<a, b>> \o <<c>> = <<a>> \o <<b, c>>
                       /\ <<a>> \o <<b>> = <<a, b>> /\ <<a, b, c>> = <<a>> \o <<b, c>>
    OBVIOUS
  <1>. DEFINE x == <<a, b>>
              y == <<c>>
              u == <<a>>
              v == <<b, c>>
              w == <<b>>
              all == <<a, b, c>>
  <1>1. /\ x \in Seq(Lexemes) /\ Len(x) = 2 /\ x[1] = a /\ x[2] = b
        /\ y \in Seq(Lexemes) /\ Len(y) = 1 /\ y[1] = c
        /\ u \in Seq(Lexemes) /\ Len(u) = 1 /\ u[1] = a
        /\ v \in Seq(Lexemes) /\ Len(v) = 2 /\ v[1] = b /\ v[2] = c
        /\ w \in Seq(Lexemes) /\ Len(w) = 1 /\ w[1] = b
        /\ all \in Seq(Lexemes) /\ Len(all) = 3
        /\ all[1] = a /\ all[2] = b /\ all[3] = c
    OBVIOUS
  <1>. HIDE DEF x, y, u, v, w, all
  <1>2. x \o y = all
    <2>1. /\ x \o y \in Seq(Lexemes) /\ Len(x \o y) = 3
          /\ \A i \in 1..3 : (x \o y)[i] = IF i <= 2 THEN x[i] ELSE y[i - 2]
      <3>1. /\ x \o y \in Seq(Lexemes) /\ Len(x \o y) = Len(x) + Len(y)
            /\ \A i \in 1..Len(x) + Len(y) :
                  (x \o y)[i] = IF i <= Len(x) THEN x[i] ELSE y[i - Len(x)]
        BY <1>1, Joined, Zenon
      <3>. QED  BY <1>1, <3>1
    <2>2. \A i \in 1..3 : (x \o y)[i] = all[i]
      BY <1>1, <2>1
    <2>. QED  BY <1>1, <2>1, <2>2, SeqEqual
  <1>3. u \o v = all
    <2>1. /\ u \o v \in Seq(Lexemes) /\ Len(u \o v) = 3
          /\ \A i \in 1..3 : (u \o v)[i] = IF i <= 1 THEN u[i] ELSE v[i - 1]
      <3>1. /\ u \o v \in Seq(Lexemes) /\ Len(u \o v) = Len(u) + Len(v)
            /\ \A i \in 1..Len(u) + Len(v) :
                  (u \o v)[i] = IF i <= Len(u) THEN u[i] ELSE v[i - Len(u)]
        BY <1>1, Joined, Zenon
      <3>. QED  BY <1>1, <3>1
    <2>2. \A i \in 1..3 : (u \o v)[i] = all[i]
      BY <1>1, <2>1
    <2>. QED  BY <1>1, <2>1, <2>2, SeqEqual, SMTT(20)
  <1>4. u \o w = x
    <2>1. /\ u \o w \in Seq(Lexemes) /\ Len(u \o w) = 2
          /\ \A i \in 1..2 : (u \o w)[i] = IF i <= 1 THEN u[i] ELSE w[i - 1]
      <3>1. /\ u \o w \in Seq(Lexemes) /\ Len(u \o w) = Len(u) + Len(w)
            /\ \A i \in 1..Len(u) + Len(w) :
                  (u \o w)[i] = IF i <= Len(u) THEN u[i] ELSE w[i - Len(u)]
        BY <1>1, Joined, Zenon
      <3>. QED  BY <1>1, <3>1
    <2>2. \A i \in 1..2 : (u \o w)[i] = x[i]
      BY <1>1, <2>1
    <2>. QED  BY <1>1, <2>1, <2>2, SeqEqual
  <1>. QED  BY <1>2, <1>3, <1>4 DEF x, y, u, v, w, all

LEMMA Fourth ==
    ASSUME NEW a \in Lexemes, NEW b \in Lexemes, NEW c \in Lexemes, NEW d \in Lexemes
    PROVE  <<a, b, c>> \o <<d>> = <<a, b, c, d>>
  <1>. DEFINE x == <<a, b, c>>
              y == <<d>>
              all == <<a, b, c, d>>
  <1>1. /\ x \in Seq(Lexemes) /\ Len(x) = 3 /\ x[1] = a /\ x[2] = b /\ x[3] = c
        /\ y \in Seq(Lexemes) /\ Len(y) = 1 /\ y[1] = d
        /\ all \in Seq(Lexemes) /\ Len(all) = 4
        /\ all[1] = a /\ all[2] = b /\ all[3] = c /\ all[4] = d
    OBVIOUS
  <1>. HIDE DEF x, y, all
  <1>2. /\ x \o y \in Seq(Lexemes) /\ Len(x \o y) = Len(x) + Len(y)
        /\ \A i \in 1..Len(x) + Len(y) :
              (x \o y)[i] = IF i <= Len(x) THEN x[i] ELSE y[i - Len(x)]
    BY <1>1, Joined, Zenon
  <1>3. \A i \in 1..4 : (x \o y)[i] = all[i]
    BY <1>1, <1>2
  <1>4. x \o y = all
    BY <1>1, <1>2, <1>3, SeqEqual
  <1>. QED  BY <1>4 DEF x, y, all

LEMMA SendsType ==
    ASSUME NEW p \in Seq(Messages), NEW cs \in Seq(Seq(Int)), NEW o \in Seq(Int)
    PROVE  /\ Sends(p, cs, o) \in Seq(Messages)
           /\ p \o MatrixMessages(cs) \in Seq(Messages)
           /\ MatrixMessages(cs) \in Seq(Messages) /\ Literals(o) \in Seq(Messages)
           /\ MatrixText(cs) \in Seq(Lexemes) /\ Numbers(o) \in Seq(Lexemes)
  <1>1. <<>> \in Seq(Int) /\ 0 \in Int
    OBVIOUS
  <1>2. MatrixMessages(cs) \in Seq(Messages) /\ MatrixText(cs) \in Seq(Lexemes)
    BY <1>1, MatrixGrows
  <1>3. Literals(o) \in Seq(Messages) /\ Numbers(o) \in Seq(Lexemes)
    BY <1>1, ClauseGrows
  <1>. QED  BY <1>2, <1>3, ConcatProperties DEF Sends

LEMMA ClosedType ==
    ASSUME NEW p \in Seq(Messages), NEW block \in BOOLEAN
    PROVE  Closed(p, block) \in Seq(Lexemes)
  <1>1. Rendered(p) \in Seq(Lexemes)
    BY MessageType, RenderedGrows
  <1>2. Closing \in Seq(Lexemes) /\ <<>> \in Seq(Lexemes)
    BY LexemeType DEF Closing
  <1>. QED  BY <1>1, <1>2, ConcatProperties DEF Closed

\* Another literal of the open clause.
LEMMA OneLiteral ==
    ASSUME NEW p \in Seq(Messages), NEW cs \in Seq(Seq(Int)), NEW o \in Seq(Int),
           NEW block \in BOOLEAN, NEW l \in Int, l # 0,
           block <=> Before(p).type = "QUANTIFIER" /\ Before(p).data # 0,
           Before(p).type # "LITERAL", Told(p, block, cs, o)
    PROVE  /\ Sends(p, cs, Append(o, l)) = Append(Sends(p, cs, o), Literal(l))
           /\ Told(p, block, cs, Append(o, l))
  <1>. DEFINE s == Sends(p, cs, o)
              m == Literal(l)
              d == Append(o, l)
              Q == Closed(p, block) \o MatrixText(cs)
  <1>1. /\ s \in Seq(Messages) /\ m \in Messages /\ m.type = "LITERAL" /\ m.data = l
        /\ m # Literal(0)
    BY SendsType, MessageType DEF Literal, Msg
  <1>2. d \in Seq(Int) /\ d # <<>> /\ d[Len(d)] = l
    <2>. HIDE DEF d
    <2>1. d \in Seq(Int) /\ d # <<>> /\ Len(d) = Len(o) + 1 /\ d[Len(o) + 1] = l
      BY AppendProperties DEF d
    <2>. QED  BY <2>1
  <1>3. Sends(p, cs, d) = Append(s, m)
    <2>1. Literals(d) = Append(Literals(o), m)
      BY ClauseGrows
    <2>. HIDE DEF d, m
    <2>. QED  BY <1>1, <2>1, SendsType, ConcatAppend, SMTT(20) DEF Sends
  <1>4. /\ o # <<>> => Before(s).type = "LITERAL" /\ Before(s).data # 0
        /\ o = <<>> /\ cs # <<>> => Before(s) = Literal(0)
        /\ o = <<>> /\ cs = <<>> => s = p
    <2>1. CASE o # <<>>
      <3>. DEFINE b == p \o MatrixMessages(cs)
                  a == Literals(o)
                  k == Len(o)
      <3>1. /\ a \in Seq(Messages) /\ b \in Seq(Messages) /\ Len(a) = k /\ k \in Nat
            /\ k >= 1 /\ a[k] = Literal(o[k]) /\ o[k] # 0
        <4>1. a \in Seq(Messages) /\ b \in Seq(Messages)
          BY SendsType
        <4>2. k \in Nat /\ k >= 1
          BY <2>1, EmptySeq
        <4>3. Len(a) = k /\ a[k] = Literal(o[k])
          BY <4>2 DEF Literals
        <4>4. o[k] # 0
          BY <2>1 DEF Told
        <4>. QED  BY <4>1, <4>2, <4>3, <4>4
      <3>. HIDE DEF a, b, k
      <3>2. s = b \o a
        BY DEF Sends, a, b
      <3>3. s[Len(s)] = a[k] /\ s # <<>>
        <4>. HIDE DEF s
        <4>1. Len(s) = Len(b) + k /\ Len(b) \in Nat
          <5>1. Len(b \o a) = Len(b) + Len(a) /\ Len(b) \in Nat
            <6>1. a \in Seq(Messages) /\ b \in Seq(Messages)
              BY <3>1
            <6>. QED  BY <6>1, Joined
          <5>. QED  BY <3>1, <3>2, <5>1
        <4>2. Len(b) + k \in 1..Len(b) + Len(a) /\ ~(Len(b) + k <= Len(b))
              /\ (Len(b) + k) - Len(b) = k
          BY <3>1, <4>1
        <4>3. s[Len(b) + k] = a[k]
          BY <3>1, <3>2, <4>2, ConcatProperties
        <4>. QED  BY <1>1, <3>1, <4>1, <4>3, EmptySeq
      <3>. QED  BY <2>1, <3>1, <3>3 DEF Before, Literal, Msg
    <2>2. CASE o = <<>> /\ cs = <<>>
      <3>1. s = (p \o <<>>) \o <<>>
        BY <2>2, NothingSaid DEF Sends
      <3>. QED  BY <2>2, <3>1, ConcatEmptySeq
    <2>3. CASE o = <<>> /\ cs # <<>>
      BY <2>3 DEF Told
    <2>. QED  BY <2>1, <2>2, <2>3
  <1>5. Says(Before(s), m) \o <<SP>> = Lacks(block, cs, o) \o <<Num(l), SP>>
    <2>1. SP \in Lexemes /\ Num(l) \in Lexemes /\ <<Num(l), SP>> \in Seq(Lexemes)
          /\ <<Num(l)>> \in Seq(Lexemes) /\ <<SP>> \in Seq(Lexemes)
          /\ Closing \in Seq(Lexemes)
      BY LexemeType DEF Closing
    <2>2. CASE o # <<>>
      <3>1. Says(Before(s), m) = <<SP, Num(l)>>
        BY <1>1, <1>4, <2>2 DEF Says
      <3>. QED  BY <2>1, <2>2, <3>1, Side DEF Lacks
    <2>3. CASE o = <<>> /\ ~(cs = <<>> /\ block)
      <3>1. /\ ~(Before(s).type = "QUANTIFIER" /\ Before(s).data # 0)
            /\ ~(Before(s).type = "LITERAL" /\ Before(s).data # 0)
        <4>1. CASE cs # <<>>
          <5>1. Before(s) = Literal(0)
            BY <1>4, <2>3, <4>1
          <5>. HIDE DEF s
          <5>. QED  BY <5>1 DEF Literal, Msg
        <4>2. CASE cs = <<>>
          <5>1. s = p /\ ~block
            BY <1>4, <2>3, <4>2
          <5>. HIDE DEF s
          <5>. QED  BY <5>1
        <4>. QED  BY <4>1, <4>2
      <3>3. Says(Before(s), m) = <<Num(l)>>
        <4>. HIDE DEF s, m
        <4>. QED  BY <1>1, <3>1 DEF Says
      <3>2. <<Num(l)>> \o <<SP>> = <<Num(l), SP>>
        BY <2>1, Side
      <3>. QED  BY <2>1, <2>3, <3>2, <3>3, ConcatEmptySeq DEF Lacks
    <2>4. CASE o = <<>> /\ cs = <<>> /\ block
      <3>1. Says(Before(s), m) = Closing \o <<Num(l)>>
        BY <1>1, <1>4, <2>4 DEF Says
      <3>2. <<Num(l)>> \o <<SP>> = <<Num(l), SP>>
        BY <2>1, Side
      <3>. QED  BY <2>1, <2>4, <3>1, <3>2, ConcatText DEF Lacks
    <2>. QED  BY <2>2, <2>3, <2>4
  <1>6. /\ Rendered(s) \in Seq(Lexemes) /\ Says(Before(s), m) \in Seq(Lexemes)
        /\ Rendered(Append(s, m)) = Rendered(s) \o Says(Before(s), m)
    BY <1>1, RenderedGrows, SaysType
  <1>7. /\ Q \in Seq(Lexemes) /\ Numbers(o) \in Seq(Lexemes)
        /\ Numbers(d) = Numbers(o) \o <<Num(l), SP>>
        /\ Rendered(s) \o Lacks(block, cs, o) = Q \o Numbers(o)
    <2>1. Q \in Seq(Lexemes)
      BY ClosedType, SendsType, ConcatProperties
    <2>2. Numbers(o) \in Seq(Lexemes) /\ Numbers(d) = Numbers(o) \o <<Num(l), SP>>
      BY ClauseGrows
    <2>. QED  BY <2>1, <2>2 DEF Told
  <1>8. /\ Lacks(block, cs, o) \in Seq(Lexemes) /\ <<Num(l), SP>> \in Seq(Lexemes)
        /\ <<SP>> \in Seq(Lexemes)
    BY LexemeType DEF Lacks, Closing
  <1>9. Lacks(block, cs, d) = <<SP>>
    BY <1>2 DEF Lacks
  <1>. HIDE DEF s, m, d, Q
  <1>10. Rendered(Append(s, m)) \o <<SP>> = Q \o Numbers(d)
    <2>. DEFINE a == Rendered(s)
                b == Says(Before(s), m)
                e == Lacks(block, cs, o)
                f == <<Num(l), SP>>
    <2>1. /\ a \in Seq(Lexemes) /\ b \in Seq(Lexemes) /\ e \in Seq(Lexemes)
          /\ f \in Seq(Lexemes) /\ b \o <<SP>> = e \o f /\ a \o e = Q \o Numbers(o)
      BY <1>5, <1>6, <1>7, <1>8
    <2>2. Rendered(Append(s, m)) = a \o b /\ Numbers(d) = Numbers(o) \o f
      BY <1>6, <1>7
    <2>. HIDE DEF a, b, e, f
    <2>3. (a \o b) \o <<SP>> = a \o (b \o <<SP>>)
      <3>1. a \in Seq(Lexemes) /\ b \in Seq(Lexemes) /\ <<SP>> \in Seq(Lexemes)
        BY <1>8, <2>1
      <3>. QED  BY <3>1, ConcatText, Zenon
    <2>4. (a \o e) \o f = a \o (e \o f)
      BY <2>1, ConcatText, Zenon
    <2>5. (Q \o Numbers(o)) \o f = Q \o (Numbers(o) \o f)
      <3>1. Q \in Seq(Lexemes) /\ Numbers(o) \in Seq(Lexemes) /\ f \in Seq(Lexemes)
        BY <1>7, <2>1
      <3>. QED  BY <3>1, ConcatText, Zenon
    <2>. QED  BY <2>1, <2>2, <2>3, <2>4, <2>5
  <1>11. ClauseEnds(Append(s, m)) = Len(cs)
    <2>1. ClauseEnds(s) = Len(cs) /\ Len(cs) \in Nat
      BY DEF Told, s
    <2>. QED  BY <1>1, <2>1, EndsAppend
  <1>12. Sends(p, cs, d) = Append(s, m) /\ d # <<>> /\ d[Len(d)] # 0
    BY <1>2, <1>3
  <1>13. Told(p, block, cs, d)
    BY <1>9, <1>10, <1>11, <1>12 DEF Told, Q
  <1>. QED  BY <1>12, <1>13 DEF s, m, d

\* The zero behind them.
LEMMA OneClause ==
    ASSUME NEW p \in Seq(Messages), NEW cs \in Seq(Seq(Int)), NEW o \in Seq(Int),
           NEW block \in BOOLEAN, o # <<>>, Told(p, block, cs, o)
    PROVE  /\ Sends(p, Append(cs, o), <<>>) = Append(Sends(p, cs, o), Literal(0))
           /\ Told(p, block, Append(cs, o), <<>>)
  <1>. DEFINE s == Sends(p, cs, o)
              m == Literal(0)
              ds == Append(cs, o)
              P == Closed(p, block)
              z == <<Num(0), NL>>
  <1>1. s \in Seq(Messages) /\ m \in Messages /\ m.type = "LITERAL" /\ m.data = 0
    BY SendsType, MessageType DEF Literal, Msg
  <1>2. ds \in Seq(Seq(Int)) /\ ds # <<>> /\ Len(ds) = Len(cs) + 1
    OBVIOUS
  <1>3. Sends(p, ds, <<>>) = Append(s, m)
    <2>1. MatrixMessages(ds) = MatrixMessages(cs) \o Append(Literals(o), m)
      BY MatrixGrows
    <2>2. /\ MatrixMessages(cs) \in Seq(Messages) /\ Literals(o) \in Seq(Messages)
          /\ p \o MatrixMessages(cs) \in Seq(Messages)
      BY SendsType
    <2>. DEFINE b == MatrixMessages(cs)
                a == Literals(o)
    <2>3. Append(a, m) \in Seq(Messages)
      BY <1>1, <2>2
    <2>4. Sends(p, ds, <<>>) = (p \o (b \o Append(a, m))) \o <<>>
      BY <2>1, NothingSaid DEF Sends
    <2>5. s = (p \o b) \o a
      BY DEF Sends
    <2>. HIDE DEF a, b, m, s
    <2>6. p \o (b \o Append(a, m)) = (p \o b) \o Append(a, m)
      BY <2>2, <2>3, ConcatMessages DEF a, b
    <2>7. (p \o b) \o Append(a, m) = Append((p \o b) \o a, m)
      BY <1>1, <2>2, ConcatAppend DEF a, b
    <2>8. Append(s, m) \in Seq(Messages)
      BY <1>1, AppendProperties
    <2>. QED  BY <2>4, <2>5, <2>6, <2>7, <2>8, ConcatEmptySeq
  <1>4. Before(s).type = "LITERAL" /\ Before(s).data # 0
    <2>. DEFINE b == p \o MatrixMessages(cs)
                a == Literals(o)
                k == Len(o)
    <2>1. a \in Seq(Messages) /\ b \in Seq(Messages)
      BY SendsType
    <2>2. k \in Nat /\ k >= 1
      BY EmptySeq
    <2>3. Len(a) = k /\ a[k] = Literal(o[k]) /\ o[k] # 0
      BY <2>2 DEF Literals, Told
    <2>4. s = b \o a
      BY DEF Sends
    <2>. HIDE DEF a, b, k
    <2>5. Len(s) = Len(b) + k /\ Len(b) \in Nat
      BY <2>1, <2>3, <2>4, ConcatProperties, LenProperties
    <2>6. Len(b) + k \in 1..Len(b) + Len(a) /\ ~(Len(b) + k <= Len(b))
          /\ (Len(b) + k) - Len(b) = k
      BY <2>2, <2>3, <2>5
    <2>7. s[Len(b) + k] = a[k]
      BY <2>1, <2>4, <2>6, ConcatProperties
    <2>. HIDE DEF s
    <2>8. Before(s) = a[k]
      BY <1>1, <2>2, <2>5, <2>7, EmptySeq DEF Before
    <2>. QED  BY <2>3, <2>8 DEF Literal, Msg
  <1>5. Says(Before(s), m) = <<SP>> \o z
    <2>1. Says(Before(s), m) = Closing
      BY <1>1, <1>4 DEF Says
    <2>2. SP \in Lexemes /\ Num(0) \in Lexemes /\ NL \in Lexemes
      BY LexemeType
    <2>. QED  BY <2>1, <2>2, Side, Zenon DEF Closing
  <1>6. /\ Rendered(s) \in Seq(Lexemes) /\ Before(Append(s, m)) = m
        /\ Rendered(Append(s, m)) = Rendered(s) \o (<<SP>> \o z)
    BY <1>1, <1>5, RenderedGrows
  <1>7. /\ P \in Seq(Lexemes) /\ MatrixText(cs) \in Seq(Lexemes)
        /\ Numbers(o) \in Seq(Lexemes) /\ P \o MatrixText(cs) \in Seq(Lexemes)
        /\ MatrixText(ds) = MatrixText(cs) \o (Numbers(o) \o z)
        /\ Rendered(s) \o <<SP>> = (P \o MatrixText(cs)) \o Numbers(o)
    <2>1. P \in Seq(Lexemes) /\ MatrixText(cs) \in Seq(Lexemes)
          /\ Numbers(o) \in Seq(Lexemes)
      BY ClosedType, SendsType
    <2>2. ClauseText(o) = Numbers(o) \o z
      <3>1. 0 \in Int
        OBVIOUS
      <3>. QED  BY <3>1, ClauseGrows
    <2>3. MatrixText(ds) = MatrixText(cs) \o ClauseText(o)
      BY MatrixGrows
    <2>4. Rendered(s) \o <<SP>> = (P \o MatrixText(cs)) \o Numbers(o)
      BY DEF Told, Lacks
    <2>. HIDE DEF P, z, ds, s
    <2>. QED  BY <2>1, <2>2, <2>3, <2>4, ConcatProperties
  <1>8. z \in Seq(Lexemes) /\ <<SP>> \in Seq(Lexemes)
    BY LexemeType
  <1>9. Lacks(block, ds, <<>>) = <<>>
    BY <1>2 DEF Lacks
  <1>10. Numbers(<<>>) = <<>>
    BY NothingSaid
  <1>. HIDE DEF s, m, ds, P, z
  <1>11. Rendered(Append(s, m)) \o <<>> = (P \o MatrixText(ds)) \o <<>>
    <2>. DEFINE a == Rendered(s)
                b == MatrixText(cs)
                e == Numbers(o)
    <2>1. a \in Seq(Lexemes) /\ b \in Seq(Lexemes) /\ e \in Seq(Lexemes)
          /\ a \o <<SP>> = (P \o b) \o e
      BY <1>6, <1>7
    <2>2. Rendered(Append(s, m)) = a \o (<<SP>> \o z) /\ MatrixText(ds) = b \o (e \o z)
      BY <1>6, <1>7
    <2>3. P \o b \in Seq(Lexemes) /\ e \o z \in Seq(Lexemes)
      BY <1>7, <1>8, <2>1, ConcatProperties
    <2>. HIDE DEF a, b, e
    <2>4. a \o (<<SP>> \o z) = (a \o <<SP>>) \o z
      <3>1. a \in Seq(Lexemes) /\ <<SP>> \in Seq(Lexemes) /\ z \in Seq(Lexemes)
        BY <1>8, <2>1
      <3>. QED  BY <3>1, ConcatText, ZenonT(30)
    <2>5. ((P \o b) \o e) \o z = (P \o b) \o (e \o z)
      <3>1. P \o b \in Seq(Lexemes) /\ e \in Seq(Lexemes) /\ z \in Seq(Lexemes)
        BY <1>8, <2>1, <2>3
      <3>. QED  BY <3>1, ConcatText, Zenon
    <2>6. (P \o b) \o (e \o z) = P \o (b \o (e \o z))
      <3>1. P \in Seq(Lexemes) /\ b \in Seq(Lexemes) /\ e \o z \in Seq(Lexemes)
        BY <1>7, <2>1, <2>3
      <3>. QED  BY <3>1, ConcatText, Zenon
    <2>. QED  BY <2>1, <2>2, <2>4, <2>5, <2>6
  <1>12. ClauseEnds(Append(s, m)) = Len(ds)
    <2>1. ClauseEnds(s) = Len(cs) /\ Len(cs) \in Nat
      BY DEF Told, s
    <2>. QED  BY <1>1, <1>2, <2>1, EndsAppend DEF m
  <1>13. Told(p, block, ds, <<>>)
    BY <1>3, <1>6, <1>9, <1>10, <1>11, <1>12 DEF Told, P, m
  <1>. QED  BY <1>3, <1>13 DEF s, m, ds

-----------------------------------------------------------------------------
(***************************************************************************)
(* The formula and the way it has come.                                    *)
(***************************************************************************)
\* The prefix as it is sent: quantifiers, with zeros where the client put them.
PrefixIsSent ==
    /\ PrefixMessages \in Seq(Messages) /\ Len(PrefixMessages) = Len(prefix)
    /\ ClauseEnds(PrefixMessages) = 0
    /\ Before(PrefixMessages).type # "LITERAL"
    /\ BlockOpen <=> /\ Before(PrefixMessages).type = "QUANTIFIER"
                     /\ Before(PrefixMessages).data # 0
    /\ \A i \in 1..Len(prefix) :
          /\ Bound(i) \in Int /\ (Bound(i) = 0 <=> prefix[i] = 0)
          /\ PrefixMessages[i] = Quantifier(Bound(i))

LEMMA PrefixSent ==
    ASSUME TypeOK
    PROVE  PrefixIsSent
  <1>. DEFINE q == PrefixMessages
              n == Len(prefix)
  <1>1. n \in Nat /\ prefix \in Seq(Int) /\ \A i \in 1..n : prefix[i] \in Int
    BY DEF TypeOK
  <1>2. \A i \in 1..n : Bound(i) \in Int /\ (Bound(i) = 0 <=> prefix[i] = 0)
    BY <1>1 DEF Bound
  <1>3. \A k \in Int : Quantifier(k) \in Messages /\ Quantifier(k).type = "QUANTIFIER"
                       /\ Quantifier(k).data = k
    BY MessageType DEF Quantifier, Msg
  <1>4. q \in Seq(Messages) /\ Len(q) = n /\ \A i \in 1..n : q[i] = Quantifier(Bound(i))
    BY <1>1, <1>2, <1>3 DEF PrefixMessages
  <1>. HIDE DEF q
  <1>5. ClauseEnds(q) = 0
    <2>1. \A i \in 1..Len(q) : q[i] # Literal(0)
      BY <1>2, <1>3, <1>4 DEF Literal, Msg
    <2>2. {i \in 1..Len(q) : q[i] = Literal(0)} = {}
      BY <2>1
    <2>. QED  BY <2>2, FS_EmptySet DEF ClauseEnds
  <1>6. CASE prefix = <<>>
    <2>1. q = <<>>
      BY <1>1, <1>4, <1>6, EmptySeq
    <2>2. Before(q) = Header /\ ~BlockOpen
      BY <1>6, <2>1 DEF Before, BlockOpen
    <2>. QED  BY <1>2, <1>4, <1>5, <2>2 DEF Header, Msg, q, PrefixIsSent
  <1>7. CASE prefix # <<>>
    <2>1. n \in 1..n /\ q # <<>>
      BY <1>1, <1>4, <1>7, EmptySeq
    <2>2. Before(q) = Quantifier(Bound(n))
      BY <1>4, <2>1 DEF Before
    <2>3. BlockOpen <=> Bound(n) # 0
      BY <1>2, <1>7, <2>1 DEF BlockOpen
    <2>. QED  BY <1>2, <1>3, <1>4, <1>5, <2>1, <2>2, <2>3 DEF q, PrefixIsSent
  <1>. QED  BY <1>6, <1>7

\* A cube as unit clauses.
Units(c) == [i \in DOMAIN c |-> <<c[i]>>]

LEMMA UnitsGrow ==
    \A c \in Seq(Int) : \A l \in Int :
       Units(c) \in Seq(Seq(Int)) /\ Units(Append(c, l)) = Append(Units(c), <<l>>)
  <1>. SUFFICES ASSUME NEW c \in Seq(Int), NEW l \in Int
                PROVE  /\ Units(c) \in Seq(Seq(Int))
                       /\ Units(Append(c, l)) = Append(Units(c), <<l>>)
    OBVIOUS
  <1>. DEFINE d == Append(c, l)
              n == Len(c)
              u == Units(c)
              v == Units(d)
              w == Append(u, <<l>>)
  <1>1. /\ n \in Nat /\ DOMAIN c = 1..n /\ d \in Seq(Int) /\ DOMAIN d = 1..n + 1
        /\ d[n + 1] = l /\ \A i \in 1..n : d[i] = c[i] /\ c[i] \in Int
        /\ \A i \in 1..n + 1 : d[i] \in Int
    OBVIOUS
  <1>. HIDE DEF d, n
  <1>2. \A k \in Int : <<k>> \in Seq(Int)
    OBVIOUS
  <1>3. u = [i \in 1..n |-> <<c[i]>>] /\ v = [i \in 1..n + 1 |-> <<d[i]>>]
    BY <1>1 DEF Units
  <1>4. u \in Seq(Seq(Int)) /\ Len(u) = n /\ \A i \in 1..n : u[i] = <<c[i]>>
    <2>1. \A i \in 1..n : <<c[i]>> \in Seq(Int)
      BY <1>1, <1>2
    <2>. HIDE DEF u
    <2>2. u \in [1..n -> Seq(Int)] /\ \A i \in 1..n : u[i] = <<c[i]>>
      BY <1>3, <2>1
    <2>. QED  BY <1>1, <2>2
  <1>5. v \in Seq(Seq(Int)) /\ Len(v) = n + 1 /\ \A i \in 1..n + 1 : v[i] = <<d[i]>>
    <2>1. \A i \in 1..n + 1 : <<d[i]>> \in Seq(Int)
      BY <1>1, <1>2
    <2>. HIDE DEF v
    <2>2. v \in [1..n + 1 -> Seq(Int)] /\ \A i \in 1..n + 1 : v[i] = <<d[i]>>
      BY <1>3, <2>1
    <2>. QED  BY <1>1, <2>2
  <1>. HIDE DEF u, v
  <1>6. /\ w \in Seq(Seq(Int)) /\ Len(w) = n + 1 /\ w[n + 1] = <<l>>
        /\ \A i \in 1..n : w[i] = u[i]
    <2>1. <<l>> \in Seq(Int)
      BY <1>2
    <2>. HIDE DEF w
    <2>2. /\ w \in Seq(Seq(Int)) /\ Len(w) = Len(u) + 1 /\ w[Len(u) + 1] = <<l>>
          /\ \A i \in 1..Len(u) : w[i] = u[i]
      BY <1>4, <2>1, AppendProperties DEF w
    <2>. QED  BY <1>4, <2>2
  <1>. HIDE DEF w
  <1>7. ASSUME NEW i \in 1..n + 1 PROVE v[i] = w[i]
    <2>1. CASE i = n + 1
      BY <1>1, <1>5, <1>6, <2>1
    <2>2. CASE i # n + 1
      <3>1. i \in 1..n
        BY <1>1, <2>2
      <3>2. d[i] = c[i] /\ u[i] = <<c[i]>> /\ w[i] = u[i] /\ v[i] = <<d[i]>>
        BY <1>1, <1>4, <1>5, <1>6, <3>1
      <3>. QED  BY <3>2
    <2>. QED  BY <2>1, <2>2
  <1>8. v = w
    BY <1>5, <1>6, <1>7, SeqEqual
  <1>. QED  BY <1>4, <1>8 DEF u, v, w, d

LEMMA ScriptType ==
    ASSUME TypeOK
    PROVE  /\ Matrix \in Seq(Seq(Int)) /\ Written \in Seq(Seq(Int))
           /\ Script \in Seq(Messages) /\ Stream \in Seq(Messages)
           /\ Len(Script) \in Nat /\ Hand \in {0, 1}
           /\ Ahead = IF Ended THEN Len(Stream) - 1 ELSE Len(Stream)
           /\ Ahead \in 0..Len(Stream) /\ Len(Stream) \in Nat
           /\ BlockOpen \in BOOLEAN
  <1>1. /\ clauses \in Seq(Seq(Int)) /\ cube \in Seq(Int) /\ open \in Seq(Int)
        /\ wstream \in Streams /\ cstream \in Streams
    BY DEF TypeOK
  <1>2. Units(cube) \in Seq(Seq(Int)) /\ Written = clauses \o Units(cube)
    <2>1. 0 \in Int
      OBVIOUS
    <2>. QED  BY <1>1, <2>1, UnitsGrow DEF Units, Written
  <1>3. Written \in Seq(Seq(Int))
    BY <1>1, <1>2, ConcatProperties
  <1>4. Matrix \in Seq(Seq(Int))
    BY <1>1, <1>3 DEF Matrix
  <1>5. Script \in Seq(Messages) /\ Len(Script) \in Nat
    <2>1. PrefixMessages \in Seq(Messages)
      BY PrefixSent DEF PrefixIsSent
    <2>2. Script \in Seq(Messages)
      BY <1>1, <1>4, <2>1, SendsType DEF Script
    <2>. QED  BY <2>2, LenProperties
  <1>6. Stream \in Seq(Messages)
    BY QueueType DEF Stream
  <1>7. Ended => Len(Stream) >= 1
    BY <1>6, EmptySeq DEF Ended
  <1>8. Len(Stream) \in Nat
    BY <1>6, LenProperties
  <1>. QED  BY <1>3, <1>4, <1>5, <1>6, <1>7, <1>8 DEF Hand, Ahead, BlockOpen

\* The front of a script.
LEMMA FrontKept ==
    \A s, t \in Seq(Messages) : \A n \in Nat :
       /\ n <= Len(s) => /\ SubSeq(s, 1, n) \in Seq(Messages)
                         /\ Len(SubSeq(s, 1, n)) = n
                         /\ \A i \in 1..n : SubSeq(s, 1, n)[i] = s[i]
       /\ n <= Len(s) /\ n <= Len(t) /\ (\A i \in 1..n : s[i] = t[i])
             => SubSeq(s, 1, n) = SubSeq(t, 1, n)
  <1>1. ASSUME NEW s \in Seq(Messages), NEW n \in Nat, n <= Len(s)
        PROVE  /\ SubSeq(s, 1, n) \in Seq(Messages) /\ Len(SubSeq(s, 1, n)) = n
               /\ \A i \in 1..n : SubSeq(s, 1, n)[i] = s[i]
    <2>1. \A i \in 1..n : s[i] \in Messages
      BY <1>1
    <2>2. /\ SubSeq(s, 1, n) \in Seq(Messages)
          /\ Len(SubSeq(s, 1, n)) = IF 1 <= n THEN n - 1 + 1 ELSE 0
          /\ \A i \in 1..n - 1 + 1 : SubSeq(s, 1, n)[i] = s[1 + i - 1]
      BY <2>1, SubSeqProperties
    <2>3. n - 1 + 1 = n /\ \A i \in 1..n : 1 + i - 1 = i
      OBVIOUS
    <2>. QED  BY <2>2, <2>3
  <1>2. ASSUME NEW s \in Seq(Messages), NEW t \in Seq(Messages), NEW n \in Nat,
               n <= Len(s), n <= Len(t), \A i \in 1..n : s[i] = t[i]
        PROVE  SubSeq(s, 1, n) = SubSeq(t, 1, n)
    <2>. DEFINE a == SubSeq(s, 1, n)
                b == SubSeq(t, 1, n)
    <2>1. /\ a \in Seq(Messages) /\ Len(a) = n /\ \A i \in 1..n : a[i] = s[i]
          /\ b \in Seq(Messages) /\ Len(b) = n /\ \A i \in 1..n : b[i] = t[i]
      BY <1>1, <1>2
    <2>. HIDE DEF a, b
    <2>2. \A i \in 1..Len(a) : a[i] = b[i]
      BY <1>2, <2>1
    <2>3. a = b
      BY <2>1, <2>2, SeqEqual
    <2>. QED  BY <2>3 DEF a, b
  <1>. QED  BY <1>1, <1>2

LEMMA TakenFacts ==
    ASSUME TypeOK, QueueInv
    PROVE  /\ Done \in Nat /\ Done <= Len(Script) /\ Done = Len(Script) - (Hand + Ahead)
           /\ Taken \in Seq(Messages) /\ Len(Taken) = Done
           /\ \A i \in 1..Done : Taken[i] = Script[i]
  <1>1. Done = Len(Script) - (Hand + Ahead) /\ Done >= 0
    BY DEF Done, QueueInv
  <1>2. Len(Script) \in Nat /\ Hand \in {0, 1} /\ Ahead \in 0..Len(Stream)
        /\ Len(Stream) \in Nat /\ Script \in Seq(Messages)
    BY ScriptType
  <1>3. Done \in Nat /\ Done <= Len(Script)
    BY <1>1, <1>2
  <1>4. /\ SubSeq(Script, 1, Done) \in Seq(Messages)
        /\ Len(SubSeq(Script, 1, Done)) = Done
        /\ \A i \in 1..Done : SubSeq(Script, 1, Done)[i] = Script[i]
    BY <1>2, <1>3, FrontKept
  <1>. QED  BY <1>1, <1>3, <1>4 DEF Taken

\* Messages of the formula join the script and the stream.
LEMMA StreamGrows ==
    ASSUME TypeOK, TypeOK', QueueInv, ~Ended, NEW d \in Seq(Messages), d # <<>>,
           d[Len(d)].type \notin {"FORK", "SOLVE"},
           Stream' = Stream \o d, Script' = Script \o d,
           UNCHANGED <<rpc, msg, role>>, role = "child" => msg.type # "SOLVE"
    PROVE  QueueInv' /\ Taken' = Taken
  <1>. DEFINE s == Script
              t == Script'
              a == Stream
              b == Stream'
              k == Len(d)
              n == Len(s)
  <1>1. /\ s \in Seq(Messages) /\ a \in Seq(Messages) /\ n \in Nat /\ Len(a) \in Nat
        /\ t \in Seq(Messages) /\ b \in Seq(Messages) /\ Hand \in {0, 1}
    BY ScriptType
  <1>2. k \in Nat /\ k >= 1
    BY EmptySeq
  <1>3. t = s \o d /\ b = a \o d
    OBVIOUS
  <1>. HIDE DEF s, t, a, b, k
  <1>4. /\ Len(t) = n + k
        /\ \A i \in 1..n + k : t[i] = IF i <= n THEN s[i] ELSE d[i - n]
    <2>1. /\ Len(s \o d) = Len(s) + Len(d)
          /\ \A i \in 1..Len(s) + Len(d) :
                (s \o d)[i] = IF i <= Len(s) THEN s[i] ELSE d[i - Len(s)]
      BY <1>1, Joined, Zenon
    <2>. QED  BY <1>3, <2>1 DEF k
  <1>5. /\ Len(b) = Len(a) + k
        /\ \A i \in 1..Len(a) + k : b[i] = IF i <= Len(a) THEN a[i] ELSE d[i - Len(a)]
    <2>1. /\ Len(a \o d) = Len(a) + Len(d)
          /\ \A i \in 1..Len(a) + Len(d) :
                (a \o d)[i] = IF i <= Len(a) THEN a[i] ELSE d[i - Len(a)]
      BY <1>1, Joined, Zenon
    <2>. QED  BY <1>3, <2>1 DEF k
  <1>6. b[Len(b)] = d[k]
    <2>1. Len(a) + k \in 1..Len(a) + k /\ ~(Len(a) + k <= Len(a))
          /\ (Len(a) + k) - Len(a) = k
      BY <1>1, <1>2
    <2>. QED  BY <1>5, <2>1
  <1>7. ~Ended'
    BY <1>6 DEF Ended, b, k
  <1>8. Ahead = Len(a) /\ Ahead' = Len(a) + k /\ Hand' = Hand
    BY <1>5, <1>7 DEF Ahead, Hand, a, b
  <1>9. /\ Done = n - (Hand + Len(a)) /\ Done' = (n + k) - (Hand + (Len(a) + k))
        /\ Done >= 0
    BY <1>4, <1>8 DEF Done, s, t, n, QueueInv
  <1>10. Done' = Done /\ Done \in Nat /\ Done + Hand + Len(a) = n
    BY <1>1, <1>2, <1>9
  <1>11. \A i \in 1..Len(a) : a[i] = s[Done + Hand + i]
    BY <1>8 DEF QueueInv, a, s
  <1>. HIDE DEF n
  <1>12. ASSUME NEW i \in 1..Len(a) + k
         PROVE  b[i] = t[Done + Hand + i]
    <2>1. Done + Hand + i \in 1..n + k
      BY <1>1, <1>2, <1>10
    <2>2. CASE i <= Len(a)
      <3>1. Done + Hand + i <= n /\ i \in 1..Len(a)
        BY <1>1, <1>10, <2>2
      <3>. QED  BY <1>4, <1>5, <1>11, <2>1, <2>2, <3>1
    <2>3. CASE ~(i <= Len(a))
      <3>1. ~(Done + Hand + i <= n) /\ (Done + Hand + i) - n = i - Len(a)
        <4>1. /\ Hand \in Int /\ Done \in Int /\ Len(a) \in Int /\ n \in Int /\ i \in Int
              /\ i > Len(a) /\ n = Done + Hand + Len(a)
          <5>1. i \in Int
            BY <1>1, <1>2
          <5>. QED  BY <1>1, <1>10, <2>3, <5>1
        <4>2. \A v, w, x, y \in Int : x > w => ~(y + v + x <= y + v + w)
                  /\ (y + v + x) - (y + v + w) = x - w
          OBVIOUS
        <4>. QED  BY <4>1, <4>2
      <3>. QED  BY <1>4, <1>5, <2>1, <2>3, <3>1
    <2>. QED  BY <2>2, <2>3
  <1>13. Hand = 1 => msg = t[Done + 1]
    <2>1. SUFFICES ASSUME Hand = 1 PROVE msg = t[Done + 1]
      OBVIOUS
    <2>2. Done + 1 \in 1..n + k /\ Done + 1 <= n
      BY <1>1, <1>2, <1>10, <2>1
    <2>3. msg = s[Done + 1]
      BY <2>1 DEF QueueInv, s
    <2>. QED  BY <1>4, <2>2, <2>3
  <1>14. QueueInv'
    BY <1>8, <1>10, <1>12, <1>13 DEF QueueInv, b, t
  <1>15. Taken' = Taken
    <2>1. \A i \in 1..Done : s[i] = t[i]
      BY <1>1, <1>2, <1>4, <1>10
    <2>2. Done <= Len(s) /\ Done <= Len(t)
      BY <1>1, <1>2, <1>4, <1>10 DEF n
    <2>3. SubSeq(s, 1, Done) = SubSeq(t, 1, Done)
      BY <1>1, <1>10, <2>1, <2>2, FrontKept
    <2>. QED  BY <1>10, <2>3 DEF Taken, s, t
  <1>. QED  BY <1>14, <1>15

\* FORK or SOLVE closes the stream.
LEMMA StreamEnds ==
    ASSUME TypeOK, TypeOK', QueueInv, ~Ended, NEW m \in Messages,
           m.type \in {"FORK", "SOLVE"}, Stream' = Append(Stream, m),
           UNCHANGED <<Script, rpc, msg, role>>, role = "child" => msg.type # "SOLVE"
    PROVE  QueueInv' /\ Taken' = Taken
  <1>. DEFINE a == Stream
              b == Stream'
  <1>1. a \in Seq(Messages) /\ Len(a) \in Nat /\ b = Append(a, m)
    BY ScriptType
  <1>. HIDE DEF a, b
  <1>2. /\ b # <<>> /\ Len(b) = Len(a) + 1 /\ b[Len(a) + 1] = m
        /\ \A i \in 1..Len(a) : b[i] = a[i]
    BY <1>1, AppendProperties
  <1>3. Ended'
    BY <1>2 DEF Ended, b
  <1>4. Ahead' = Ahead /\ Ahead = Len(a) /\ Hand' = Hand
    BY <1>1, <1>2, <1>3 DEF Ahead, Hand, a, b
  <1>5. Done' = Done /\ Taken' = Taken
    BY <1>4 DEF Done, Taken
  <1>. QED  BY <1>2, <1>4, <1>5 DEF QueueInv, a, b

\* Nothing of it moves.
LEMMA QueueStays ==
    ASSUME QueueInv, UNCHANGED <<Script, Stream, msg, role>>, Hand' = Hand,
           role = "child" /\ msg.type = "SOLVE" => lpc' = "solving" \/ eof'
    PROVE  QueueInv' /\ Taken' = Taken
  <1>1. Ahead' = Ahead
    BY DEF Ahead, Ended
  <1>2. Done' = Done /\ Taken' = Taken
    BY <1>1 DEF Done, Taken
  <1>3. role = "child" => C' = C
    BY DEF Stream
  <1>. QED  BY <1>1, <1>2, <1>3 DEF QueueInv

\* Neither does the text.
LEMMA TextStays ==
    ASSUME StateInv, TextInv, UNCHANGED <<rpc, rt, msg, role, text>>, Taken' = Taken
    PROVE  StateInv' /\ TextInv'
  <1>1. First(Taken)' = First(Taken) /\ Fillers' = Fillers
    BY DEF First, Fillers
  <1>. QED  BY <1>1 DEF StateInv, TextInv

\* A client that may go on finds its stream open.
LEMMA StreamOpen ==
    ASSUME CommonInv, QueueInv, ~eof, lpc \in {"idle", "fork"},
           \/ role = "child"
           \/ lpc = "idle" /\ lib.state \in {"INPUT", "INPUT_LITERALS"}
    PROVE  ~Ended /\ (role = "child" => msg.type # "SOLVE")
  <1>1. CASE role = "child"
    <2>1. msg.type # "SOLVE"
      BY <1>1 DEF QueueInv
    <2>2. C \in Seq(Messages) /\ Len(C) \in Nat
      BY QueueType, LenProperties DEF CommonInv, BasicInv
    <2>3. /\ \A i \in 1..Len(C) : C[i].type # "FORK"
          /\ StageAt(C, Here, Len(C) + 1) \in {"prefix", "matrix"}
      BY <1>1 DEF CommonInv, OrderInv, ChildOrder
    <2>4. ASSUME C # <<>> PROVE C[Len(C)].type \notin {"FORK", "SOLVE"}
      <3>1. Len(C) \in 1..Len(C) /\ Len(C) + 1 # 1 /\ (Len(C) + 1) - 1 = Len(C)
        BY <2>2, <2>4, EmptySeq
      <3>2. After(C[Len(C)]) \in {"prefix", "matrix"}
        BY <2>3, <3>1 DEF StageAt
      <3>3. C[Len(C)].type # "SOLVE"
        BY <3>2 DEF After
      <3>. QED  BY <2>3, <3>1, <3>3
    <2>. QED  BY <1>1, <2>1, <2>4 DEF Ended, Stream
  <1>2. CASE role # "child"
    <2>1. role = "seed"
      BY <1>2 DEF CommonInv, BasicInv, TypeOK
    <2>2. ~ForkAhead
      BY <1>2, ClientIsSeed
    <2>3. W \in Seq(Messages) /\ \A i \in 1..Len(W) : W[i].type # "SOLVE"
      BY QueueType DEF CommonInv, BasicInv, SeedInv
    <2>4. ASSUME W # <<>> PROVE W[Len(W)].type \notin {"FORK", "SOLVE"}
      <3>1. Len(W) \in 1..Len(W)
        BY <2>3, <2>4, EmptySeq
      <3>. QED  BY <2>2, <2>3, <2>4, <3>1 DEF ForkAhead, ForkSent
    <2>. QED  BY <2>1, <2>4 DEF Ended, Stream
  <1>. QED  BY <1>1, <1>2

-----------------------------------------------------------------------------
(***************************************************************************)
(* The client's calls.                                                     *)
(***************************************************************************)
\* Another entry of the prefix is sent behind the others, flipped or not by its
\* rank.
LEMMA PrefixGrows ==
    ASSUME TypeOK, TypeOK', PrefixInv, NEW lit \in Int, prefix' = Append(prefix, lit)
    PROVE  /\ PrefixMessages' = Append(PrefixMessages, Quantifier(SentQuantifier(lib, lit)))
           /\ Quantifier(SentQuantifier(lib, lit)) \in Messages
  <1>0. PICK n \in Nat : n = Len(prefix)
    BY LenProperties DEF TypeOK
  <1>. DEFINE m == Quantifier(SentQuantifier(lib, lit))
              q == PrefixMessages
              r == PrefixMessages'
              t == Append(q, m)
  <1>1. /\ prefix \in Seq(Int) /\ n \in Nat /\ Len(prefix') = n + 1
        /\ prefix'[n + 1] = lit /\ \A i \in 1..n : prefix'[i] = prefix[i]
    BY <1>0 DEF TypeOK
  <1>2. /\ \A i \in 1..n : RankIn(prefix', i) = RankIn(prefix, i)
        /\ RankIn(prefix', n + 1) = RankIn(prefix, n) + (IF lit # 0 THEN 1 ELSE 0)
        /\ RankIn(prefix, n) \in Nat
    <2>1. \A i \in 1..n : i \in 0..n
      BY <1>1
    <2>2. n \in 0..n
      BY <1>1
    <2>. QED  BY <1>0, <1>1, <2>1, <2>2, RankFacts
  <1>3. ASSUME NEW i \in 1..n PROVE Bound(i)' = Bound(i)
    <2>1. Rank(i)' = Rank(i)
      BY <1>2 DEF Rank, RankIn
    <2>. QED  BY <1>1, <2>1 DEF Bound
  <1>4. Bound(n + 1)' = SentQuantifier(lib, lit)
    <2>1. Rank(n + 1)' = RankIn(prefix', n + 1) /\ Rank(n) = RankIn(prefix, n)
      BY <1>1 DEF Rank, RankIn
    <2>2. lib.written_quantifier_literals = RankIn(prefix, n)
      BY <1>0, <2>1 DEF PrefixInv
    <2>3. MaxAssumptions \in Nat
      BY LibraryAssumption
    <2>4. lit < 0 => (RankIn(prefix', n + 1) <= MaxAssumptions
                        <=> lib.written_quantifier_literals < MaxAssumptions)
      BY <1>2, <2>2, <2>3
    <2>. QED  BY <1>1, <2>1, <2>4 DEF Bound, SentQuantifier, InPrefixDepth
  <1>5. SentQuantifier(lib, lit) \in Int /\ m \in Messages
    <2>1. SentQuantifier(lib, lit) \in Int
      BY DEF SentQuantifier
    <2>. QED  BY <2>1, MessageType
  <1>6. q \in Seq(Messages) /\ Len(q) = n /\ \A i \in 1..n : q[i] = Quantifier(Bound(i))
    BY <1>0, PrefixSent DEF PrefixIsSent
  <1>7. /\ r \in Seq(Messages) /\ Len(r) = n + 1
        /\ \A i \in 1..n + 1 : r[i] = Quantifier(Bound(i)')
    <2>1. PrefixIsSent'
      BY PrefixSent, PTL
    <2>. QED  BY <1>1, <2>1 DEF PrefixIsSent
  <1>. HIDE DEF q, r, m
  <1>8. /\ t \in Seq(Messages) /\ Len(t) = n + 1 /\ t[n + 1] = m
        /\ \A i \in 1..n : t[i] = q[i]
    <2>1. n \in Nat
      BY <1>1
    <2>. QED  BY <1>5, <1>6, <2>1
  <1>. HIDE DEF t
  <1>9. ASSUME NEW i \in 1..n + 1 PROVE r[i] = t[i]
    <2>1. CASE i = n + 1
      BY <1>1, <1>4, <1>7, <1>8, <2>1 DEF m
    <2>2. CASE i # n + 1
      <3>1. i \in 1..n
        BY <1>1, <2>2
      <3>. QED  BY <1>3, <1>6, <1>7, <1>8, <3>1
    <2>. QED  BY <2>1, <2>2
  <1>10. r = t
    BY <1>7, <1>8, <1>9, SeqEqual
  <1>. QED  BY <1>5, <1>10 DEF r, t, q, m

\* A formula that is its prefix.
LEMMA ToldPrefix ==
    ASSUME NEW p \in Seq(Messages), NEW block \in BOOLEAN, ClauseEnds(p) = 0
    PROVE  Sends(p, <<>>, <<>>) = p /\ Told(p, block, <<>>, <<>>)
  <1>1. Sends(p, <<>>, <<>>) = p
    <2>1. p \o <<>> = p
      BY ConcatEmptySeq
    <2>. QED  BY <2>1, NothingSaid DEF Sends
  <1>2. Rendered(p) \o Lacks(block, <<>>, <<>>) = Closed(p, block)
    BY DEF Lacks, Closed
  <1>3. (Closed(p, block) \o MatrixText(<<>>)) \o Numbers(<<>>) = Closed(p, block)
    <2>1. Closed(p, block) \in Seq(Lexemes)
      BY ClosedType
    <2>2. Closed(p, block) \o <<>> = Closed(p, block)
      BY <2>1, ConcatEmptySeq
    <2>. QED  BY <2>2, NothingSaid
  <1>4. Len(<<>>) = 0
    OBVIOUS
  <1>. QED  BY <1>1, <1>2, <1>3, <1>4 DEF Told

\* The client's part of the formula.
LEMMA ClientMoves ==
    ASSUME TypeOK, TypeOK', DeliveryInv, ~Ended, NEW d \in Seq(Messages), d # <<>>,
           d[Len(d)].type \notin {"FORK", "SOLVE"},
           Stream' = Stream \o d, Script' = Script \o d,
           UNCHANGED procvars, role = "child" => msg.type # "SOLVE"
    PROVE  QueueInv' /\ StateInv' /\ TextInv'
  <1>1. UNCHANGED <<rpc, rt, msg, role, text>>
    BY DEF procvars
  <1>2. QueueInv' /\ Taken' = Taken
    BY <1>1, StreamGrows DEF DeliveryInv
  <1>. QED  BY <1>1, <1>2, TextStays DEF DeliveryInv

LEMMA QuantifyText ==
    ASSUME CommonInv, TypeOK', DeliveryInv, NEW lit \in Int, quapi_quantify(lit)
    PROVE  DeliveryInv'
  <1>. DEFINE m == Quantifier(SentQuantifier(lib, lit))
              d == <<m>>
  <1>1. /\ lpc = "idle" /\ ~eof /\ lib.state = "INPUT"
        /\ UNCHANGED <<procvars, lpc, cstream, clauses, open, cube>>
        /\ wstream' = quapi_write_msg_to_file(wstream, m)
        /\ lib' = AfterQuantify(lib, lit) /\ prefix' = Append(prefix, lit)
        /\ lit = 0 => BlockOpen
    BY DEF quapi_quantify, Client, CanQuantify
  <1>2. TypeOK /\ PrefixInv /\ lib \in Solvers /\ wstream \in Streams /\ prefix \in Seq(Int)
    BY DEF CommonInv, BasicInv, TypeOK
  <1>3. role = "seed" /\ role' = "seed"
    BY <1>1, ClientIsSeed DEF procvars
  <1>4. open = <<>> /\ clauses = <<>> /\ open' = <<>> /\ clauses' = <<>>
    BY <1>1, <1>3 DEF CommonInv, OrderInv, SeedOrder
  <1>5. ~Ended
    BY <1>1, StreamOpen DEF DeliveryInv
  <1>6. m \in Messages /\ PrefixMessages' = Append(PrefixMessages, m)
    BY <1>1, <1>2, PrefixGrows
  <1>7. m.type = "QUANTIFIER"
    BY DEF Quantifier, Msg
  <1>. HIDE DEF m
  <1>8. d \in Seq(Messages) /\ d # <<>> /\ d[Len(d)] = m
    BY <1>6
  <1>9. Stream' = Stream \o d
    <2>1. W' = Append(W, m) /\ W \in Seq(Messages)
      BY <1>1, <1>2, <1>6, ContentsWritten DEF W
    <2>2. W' = W \o d
      BY <1>6, <2>1, AppendIsConcat
    <2>. QED  BY <1>3, <2>2 DEF Stream
  <1>10. /\ PrefixIsSent /\ PrefixIsSent'
    BY <1>2, PrefixSent, PTL
  <1>11. /\ Script = PrefixMessages /\ Script' = PrefixMessages' /\ ScriptInv'
    <2>1. Matrix = <<>> /\ Matrix' = <<>>
      BY <1>3, <1>4 DEF Matrix
    <2>2. /\ PrefixMessages \in Seq(Messages) /\ ClauseEnds(PrefixMessages) = 0
          /\ PrefixMessages' \in Seq(Messages) /\ ClauseEnds(PrefixMessages') = 0
          /\ BlockOpen \in BOOLEAN /\ BlockOpen' \in BOOLEAN
      BY <1>10 DEF PrefixIsSent, BlockOpen
    <2>. QED  BY <1>4, <2>1, <2>2, ToldPrefix DEF Script, ScriptInv
  <1>12. Script' = Script \o d
    <2>1. PrefixMessages \in Seq(Messages)
      BY <1>10 DEF PrefixIsSent
    <2>. QED  BY <1>6, <1>11, <2>1, AppendIsConcat
  <1>13. QueueInv' /\ StateInv' /\ TextInv'
    <2>1. /\ UNCHANGED procvars /\ role # "child" /\ m.type \notin {"FORK", "SOLVE"}
      BY <1>1, <1>3, <1>7
    <2>. HIDE DEF d
    <2>. QED  BY <1>2, <1>5, <1>8, <1>9, <1>12, <2>1, ClientMoves
  <1>14. CallsInv'
    <2>1. prefix'[1] # 0
      <3>1. CASE prefix = <<>>
        <4>1. ~BlockOpen
          BY <3>1 DEF BlockOpen
        <4>2. prefix'[1] = lit
          BY <1>1, <3>1
        <4>. QED  BY <1>1, <4>1, <4>2
      <3>2. CASE prefix # <<>>
        <4>1. prefix'[1] = prefix[1]
          <5>1. 1 \in 1..Len(prefix)
            BY <1>2, <3>2, EmptySeq
          <5>. QED  BY <1>1, <1>2, <5>1
        <4>. QED  BY <3>2, <4>1 DEF DeliveryInv, CallsInv
      <3>. QED  BY <3>1, <3>2
    <2>2. cube' = <<>>
      BY <1>1, <1>3 DEF DeliveryInv, CallsInv, NeedsFork
    <2>. QED  BY <1>1, <1>3, <2>1, <2>2 DEF CallsInv
  <1>. QED  BY <1>11, <1>13, <1>14 DEF DeliveryInv

\* The prefix as it was.
LEMMA PrefixStays ==
    ASSUME UNCHANGED prefix
    PROVE  PrefixMessages' = PrefixMessages /\ (BlockOpen' <=> BlockOpen)
  <1>1. \A i \in 1..Len(prefix) : Bound(i)' = Bound(i)
    BY DEF Bound, Rank
  <1>. QED  BY <1>1 DEF PrefixMessages, BlockOpen

LEMMA AddText ==
    ASSUME CommonUse, CommonInv, TypeOK', DeliveryInv, NEW lit \in Int, quapi_add(lit)
    PROVE  DeliveryInv'
  <1>. DEFINE m == Literal(lit)
              d == <<m>>
              p == PrefixMessages
  <1>1. /\ lpc = "idle" /\ ~eof /\ lib.state \in {"INPUT", "INPUT_LITERALS"}
        /\ UNCHANGED <<procvars, lpc, cstream, prefix, cube>>
        /\ wstream' = quapi_write_msg_to_file(wstream, m)
        /\ lib' = AfterAdd(lib, lit)
        /\ open' = IF lit = 0 THEN <<>> ELSE Append(open, lit)
        /\ clauses' = IF lit = 0 THEN Append(clauses, open) ELSE clauses
        /\ lit = 0 => open # <<>>
    BY DEF quapi_add, Client, CanAdd, CommonUse
  <1>2. /\ TypeOK /\ wstream \in Streams /\ open \in Seq(Int) /\ clauses \in Seq(Seq(Int))
    BY DEF CommonInv, BasicInv, TypeOK
  <1>3. role = "seed" /\ role' = "seed"
    BY <1>1, ClientIsSeed DEF procvars
  <1>4. ~Ended
    BY <1>1, StreamOpen DEF DeliveryInv
  <1>5. m \in Messages /\ m.type = "LITERAL"
    BY MessageType DEF Literal, Msg
  <1>6. d \in Seq(Messages) /\ d # <<>> /\ d[Len(d)] = m
    BY <1>5
  <1>. HIDE DEF m
  <1>7. Stream' = Stream \o d
    <2>1. W' = Append(W, m) /\ W \in Seq(Messages)
      BY <1>1, <1>2, <1>5, ContentsWritten DEF W
    <2>2. W' = W \o d
      BY <1>5, <2>1, AppendIsConcat
    <2>. QED  BY <1>3, <2>2 DEF Stream
  <1>8. p' = p /\ (BlockOpen' <=> BlockOpen) /\ BlockOpen \in BOOLEAN /\ BlockOpen' \in BOOLEAN
    BY <1>1, PrefixStays DEF BlockOpen
  <1>9. /\ p \in Seq(Messages) /\ Before(p).type # "LITERAL"
        /\ BlockOpen <=> Before(p).type = "QUANTIFIER" /\ Before(p).data # 0
    BY <1>2, PrefixSent DEF PrefixIsSent
  <1>. HIDE DEF p
  <1>10. /\ Script = Sends(p, clauses, open) /\ Told(p, BlockOpen, clauses, open)
         /\ Script' = Sends(p, clauses', open')
         /\ ScriptInv' = Told(p, BlockOpen, clauses', open')
    BY <1>3, <1>8 DEF Script, ScriptInv, Matrix, DeliveryInv, p
  <1>11. Script' = Append(Script, m) /\ ScriptInv'
    <2>1. CASE lit = 0
      <3>1. open' = <<>> /\ clauses' = Append(clauses, open) /\ open # <<>>
        BY <1>1, <2>1
      <3>. QED  BY <1>2, <1>8, <1>9, <1>10, <2>1, <3>1, OneClause DEF m
    <2>2. CASE lit # 0
      <3>1. open' = Append(open, lit) /\ clauses' = clauses
        BY <1>1, <2>2
      <3>. QED  BY <1>2, <1>8, <1>9, <1>10, <2>2, <3>1, OneLiteral DEF m
    <2>. QED  BY <2>1, <2>2
  <1>12. Script' = Script \o d
    <2>1. Script \in Seq(Messages)
      BY <1>2, ScriptType
    <2>. QED  BY <1>5, <1>11, <2>1, AppendIsConcat
  <1>13. QueueInv' /\ StateInv' /\ TextInv'
    <2>1. /\ UNCHANGED procvars /\ role # "child" /\ m.type \notin {"FORK", "SOLVE"}
      BY <1>1, <1>3, <1>5
    <2>. HIDE DEF d
    <2>. QED  BY <1>2, <1>4, <1>6, <1>7, <1>12, <2>1, ClientMoves
  <1>14. CallsInv'
    <2>1. cube' = <<>>
      BY <1>1, <1>3 DEF DeliveryInv, CallsInv, NeedsFork
    <2>. QED  BY <1>1, <1>3, <2>1 DEF DeliveryInv, CallsInv
  <1>. QED  BY <1>11, <1>13, <1>14 DEF DeliveryInv

\* Whole clauses and a closed prefix.
Whole == open = <<>> /\ (BlockOpen => clauses # <<>>)

\* A call that adds nothing to the formula.
LEMMA ScriptStays ==
    ASSUME UNCHANGED <<role, prefix, clauses, open>>, ScriptInv,
           role = "child" => UNCHANGED cube
    PROVE  Script' = Script /\ ScriptInv' /\ (Whole' <=> Whole)
  <1>1. PrefixMessages' = PrefixMessages /\ (BlockOpen' <=> BlockOpen)
    BY PrefixStays
  <1>2. Matrix' = Matrix
    BY DEF Matrix, Written
  <1>3. BlockOpen' = BlockOpen
    BY <1>1 DEF BlockOpen
  <1>. QED  BY <1>1, <1>2, <1>3 DEF Script, ScriptInv, Whole

LEMMA RequestForkText ==
    ASSUME CommonUse, CommonInv, TypeOK', DeliveryInv, NEW c \in Int,
           RequestFork(c), Client, Settled, UNCHANGED <<prefix, clauses, open>>
    PROVE  DeliveryInv'
  <1>. DEFINE m == Fork(1)
  <1>1. /\ lpc = "idle" /\ ~eof /\ lib.state \in {"INPUT", "INPUT_LITERALS"}
        /\ UNCHANGED procvars /\ UNCHANGED <<cstream, cube>>
        /\ wstream' = quapi_write_msg_to_file(wstream, m)
    BY DEF RequestFork, Client, NeedsFork
  <1>2. TypeOK /\ wstream \in Streams
    BY DEF CommonInv, BasicInv, TypeOK
  <1>3. m \in Messages /\ m.type \in {"FORK", "SOLVE"}
    BY MessageType DEF Fork, Msg
  <1>4. role = "seed" /\ role' = "seed"
    BY <1>1, ClientIsSeed DEF procvars
  <1>5. ~Ended
    BY <1>1, StreamOpen DEF DeliveryInv
  <1>. HIDE DEF m
  <1>6. Stream' = Append(Stream, m)
    <2>1. W' = Append(W, m)
      BY <1>1, <1>2, <1>3, ContentsWritten DEF W
    <2>. QED  BY <1>4, <2>1 DEF Stream
  <1>7. Script' = Script /\ ScriptInv' /\ (Whole' <=> Whole)
    BY <1>1, ScriptStays DEF DeliveryInv, procvars
  <1>8. UNCHANGED <<rpc, rt, msg, role, text>>
    BY <1>1 DEF procvars
  <1>9. QueueInv' /\ Taken' = Taken
    BY <1>2, <1>3, <1>4, <1>5, <1>6, <1>7, <1>8, StreamEnds DEF DeliveryInv
  <1>10. StateInv' /\ TextInv'
    BY <1>8, <1>9, TextStays DEF DeliveryInv
  <1>11. CallsInv'
    <2>1. cube' = <<>>
      BY <1>1, <1>4 DEF DeliveryInv, CallsInv, NeedsFork
    <2>2. Whole
      BY DEF Settled, CommonUse, Whole
    <2>. QED  BY <1>7, <2>1, <2>2 DEF DeliveryInv, CallsInv, Whole
  <1>. QED  BY <1>7, <1>9, <1>10, <1>11 DEF DeliveryInv

\* A call behind the fork leaves what the seed is sent alone.
LEMMA SeedLeftAlone ==
    ASSUME CommonInv, DeliveryInv, role = "seed", lib'.state \notin {"INPUT", "INPUT_LITERALS"},
           lpc' # "fork", UNCHANGED <<procvars, wstream, prefix, clauses, open>>
    PROVE  DeliveryInv'
  <1>1. UNCHANGED <<rpc, rt, msg, role, text>>
    BY DEF procvars
  <1>2. Script' = Script /\ ScriptInv' /\ (Whole' <=> Whole)
    BY <1>1, ScriptStays DEF DeliveryInv
  <1>3. Stream' = Stream
    BY <1>1 DEF Stream, W
  <1>4. Hand' = Hand
    BY <1>1 DEF Hand
  <1>5. QueueInv' /\ Taken' = Taken
    BY <1>1, <1>2, <1>3, <1>4, QueueStays DEF DeliveryInv
  <1>6. StateInv' /\ TextInv'
    BY <1>1, <1>5, TextStays DEF DeliveryInv
  <1>7. CallsInv'
    BY <1>1 DEF DeliveryInv, CallsInv, NeedsFork
  <1>. QED  BY <1>2, <1>5, <1>6, <1>7 DEF DeliveryInv

LEMMA SendAssumptionText ==
    ASSUME CommonInv, TypeOK', DeliveryInv, NEW lit \in Int, lit # 0,
           lpc \in {"idle", "fork"}, ~eof, SendAssumption(lit),
           UNCHANGED <<procvars, wstream, prefix, clauses, open>>
    PROVE  DeliveryInv'
  <1>1. /\ cstream' = quapi_write_msg_to_file(
              quapi_write_msg_to_file(cstream, Literal(lit)), Literal(0))
        /\ lib' = AfterAssume(lib) /\ cube' = Append(cube, lit) /\ lpc' = "idle"
    BY DEF SendAssumption
  <1>2. /\ TypeOK /\ cstream \in Streams /\ cube \in Seq(Int) /\ lib \in Solvers
        /\ clauses \in Seq(Seq(Int)) /\ role \in {"seed", "child"}
    BY DEF CommonInv, BasicInv, TypeOK
  <1>3. lib'.state = "INPUT_ASSUMPTIONS"
    BY <1>1, <1>2 DEF AfterAssume, Solvers
  <1>4. CASE role = "seed"
    BY <1>1, <1>3, <1>4, SeedLeftAlone
  <1>5. CASE role = "child"
    <2>. DEFINE a == Literal(lit)
                b == Literal(0)
                d == <<a, b>>
                p == PrefixMessages
                f == quapi_write_msg_to_file(cstream, a)
    <2>1. a \in Messages /\ b \in Messages /\ b.type = "LITERAL"
      BY MessageType DEF Literal, Msg
    <2>2. d \in Seq(Messages) /\ d # <<>> /\ d[Len(d)] = b
      BY <2>1
    <2>. HIDE DEF a, b
    <2>3. ~Ended /\ msg.type # "SOLVE"
      BY <1>5, StreamOpen DEF DeliveryInv
    <2>4. \A s \in Seq(Messages) : Append(Append(s, a), b) = s \o d
      <3>1. SUFFICES ASSUME NEW s \in Seq(Messages) PROVE Append(Append(s, a), b) = s \o d
        OBVIOUS
      <3>2. <<a>> \in Seq(Messages) /\ d = Append(<<a>>, b)
        BY <2>1
      <3>3. s \o d = Append(s \o <<a>>, b)
        BY <2>1, <3>2, ConcatAppend
      <3>. QED  BY <2>1, <3>3, AppendIsConcat
    <2>. HIDE DEF d
    <2>5. C' = C \o d /\ C \in Seq(Messages)
      <3>1. f \in Streams /\ Contents(f) = Append(C, a) /\ C \in Seq(Messages)
        BY <1>2, <2>1, StreamType, ContentsWritten DEF C
      <3>2. C' = Append(Contents(f), b)
        <4>. HIDE DEF f
        <4>1. cstream' = quapi_write_msg_to_file(f, b)
          BY <1>1 DEF f, a, b
        <4>. QED  BY <2>1, <3>1, <4>1, ContentsWritten DEF C
      <3>. HIDE DEF f
      <3>. QED  BY <2>4, <3>1, <3>2
    <2>6. role' = "child" /\ UNCHANGED <<rpc, rt, msg, role, text>>
      BY <1>5 DEF procvars
    <2>7. Stream' = Stream \o d
      BY <1>5, <2>5, <2>6 DEF Stream
    <2>8. /\ PrefixMessages' = PrefixMessages /\ (BlockOpen' <=> BlockOpen)
          /\ BlockOpen \in BOOLEAN /\ BlockOpen' \in BOOLEAN
      BY PrefixStays DEF BlockOpen
    <2>9. /\ p \in Seq(Messages) /\ Before(p).type # "LITERAL"
          /\ BlockOpen <=> Before(p).type = "QUANTIFIER" /\ Before(p).data # 0
      BY <1>2, PrefixSent DEF PrefixIsSent
    <2>10. open = <<>> /\ open' = <<>>
      BY <1>5 DEF DeliveryInv, CallsInv
    <2>11. Written \in Seq(Seq(Int)) /\ Written' = Append(Written, <<lit>>)
      <3>1. Units(cube) \in Seq(Seq(Int)) /\ Units(cube') = Append(Units(cube), <<lit>>)
        BY <1>1, <1>2, UnitsGrow
      <3>2. Written = clauses \o Units(cube) /\ Written' = clauses \o Units(cube')
        BY DEF Written, Units
      <3>3. <<lit>> \in Seq(Int) /\ <<<<lit>>>> \in Seq(Seq(Int))
        OBVIOUS
      <3>4. /\ clauses \o Units(cube) \in Seq(Seq(Int))
            /\ Append(Units(cube), <<lit>>) = Units(cube) \o <<<<lit>>>>
        BY <1>2, <3>1, <3>3, ConcatProperties, AppendIsConcat
      <3>5. (clauses \o Units(cube)) \o <<<<lit>>>> = clauses \o (Units(cube) \o <<<<lit>>>>)
        BY <1>2, <3>1, <3>3, ConcatAssociative, SMTT(20)
      <3>6. Append(clauses \o Units(cube), <<lit>>) = (clauses \o Units(cube)) \o <<<<lit>>>>
        BY <3>3, <3>4, AppendIsConcat
      <3>. QED  BY <3>1, <3>2, <3>4, <3>5, <3>6
    <2>. DEFINE w == Written
                o == <<lit>>
    <2>12. Script = Sends(p, w, <<>>) /\ Told(p, BlockOpen, w, <<>>)
      BY <1>5, <2>10 DEF Script, ScriptInv, Matrix, DeliveryInv
    <2>13. /\ Script' = Sends(p, Append(w, o), <<>>)
           /\ ScriptInv' <=> Told(p, BlockOpen', Append(w, o), <<>>)
      BY <2>6, <2>8, <2>10, <2>11 DEF Script, ScriptInv, Matrix
    <2>. HIDE DEF p, w
    <2>14. Sends(p, w, o) = Append(Script, a) /\ Told(p, BlockOpen, w, o)
      <3>1. Append(<<>>, lit) = o /\ <<>> \in Seq(Int)
        OBVIOUS
      <3>2. w \in Seq(Seq(Int))
        BY <2>11 DEF w
      <3>3. /\ p \in Seq(Messages) /\ w \in Seq(Seq(Int)) /\ <<>> \in Seq(Int)
            /\ BlockOpen \in BOOLEAN /\ lit \in Int /\ lit # 0
            /\ BlockOpen <=> Before(p).type = "QUANTIFIER" /\ Before(p).data # 0
            /\ Before(p).type # "LITERAL" /\ Told(p, BlockOpen, w, <<>>)
        BY <2>8, <2>9, <2>12, <3>1, <3>2
      <3>. HIDE DEF o
      <3>4. /\ Sends(p, w, Append(<<>>, lit)) = Append(Sends(p, w, <<>>), Literal(lit))
            /\ Told(p, BlockOpen, w, Append(<<>>, lit))
        BY <3>3, OneLiteral, ZenonT(30)
      <3>. QED  BY <2>12, <3>1, <3>4, Zenon DEF a
    <2>15. Script' = Append(Append(Script, a), b) /\ ScriptInv'
      <3>1. o \in Seq(Int) /\ o # <<>>
        OBVIOUS
      <3>2. w \in Seq(Seq(Int))
        BY <2>11 DEF w
      <3>. HIDE DEF o
      <3>3. /\ Sends(p, Append(w, o), <<>>) = Append(Sends(p, w, o), b)
            /\ Told(p, BlockOpen, Append(w, o), <<>>)
        BY <2>8, <2>9, <2>14, <3>1, <3>2, OneClause DEF b
      <3>4. BlockOpen' = BlockOpen
        BY <2>8
      <3>. QED  BY <2>13, <2>14, <3>3, <3>4
    <2>16. Script' = Script \o d
      <3>1. Script \in Seq(Messages)
        BY <1>2, ScriptType
      <3>. QED  BY <2>4, <2>15, <3>1
    <2>17. QueueInv' /\ StateInv' /\ TextInv'
      <3>1. b.type \notin {"FORK", "SOLVE"}
        BY <2>1
      <3>. QED  BY <1>2, <2>2, <2>3, <2>7, <2>16, <3>1, ClientMoves
    <2>18. CallsInv'
      BY <1>1, <1>3, <1>5, <2>6, <2>8 DEF DeliveryInv, CallsInv, NeedsFork
    <2>. QED  BY <2>15, <2>17, <2>18 DEF DeliveryInv
  <1>. QED  BY <1>2, <1>4, <1>5

LEMMA SendSolveText ==
    ASSUME CommonInv, TypeOK', DeliveryInv, lpc \in {"idle", "fork"}, ~eof, SendSolve,
           UNCHANGED <<procvars, wstream, prefix, clauses, open>>
    PROVE  DeliveryInv'
  <1>1. /\ cstream' = quapi_write_msg_to_file(cstream, Solve)
        /\ lib' = Working(lib) /\ cube' = cube /\ lpc' = "solving"
    BY DEF SendSolve
  <1>2. TypeOK /\ cstream \in Streams /\ lib \in Solvers /\ role \in {"seed", "child"}
    BY DEF CommonInv, BasicInv, TypeOK
  <1>3. lib'.state = "WORKING"
    BY <1>1, <1>2 DEF Working, Solvers
  <1>4. CASE role = "seed"
    BY <1>1, <1>3, <1>4, SeedLeftAlone
  <1>5. CASE role = "child"
    <2>1. Solve \in Messages /\ Solve.type \in {"FORK", "SOLVE"}
      BY MessageType DEF Solve, Msg
    <2>2. ~Ended /\ msg.type # "SOLVE"
      BY <1>5, StreamOpen DEF DeliveryInv
    <2>3. role' = "child" /\ UNCHANGED <<rpc, rt, msg, role, text>>
      BY <1>5 DEF procvars
    <2>4. Stream' = Append(Stream, Solve)
      <3>1. C' = Append(C, Solve)
        BY <1>1, <1>2, <2>1, ContentsWritten DEF C
      <3>. QED  BY <1>5, <2>3, <3>1 DEF Stream
    <2>5. Script' = Script /\ ScriptInv' /\ (Whole' <=> Whole)
      BY <1>1, <2>3, ScriptStays DEF DeliveryInv
    <2>6. QueueInv' /\ Taken' = Taken
      BY <1>2, <2>1, <2>2, <2>3, <2>4, <2>5, StreamEnds DEF DeliveryInv
    <2>7. StateInv' /\ TextInv'
      BY <2>3, <2>6, TextStays DEF DeliveryInv
    <2>8. CallsInv'
      BY <1>1, <1>5, <2>3, <2>5 DEF DeliveryInv, CallsInv, Whole
    <2>. QED  BY <2>5, <2>6, <2>7, <2>8 DEF DeliveryInv
  <1>. QED  BY <1>2, <1>4, <1>5

LEMMA SolveReturnsText ==
    ASSUME CommonInv, DeliveryInv, SolveReturns
    PROVE  DeliveryInv'
  <1>1. /\ UNCHANGED <<call, wstream, cstream, forks, prefix, clauses, open>>
        /\ UNCHANGED procvars /\ UNCHANGED <<rpc, rt, msg, role, text, eof>>
        /\ toParent # <<>> /\ lpc = "solving" /\ lpc' = "idle"
        /\ cube' = IF eof THEN cube ELSE <<>>
    BY DEF SolveReturns, procvars
  <1>2. role = "child" => eof
    BY <1>1 DEF CommonInv, OrderInv, ChildSync
  <1>3. role # "child" => ~eof /\ role = "seed"
    BY DEF CommonInv, BasicInv, TypeOK, SeedInv
  <1>4. Script' = Script /\ ScriptInv' /\ (Whole' <=> Whole)
    BY <1>1, <1>2, ScriptStays DEF DeliveryInv
  <1>5. Stream' = Stream /\ Hand' = Hand
    BY <1>1 DEF Stream, W, C, Hand
  <1>6. QueueInv' /\ Taken' = Taken
    BY <1>1, <1>2, <1>4, <1>5, QueueStays DEF DeliveryInv
  <1>7. StateInv' /\ TextInv'
    BY <1>1, <1>6, TextStays DEF DeliveryInv
  <1>8. CallsInv'
    BY <1>1, <1>3, <1>4 DEF DeliveryInv, CallsInv, Whole
  <1>. QED  BY <1>4, <1>6, <1>7, <1>8 DEF DeliveryInv

\* The calls and what the library does for them.
LEMMA LibraryText ==
    ASSUME CommonUse, CommonInv, TypeOK', DeliveryInv, LibraryStep
    PROVE  DeliveryInv'
  <1>1. cube \in Seq(Int) /\ call \in Int /\ NewVar \in Nat /\ role \in {"seed", "child"}
    BY NewVarType DEF CommonInv, BasicInv, TypeOK
  <1>2. ASSUME NEW lit \in {NewVar, -NewVar, 0}, quapi_quantify(lit)
        PROVE  DeliveryInv'
    <2>1. lit \in Int
      BY <1>1
    <2>. QED  BY <1>2, <2>1, QuantifyText
  <1>3. ASSUME NEW lit \in ClauseLits \cup {0}, quapi_add(lit)
        PROVE  DeliveryInv'
    <2>1. lit \in Int
      BY SerializationAssumption
    <2>. QED  BY <1>3, <2>1, AddText
  <1>4. ASSUME NEW lit \in {Len(cube) + 1, -(Len(cube) + 1)}, quapi_assume(lit)
        PROVE  DeliveryInv'
    <2>1. lit \in Int /\ lit # 0
      BY <1>1
    <2>2. /\ Client /\ Settled /\ lpc = "idle" /\ ~eof
          /\ UNCHANGED <<prefix, clauses, open>> /\ UNCHANGED procvars
      BY <1>4 DEF quapi_assume, Client
    <2>3. CASE RequestFork(lit)
      BY <2>1, <2>2, <2>3, RequestForkText
    <2>4. CASE ~NeedsFork(lib) /\ SendAssumption(lit) /\ UNCHANGED <<call, wstream, forks>>
      BY <2>1, <2>2, <2>4, SendAssumptionText
    <2>. QED  BY <1>4, <2>3, <2>4 DEF quapi_assume
  <1>5. CASE quapi_solve
    <2>1. /\ Client /\ Settled /\ lpc = "idle" /\ ~eof
          /\ UNCHANGED <<prefix, clauses, open>> /\ UNCHANGED procvars
      BY <1>5 DEF quapi_solve, Client
    <2>2. CASE RequestFork(0)
      BY <2>1, <2>2, RequestForkText
    <2>3. CASE ~NeedsFork(lib) /\ SendSolve /\ UNCHANGED <<call, wstream, forks>>
      BY <2>1, <2>3, SendSolveText
    <2>. QED  BY <1>5, <2>2, <2>3 DEF quapi_solve
  <1>6. CASE ReadForkReport
    <2>1. /\ UNCHANGED <<wstream, prefix, clauses, open>> /\ UNCHANGED procvars
          /\ lpc = "fork" /\ IF call = 0 THEN SendSolve ELSE SendAssumption(call)
      BY <1>6 DEF ReadForkReport
    <2>2. ~eof
      <3>1. CASE role = "seed"
        BY <3>1 DEF CommonInv, BasicInv, SeedInv
      <3>2. CASE role = "child"
        BY <2>1, <3>2 DEF CommonInv, OrderInv, ChildSync
      <3>. QED  BY <1>1, <3>1, <3>2
    <2>. QED  BY <1>1, <2>1, <2>2, SendSolveText, SendAssumptionText
  <1>7. CASE SolveReturns
    BY <1>7, SolveReturnsText
  <1>. QED  BY <1>2, <1>3, <1>4, <1>5, <1>6, <1>7 DEF LibraryStep

-----------------------------------------------------------------------------
(***************************************************************************)
(* What the state functions write.                                         *)
(***************************************************************************)
Writes(r, s, t, q, f) ==
    s.outbuf = t /\ s.quantifier_count = q /\ s.filler_clause = f

\* Emitting text, with or without an update of the other fields.
LEMMA EmitWrites ==
    ASSUME NEW r \in Runtimes, NEW m \in Messages, NEW t \in Seq(Lexemes),
           NEW s, NEW q \in Nat, NEW f \in Seq(Lexemes), NEW c \in Nat, NEW b \in BOOLEAN,
           LET e == Emit(r, m, t)
           IN  \/ s = e /\ q = r.quantifier_count /\ f = r.filler_clause
               \/ /\ s = [e EXCEPT !.written_clauses = c]
                  /\ q = r.quantifier_count /\ f = r.filler_clause
               \/ /\ s = [e EXCEPT !.outbuf_len = "again"]
                  /\ q = r.quantifier_count /\ f = r.filler_clause
               \/ /\ s = [e EXCEPT !.repeat_state = b]
                  /\ q = r.quantifier_count /\ f = r.filler_clause
               \/ /\ s = [e EXCEPT !.written_clauses = c, !.repeat_state = b]
                  /\ q = r.quantifier_count /\ f = r.filler_clause
               \/ s = [e EXCEPT !.quantifier_count = q] /\ f = r.filler_clause
               \/ s = [e EXCEPT !.quantifier_count = q, !.filler_clause = f]
    PROVE  Writes(r, s, t, q, f)
  <1>. DEFINE e == Emit(r, m, t)
  <1>1. /\ e \in Runtimes /\ e.outbuf = t /\ e.quantifier_count = r.quantifier_count
        /\ e.filler_clause = r.filler_clause
    BY EmitFacts
  <1>2. \/ s = e /\ q = r.quantifier_count /\ f = r.filler_clause
        \/ /\ s = [e EXCEPT !.written_clauses = c]
           /\ q = r.quantifier_count /\ f = r.filler_clause
        \/ /\ s = [e EXCEPT !.outbuf_len = "again"]
           /\ q = r.quantifier_count /\ f = r.filler_clause
        \/ /\ s = [e EXCEPT !.repeat_state = b]
           /\ q = r.quantifier_count /\ f = r.filler_clause
        \/ /\ s = [e EXCEPT !.written_clauses = c, !.repeat_state = b]
           /\ q = r.quantifier_count /\ f = r.filler_clause
        \/ s = [e EXCEPT !.quantifier_count = q] /\ f = r.filler_clause
        \/ s = [e EXCEPT !.quantifier_count = q, !.filler_clause = f]
    OBVIOUS
  <1>. HIDE DEF e
  <1>. QED  BY <1>1, <1>2 DEF Runtimes, Writes

\* Each message of the formula is turned into its text.
LEMMA SaysRight ==
    ASSUME NEW r \in Runtimes, NEW m \in Messages, NEW p \in Messages,
           r.state \in {"READING_PREFIX", "READING_EXISTS", "READING_FORALL",
                        "READING_CLAUSE", "READING_MATRIX"},
           m.type \in {"QUANTIFIER", "LITERAL"}, Follows(StageOf(r.state), m),
           ~(r.state = "READING_PREFIX" /\ m.type = "LITERAL"),
           \/ r.state = StateBehind(p)
           \/ r.state = "READING_MATRIX" /\ StateBehind(p) = "READING_PREFIX"
    PROVE  LET s == RunState(r, m)
           IN  /\ Writes(r, s, Says(p, m),
                         r.quantifier_count +
                           (IF m.type = "QUANTIFIER" /\ m.data # 0 THEN 1 ELSE 0),
                         IF /\ r.state = "READING_PREFIX" /\ r.quantifier_count = 0
                            /\ m.data > 0
                         THEN UnitTautology(m.data, -m.data) ELSE r.filler_clause)
               /\ s.state = StateBehind(m)
  <1>. DEFINE s == RunState(r, m)
              block == p.type = "QUANTIFIER" /\ p.data # 0
              clause == p.type = "LITERAL" /\ p.data # 0
              q == r.quantifier_count
              f == r.filler_clause
  <1>1. /\ m.data \in Int /\ -m.data \in Int /\ p.data \in Int /\ q \in Nat /\ q + 1 \in Nat
        /\ q + 0 = q /\ f \in Seq(Lexemes) /\ r.written_clauses + 1 \in Nat
        /\ r.repeat_state \in BOOLEAN
    BY DEF Messages, Runtimes
  <1>2. s.state = StateBehind(m)
    <2>1. s.state = NextState(r.state, m, Enough(r))
      BY RunFacts DEF Ran
    <2>. HIDE DEF s
    <2>. QED  BY <1>1, <2>1 DEF NextState, StateBehind, Follows, StageOf
  <1>3. /\ r.state = "READING_PREFIX" => ~block /\ p.type # "LITERAL"
        /\ r.state = "READING_EXISTS" => block /\ p.data > 0
        /\ r.state = "READING_FORALL" => block /\ ~(p.data > 0)
        /\ r.state = "READING_CLAUSE" => ~block /\ clause
        /\ r.state = "READING_MATRIX" => ~block /\ ~clause
    BY <1>1 DEF StateBehind
  <1>4. Says(p, m) \in Seq(Lexemes)
    BY SaysType
  <1>5. CASE r.state = "READING_PREFIX"
    <2>1. m.type = "QUANTIFIER" /\ m.data # 0 /\ Says(p, m) = Opened(m.data)
      BY <1>3, <1>5 DEF Says, Follows, StageOf
    <2>2. s = READING_PREFIX(r, m)
      BY <1>5 DEF RunState
    <2>3. CASE m.data > 0
      <3>. DEFINE u == UnitTautology(m.data, -m.data)
                  g == IF q = 0 THEN u ELSE f
                  e == Emit(r, m, Says(p, m))
      <3>1. u \in Seq(Lexemes) /\ g \in Seq(Lexemes)
        BY <1>1, LexemeType DEF UnitTautology
      <3>2. Says(p, m) = <<Exists, SP, Num(m.data)>>
        BY <2>1, <2>3 DEF Opened
      <3>3. s = [e EXCEPT !.quantifier_count = @ + 1,
                          !.filler_clause = IF r.quantifier_count = 0 THEN u ELSE @]
        <4>. DEFINE z == <<Exists, SP, Num(m.data)>>
        <4>1. s = [Emit(r, m, z) EXCEPT !.quantifier_count = @ + 1,
                       !.filler_clause = IF r.quantifier_count = 0 THEN u ELSE @]
          <5>1. READING_PREFIX(r, m) =
                  [Emit(r, m, <<Exists, SP, Num(m.data)>>)
                     EXCEPT !.quantifier_count = @ + 1,
                            !.filler_clause = IF r.quantifier_count = 0
                                              THEN UnitTautology(m.data, -m.data) ELSE @]
            BY <1>1, <2>1, <2>3 DEF READING_PREFIX
          <5>. QED  BY <2>2, <5>1
        <4>2. z = Says(p, m)
          BY <3>2
        <4>. HIDE DEF z, s
        <4>. QED  BY <4>1, <4>2
      <3>4. /\ e \in Runtimes /\ e.quantifier_count = q /\ e.filler_clause = f
        BY <1>4, EmitFacts
      <3>. HIDE DEF u, s, e
      <3>5. s = [e EXCEPT !.quantifier_count = q + 1, !.filler_clause = g]
        BY <3>3, <3>4 DEF Runtimes
      <3>. HIDE DEF g, q, f
      <3>6. Writes(r, s, Says(p, m), q + 1, g)
        BY <1>1, <1>4, <3>1, <3>5, EmitWrites DEF e
      <3>. QED  BY <1>2, <1>5, <2>1, <2>3, <3>6 DEF s, g, u, q, f
    <2>4. CASE m.data < 0
      <3>. DEFINE e == Emit(r, m, Says(p, m))
      <3>1. Says(p, m) = <<Forall, SP, Num(-m.data)>>
        BY <1>1, <2>1, <2>4 DEF Opened
      <3>6. ~(m.data > 0)
        BY <1>1, <2>4
      <3>2. s = [e EXCEPT !.quantifier_count = @ + 1]
        <4>. DEFINE z == <<Forall, SP, Num(-m.data)>>
        <4>1. s = [Emit(r, m, z) EXCEPT !.quantifier_count = @ + 1]
          BY <2>1, <2>2, <2>4, <3>6 DEF READING_PREFIX
        <4>2. z = Says(p, m)
          BY <3>1
        <4>. HIDE DEF z, s
        <4>. QED  BY <4>1, <4>2
      <3>3. /\ e \in Runtimes /\ e.quantifier_count = q
        BY <1>4, EmitFacts
      <3>. HIDE DEF s, e
      <3>4. s = [e EXCEPT !.quantifier_count = q + 1]
        BY <3>2, <3>3 DEF Runtimes
      <3>. HIDE DEF q
      <3>5. Writes(r, s, Says(p, m), q + 1, f)
        BY <1>1, <1>4, <3>4, EmitWrites DEF e
      <3>. QED  BY <1>2, <2>1, <3>5, <3>6 DEF s, q
    <2>. QED  BY <1>1, <2>1, <2>3, <2>4
  <1>6. CASE r.state \in {"READING_EXISTS", "READING_FORALL"}
    <2>. DEFINE continues == IF r.state = "READING_EXISTS" THEN m.data > 0 ELSE m.data < 0
                e == Emit(r, m, Says(p, m))
    <2>1. s = ReadingBlock(r, m, continues)
      BY <1>6 DEF RunState, READING_EXISTS, READING_FORALL
    <2>2. m.data # 0 => (continues <=> ((m.data > 0) <=> (p.data > 0)))
      BY <1>1, <1>3, <1>6
    <2>3. block /\ r.state # "READING_PREFIX"
      BY <1>3, <1>6
    <2>. HIDE DEF continues, block
    <2>4. CASE m.type = "QUANTIFIER" /\ m.data = 0
      <3>1. Says(p, m) = <<SP, Num(0), NL>>
        BY <2>3, <2>4 DEF Says, Closing, block
      <3>2. s = e
        BY <2>1, <2>4, <3>1 DEF ReadingBlock
      <3>3. Writes(r, s, Says(p, m), q, f)
        BY <1>1, <1>4, <3>2, EmitWrites
      <3>. QED  BY <1>1, <1>2, <2>3, <2>4, <3>3
    <2>5. CASE m.type = "QUANTIFIER" /\ m.data # 0
      <3>. DEFINE b == IF m.data > 0 THEN <<Exists, SP, Num(m.data)>>
                                     ELSE <<Forall, SP, Num(-m.data)>>
                  x == IF continues
                       THEN <<SP, Num(IF m.data < 0 THEN -m.data ELSE m.data)>>
                       ELSE <<SP, Num(0), NL>> \o b
      <3>1. Says(p, m) = IF continues THEN <<SP, Num(Abs(m.data))>>
                         ELSE Closing \o Opened(m.data)
        BY <2>2, <2>3, <2>5 DEF Says, block
      <3>2. Says(p, m) = x
        BY <3>1 DEF Abs, Closing, Opened
      <3>3. s = [Emit(r, m, x) EXCEPT !.quantifier_count = @ + 1]
        BY <2>1, <2>5 DEF ReadingBlock
      <3>. HIDE DEF x, s
      <3>4. e \in Runtimes /\ e.quantifier_count = q /\ e = Emit(r, m, x)
        BY <1>4, <3>2, EmitFacts
      <3>. HIDE DEF e
      <3>5. s = [e EXCEPT !.quantifier_count = q + 1]
        BY <3>3, <3>4 DEF Runtimes
      <3>. HIDE DEF q
      <3>6. Writes(r, s, Says(p, m), q + 1, f)
        BY <1>1, <1>4, <3>5, EmitWrites DEF e
      <3>. QED  BY <1>2, <2>3, <2>5, <3>6 DEF s, q
    <2>6. CASE m.type = "LITERAL"
      <3>1. Says(p, m) = Closing \o <<Num(m.data)>>
        BY <2>3, <2>6 DEF Says, block
      <3>2. Closing \o <<Num(m.data)>> = <<SP, Num(0), NL, Num(m.data)>>
        <4>1. /\ SP \in Lexemes /\ Num(0) \in Lexemes /\ NL \in Lexemes
              /\ Num(m.data) \in Lexemes
          BY <1>1, LexemeType
        <4>. QED  BY <4>1, Fourth DEF Closing
      <3>3. s = e
        BY <2>1, <2>6, <3>1, <3>2 DEF ReadingBlock
      <3>4. Writes(r, s, Says(p, m), q, f)
        BY <1>1, <1>4, <3>3, EmitWrites
      <3>. QED  BY <1>1, <1>2, <2>3, <2>6, <3>4
    <2>. QED  BY <2>4, <2>5, <2>6
  <1>7. CASE r.state = "READING_CLAUSE"
    <2>. DEFINE e == Emit(r, m, Says(p, m))
                c == r.written_clauses + 1
    <2>1. s = READING_CLAUSE(r, m) /\ m.type = "LITERAL"
      BY <1>7 DEF RunState, Follows, StageOf
    <2>2. CASE m.data = 0
      <3>1. Says(p, m) = <<SP, Num(0), NL>>
        BY <1>3, <1>7, <2>1, <2>2 DEF Says, Closing
      <3>2. s = [e EXCEPT !.written_clauses = @ + 1]
        BY <2>1, <2>2, <3>1 DEF READING_CLAUSE
      <3>3. e \in Runtimes /\ e.written_clauses = r.written_clauses
        BY <1>4, EmitFacts
      <3>. HIDE DEF s, e
      <3>4. s = [e EXCEPT !.written_clauses = c]
        BY <3>2, <3>3 DEF Runtimes
      <3>. HIDE DEF c
      <3>5. Writes(r, s, Says(p, m), q, f)
        BY <1>1, <1>4, <3>4, EmitWrites DEF e, c
      <3>. QED  BY <1>1, <1>2, <1>7, <2>1, <3>5 DEF s
    <2>3. CASE m.data # 0
      <3>1. Says(p, m) = <<SP, Num(m.data)>>
        BY <1>3, <1>7, <2>1, <2>3 DEF Says
      <3>2. s = e
        BY <2>1, <2>3, <3>1 DEF READING_CLAUSE
      <3>3. Writes(r, s, Says(p, m), q, f)
        BY <1>1, <1>4, <3>2, EmitWrites
      <3>. QED  BY <1>1, <1>2, <1>7, <2>1, <3>3
    <2>. QED  BY <2>2, <2>3
  <1>8. CASE r.state = "READING_MATRIX"
    <2>. DEFINE e == Emit(r, m, Says(p, m))
    <2>1. s = READING_MATRIX(r, m) /\ m.type = "LITERAL"
      BY <1>8 DEF RunState, Follows, StageOf
    <2>2. Says(p, m) = <<Num(m.data)>>
      BY <1>3, <1>8, <2>1 DEF Says
    <2>3. s = e
      BY <2>1, <2>2 DEF READING_MATRIX
    <2>4. Writes(r, s, Says(p, m), q, f)
      BY <1>1, <1>4, <2>3, EmitWrites
    <2>. QED  BY <1>1, <1>2, <1>8, <2>1, <2>4
  <1>. QED  BY <1>5, <1>6, <1>7, <1>8

\* The other messages, and a literal that is handed on, write nothing new.
LEMMA OthersWrite ==
    ASSUME NEW r \in Runtimes, NEW m \in Messages,
           \/ /\ r.state \in {"READING_PREFIX", "READING_MATRIX"}
              /\ m.type \in {"FORK", "SOLVE"}
           \/ r.state = "READING_PREFIX" /\ m.type = "LITERAL"
           \/ r.state = "WORKING"
    PROVE  LET s == RunState(r, m)
           IN  /\ s.quantifier_count = r.quantifier_count
               /\ s.filler_clause = r.filler_clause
               /\ m.type = "FORK" /\ r.state # "WORKING" => s.outbuf = <<>>
  <1>. DEFINE s == RunState(r, m)
              q == r.quantifier_count
              f == r.filler_clause
              e == Emit(r, m, <<>>)
  <1>1. /\ q \in Nat /\ f \in Seq(Lexemes) /\ r.written_clauses + 1 \in Nat
        /\ <<>> \in Seq(Lexemes) /\ TRUE \in BOOLEAN /\ FALSE \in BOOLEAN /\ 0 \in Nat
    BY DEF Runtimes
  <1>2. CASE r.state = "READING_PREFIX" /\ m.type = "FORK"
    <2>1. s = [e EXCEPT !.outbuf_len = "again"]
      BY <1>2 DEF RunState, READING_PREFIX
    <2>2. Writes(r, s, <<>>, q, f)
      <3>. HIDE DEF s, q, f
      <3>. QED  BY <1>1, <2>1, EmitWrites DEF q, f
    <2>. QED  BY <2>2 DEF Writes
  <1>3. CASE r.state = "READING_PREFIX" /\ m.type = "SOLVE"
    <2>1. s = [e EXCEPT !.repeat_state = TRUE]
      BY <1>3 DEF RunState, READING_PREFIX
    <2>2. Writes(r, s, <<>>, q, f)
      <3>. HIDE DEF s, q, f
      <3>. QED  BY <1>1, <2>1, EmitWrites DEF q, f
    <2>. QED  BY <1>3, <2>2 DEF Writes
  <1>4. CASE r.state = "READING_PREFIX" /\ m.type = "LITERAL"
    <2>1. s = e
      BY <1>4 DEF RunState, READING_PREFIX
    <2>2. Writes(r, s, <<>>, q, f)
      <3>. HIDE DEF s, q, f
      <3>. QED  BY <1>1, <2>1, EmitWrites DEF q, f
    <2>. QED  BY <1>4, <2>2 DEF Writes
  <1>5. CASE r.state = "READING_MATRIX" /\ m.type = "FORK"
    <2>1. s = [e EXCEPT !.outbuf_len = "again"]
      BY <1>5 DEF RunState, READING_MATRIX
    <2>2. Writes(r, s, <<>>, q, f)
      <3>. HIDE DEF s, q, f
      <3>. QED  BY <1>1, <2>1, EmitWrites DEF q, f
    <2>. QED  BY <2>2 DEF Writes
  <1>6. CASE r.state = "READING_MATRIX" /\ m.type = "SOLVE" /\ Enough(r)
    <2>1. s = [e EXCEPT !.repeat_state = FALSE]
      BY <1>6 DEF RunState, READING_MATRIX
    <2>2. Writes(r, s, <<>>, q, f)
      <3>. HIDE DEF s, q, f
      <3>. QED  BY <1>1, <2>1, EmitWrites DEF q, f
    <2>. QED  BY <1>6, <2>2 DEF Writes
  <1>7. CASE r.state = "READING_MATRIX" /\ m.type = "SOLVE" /\ ~Enough(r)
    <2>. DEFINE g == Emit(r, m, f)
                c == r.written_clauses + 1
    <2>1. s = [g EXCEPT !.written_clauses = @ + 1, !.repeat_state = TRUE]
      BY <1>7 DEF RunState, READING_MATRIX
    <2>2. g \in Runtimes /\ g.written_clauses = r.written_clauses
      BY <1>1, EmitFacts
    <2>3. s = [g EXCEPT !.written_clauses = c, !.repeat_state = TRUE]
      <3>. HIDE DEF s, g
      <3>. QED  BY <2>1, <2>2 DEF Runtimes
    <2>4. Writes(r, s, f, q, f)
      <3>. HIDE DEF s, q, f, c
      <3>. QED  BY <1>1, <2>3, EmitWrites DEF q, f, c
    <2>. QED  BY <1>7, <2>4 DEF Writes
  <1>8. CASE r.state = "WORKING"
    <2>1. s = [r EXCEPT !.outbuf_len = "closed"]
      BY <1>8 DEF RunState, WORKING
    <2>. HIDE DEF s
    <2>. QED  BY <1>8, <2>1 DEF Runtimes, s
  <1>. QED  BY <1>2, <1>3, <1>4, <1>5, <1>6, <1>7, <1>8

-----------------------------------------------------------------------------
(***************************************************************************)
(* The steps of the followed process.                                      *)
(***************************************************************************)
\* What read() returns leaves the buffer.
LEMMA ReturnText ==
    ASSUME TypeOK, NEW r \in Runtimes, NEW n \in Nat \ {0}, ReturnFromRead(r, n),
           r.outbuf_len = "closed" => r.outbuf = <<>>
    PROVE  /\ text' \o rt'.outbuf = text \o r.outbuf
           /\ rt'.quantifier_count = r.quantifier_count
  <1>. DEFINE taken == IF Len(r.outbuf) < n THEN Len(r.outbuf) ELSE n
              empty == r.outbuf_len = "closed" \/ r.outbuf = <<>>
              rest == SubSeq(r.outbuf, taken + 1, Len(r.outbuf))
              given == SubSeq(r.outbuf, 1, taken)
  <1>1. /\ r.outbuf \in Seq(Lexemes) /\ Len(r.outbuf) \in Nat
        /\ taken \in 0..Len(r.outbuf) /\ text \in Seq(Lexemes)
    BY DEF Runtimes, TypeOK
  <1>2. /\ text' = IF empty THEN text ELSE text \o given
        /\ rt' = IF empty THEN r ELSE [r EXCEPT !.outbuf = rest]
    BY DEF ReturnFromRead
  <1>. HIDE DEF taken
  <1>3. given \in Seq(Lexemes) /\ rest \in Seq(Lexemes)
    BY <1>1
  <1>4. given \o rest = r.outbuf
    <2>. DEFINE s == r.outbuf
    <2>1. /\ s \in Seq(Lexemes) /\ 1 \in 1..Len(s) + 1 /\ taken \in 1 - 1..Len(s)
          /\ Len(s) \in taken..Len(s)
      BY <1>1
    <2>. HIDE DEF s
    <2>2. SubSeq(s, 1, taken) \o SubSeq(s, taken + 1, Len(s)) = SubSeq(s, 1, Len(s))
      BY <2>1, ConcatAdjacentSubSeq, Zenon
    <2>3. given \o rest = SubSeq(r.outbuf, 1, Len(r.outbuf))
      BY <2>2 DEF s
    <2>. QED  BY <1>1, <2>3, SubSeqFull
  <1>. HIDE DEF given, rest
  <1>5. /\ rt'.quantifier_count = r.quantifier_count
        /\ rt'.outbuf = IF empty THEN r.outbuf ELSE rest
    BY <1>2 DEF Runtimes
  <1>6. (text \o given) \o rest = text \o (given \o rest)
    BY <1>1, <1>3, ConcatText
  <1>. QED  BY <1>2, <1>4, <1>5, <1>6

\* The shape of the text.
LEMMA TextShape ==
    ASSUME TypeOK, QueueInv
    PROVE  /\ Taken \in Seq(Messages) /\ Rendered(Taken) \in Seq(Lexemes)
           /\ ProblemLine \in Seq(Lexemes) /\ ProblemLine \o Rendered(Taken) \in Seq(Lexemes)
           /\ rt.filler_clause \in Seq(Lexemes) /\ rt.written_clauses \in Nat
           /\ ClauseEnds(Taken) \in Nat /\ Fillers \in Int /\ Header \in Messages
           /\ rt.outbuf \in Seq(Lexemes) /\ Before(Taken) \in Messages
           /\ rt.quantifier_count \in Nat
  <1>1. Taken \in Seq(Messages) /\ Header \in Messages
    BY TakenFacts, MessageType
  <1>2. Rendered(Taken) \in Seq(Lexemes) /\ Before(Taken) \in Messages
    BY <1>1, RenderedGrows
  <1>3. ProblemLine \in Seq(Lexemes)
    BY LexemeType, RuntimeAssumption, LibraryAssumption DEF ProblemLine, HeaderClauses
  <1>4. /\ rt.filler_clause \in Seq(Lexemes) /\ rt.written_clauses \in Nat
        /\ rt.outbuf \in Seq(Lexemes) /\ rt.quantifier_count \in Nat
    BY DEF TypeOK, Runtimes
  <1>5. ClauseEnds(Taken) \in Nat
    BY <1>1, EndsFinite
  <1>6. ProblemLine \o Rendered(Taken) \in Seq(Lexemes)
    BY <1>2, <1>3, ConcatProperties
  <1>. QED  BY <1>1, <1>2, <1>3, <1>4, <1>5, <1>6 DEF Fillers

\* Nothing new is written.
LEMMA TextKept ==
    ASSUME TextInv, Taken' = Taken, text' \o rt'.outbuf = text \o rt.outbuf,
           rt'.written_clauses = rt.written_clauses,
           rt'.filler_clause = rt.filler_clause,
           Fillers = 0 \/ UNCHANGED <<role, msg>>
    PROVE  TextInv'
  <1>1. Fillers' = Fillers
    BY DEF Fillers
  <1>. QED  BY <1>1 DEF TextInv

\* A message of the formula becomes text.
LEMMA TextTakes ==
    ASSUME TypeOK, QueueInv, TextInv, Fillers = 0, NEW m \in Messages,
           Taken' = Append(Taken, m),
           text' \o rt'.outbuf = (text \o rt.outbuf) \o Says(Before(Taken), m),
           rt'.written_clauses = rt.written_clauses + (IF m = Literal(0) THEN 1 ELSE 0)
    PROVE  TextInv' /\ Fillers' = 0
  <1>. DEFINE a == ProblemLine
              b == Rendered(Taken)
              c == Says(Before(Taken), m)
              d == IF m = Literal(0) THEN 1 ELSE 0
  <1>1. /\ Taken \in Seq(Messages) /\ a \in Seq(Lexemes) /\ b \in Seq(Lexemes)
        /\ a \o b \in Seq(Lexemes) /\ Before(Taken) \in Messages
        /\ rt.written_clauses \in Nat /\ ClauseEnds(Taken) \in Nat
    BY TextShape
  <1>2. c \in Seq(Lexemes)
    BY <1>1, SaysType
  <1>3. Rendered(Taken') = b \o c
    BY <1>1, RenderedGrows
  <1>4. ClauseEnds(Taken') = ClauseEnds(Taken) + d
    BY <1>1, EndsAppend
  <1>5. Fillers' = 0
    <2>1. rt.written_clauses - ClauseEnds(Taken) = 0 /\ d \in Nat
      BY DEF Fillers
    <2>. HIDE DEF d
    <2>2. (rt.written_clauses + d) - (ClauseEnds(Taken) + d) = 0
      BY <1>1, <2>1
    <2>. QED  BY <1>4, <2>2 DEF Fillers, d
  <1>. HIDE DEF a, b, c
  <1>6. \A t : (a \o b) \o Filling(0, t) = a \o b
    BY <1>1, NothingSaid, ConcatEmptySeq
  <1>7. text \o rt.outbuf = a \o b
    BY <1>6 DEF TextInv, a, b
  <1>8. (a \o b) \o c = a \o (b \o c) /\ a \o (b \o c) \in Seq(Lexemes)
    <2>1. (a \o b) \o c = a \o (b \o c)
      BY <1>1, <1>2, ConcatText
    <2>2. (a \o b) \o c \in Seq(Lexemes)
      BY <1>1, <1>2, ConcatProperties
    <2>. QED  BY <2>1, <2>2
  <1>9. \A t : (a \o (b \o c)) \o Filling(0, t) = a \o (b \o c)
    BY <1>8, NothingSaid, ConcatEmptySeq
  <1>10. text' \o rt'.outbuf = a \o Rendered(Taken')
    BY <1>3, <1>7, <1>8 DEF c
  <1>11. text' \o rt'.outbuf = (a \o Rendered(Taken')) \o Filling(0, rt'.filler_clause)
    BY <1>3, <1>9, <1>10
  <1>12. text' \o rt'.outbuf
           = (ProblemLine \o Rendered(Taken')) \o Filling(Fillers', rt'.filler_clause)
    BY <1>5, <1>11 DEF a
  <1>13. Fillers' >= 0 /\ ~(Fillers' > 0)
    BY <1>5
  <1>. QED  BY <1>5, <1>12, <1>13 DEF TextInv, ProblemLine

\* A filler clause is written.
LEMMA TextFills ==
    ASSUME TypeOK, QueueInv, TextInv, Taken' = Taken,
           text' \o rt'.outbuf = (text \o rt.outbuf) \o rt.filler_clause,
           rt'.written_clauses = rt.written_clauses + 1,
           rt'.filler_clause = rt.filler_clause,
           role' = "child", msg'.type = "SOLVE", ~Enough(rt)
    PROVE  TextInv'
  <1>. DEFINE a == ProblemLine \o Rendered(Taken)
              f == rt.filler_clause
              k == Fillers
  <1>1. /\ a \in Seq(Lexemes) /\ f \in Seq(Lexemes) /\ k \in Int /\ k >= 0
        /\ rt.written_clauses \in Nat /\ ClauseEnds(Taken) \in Nat
    BY TextShape DEF TextInv
  <1>2. Fillers' = k + 1
    BY <1>1 DEF Fillers
  <1>3. text \o rt.outbuf = a \o Filling(k, f)
    BY DEF TextInv
  <1>4. rt'.written_clauses <= HeaderClauses
    BY <1>1, LibraryAssumption, RuntimeAssumption DEF Enough, HeaderClauses
  <1>. HIDE DEF k, f
  <1>5. k \in Nat
    BY <1>1
  <1>6. Filling(k, f) \in Seq(Lexemes) /\ Filling(k + 1, f) = Filling(k, f) \o f
    BY <1>1, <1>5, FillingGrows
  <1>. HIDE DEF a
  <1>7. (a \o Filling(k, f)) \o f = a \o (Filling(k, f) \o f)
    BY <1>1, <1>6, ConcatText
  <1>8. text' \o rt'.outbuf = a \o Filling(Fillers', f)
    BY <1>2, <1>3, <1>6, <1>7 DEF f
  <1>9. Fillers' >= 0
    BY <1>2, <1>5
  <1>10. text' \o rt'.outbuf = (ProblemLine \o Rendered(Taken')) \o Filling(Fillers', rt'.filler_clause)
    BY <1>8 DEF a, f
  <1>. QED  BY <1>4, <1>9, <1>10 DEF TextInv, ProblemLine

\* A step that moves no message.
LEMMA NoneMoved ==
    ASSUME DeliveryInv, Runtime, UNCHANGED <<wstream, cstream, msg, role>>,
           Hand' = Hand, eof => eof'
    PROVE  QueueInv' /\ Taken' = Taken /\ ScriptInv' /\ CallsInv' /\ Script' = Script
  <1>1. UNCHANGED <<lpc, call, lib, forks, prefix, clauses, open, cube>>
    BY DEF Runtime
  <1>2. Script' = Script /\ ScriptInv' /\ (Whole' <=> Whole)
    BY <1>1, ScriptStays DEF DeliveryInv
  <1>3. Stream' = Stream
    BY DEF Stream, W, C
  <1>4. role = "child" /\ msg.type = "SOLVE" => lpc' = "solving" \/ eof'
    BY <1>1 DEF DeliveryInv, QueueInv
  <1>5. QueueInv' /\ Taken' = Taken
    BY <1>2, <1>3, <1>4, QueueStays DEF DeliveryInv
  <1>6. CallsInv'
    BY <1>1, <1>2 DEF DeliveryInv, CallsInv, Whole
  <1>. QED  BY <1>2, <1>5, <1>6

LEMMA ReadNeedsMessageText ==
    ASSUME CommonInv, DeliveryInv, ReadNeedsMessage
    PROVE  DeliveryInv'
  <1>1. /\ Runtime /\ rpc = "solver" /\ rpc' = "fetch" /\ rt.outbuf = <<>>
        /\ UNCHANGED <<rt, msg, role, sibling, text, eof, wstream, cstream, toParent>>
    BY DEF ReadNeedsMessage, Pending
  <1>2. Hand' = Hand
    BY <1>1 DEF Hand
  <1>3. QueueInv' /\ Taken' = Taken /\ ScriptInv' /\ CallsInv'
    BY <1>1, <1>2, NoneMoved
  <1>4. TextInv'
    BY <1>1, <1>3, TextKept DEF DeliveryInv
  <1>5. StateInv'
    <2>1. First(Taken)' = First(Taken)
      BY <1>3 DEF First
    <2>. QED  BY <1>1, <1>3, <2>1 DEF DeliveryInv, StateInv
  <1>. QED  BY <1>3, <1>4, <1>5 DEF DeliveryInv

LEMMA ReadBufferedText ==
    ASSUME CommonInv, DeliveryInv, NEW n \in ReadSizes, ReadBuffered(n)
    PROVE  DeliveryInv'
  <1>1. /\ Runtime /\ ReturnFromRead(rt, n) /\ rpc = "solver"
        /\ UNCHANGED <<wstream, cstream, msg, role, sibling>>
    BY DEF ReadBuffered
  <1>2. /\ n \in Nat \ {0} /\ TypeOK /\ rt \in Runtimes /\ RuntimeInv
        /\ rt.outbuf_len = "closed" => rt.outbuf = <<>>
    BY SerializationAssumption DEF CommonInv, BasicInv, TypeOK, OrderInv, RuntimeInv
  <1>3. /\ rpc' = "solver" /\ Kept(rt, rt')
        /\ eof' = (rt.outbuf_len = "closed" \/ rt.outbuf = <<>>)
    BY <1>1, <1>2, ReturnFacts
  <1>4. /\ text' \o rt'.outbuf = text \o rt.outbuf
        /\ rt'.quantifier_count = rt.quantifier_count
    BY <1>1, <1>2, ReturnText
  <1>5. Hand' = Hand /\ (eof => eof')
    BY <1>1, <1>2, <1>3 DEF Hand, RuntimeInv
  <1>6. QueueInv' /\ Taken' = Taken /\ ScriptInv' /\ CallsInv'
    BY <1>1, <1>5, NoneMoved
  <1>7. TextInv'
    BY <1>1, <1>3, <1>4, <1>6, TextKept DEF DeliveryInv, Kept
  <1>8. StateInv'
    <2>1. First(Taken)' = First(Taken)
      BY <1>6 DEF First
    <2>. QED  BY <1>1, <1>3, <1>4, <1>6, <2>1 DEF DeliveryInv, StateInv, Kept, Enough
  <1>. QED  BY <1>6, <1>7, <1>8 DEF DeliveryInv

\* SOLVE once more: a filler clause, or the end.
LEMMA ReadRepeatedText ==
    ASSUME CommonInv, DeliveryInv, NEW n \in ReadSizes, ReadRepeated(n)
    PROVE  DeliveryInv'
  <1>. DEFINE q == [rt EXCEPT !.outbuf_len = "len"]
              r == RunState(q, msg)
  <1>1. /\ Runtime /\ ReturnFromRead(r, n) /\ rt.repeat_state /\ rpc = "solver"
        /\ UNCHANGED <<wstream, cstream, msg, role, sibling>> /\ rt.outbuf = <<>>
    BY DEF ReadRepeated, Pending
  <1>2. /\ n \in Nat \ {0} /\ TypeOK /\ rt \in Runtimes /\ RuntimeInv
        /\ msg \in Messages /\ SeedInv /\ QueueInv /\ text \in Seq(Lexemes)
        /\ role \in {"seed", "child"}
    BY SerializationAssumption DEF CommonInv, BasicInv, TypeOK, OrderInv, DeliveryInv
  <1>3. /\ msg.type = "SOLVE" /\ rt.state = "READING_MATRIX" /\ ~eof /\ role = "child"
    BY <1>1, <1>2 DEF RuntimeInv, SeedInv
  <1>4. /\ q \in Runtimes /\ q.state = "READING_MATRIX" /\ q.outbuf_len = "len"
        /\ q.filler_clause = rt.filler_clause /\ q.quantifier_count = rt.quantifier_count
        /\ q.written_clauses = rt.written_clauses
    BY <1>2, <1>3 DEF Runtimes
  <1>5. Enough(q) <=> Enough(rt)
    BY <1>4 DEF Enough
  <1>. HIDE DEF q
  <1>6. Ran(q, msg, r) /\ Leaves(q, msg, r)
    BY <1>2, <1>4, RunFacts
  <1>7. /\ r.quantifier_count = rt.quantifier_count /\ r.filler_clause = rt.filler_clause
    BY <1>2, <1>3, <1>4, OthersWrite
  <1>. HIDE DEF r
  <1>8. /\ r \in Runtimes /\ r.outbuf_len = "len"
        /\ r.state = IF Enough(rt) THEN "WORKING" ELSE "READING_MATRIX"
        /\ r.outbuf = IF Enough(rt) THEN <<>> ELSE rt.filler_clause
        /\ r.written_clauses = rt.written_clauses + (IF Enough(rt) THEN 0 ELSE 1)
    BY <1>3, <1>4, <1>5, <1>6 DEF Ran, Leaves, NextState, EndsClause
  <1>9. /\ rpc' = "solver" /\ Kept(r, rt')
    BY <1>1, <1>2, <1>8, ReturnFacts
  <1>10. /\ text' \o rt'.outbuf = text \o r.outbuf
         /\ rt'.quantifier_count = rt.quantifier_count
         /\ rt'.filler_clause = rt.filler_clause
    BY <1>1, <1>2, <1>7, <1>8, <1>9, ReturnText DEF Kept
  <1>11. Hand' = Hand /\ (eof => eof')
    BY <1>1, <1>3, <1>9 DEF Hand
  <1>12. QueueInv' /\ Taken' = Taken /\ ScriptInv' /\ CallsInv'
    BY <1>1, <1>11, NoneMoved
  <1>13. First(Taken)' = First(Taken)
    BY <1>12 DEF First
  <1>14. CASE Enough(rt)
    <2>1. rt'.written_clauses = rt.written_clauses /\ rt'.state = "WORKING"
      BY <1>2, <1>8, <1>9, <1>14 DEF Kept, Runtimes
    <2>2. TextInv'
      BY <1>1, <1>8, <1>10, <1>12, <1>14, <2>1, TextKept DEF DeliveryInv
    <2>3. Enough(rt')
      BY <1>14, <2>1 DEF Enough
    <2>4. StateInv'
      BY <1>1, <1>3, <1>9, <1>10, <1>12, <1>13, <2>1, <2>3 DEF DeliveryInv, StateInv
    <2>. QED  BY <1>12, <2>2, <2>4 DEF DeliveryInv
  <1>15. CASE ~Enough(rt)
    <2>1. rt'.written_clauses = rt.written_clauses + 1 /\ rt'.state = rt.state
      BY <1>3, <1>8, <1>9, <1>15 DEF Kept
    <2>2. text \o rt.outbuf = text
      BY <1>1, <1>2, ConcatEmptySeq
    <2>3. TextInv'
      BY <1>1, <1>2, <1>3, <1>8, <1>10, <1>12, <1>15, <2>1, <2>2, TextFills DEF DeliveryInv
    <2>4. StateInv'
      BY <1>1, <1>3, <1>9, <1>10, <1>12, <1>13, <2>1 DEF DeliveryInv, StateInv
    <2>. QED  BY <1>12, <2>3, <2>4 DEF DeliveryInv
  <1>. QED  BY <1>14, <1>15

\* The message in front of the stream comes into the runtime's hands.
LEMMA MessageFetched ==
    ASSUME TypeOK, TypeOK', QueueInv, Stream # <<>>, msg' = Stream[1],
           Stream' = Tail(Stream), Script' = Script, role' = role,
           rpc = "fetch", rpc' = "dispatch",
           \/ msg'.type \in {"QUANTIFIER", "LITERAL"}
           \/ msg'.type \in {"FORK", "SOLVE"} /\ Tail(Stream) = <<>>,
           role = "child" /\ msg'.type = "SOLVE" => lpc' = "solving"
    PROVE  QueueInv' /\ Taken' = Taken
  <1>. DEFINE a == Stream
              b == Stream'
              n == Len(Script)
  <1>1. /\ a \in Seq(Messages) /\ Len(a) \in Nat /\ n \in Nat /\ a # <<>>
        /\ b = Tail(a) /\ msg' = a[1]
    BY ScriptType
  <1>2. Hand = 0 /\ Hand' = IF msg'.type \in {"QUANTIFIER", "LITERAL"} THEN 1 ELSE 0
    BY DEF Hand
  <1>3. /\ Done = n - (Hand + Ahead) /\ Done >= 0
        /\ Done' = n - (Hand' + Ahead')
        /\ \A i \in 1..Ahead : a[i] = Script[Done + Hand + i]
    BY DEF Done, QueueInv
  <1>. HIDE DEF a, b, n
  <1>4. /\ b \in Seq(Messages) /\ Len(b) = Len(a) - 1 /\ Len(a) >= 1
        /\ \A i \in 1..Len(b) : b[i] = a[i + 1]
    BY <1>1
  <1>5. CASE msg'.type \in {"QUANTIFIER", "LITERAL"}
    <2>1. Ended' <=> Ended
      <3>1. CASE Len(a) = 1
        <4>1. b = <<>>
          BY <1>1, <3>1, OneTaken
        <4>. QED  BY <1>1, <1>5, <3>1, <4>1 DEF Ended, a, b
      <3>2. CASE Len(a) # 1
        <4>1. Len(b) \in 1..Len(b) /\ Len(b) + 1 = Len(a)
          BY <1>1, <1>4, <3>2
        <4>2. b # <<>> /\ b[Len(b)] = a[Len(a)]
          BY <1>4, <4>1
        <4>. QED  BY <1>1, <4>2 DEF Ended, a, b
      <3>. QED  BY <3>1, <3>2
    <2>2. Ahead' = Ahead - 1 /\ Ahead \in 1..Len(a) /\ Ahead' <= Len(b)
      <3>1. CASE Ended
        <4>1. Len(a) # 1
          BY <1>1, <1>5, <3>1 DEF Ended, a
        <4>2. Ahead = Len(a) - 1 /\ Ahead' = Len(b) - 1
          BY <2>1, <3>1 DEF Ahead, a, b
        <4>. QED  BY <1>1, <1>4, <4>1, <4>2
      <3>2. CASE ~Ended
        <4>1. Ahead = Len(a) /\ Ahead' = Len(b)
          BY <2>1, <3>2 DEF Ahead, a, b
        <4>. QED  BY <1>1, <1>4, <4>1
      <3>. QED  BY <3>1, <3>2
    <2>3. Done' = Done /\ Done \in Int /\ Hand' = 1
      BY <1>1, <1>2, <1>3, <1>5, <2>2
    <2>4. ASSUME NEW i \in 1..Ahead'
          PROVE  b[i] = Script[Done + 1 + i]
      <3>1. i \in 1..Len(b) /\ i + 1 \in 1..Ahead /\ Done + Hand + (i + 1) = Done + 1 + i
        BY <1>1, <1>2, <1>4, <2>2, <2>3
      <3>. QED  BY <1>3, <1>4, <3>1
    <2>5. msg' = Script[Done + 1]
      <3>1. 1 \in 1..Ahead /\ Done + Hand + 1 = Done + 1
        BY <1>2, <2>2, <2>3
      <3>. QED  BY <1>1, <1>3, <3>1
    <2>6. QueueInv'
      BY <1>3, <1>5, <2>3, <2>4, <2>5 DEF QueueInv, b
    <2>7. Taken' = Taken
      BY <2>3 DEF Taken
    <2>. QED  BY <2>6, <2>7
  <1>6. CASE msg'.type \in {"FORK", "SOLVE"} /\ b = <<>>
    <2>1. Len(a) = 1 /\ Len(b) = 0
      <3>1. Len(b) = 0
        BY <1>6, EmptySeq
      <3>. QED  BY <1>1, <1>4, <3>1
    <2>2. Ended /\ ~Ended'
      BY <1>1, <1>6, <2>1 DEF Ended, a, b
    <2>3. Ahead = 0 /\ Ahead' = 0 /\ Hand' = 0
      BY <1>2, <1>6, <2>1, <2>2 DEF Ahead, a, b
    <2>4. Done' = Done /\ Taken' = Taken
      BY <1>2, <1>3, <2>3 DEF Taken
    <2>5. role' = "child" => C' = <<>>
      BY <1>6 DEF b, Stream
    <2>6. role' = "child" /\ msg'.type = "SOLVE" => lpc' = "solving"
      OBVIOUS
    <2>. QED  BY <1>3, <2>3, <2>4, <2>5, <2>6 DEF QueueInv
  <1>. QED  BY <1>5, <1>6 DEF b

LEMMA FetchText ==
    ASSUME CommonInv, TypeOK', DeliveryInv, Fetch
    PROVE  DeliveryInv'
  <1>1. /\ Runtime /\ rpc = "fetch" /\ rpc' = "dispatch"
        /\ rt' = [rt EXCEPT !.outbuf_len = "len"]
        /\ UNCHANGED <<role, sibling, text, eof, toParent>>
    BY DEF Fetch
  <1>2. /\ TypeOK /\ rt \in Runtimes /\ SeedInv /\ wstream \in Streams /\ cstream \in Streams
        /\ UNCHANGED <<lpc, call, lib, forks, prefix, clauses, open, cube>>
    BY <1>1 DEF CommonInv, BasicInv, TypeOK, Runtime
  <1>3. /\ Stream \in Seq(Messages) /\ Stream # <<>> /\ msg' = Stream[1]
        /\ Stream' = Tail(Stream) /\ Orderly(Stream, Here)
    <2>1. CASE /\ role = "seed" /\ wstream.pipe # <<>> /\ msg' = Head(wstream.pipe)
               /\ wstream' = [wstream EXCEPT !.pipe = Tail(@)]
      <3>1. W \in Seq(Messages) /\ W # <<>> /\ W[1] = msg' /\ W' = Tail(W)
        BY <1>2, <2>1, ContentsRead DEF W
      <3>2. Orderly(W, Here)
        BY <2>1 DEF CommonInv, OrderInv, SeedOrder
      <3>. QED  BY <1>1, <2>1, <3>1, <3>2 DEF Stream
    <2>2. CASE /\ role = "child" /\ cstream.pipe # <<>> /\ msg' = Head(cstream.pipe)
               /\ cstream' = [cstream EXCEPT !.pipe = Tail(@)]
      <3>1. C \in Seq(Messages) /\ C # <<>> /\ C[1] = msg' /\ C' = Tail(C)
        BY <1>2, <2>2, ContentsRead DEF C
      <3>2. Orderly(C, Here)
        BY <2>2 DEF CommonInv, OrderInv, ChildOrder
      <3>. QED  BY <1>1, <2>2, <3>1, <3>2 DEF Stream
    <2>. QED  BY <2>1, <2>2 DEF Fetch
  <1>4. /\ Follows(Here, msg') /\ Orderly(Tail(Stream), After(msg'))
        /\ Tail(Stream) \in Seq(Messages) /\ Len(Tail(Stream)) = Len(Stream) - 1
        /\ Len(Stream) \in Nat /\ Len(Stream) >= 1
    BY <1>3, OrderlyTail
  <1>5. role = "child" => ~eof
    <2>1. SUFFICES ASSUME role = "child", eof PROVE FALSE
      OBVIOUS
    <2>2. rt.state = "WORKING" /\ ~rt.repeat_state
      BY <1>1, <2>1 DEF CommonInv, OrderInv, RuntimeInv
    <2>3. Here = "end"
      BY <1>1, <2>2 DEF Here, StageOf
    <2>. QED  BY <1>3, <2>3, NothingFollows
  <1>6. \/ msg'.type \in {"QUANTIFIER", "LITERAL"}
        \/ msg'.type \in {"FORK", "SOLVE"} /\ Tail(Stream) = <<>>
    <2>1. CASE msg'.type = "SOLVE"
      <3>1. After(msg') = "end"
        BY <2>1 DEF After
      <3>. QED  BY <1>4, <2>1, <3>1, NothingFollows
    <2>2. CASE msg'.type = "FORK"
      <3>1. After(msg') = "end"
        BY <2>2 DEF After
      <3>. QED  BY <1>4, <2>2, <3>1, NothingFollows
    <2>. QED  BY <1>4, <2>1, <2>2 DEF Follows
  <1>7. role = "child" /\ msg'.type = "SOLVE" => lpc' = "solving"
    <2>1. SUFFICES ASSUME role = "child", msg'.type = "SOLVE" PROVE lpc = "solving"
      BY <1>2
    <2>2. C = Stream /\ Len(C) = 1
      <3>1. Tail(Stream) = <<>>
        BY <1>6, <2>1
      <3>2. Len(Tail(Stream)) = 0
        BY <3>1, EmptySeq
      <3>3. Len(Stream) = 1
        <4>1. \A k \in Nat : 0 = k - 1 => k = 1
          OBVIOUS
        <4>2. Len(Stream) \in Nat /\ 0 = Len(Stream) - 1
          BY <1>4, <3>2, Zenon
        <4>. QED  BY <4>1, <4>2, Zenon
      <3>. QED  BY <2>1, <3>3 DEF Stream
    <2>3. StageAt(C, Here, Len(C) + 1) = "end"
      <3>1. Len(C) + 1 # 1 /\ (Len(C) + 1) - 1 = 1
        BY <2>2
      <3>. QED  BY <1>3, <2>1, <2>2, <3>1 DEF StageAt, After
    <2>. QED  BY <1>5, <2>1, <2>3 DEF CommonInv, OrderInv, ChildOrder
  <1>8. Script' = Script /\ ScriptInv' /\ (Whole' <=> Whole)
    BY <1>1, <1>2, ScriptStays DEF DeliveryInv
  <1>9. QueueInv' /\ Taken' = Taken
    BY <1>1, <1>2, <1>3, <1>6, <1>7, <1>8, MessageFetched DEF DeliveryInv
  <1>10. CallsInv'
    BY <1>1, <1>2, <1>8 DEF DeliveryInv, CallsInv, Whole
  \* A process that fetches has not met SOLVE.
  <1>11. msg.type # "SOLVE"
    <2>1. CASE role = "seed"
      BY <2>1, <1>2 DEF SeedInv
    <2>2. CASE role = "child"
      BY <1>3, <2>2 DEF DeliveryInv, QueueInv, Stream
    <2>. QED  BY <1>2, <2>1, <2>2 DEF TypeOK
  <1>12. /\ rt'.state = rt.state /\ rt'.outbuf = rt.outbuf
         /\ rt'.filler_clause = rt.filler_clause
         /\ rt'.written_clauses = rt.written_clauses
         /\ rt'.quantifier_count = rt.quantifier_count
    BY <1>1, <1>2 DEF Runtimes
  <1>13. Fillers = 0
    BY <1>2, <1>11, TextShape DEF DeliveryInv, TextInv
  <1>14. TextInv'
    BY <1>1, <1>9, <1>12, <1>13, TextKept DEF DeliveryInv
  <1>15. StateInv'
    <2>1. First(Taken)' = First(Taken)
      BY <1>9 DEF First
    <2>. QED  BY <1>1, <1>9, <1>11, <1>12, <2>1 DEF DeliveryInv, StateInv
  <1>. QED  BY <1>8, <1>9, <1>10, <1>14, <1>15 DEF DeliveryInv

\* The message in hand has become text.
LEMMA MessageTaken ==
    ASSUME TypeOK, TypeOK', QueueInv, Hand = 1, Hand' = 0,
           UNCHANGED <<Script, Stream, msg, role>>
    PROVE  QueueInv' /\ Taken' = Append(Taken, msg)
  <1>. DEFINE s == Script
              n == Len(Script)
  <1>1. /\ s \in Seq(Messages) /\ n \in Nat /\ Ahead \in 0..Len(Stream)
        /\ Len(Stream) \in Nat /\ msg \in Messages
    BY ScriptType DEF TypeOK
  <1>2. /\ Done \in Nat /\ Done = n - (1 + Ahead) /\ Taken \in Seq(Messages)
        /\ Len(Taken) = Done /\ \A i \in 1..Done : Taken[i] = s[i]
    BY TakenFacts
  <1>3. Ahead' = Ahead
    BY DEF Ahead, Ended
  <1>4. Done' = n - (0 + Ahead)
    BY <1>3 DEF Done
  <1>5. /\ \A i \in 1..Ahead : Stream[i] = s[Done + 1 + i]
        /\ msg = s[Done + 1]
    BY DEF QueueInv
  <1>6. msg.type \in {"QUANTIFIER", "LITERAL"}
    BY DEF Hand
  <1>. HIDE DEF s, n
  <1>7. Done' = Done + 1 /\ Done + 1 <= n /\ Done' >= 0
    BY <1>1, <1>2, <1>4
  <1>8. QueueInv'
    <2>1. \A i \in 1..Ahead : Done' + 0 + i = Done + 1 + i
      BY <1>2, <1>7
    <2>2. \A i \in 1..Ahead' : Stream'[i] = Script'[Done' + Hand' + i]
      BY <1>3, <1>5, <2>1 DEF s
    <2>. QED  BY <1>6, <1>7, <2>2 DEF QueueInv
  <1>9. Taken' = Append(Taken, msg)
    <2>. DEFINE a == SubSeq(s, 1, Done + 1)
                b == Append(Taken, msg)
    <2>1. /\ a \in Seq(Messages) /\ Len(a) = Done + 1
          /\ \A i \in 1..Done + 1 : a[i] = s[i]
      BY <1>1, <1>2, <1>7, FrontKept DEF n, s
    <2>2. /\ b \in Seq(Messages) /\ Len(b) = Done + 1 /\ b[Done + 1] = msg
          /\ \A i \in 1..Done : b[i] = Taken[i]
      BY <1>1, <1>2, AppendProperties
    <2>. HIDE DEF a, b
    <2>3. \A i \in 1..Done + 1 : a[i] = b[i]
      <3>1. \A i \in 1..Done + 1 : i \in 1..Done \/ i = Done + 1
        BY <1>2
      <3>. QED  BY <1>2, <1>5, <2>1, <2>2, <3>1
    <2>4. a = b
      BY <2>1, <2>2, <2>3, SeqEqual
    <2>5. Taken' = a
      BY <1>7 DEF Taken, a, s
    <2>. QED  BY <2>4, <2>5 DEF b
  <1>. QED  BY <1>8, <1>9

\* What a state function wrote is what the text gains.
LEMMA DispatchWrites ==
    ASSUME CommonInv, DeliveryInv, NEW n \in ReadSizes, Dispatch(n)
    PROVE  LET r == RunState(rt, msg)
           IN  /\ text' \o rt'.outbuf = text \o r.outbuf
               /\ rt'.quantifier_count = r.quantifier_count
               /\ rt.outbuf = <<>> /\ text \o rt.outbuf = text
               /\ rt.outbuf_len = "len"
  <1>. DEFINE r == RunState(rt, msg)
  <1>1. /\ rpc = "dispatch"
        /\ \/ rt' = r /\ UNCHANGED <<rpc, text, eof, toParent>>
           \/ ReturnFromRead(r, n)
    BY DEF Dispatch
  <1>2. /\ n \in Nat \ {0} /\ TypeOK /\ rt \in Runtimes /\ msg \in Messages
        /\ RuntimeInv /\ text \in Seq(Lexemes)
    BY SerializationAssumption DEF CommonInv, BasicInv, TypeOK, OrderInv
  <1>3. Ran(rt, msg, r) /\ Leaves(rt, msg, r) /\ r \in Runtimes
    BY <1>2, RunFacts DEF Ran
  <1>4. rt.outbuf_len = "len" /\ rt.outbuf = <<>>
    BY <1>1, <1>2 DEF RuntimeInv, DeliveryInv, StateInv
  <1>. HIDE DEF r
  <1>5. r.outbuf_len = "closed" => r.outbuf = <<>>
    BY <1>3, <1>4 DEF Ran, Leaves
  <1>6. text' \o rt'.outbuf = text \o r.outbuf /\ rt'.quantifier_count = r.quantifier_count
    <2>1. CASE ReturnFromRead(r, n)
      BY <1>2, <1>3, <1>5, <2>1, ReturnText
    <2>. QED  BY <1>1, <2>1
  <1>7. text \o rt.outbuf = text
    BY <1>2, <1>4, ConcatEmptySeq
  <1>. QED  BY <1>4, <1>6, <1>7 DEF r

\* A message of the formula becomes text.
LEMMA FormulaDispatched ==
    ASSUME CommonInv, TypeOK', DeliveryInv, NEW n \in ReadSizes, Dispatch(n),
           msg.type \in {"QUANTIFIER", "LITERAL"},
           ~(msg.type = "LITERAL" /\ rt.state = "READING_PREFIX")
    PROVE  DeliveryInv'
  <1>. DEFINE r == RunState(rt, msg)
              p == Before(Taken)
              first == First(Taken)
              counts == msg.type = "QUANTIFIER" /\ msg.data # 0
              opens == /\ rt.state = "READING_PREFIX" /\ rt.quantifier_count = 0
                       /\ msg.data > 0
  <1>1. /\ Runtime /\ UNCHANGED <<wstream, cstream, msg, role, sibling>>
        /\ rpc = "dispatch" /\ ~eof
        /\ Ran(rt, msg, r) /\ Leaves(rt, msg, r) /\ Kept(r, rt')
        /\ r.outbuf = <<>> \/ rpc' = "solver"
    BY DispatchEnds
  <1>2. /\ text' \o rt'.outbuf = text \o r.outbuf /\ text \o rt.outbuf = text
        /\ rt'.quantifier_count = r.quantifier_count
    BY DispatchWrites
  <1>3. /\ TypeOK /\ rt \in Runtimes /\ rt.state \in PreloadStates /\ msg \in Messages
        /\ msg.data \in Int /\ RuntimeInv /\ rt.quantifier_count \in Nat
        /\ rt.written_clauses \in Nat /\ QueueInv
    BY DEF CommonInv, BasicInv, TypeOK, OrderInv, Runtimes, Messages, DeliveryInv
  <1>4. Follows(StageOf(rt.state), msg)
    BY <1>1, <1>3 DEF RuntimeInv
  <1>5. /\ rt.state \in {"READING_PREFIX", "READING_EXISTS", "READING_FORALL",
                         "READING_CLAUSE", "READING_MATRIX"}
        /\ msg.type = "QUANTIFIER" =>
              \/ rt.state \in {"READING_EXISTS", "READING_FORALL"}
              \/ rt.state = "READING_PREFIX" /\ msg.data # 0
        /\ msg.type = "LITERAL" /\ msg.data = 0 => rt.state = "READING_CLAUSE"
    <2>1. StageOf(rt.state) # "end"
      BY <1>4 DEF Follows
    <2>2. /\ msg.type = "QUANTIFIER" => \/ StageOf(rt.state) = "block"
                                        \/ StageOf(rt.state) = "prefix" /\ msg.data # 0
          /\ msg.type = "LITERAL" /\ msg.data = 0 => StageOf(rt.state) = "clause"
      BY <1>4 DEF Follows
    <2>3. StageOf(rt.state) \in {"prefix", "block", "clause", "matrix", "end"}
      BY DEF StageOf
    <2>. QED  BY <1>3, <2>1, <2>2, <2>3, StatesOfStages
  <1>6. /\ Taken \in Seq(Messages) /\ p \in Messages /\ Header \in Messages
        /\ Header.type = "HEADER" /\ rt.filler_clause \in Seq(Lexemes)
    BY <1>3, TextShape, MessageType DEF Header, Msg
  <1>7. /\ \/ rt.state = StateBehind(p)
           \/ rt.state = "READING_MATRIX" /\ StateBehind(p) = "READING_PREFIX"
        /\ rt.filler_clause = FillerFor(first)
        /\ rt.quantifier_count = 0 <=> first.type # "QUANTIFIER"
        /\ rt.quantifier_count = 0 /\ Taken # <<>> =>
              rt.state \in {"READING_CLAUSE", "READING_MATRIX", "WORKING"}
    BY DEF DeliveryInv, StateInv
  <1>8. /\ Writes(rt, r, Says(p, msg), rt.quantifier_count + (IF counts THEN 1 ELSE 0),
                  IF opens THEN UnitTautology(msg.data, -msg.data) ELSE rt.filler_clause)
        /\ r.state = StateBehind(msg)
    BY <1>3, <1>4, <1>5, <1>6, <1>7, SaysRight
  <1>9. r.outbuf # <<>>
    BY <1>1, <1>5 DEF Leaves
  <1>10. r.written_clauses = rt.written_clauses + (IF msg = Literal(0) THEN 1 ELSE 0)
    <2>1. msg = Literal(0) <=> msg.type = "LITERAL" /\ msg.data = 0
      BY <1>3 DEF Messages, Literal, Msg
    <2>. QED  BY <1>1, <1>5, <2>1 DEF Ran, EndsClause
  <1>. HIDE DEF r, p, first
  <1>11. /\ rt'.state = StateBehind(msg)
         /\ rt'.quantifier_count = rt.quantifier_count + (IF counts THEN 1 ELSE 0)
         /\ rt'.filler_clause = IF opens THEN UnitTautology(msg.data, -msg.data)
                                         ELSE rt.filler_clause
         /\ rt'.written_clauses = r.written_clauses
         /\ r.outbuf = Says(p, msg)
    BY <1>1, <1>2, <1>8 DEF Writes, Kept
  <1>12. rpc' = "solver" /\ Hand = 1 /\ Hand' = 0
    BY <1>1, <1>9 DEF Hand
  <1>13. UNCHANGED <<lpc, call, lib, forks, prefix, clauses, open, cube>>
    BY <1>1 DEF Runtime
  <1>14. Script' = Script /\ ScriptInv' /\ (Whole' <=> Whole)
    BY <1>1, <1>13, ScriptStays DEF DeliveryInv
  <1>15. CallsInv'
    BY <1>1, <1>13, <1>14 DEF DeliveryInv, CallsInv, Whole
  <1>16. Stream' = Stream
    BY <1>1 DEF Stream, W, C
  <1>17. QueueInv' /\ Taken' = Append(Taken, msg)
    BY <1>1, <1>3, <1>12, <1>14, <1>16, MessageTaken
  <1>18. Fillers = 0
    BY <1>3, TextShape DEF DeliveryInv, TextInv
  <1>19. TextInv'
    <2>1. text' \o rt'.outbuf = (text \o rt.outbuf) \o Says(Before(Taken), msg)
      BY <1>2, <1>11 DEF p
    <2>2. rt'.written_clauses = rt.written_clauses + (IF msg = Literal(0) THEN 1 ELSE 0)
      BY <1>10, <1>11
    <2>. QED  BY <1>3, <1>17, <1>18, <2>1, <2>2, TextTakes DEF DeliveryInv
  <1>20. /\ Before(Taken') = msg /\ Taken' # <<>>
         /\ First(Taken') = IF Taken = <<>> THEN msg ELSE first
         /\ Taken = <<>> => first = Header /\ p = Header
    <2>1. Before(Taken') = msg
      BY <1>3, <1>6, <1>17, RenderedGrows
    <2>2. /\ Append(Taken, msg) # <<>>
          /\ Append(Taken, msg)[1] = IF Taken = <<>> THEN msg ELSE Taken[1]
      <3>1. /\ Len(Append(Taken, msg)) = Len(Taken) + 1 /\ Len(Taken) \in Nat
            /\ Append(Taken, msg)[Len(Taken) + 1] = msg
            /\ \A i \in 1..Len(Taken) : Append(Taken, msg)[i] = Taken[i]
        BY <1>3, <1>6, AppendProperties
      <3>2. Len(Taken) = 0 \/ 1 \in 1..Len(Taken)
        BY <3>1
      <3>3. Taken = <<>> <=> Len(Taken) = 0
        BY <1>6, EmptySeq
      <3>. QED  BY <3>1, <3>2, <3>3, EmptySeq
    <2>. QED  BY <1>17, <2>1, <2>2 DEF First, first, p, Before
  <1>21. Taken = <<>> => /\ rt.quantifier_count = 0
                         /\ rt.state \in {"READING_PREFIX", "READING_MATRIX"}
                         /\ rt.filler_clause = FillerFor(Header)
    BY <1>6, <1>7, <1>20 DEF StateBehind
  <1>22. rt'.filler_clause = FillerFor(First(Taken'))
    <2>1. CASE Taken = <<>>
      <3>1. CASE msg.type = "QUANTIFIER"
        <4>1. rt.state = "READING_PREFIX"
          BY <1>5, <1>21, <2>1, <3>1
        <4>. QED  BY <1>6, <1>11, <1>20, <1>21, <2>1, <3>1, <4>1 DEF FillerFor
      <3>2. CASE msg.type = "LITERAL"
        BY <1>6, <1>11, <1>20, <1>21, <2>1, <3>2 DEF FillerFor
      <3>. QED  BY <3>1, <3>2
    <2>2. CASE Taken # <<>>
      <3>1. ~opens
        BY <1>7, <2>2
      <3>. QED  BY <1>7, <1>11, <1>20, <2>2, <3>1
    <2>. QED  BY <2>1, <2>2
  <1>23. /\ rt'.quantifier_count = 0 <=> First(Taken').type # "QUANTIFIER"
         /\ rt'.quantifier_count = 0 =>
               rt'.state \in {"READING_CLAUSE", "READING_MATRIX", "WORKING"}
    <2>1. rt'.quantifier_count = 0 <=> rt.quantifier_count = 0 /\ ~counts
      BY <1>3, <1>11
    <2>2. rt.quantifier_count = 0 /\ ~counts => msg.type = "LITERAL"
      BY <1>5, <1>7, <1>21
    <2>3. msg.type = "LITERAL" => StateBehind(msg) \in {"READING_CLAUSE", "READING_MATRIX"}
      BY DEF StateBehind
    <2>. QED  BY <1>5, <1>7, <1>11, <1>20, <1>21, <2>1, <2>2, <2>3
  <1>24. StateInv'
    <2>1. First(Taken)' = First(Taken') /\ Before(Taken)' = Before(Taken')
      BY DEF First, Before
    <2>. QED  BY <1>11, <1>12, <1>20, <1>22, <1>23, <2>1 DEF StateInv
  <1>. QED  BY <1>14, <1>15, <1>17, <1>19, <1>24 DEF DeliveryInv

\* The first literal is handed on to the matrix.
LEMMA LiteralHandedOn ==
    ASSUME CommonInv, TypeOK', DeliveryInv, NEW n \in ReadSizes, Dispatch(n),
           msg.type = "LITERAL", rt.state = "READING_PREFIX"
    PROVE  DeliveryInv'
  <1>. DEFINE r == RunState(rt, msg)
  <1>1. /\ Runtime /\ UNCHANGED <<wstream, cstream, msg, role, sibling>>
        /\ rpc = "dispatch" /\ ~eof
        /\ Ran(rt, msg, r) /\ Leaves(rt, msg, r) /\ Kept(r, rt')
        /\ r.outbuf = <<>> => rt'.outbuf = <<>>
        /\ r.outbuf = <<>> /\ r.outbuf_len = "len" => rpc' = "dispatch"
    BY DispatchEnds
  <1>2. /\ text' \o rt'.outbuf = text \o r.outbuf /\ text \o rt.outbuf = text
        /\ rt'.quantifier_count = r.quantifier_count
        /\ rt.outbuf = <<>> /\ rt.outbuf_len = "len"
    BY DispatchWrites
  <1>3. rt \in Runtimes /\ msg \in Messages /\ rt.written_clauses \in Nat
    BY DEF CommonInv, BasicInv, TypeOK, Runtimes
  <1>4. r.quantifier_count = rt.quantifier_count /\ r.filler_clause = rt.filler_clause
    BY <1>3, OthersWrite
  <1>. HIDE DEF r
  <1>5. /\ r.outbuf = <<>> /\ r.outbuf_len = "len" /\ r.state = "READING_MATRIX"
        /\ r.written_clauses = rt.written_clauses
    BY <1>1, <1>2, <1>3 DEF Ran, Leaves, EndsClause, NextState
  <1>6. Hand' = Hand /\ rpc' = "dispatch"
    BY <1>1, <1>5 DEF Hand
  <1>7. QueueInv' /\ Taken' = Taken /\ ScriptInv' /\ CallsInv'
    BY <1>1, <1>6, NoneMoved
  <1>8. /\ text' \o rt'.outbuf = text \o rt.outbuf
        /\ rt'.written_clauses = rt.written_clauses
        /\ rt'.filler_clause = rt.filler_clause /\ rt'.state = "READING_MATRIX"
        /\ rt'.quantifier_count = rt.quantifier_count /\ rt'.outbuf = <<>>
    BY <1>1, <1>2, <1>4, <1>5 DEF Kept
  <1>9. TextInv'
    BY <1>1, <1>7, <1>8, TextKept DEF DeliveryInv
  <1>10. StateInv'
    <2>1. First(Taken)' = First(Taken)
      BY <1>7 DEF First
    <2>. QED  BY <1>1, <1>6, <1>7, <1>8, <2>1 DEF DeliveryInv, StateInv
  <1>. QED  BY <1>7, <1>9, <1>10 DEF DeliveryInv

\* SOLVE: fillers, then the end.
LEMMA SolveDispatched ==
    ASSUME CommonInv, TypeOK', DeliveryInv, NEW n \in ReadSizes, Dispatch(n),
           msg.type = "SOLVE"
    PROVE  DeliveryInv'
  <1>. DEFINE r == RunState(rt, msg)
  <1>1. /\ Runtime /\ UNCHANGED <<wstream, cstream, msg, role, sibling>>
        /\ rpc = "dispatch" /\ ~eof
        /\ Ran(rt, msg, r) /\ Leaves(rt, msg, r) /\ Kept(r, rt')
        /\ r.outbuf = <<>> => rt'.outbuf = <<>>
        /\ r.outbuf # <<>> => rpc' = "solver"
    BY DispatchEnds
  <1>2. /\ text' \o rt'.outbuf = text \o r.outbuf /\ text \o rt.outbuf = text
        /\ rt'.quantifier_count = r.quantifier_count
        /\ rt.outbuf = <<>> /\ rt.outbuf_len = "len"
    BY DispatchWrites
  <1>3. /\ TypeOK /\ rt \in Runtimes /\ msg \in Messages /\ rt.written_clauses \in Nat
        /\ RuntimeInv /\ rt.state \in PreloadStates /\ role = "child" /\ QueueInv
    BY DEF CommonInv, BasicInv, TypeOK, SeedInv, OrderInv, Runtimes, DeliveryInv
  <1>4. rt.state \in {"READING_PREFIX", "READING_MATRIX", "WORKING"}
    BY <1>1, <1>3, StatesOfStages DEF RuntimeInv, Follows
  <1>5. r.quantifier_count = rt.quantifier_count /\ r.filler_clause = rt.filler_clause
    BY <1>3, <1>4, OthersWrite
  <1>. HIDE DEF r
  <1>6. Hand' = Hand
    BY <1>1 DEF Hand
  <1>7. QueueInv' /\ Taken' = Taken /\ ScriptInv' /\ CallsInv'
    BY <1>1, <1>6, NoneMoved
  <1>8. First(Taken)' = First(Taken)
    BY <1>7 DEF First
  <1>9. /\ rt'.filler_clause = rt.filler_clause /\ rt'.state = r.state
        /\ rt'.quantifier_count = rt.quantifier_count
        /\ rt'.written_clauses = r.written_clauses
    BY <1>1, <1>2, <1>5 DEF Kept
  <1>10. CASE rt.state = "READING_PREFIX"
    <2>1. /\ r.outbuf = <<>> /\ r.state = "READING_MATRIX"
          /\ r.written_clauses = rt.written_clauses
      BY <1>1, <1>3, <1>10 DEF Ran, Leaves, EndsClause, NextState
    <2>2. TextInv'
      BY <1>1, <1>2, <1>7, <1>9, <2>1, TextKept DEF DeliveryInv
    <2>3. StateInv'
      BY <1>1, <1>7, <1>8, <1>9, <1>10, <2>1 DEF DeliveryInv, StateInv
    <2>. QED  BY <1>7, <2>2, <2>3 DEF DeliveryInv
  <1>11. CASE rt.state = "READING_MATRIX" /\ ~Enough(rt)
    <2>1. /\ r.outbuf = rt.filler_clause /\ r.state = "READING_MATRIX"
          /\ r.written_clauses = rt.written_clauses + 1
      BY <1>1, <1>3, <1>11 DEF Ran, Leaves, EndsClause, NextState
    <2>2. TextInv'
      BY <1>1, <1>2, <1>3, <1>7, <1>9, <1>11, <2>1, TextFills DEF DeliveryInv
    <2>3. rt.filler_clause # <<>>
      BY <1>3 DEF RuntimeInv
    <2>4. StateInv'
      BY <1>1, <1>7, <1>8, <1>9, <1>11, <2>1, <2>3 DEF DeliveryInv, StateInv
    <2>. QED  BY <1>7, <2>2, <2>4 DEF DeliveryInv
  <1>12. CASE rt.state = "READING_MATRIX" /\ Enough(rt)
    <2>1. /\ r.outbuf = <<>> /\ r.state = "WORKING"
          /\ r.written_clauses = rt.written_clauses
      BY <1>1, <1>3, <1>12 DEF Ran, Leaves, EndsClause, NextState
    <2>2. TextInv'
      BY <1>1, <1>2, <1>7, <1>9, <2>1, TextKept DEF DeliveryInv
    <2>3. Enough(rt')
      BY <1>9, <1>12, <2>1 DEF Enough
    <2>4. StateInv'
      BY <1>1, <1>7, <1>8, <1>9, <2>1, <2>3 DEF DeliveryInv, StateInv
    <2>. QED  BY <1>7, <2>2, <2>4 DEF DeliveryInv
  <1>13. CASE rt.state = "WORKING"
    <2>1. /\ r.outbuf = <<>> /\ r.state = "WORKING"
          /\ r.written_clauses = rt.written_clauses
      BY <1>1, <1>2, <1>3, <1>13 DEF Ran, Leaves, EndsClause, NextState
    <2>2. TextInv'
      BY <1>1, <1>2, <1>7, <1>9, <2>1, TextKept DEF DeliveryInv
    <2>3. Enough(rt)
      BY <1>13 DEF DeliveryInv, StateInv, StateBehind
    <2>4. Enough(rt')
      BY <1>9, <2>1, <2>3 DEF Enough
    <2>5. StateInv'
      BY <1>1, <1>7, <1>8, <1>9, <2>1, <2>4 DEF DeliveryInv, StateInv
    <2>. QED  BY <1>7, <2>2, <2>5 DEF DeliveryInv
  <1>. QED  BY <1>4, <1>10, <1>11, <1>12, <1>13

LEMMA DispatchText ==
    ASSUME CommonInv, TypeOK', DeliveryInv, NEW n \in ReadSizes, Dispatch(n)
    PROVE  DeliveryInv'
  <1>. DEFINE r == RunState(rt, msg)
  <1>1. rpc = "dispatch" /\ r.outbuf_len # "again" /\ Ran(rt, msg, r)
    BY DispatchEnds
  <1>. HIDE DEF r
  <1>2. RuntimeInv /\ rt.state \in PreloadStates
    BY DEF CommonInv, BasicInv, TypeOK, OrderInv, Runtimes
  <1>3. /\ msg.type \in {"QUANTIFIER", "LITERAL", "FORK", "SOLVE"}
        /\ msg.type = "FORK" => rt.state \in {"READING_PREFIX", "READING_MATRIX"}
    BY <1>1, <1>2, StatesOfStages DEF RuntimeInv, Follows
  <1>4. msg.type # "FORK"
    BY <1>1, <1>3 DEF Ran
  <1>. QED  BY <1>3, <1>4, FormulaDispatched, LiteralHandedOn, SolveDispatched

\* FORK: the seed or its new child goes on with the formula as it stands.
LEMMA DispatchForkText ==
    ASSUME CommonInv, TypeOK', DeliveryInv, DispatchFork
    PROVE  DeliveryInv'
  <1>. DEFINE r == RunState(rt, msg)
  <1>1. /\ Runtime /\ rpc = "dispatch" /\ r.outbuf_len = "again"
        /\ rt' = r /\ rpc' = "fetch" /\ role' \in {"child", role}
        /\ UNCHANGED <<wstream, cstream, msg, text, eof>>
    BY DEF DispatchFork
  <1>2. /\ rt \in Runtimes /\ msg \in Messages /\ RuntimeInv /\ TypeOK /\ QueueInv
        /\ role \in {"seed", "child"} /\ rt.state \in PreloadStates
        /\ rt.written_clauses \in Nat
    BY DEF CommonInv, BasicInv, TypeOK, OrderInv, Runtimes, DeliveryInv
  <1>3. Ran(rt, msg, r)
    BY <1>2, RunFacts
  <1>. HIDE DEF r
  <1>4. msg.type = "FORK" /\ rt.state \in {"READING_PREFIX", "READING_MATRIX"}
    BY <1>1, <1>2, <1>3 DEF Ran, RuntimeInv
  <1>5. /\ r.state = rt.state /\ r.written_clauses = rt.written_clauses
    BY <1>2, <1>3, <1>4 DEF Ran, NextState, EndsClause
  <1>6. /\ r.outbuf = <<>> /\ r.quantifier_count = rt.quantifier_count
        /\ r.filler_clause = rt.filler_clause
    BY <1>2, <1>4, OthersWrite DEF r
  <1>7. role = "seed"
    BY <1>1, <1>2, <1>4 DEF CommonInv, OrderInv, ChildOrder
  <1>8. W = <<>> /\ C = <<>> /\ lpc = "fork"
    <2>1. ForkAhead /\ W = <<>>
      BY <1>1, <1>4, <1>7 DEF ForkAhead, CommonInv, OrderInv, SeedOrder
    <2>. QED  BY <1>7, <2>1 DEF CommonInv, OrderInv, SeedSync
  <1>9. /\ UNCHANGED <<lpc, call, lib, forks, prefix, clauses, open, cube>>
        /\ UNCHANGED <<W, C>>
    BY <1>1 DEF Runtime, W, C
  <1>10. cube = <<>> /\ Whole
    BY <1>8 DEF DeliveryInv, CallsInv, Whole
  <1>11. Matrix' = Matrix
    <2>1. Written = clauses /\ Written' = clauses
      <3>1. [i \in DOMAIN cube |-> <<cube[i]>>] = <<>>
        BY <1>10
      <3>2. clauses \in Seq(Seq(Int)) /\ clauses \o <<>> = clauses
        BY <1>2, ConcatEmptySeq DEF TypeOK
      <3>. QED  BY <1>9, <3>1, <3>2 DEF Written
    <2>. QED  BY <1>9, <2>1 DEF Matrix
  <1>12. PrefixMessages' = PrefixMessages /\ BlockOpen' = BlockOpen
    BY <1>9, PrefixStays DEF BlockOpen
  <1>13. Script' = Script /\ ScriptInv'
    BY <1>9, <1>11, <1>12 DEF Script, ScriptInv, DeliveryInv
  <1>14. QueueInv' /\ Taken' = Taken
    <2>1. Stream = <<>> /\ Stream' = <<>>
      BY <1>7, <1>8, <1>9 DEF Stream
    <2>2. Ahead = 0 /\ Ahead' = 0 /\ Hand = 0 /\ Hand' = 0
      BY <1>1, <1>4, <2>1, EmptySeq DEF Ahead, Ended, Hand
    <2>3. Done' = Done
      BY <1>13, <2>2 DEF Done
    <2>. QED  BY <1>1, <1>4, <1>13, <2>2, <2>3 DEF DeliveryInv, QueueInv, Taken
  <1>15. CallsInv'
    BY <1>8, <1>9, <1>10, <1>12 DEF DeliveryInv, CallsInv, Whole
  <1>16. Fillers = 0
    BY <1>2, <1>4, TextShape DEF DeliveryInv, TextInv
  <1>17. rt.outbuf = <<>>
    BY <1>1 DEF DeliveryInv, StateInv
  <1>18. TextInv'
    BY <1>1, <1>5, <1>6, <1>14, <1>16, <1>17, TextKept DEF DeliveryInv
  <1>19. StateInv'
    <2>1. First(Taken)' = First(Taken)
      BY <1>14 DEF First
    <2>. QED  BY <1>1, <1>4, <1>5, <1>6, <1>14, <2>1 DEF DeliveryInv, StateInv
  <1>. QED  BY <1>13, <1>14, <1>15, <1>18, <1>19 DEF DeliveryInv

\* What another child reads is not the followed process's.
LEMMA SiblingReadsText ==
    ASSUME CommonInv, DeliveryInv, SiblingReads
    PROVE  DeliveryInv'
  <1>1. /\ Runtime /\ sibling /\ UNCHANGED <<wstream, rpc, rt, msg, role, text, eof>>
    BY DEF SiblingReads
  <1>2. role = "seed"
    BY <1>1 DEF CommonInv, BasicInv, TypeOK, OrderInv, ChildSync
  <1>3. UNCHANGED <<lpc, call, lib, forks, prefix, clauses, open, cube>>
    BY <1>1 DEF Runtime
  <1>4. Script' = Script /\ ScriptInv' /\ (Whole' <=> Whole)
    BY <1>1, <1>3, ScriptStays DEF DeliveryInv
  <1>5. Stream' = Stream /\ Hand' = Hand
    BY <1>1, <1>2 DEF Stream, W, Hand
  <1>6. QueueInv' /\ Taken' = Taken
    BY <1>1, <1>2, <1>4, <1>5, QueueStays DEF DeliveryInv
  <1>7. StateInv' /\ TextInv'
    BY <1>1, <1>6, TextStays DEF DeliveryInv
  <1>8. CallsInv'
    BY <1>1, <1>3, <1>4 DEF DeliveryInv, CallsInv, Whole
  <1>. QED  BY <1>4, <1>6, <1>7, <1>8 DEF DeliveryInv

LEMMA ProcessText ==
    ASSUME CommonInv, TypeOK', DeliveryInv, ProcessStep
    PROVE  DeliveryInv'
  BY ReadBufferedText, ReadRepeatedText, ReadNeedsMessageText, FetchText, DispatchText,
     DispatchForkText, SiblingReadsText DEF ProcessStep

LEMMA StutterText ==
    ASSUME DeliveryInv, UNCHANGED vars
    PROVE  DeliveryInv'
  <1>1. UNCHANGED <<lpc, call, lib, wstream, cstream, forks, rpc, rt, msg, role, text, eof,
                    prefix, clauses, open, cube>>
    BY DEF vars
  <1>2. Script' = Script /\ ScriptInv' /\ (Whole' <=> Whole)
    BY <1>1, ScriptStays DEF DeliveryInv
  <1>3. Stream' = Stream /\ Hand' = Hand
    BY <1>1 DEF Stream, W, C, Hand
  <1>4. role = "child" /\ msg.type = "SOLVE" => lpc' = "solving" \/ eof'
    BY <1>1 DEF DeliveryInv, QueueInv
  <1>5. QueueInv' /\ Taken' = Taken
    BY <1>1, <1>2, <1>3, <1>4, QueueStays DEF DeliveryInv
  <1>6. StateInv' /\ TextInv'
    BY <1>1, <1>5, TextStays DEF DeliveryInv
  <1>7. CallsInv'
    BY <1>1, <1>2 DEF DeliveryInv, CallsInv, Whole
  <1>. QED  BY <1>2, <1>5, <1>6, <1>7 DEF DeliveryInv

\* HEADER has become the problem line.
LEMMA InitText == Init => DeliveryInv
  <1>. SUFFICES ASSUME Init PROVE DeliveryInv
    OBVIOUS
  <1>1. TypeOK /\ W = <<>> /\ C = <<>>
    <2>1. /\ wstream.buf = <<>> /\ wstream.pipe = <<>>
          /\ cstream.buf = <<>> /\ cstream.pipe = <<>>
      BY DEF Init, NoStream
    <2>. QED  BY <2>1, InitBasic DEF W, C, Contents, BasicInv
  <1>2. /\ prefix = <<>> /\ clauses = <<>> /\ open = <<>> /\ cube = <<>>
        /\ role = "seed" /\ rpc = "solver" /\ msg = Header /\ lpc = "idle" /\ text = <<>>
    BY DEF Init
  <1>3. Header \in Messages /\ Header.type = "HEADER"
    BY MessageType DEF Header, Msg
  <1>. DEFINE i == quapi_runtime_init
              f == IF LitCount = 0 THEN <<Num(0), NL>> ELSE UnitTautology(-1, 1)
  <1>4. /\ i \in Runtimes /\ i.state = "WAITING_FOR_HEADER" /\ i.quantifier_count = 0
        /\ i.written_clauses = 0 /\ i.filler_clause = UnitTautology(-1, 1)
    <2>1. UnitTautology(-1, 1) \in Seq(Lexemes)
      BY LexemeType DEF UnitTautology
    <2>. QED  BY <2>1 DEF quapi_runtime_init, Runtimes, PreloadStates
  <1>5. rt = WAITING_FOR_HEADER(i, Header)
    BY <1>4 DEF Init, RunState
  <1>. HIDE DEF i
  <1>6. /\ rt.outbuf = ProblemLine /\ rt.filler_clause = f /\ rt.quantifier_count = 0
        /\ rt.written_clauses = 0 /\ rt.state = "READING_PREFIX"
        /\ ProblemLine \in Seq(Lexemes)
    <2>. DEFINE e == Emit(i, Header, ProblemLine)
    <2>1. ProblemLine \in Seq(Lexemes)
      BY LexemeType, RuntimeAssumption, LibraryAssumption DEF ProblemLine, HeaderClauses
    <2>2. /\ e \in Runtimes /\ e.outbuf = ProblemLine /\ e.quantifier_count = 0
          /\ e.written_clauses = 0 /\ e.filler_clause = UnitTautology(-1, 1)
          /\ e.state = NextState(i.state, Header, Enough(i))
      BY <1>3, <1>4, <2>1, EmitFacts
    <2>3. rt = [e EXCEPT !.filler_clause = IF LitCount = 0 THEN <<Num(0), NL>> ELSE @]
      BY <1>5 DEF WAITING_FOR_HEADER, ProblemLine
    <2>. HIDE DEF e
    <2>4. e.state = "READING_PREFIX"
      BY <1>4, <2>2 DEF NextState
    <2>. QED  BY <2>1, <2>2, <2>3, <2>4 DEF Runtimes
  <1>7. PrefixMessages = <<>> /\ ~BlockOpen /\ ClauseEnds(<<>>) = 0
    <2>1. PrefixIsSent
      BY <1>1, PrefixSent
    <2>2. Len(PrefixMessages) = 0 /\ PrefixMessages \in Seq(Messages)
      BY <1>2, <2>1, EmptySeq DEF PrefixIsSent
    <2>3. PrefixMessages = <<>>
      BY <2>2, EmptySeq
    <2>. QED  BY <1>2, <2>1, <2>3 DEF PrefixIsSent, BlockOpen
  <1>8. Sends(<<>>, <<>>, <<>>) = <<>> /\ Told(<<>>, FALSE, <<>>, <<>>)
    <2>1. <<>> \in Seq(Messages) /\ FALSE \in BOOLEAN
      BY EmptySeq
    <2>. QED  BY <1>7, <2>1, ToldPrefix, Zenon
  <1>9. Script = <<>> /\ ScriptInv
    <2>1. Matrix = <<>>
      BY <1>2 DEF Matrix
    <2>2. BlockOpen = FALSE
      BY <1>7
    <2>. QED  BY <1>2, <1>7, <1>8, <2>1, <2>2 DEF Script, ScriptInv
  <1>10. QueueInv /\ Taken = <<>>
    <2>1. Stream = <<>> /\ Len(Script) = 0
      BY <1>1, <1>2, <1>9, EmptySeq DEF Stream
    <2>2. Ahead = 0 /\ Hand = 0 /\ Done = 0
      <3>1. Ahead = 0 /\ Hand = 0
        BY <1>2, <2>1, EmptySeq DEF Ahead, Ended, Hand
      <3>. QED  BY <2>1, <3>1 DEF Done
    <2>3. Taken = <<>>
      <3>1. QueueInv
        BY <1>2, <2>2 DEF QueueInv
      <3>2. Taken \in Seq(Messages) /\ Len(Taken) = 0
        BY <1>1, <2>2, <3>1, TakenFacts
      <3>. QED  BY <3>2, EmptySeq
    <2>. QED  BY <1>2, <2>2, <2>3 DEF QueueInv
  <1>11. StateInv
    <2>1. First(Taken) = Header /\ Before(Taken) = Header
      BY <1>10 DEF First, Before
    <2>2. StateBehind(Header) = "READING_PREFIX" /\ FillerFor(Header) = f
      BY <1>3 DEF StateBehind, FillerFor
    <2>3. /\ rt.state = "READING_PREFIX" /\ rt.filler_clause = f /\ rt.quantifier_count = 0
      BY <1>6
    <2>. HIDE DEF f
    <2>. QED  BY <1>2, <1>3, <1>10, <2>1, <2>2, <2>3 DEF StateInv
  <1>12. TextInv
    <2>1. Fillers = 0
      BY <1>6, <1>7, <1>10 DEF Fillers
    <2>2. text \o rt.outbuf = ProblemLine
      BY <1>2, <1>6, ConcatEmptySeq
    <2>3. (ProblemLine \o Rendered(Taken)) \o Filling(0, rt.filler_clause) = ProblemLine
      BY <1>6, <1>10, NothingSaid, ConcatEmptySeq
    <2>4. text \o rt.outbuf
            = (ProblemLine \o Rendered(Taken)) \o Filling(Fillers, rt.filler_clause)
      BY <2>1, <2>2, <2>3
    <2>. QED  BY <2>1, <2>4 DEF TextInv
  <1>13. CallsInv
    BY <1>2 DEF CallsInv
  <1>. QED  BY <1>9, <1>10, <1>11, <1>12, <1>13 DEF DeliveryInv

LEMMA NextText ==
    ASSUME CommonUse
    PROVE  CommonInv /\ CommonInv' /\ DeliveryInv /\ [Next]_vars => DeliveryInv'
  <1>. SUFFICES ASSUME CommonInv, CommonInv', DeliveryInv, [Next]_vars PROVE DeliveryInv'
    OBVIOUS
  <1>1. TypeOK'
    BY DEF CommonInv, BasicInv
  <1>2. CASE LibraryStep
    BY <1>1, <1>2, LibraryText
  <1>3. CASE ProcessStep
    BY <1>1, <1>3, ProcessText
  <1>4. CASE UNCHANGED vars
    BY <1>4, StutterText
  <1>. QED
    BY <1>2, <1>3, <1>4 DEF Next, LibraryStep, ProcessStep, ClientStops

LEMMA AlwaysDelivery == ASSUME CommonUse PROVE Spec => [](CommonInv /\ DeliveryInv)
  <1>1. Init => CommonInv /\ DeliveryInv
    BY InitBasic, InitOrder, InitText DEF CommonInv
  <1>2. CommonInv /\ DeliveryInv /\ [Next]_vars => CommonInv' /\ DeliveryInv'
    BY NextCommon, NextText
  <1>. QED  BY <1>1, <1>2, PTL DEF Spec
-----------------------------------------------------------------------------
(***************************************************************************)
(* What has been read when the input ends.                                 *)
(***************************************************************************)
\* The fillers are clauses.
LEMMA ShortClauses ==
    /\ ClauseText(<<>>) = <<Num(0), NL>>
    /\ \A a, b \in Int : ClauseText(<<a, b>>) = UnitTautology(a, b)
  <1>1. <<>> \in Seq(Int) /\ 0 \in Int
    OBVIOUS
  <1>2. \A k \in Int : <<Num(k), SP>> \in Seq(Lexemes) /\ <<Num(k), NL>> \in Seq(Lexemes)
    BY LexemeType
  <1>3. ClauseText(<<>>) = <<Num(0), NL>>
    <2>1. ClauseText(<<>>) = Numbers(<<>>) \o <<Num(0), NL>>
      BY <1>1, ClauseGrows
    <2>2. <<>> \o <<Num(0), NL>> = <<Num(0), NL>>
      BY <1>1, <1>2, ConcatEmptySeq
    <2>. QED  BY <2>1, <2>2, NothingSaid
  <1>4. ASSUME NEW a \in Int, NEW b \in Int
        PROVE  ClauseText(<<a, b>>) = UnitTautology(a, b)
    <2>. DEFINE one == <<a>>
                two == <<a, b>>
                x == <<Num(a), SP>>
                y == <<Num(b), SP>>
                z == <<Num(0), NL>>
                all == UnitTautology(a, b)
    <2>1. /\ one \in Seq(Int) /\ one = Append(<<>>, a)
          /\ two \in Seq(Int) /\ two = Append(one, b)
      OBVIOUS
    <2>2. /\ x \in Seq(Lexemes) /\ Len(x) = 2 /\ x[1] = Num(a) /\ x[2] = SP
          /\ y \in Seq(Lexemes) /\ Len(y) = 2 /\ y[1] = Num(b) /\ y[2] = SP
          /\ z \in Seq(Lexemes) /\ Len(z) = 2 /\ z[1] = Num(0) /\ z[2] = NL
      BY <1>1, <1>2
    <2>3. /\ all \in Seq(Lexemes) /\ Len(all) = 6
          /\ all[1] = Num(a) /\ all[2] = SP /\ all[3] = Num(b)
          /\ all[4] = SP /\ all[5] = Num(0) /\ all[6] = NL
      BY LexemeType DEF UnitTautology
    <2>. HIDE DEF one, two
    <2>4. Numbers(one) = x
      <3>1. Numbers(one) = Numbers(<<>>) \o x
        BY <1>1, <2>1, ClauseGrows
      <3>2. <<>> \o x = x
        BY <2>2, ConcatEmptySeq
      <3>. QED  BY <3>1, <3>2, NothingSaid
    <2>5. ClauseText(two) = (x \o y) \o z
      <3>1. Numbers(two) = Numbers(one) \o y
        BY <2>1, ClauseGrows
      <3>2. ClauseText(two) = Numbers(two) \o z
        BY <2>1, ClauseGrows
      <3>. QED  BY <2>4, <3>1, <3>2
    <2>. HIDE DEF x, y, z, all
    <2>6. /\ x \o y \in Seq(Lexemes) /\ Len(x \o y) = 4
          /\ \A i \in 1..4 : (x \o y)[i] = IF i <= 2 THEN x[i] ELSE y[i - 2]
      <3>1. /\ x \o y \in Seq(Lexemes) /\ Len(x \o y) = Len(x) + Len(y)
            /\ \A i \in 1..Len(x) + Len(y) :
                  (x \o y)[i] = IF i <= Len(x) THEN x[i] ELSE y[i - Len(x)]
        BY <2>2, Joined, Zenon
      <3>. QED  BY <2>2, <3>1
    <2>. DEFINE u == x \o y
    <2>7. /\ u \o z \in Seq(Lexemes) /\ Len(u \o z) = 6
          /\ \A i \in 1..6 : (u \o z)[i] = IF i <= 4 THEN u[i] ELSE z[i - 4]
      <3>1. u \in Seq(Lexemes) /\ Len(u) = 4
        BY <2>6
      <3>. HIDE DEF u
      <3>2. /\ u \o z \in Seq(Lexemes) /\ Len(u \o z) = Len(u) + Len(z)
            /\ \A i \in 1..Len(u) + Len(z) :
                  (u \o z)[i] = IF i <= Len(u) THEN u[i] ELSE z[i - Len(u)]
        BY <2>2, <3>1, Joined, Zenon
      <3>. QED  BY <2>2, <3>1, <3>2, SMTT(20)
    <2>8. \A i \in 1..4 : u[i] = IF i <= 2 THEN x[i] ELSE y[i - 2]
      BY <2>6
    <2>. HIDE DEF u
    <2>9. \A i \in 1..6 : (u \o z)[i] = all[i]
      <3>1. u[1] = x[1] /\ u[2] = x[2] /\ u[3] = y[1] /\ u[4] = y[2]
        BY <2>8
      <3>. DEFINE w == u \o z
      <3>2. /\ w[1] = u[1] /\ w[2] = u[2] /\ w[3] = u[3] /\ w[4] = u[4]
            /\ w[5] = z[1] /\ w[6] = z[2]
        BY <2>7
      <3>. HIDE DEF w
      <3>3. /\ w[1] = all[1] /\ w[2] = all[2] /\ w[3] = all[3]
            /\ w[4] = all[4] /\ w[5] = all[5] /\ w[6] = all[6]
        BY <2>2, <2>3, <3>1, <3>2
      <3>4. \A i \in 1..6 : w[i] = all[i]
        <4>1. \A i \in 1..6 : i = 1 \/ i = 2 \/ i = 3 \/ i = 4 \/ i = 5 \/ i = 6
          OBVIOUS
        <4>. QED  BY <3>3, <4>1
      <3>. QED  BY <3>4 DEF w
    <2>10. u \o z = all
      BY <2>3, <2>7, <2>9, SeqEqual
    <2>. QED  BY <2>5, <2>10 DEF two, u, all
  <1>. QED  BY <1>3, <1>4

\* Clauses are sent as literals only.
LEMMA LiteralsOnly ==
    ASSUME NEW cs \in Seq(Seq(Int))
    PROVE  \A i \in 1..Len(MatrixMessages(cs)) : MatrixMessages(cs)[i].type = "LITERAL"
  <1>. DEFINE L == {m \in Messages : m.type = "LITERAL"}
              Sent(c) == Append(Literals(c), Literal(0))
              f == [i \in 1..Len(cs) |-> Sent(cs[i])]
  <1>1. \A k \in Int : Literal(k) \in L
    BY MessageType DEF Literal, Msg
  <1>. HIDE DEF L
  <1>2. ASSUME NEW c \in Seq(Int) PROVE Sent(c) \in Seq(L)
    <2>1. Len(c) \in Nat /\ \A i \in 1..Len(c) : c[i] \in Int
      OBVIOUS
    <2>2. Literals(c) \in Seq(L)
      BY <1>1, <2>1 DEF Literals
    <2>3. Literal(0) \in L
      BY <1>1
    <2>. QED  BY <2>2, <2>3, AppendProperties
  <1>. HIDE DEF Sent
  <1>3. f \in Seq(Seq(L))
    <2>1. Len(cs) \in Nat /\ \A i \in 1..Len(cs) : cs[i] \in Seq(Int)
      OBVIOUS
    <2>. QED  BY <1>2, <2>1
  <1>4. MatrixMessages(cs) = FlattenSeq(f)
    BY DEF MatrixMessages, Sent
  <1>5. MatrixMessages(cs) \in Seq(L)
    <2>1. <<>> \in Seq(L)
      OBVIOUS
    <2>. HIDE DEF f
    <2>. QED  BY <1>3, <1>4, <2>1, FlattenAppend
  <1>6. \A i \in 1..Len(MatrixMessages(cs)) : MatrixMessages(cs)[i] \in L
    BY <1>5
  <1>. QED  BY <1>6 DEF L

\* The filler is the one of the reference.
LEMMA FillerIsRight ==
    ASSUME TypeOK, CallsInv, open = <<>>
    PROVE  FillerFor(First(Script)) = FillerText
  <1>. DEFINE p == PrefixMessages
              q == MatrixMessages(Matrix)
  <1>1. p \in Seq(Messages) /\ Len(p) = Len(prefix) /\ Matrix \in Seq(Seq(Int))
        /\ q \in Seq(Messages) /\ Len(prefix) \in Nat /\ prefix \in Seq(Int)
    <2>1. PrefixIsSent /\ Matrix \in Seq(Seq(Int)) /\ open \in Seq(Int)
      BY PrefixSent, ScriptType DEF TypeOK
    <2>2. Len(prefix) \in Nat /\ prefix \in Seq(Int)
      BY DEF TypeOK
    <2>. QED  BY <2>1, <2>2, SendsType DEF PrefixIsSent
  <1>2. Script = p \o q
    <2>1. p \o q \in Seq(Messages)
      BY <1>1, ConcatProperties
    <2>2. (p \o q) \o <<>> = p \o q
      BY <2>1, ConcatEmptySeq
    <2>. QED  BY <2>2, NothingSaid DEF Script, Sends
  <1>3. CASE prefix = <<>>
    <2>1. Script = q
      <3>1. p = <<>>
        BY <1>1, <1>3, EmptySeq
      <3>. QED  BY <1>1, <1>2, <3>1, ConcatEmptySeq
    <2>2. First(Script).type # "QUANTIFIER"
      <3>1. CASE q = <<>>
        BY <2>1, <3>1 DEF First, Header, Msg
      <3>2. CASE q # <<>>
        <4>1. 1 \in 1..Len(q)
          BY <1>1, <3>2, EmptySeq, LenProperties
        <4>2. q[1].type = "LITERAL"
          BY <1>1, <4>1, LiteralsOnly
        <4>. QED  BY <2>1, <3>2, <4>2 DEF First
      <3>. QED  BY <3>1, <3>2
    <2>. QED  BY <1>3, <2>2, ShortClauses DEF FillerFor, FillerText
  <1>4. CASE prefix # <<>>
    <2>1. 1 \in 1..Len(prefix)
      BY <1>1, <1>4, EmptySeq
    <2>2. Bound(1) \in Int /\ p[1] = Quantifier(Bound(1)) /\ Bound(1) # 0
      BY <1>4, <2>1, PrefixSent DEF PrefixIsSent, CallsInv
    <2>. HIDE DEF p, q
    <2>3. Script[1] = p[1] /\ Script # <<>>
      <3>1. /\ Len(p \o q) = Len(p) + Len(q) /\ Len(q) \in Nat
            /\ \A i \in 1..Len(p) + Len(q) :
                  (p \o q)[i] = IF i <= Len(p) THEN p[i] ELSE q[i - Len(p)]
        BY <1>1, Joined, Zenon
      <3>2. 1 \in 1..Len(p) + Len(q) /\ 1 <= Len(p) /\ Len(p \o q) # 0
        BY <1>1, <2>1, <3>1
      <3>. QED  BY <1>2, <3>1, <3>2, EmptySeq
    <2>4. First(Script) = Quantifier(Bound(1))
      BY <2>2, <2>3 DEF First
    <2>5. First(Script).type = "QUANTIFIER" /\ First(Script).data = Bound(1)
      BY <2>4 DEF Quantifier, Msg
    <2>6. ClauseText(<<Bound(1), -Bound(1)>>) = UnitTautology(Bound(1), -Bound(1))
          /\ ClauseText(<<-1, 1>>) = UnitTautology(-1, 1)
      BY <2>2, ShortClauses
    <2>. QED  BY <1>4, <2>5, <2>6, ShortClauses DEF FillerFor, FillerText
  <1>. QED  BY <1>3, <1>4

\* What the reference puts behind entry k when its block ends there.
BlockEnd(k) ==
    IF k \in DOMAIN prefix /\ prefix[k] # 0 /\ ~SameBlock(k, k + 1)
    THEN Closing ELSE <<>>

\* The runtime ends a block when it has met what follows, the reference at the
\* last entry of the block.
LEMMA EntrySaid ==
    ASSUME TypeOK, NEW k \in Nat, k + 1 \in DOMAIN prefix
    PROVE  \E u \in Seq(Lexemes) :
              /\ Says(IF k = 0 THEN Header ELSE PrefixMessages[k], PrefixMessages[k + 1])
                   = BlockEnd(k) \o u
              /\ QuantifierText(k + 1) = u \o BlockEnd(k + 1)
  <1>0. PICK j \in Nat : j = k + 1
    OBVIOUS
  <1>. DEFINE p == IF k = 0 THEN Header ELSE PrefixMessages[k]
              b == Bound(j)
              m == Quantifier(b)
  <1>1. /\ prefix \in Seq(Int) /\ DOMAIN prefix = 1..Len(prefix) /\ Len(prefix) \in Nat
        /\ j \in 1..Len(prefix) /\ j - 1 = k /\ j = k + 1
    BY <1>0 DEF TypeOK
  <1>2. \A i \in 1..Len(prefix) : /\ Bound(i) \in Int /\ (Bound(i) = 0 <=> prefix[i] = 0)
                                  /\ PrefixMessages[i] = Quantifier(Bound(i))
    BY PrefixSent DEF PrefixIsSent
  <1>3. m.type = "QUANTIFIER" /\ m.data = b /\ b \in Int /\ PrefixMessages[j] = m
        /\ (b = 0 <=> prefix[j] = 0)
    BY <1>1, <1>2 DEF Quantifier, Msg
  <1>4. k # 0 => k \in DOMAIN prefix
    BY <1>1
  <1>5. k = 0 => k \notin DOMAIN prefix
    BY <1>1
  <1>6. p.type = "QUANTIFIER" /\ p.data # 0 <=> k \in DOMAIN prefix /\ prefix[k] # 0
    <2>1. CASE k = 0
      BY <1>5, <2>1 DEF Header, Msg
    <2>2. CASE k # 0
      <3>1. p = Quantifier(Bound(k)) /\ (Bound(k) = 0 <=> prefix[k] = 0)
        BY <1>1, <1>2, <1>4, <2>2
      <3>. QED  BY <1>4, <2>2, <3>1 DEF Quantifier, Msg
    <2>. QED  BY <2>1, <2>2
  <1>7. k \in DOMAIN prefix => p.data = Bound(k)
    <2>1. SUFFICES ASSUME k \in DOMAIN prefix PROVE p.data = Bound(k)
      OBVIOUS
    <2>2. p = Quantifier(Bound(k))
      BY <1>1, <1>2, <1>5, <2>1
    <2>. HIDE DEF p
    <2>. QED  BY <2>2 DEF Quantifier, Msg
  <1>8. Closing \in Seq(Lexemes) /\ <<>> \in Seq(Lexemes)
        /\ Opened(b) \in Seq(Lexemes) /\ <<SP, Num(Abs(b))>> \in Seq(Lexemes)
    <2>1. -b \in Int /\ Abs(b) \in Int
      BY <1>3 DEF Abs
    <2>. QED  BY <1>3, <2>1, LexemeType DEF Closing, Opened
  <1>9. BlockEnd(k) \in Seq(Lexemes) /\ BlockEnd(j) \in Seq(Lexemes)
    BY <1>8 DEF BlockEnd
  <1>10. Abs(prefix[j]) = Abs(b)
    <2>1. prefix[j] \in Int
      BY <1>1
    <2>. QED  BY <2>1 DEF Bound, Abs
  <1>. HIDE DEF p, m, b
  <1>11. CASE b = 0
    <2>1. ~SameBlock(k, j) /\ prefix[j] = 0
      BY <1>3, <1>11 DEF SameBlock
    <2>2. Says(p, m) = BlockEnd(k)
      BY <1>1, <1>3, <1>6, <1>11, <2>1 DEF Says, BlockEnd
    <2>3. QuantifierText(j) = <<>> /\ BlockEnd(j) = <<>>
      BY <2>1 DEF QuantifierText, BlockEnd
    <2>4. BlockEnd(k) \o <<>> = BlockEnd(k) /\ <<>> \o <<>> = <<>>
      BY <1>8, <1>9, ConcatEmptySeq
    <2>5. Says(p, m) = BlockEnd(k) \o <<>> /\ QuantifierText(j) = <<>> \o BlockEnd(j)
      BY <2>2, <2>3, <2>4
    <2>. QED  BY <1>0, <1>3, <1>8, <2>5 DEF p
  <1>12. CASE b # 0 /\ SameBlock(k, j)
    <2>. DEFINE u == <<SP, Num(Abs(b))>>
    <2>1. k \in DOMAIN prefix /\ prefix[k] # 0 /\ ((p.data > 0) <=> (b > 0)) /\ prefix[j] # 0
      BY <1>7, <1>12 DEF SameBlock, b
    <2>2. Says(p, m) = u /\ BlockEnd(k) = <<>>
      BY <1>1, <1>3, <1>6, <1>12, <2>1 DEF Says, BlockEnd
    <2>3. QuantifierText(j) = (<<>> \o u) \o BlockEnd(j)
      BY <1>1, <1>10, <1>12, <2>1, Zenon DEF QuantifierText, BlockEnd, Closing
    <2>. HIDE DEF u
    <2>4. u \in Seq(Lexemes) /\ <<>> \o u = u
      BY <1>8, ConcatEmptySeq DEF u
    <2>5. Says(p, m) = BlockEnd(k) \o u /\ QuantifierText(j) = u \o BlockEnd(j)
      BY <2>2, <2>3, <2>4
    <2>. QED  BY <1>0, <1>3, <2>4, <2>5 DEF p
  <1>13. CASE b # 0 /\ ~SameBlock(k, j)
    <2>. DEFINE u == Opened(b)
                o == IF b > 0 THEN Exists ELSE Forall
    <2>1. Says(p, m) = BlockEnd(k) \o u
      <3>1. CASE k \in DOMAIN prefix /\ prefix[k] # 0
        <4>1. ~((b > 0) <=> (p.data > 0))
          BY <1>1, <1>3, <1>7, <1>13, <3>1 DEF SameBlock, b
        <4>2. Says(p, m) = Closing \o Opened(b)
          BY <1>3, <1>6, <1>13, <3>1, <4>1 DEF Says
        <4>. QED  BY <1>1, <1>13, <3>1, <4>2 DEF BlockEnd
      <3>2. CASE ~(k \in DOMAIN prefix /\ prefix[k] # 0)
        <4>1. Says(p, m) = Opened(b) /\ BlockEnd(k) = <<>>
          BY <1>1, <1>3, <1>6, <1>13, <3>2 DEF Says, BlockEnd
        <4>. QED  BY <1>8, <4>1, ConcatEmptySeq
      <3>. QED  BY <3>1, <3>2
    <2>2. QuantifierText(j) = (<<o>> \o <<SP, Num(Abs(b))>>) \o BlockEnd(j)
      <3>1. prefix[j] # 0
        BY <1>3, <1>13
      <3>. QED  BY <1>1, <1>10, <1>13, <3>1 DEF QuantifierText, BlockEnd, Closing, b
    <2>3. u = <<o, SP, Num(Abs(b))>> /\ o \in Lexemes /\ Num(Abs(b)) \in Lexemes
      <3>1. Abs(b) \in Int /\ Abs(b) = IF b > 0 THEN b ELSE -b
        BY <1>3, <1>13 DEF Abs
      <3>. QED  BY <1>13, <3>1, LexemeType DEF Opened
    <2>. HIDE DEF u, o
    <2>4. u = <<o>> \o <<SP, Num(Abs(b))>>
      BY <2>3, Side, LexemeType, ZenonT(30)
    <2>5. u \in Seq(Lexemes)
      BY <1>8 DEF u
    <2>6. QuantifierText(j) = u \o BlockEnd(j)
      BY <2>2, <2>4
    <2>. QED  BY <1>0, <1>3, <2>1, <2>5, <2>6 DEF p
  <1>. QED  BY <1>11, <1>12, <1>13

\* The prefix, its last block ended by what follows, reads as the reference has
\* it.
LEMMA PrefixText ==
    ASSUME TypeOK
    PROVE  Closed(PrefixMessages, BlockOpen)
             = FlattenSeq([i \in DOMAIN prefix |-> QuantifierText(i)])
  <1>0. PICK n \in Nat : n = Len(prefix)
    BY LenProperties DEF TypeOK
  <1>. DEFINE q == PrefixMessages
              Taking(k) == SubSeq(q, 1, k)
              Blocks(k) == [i \in 1..k |-> QuantifierText(i)]
              K(k) == FlattenSeq(Blocks(k))
              T == {k \in 0..n : Rendered(Taking(k)) \o BlockEnd(k) = K(k)}
  <1>1. q \in Seq(Messages) /\ Len(q) = n /\ DOMAIN prefix = 1..n
    <2>1. prefix \in Seq(Int)
      BY DEF TypeOK
    <2>. QED  BY <1>0, <2>1, PrefixSent DEF PrefixIsSent
  <1>. HIDE DEF q
  <1>2. ASSUME NEW k \in 0..n
        PROVE  /\ Taking(k) \in Seq(Messages) /\ Len(Taking(k)) = k
               /\ \A i \in 1..k : Taking(k)[i] = q[i]
    <2>1. k \in Nat /\ k <= Len(q)
      BY <1>1
    <2>. QED  BY <1>1, <2>1, FrontKept
  <1>3. \A k \in Nat : BlockEnd(k) \in Seq(Lexemes)
    <2>1. Closing \in Seq(Lexemes) /\ <<>> \in Seq(Lexemes)
      BY LexemeType DEF Closing
    <2>. QED  BY <2>1 DEF BlockEnd
  <1>. HIDE DEF Taking
  <1>4. \A i \in 1..n : QuantifierText(i) \in Seq(Lexemes)
    <2>1. ASSUME NEW i \in 1..n PROVE QuantifierText(i) \in Seq(Lexemes)
      <3>1. i - 1 \in Nat /\ (i - 1) + 1 = i
        OBVIOUS
      <3>2. PICK k \in Nat : k = i - 1
        BY <3>1
      <3>3. k + 1 = i /\ k + 1 \in DOMAIN prefix
        BY <1>1, <3>1, <3>2
      <3>4. PICK u \in Seq(Lexemes) : QuantifierText(k + 1) = u \o BlockEnd(k + 1)
        BY <3>3, EntrySaid
      <3>5. BlockEnd(i) \in Seq(Lexemes) /\ QuantifierText(i) = u \o BlockEnd(i)
        <4>1. i \in Nat
          BY <1>1
        <4>2. QuantifierText(i) = u \o BlockEnd(i)
          BY <3>3, <3>4, Zenon
        <4>. QED  BY <1>3, <4>1, <4>2
      <3>. QED  BY <3>5, ConcatProperties
    <2>. QED  BY <2>1
  <1>5. 0 \in T
    <2>1. Taking(0) = <<>>
      <3>1. 0 \in 0..n
        OBVIOUS
      <3>. QED  BY <1>2, <3>1, EmptySeq
    <2>2. BlockEnd(0) = <<>> /\ K(0) = <<>>
      <3>1. 0 \notin DOMAIN prefix
        BY <1>1
      <3>2. Blocks(0) = <<>>
        OBVIOUS
      <3>. QED  BY <3>1, <3>2, FlattenEmpty DEF BlockEnd
    <2>3. <<>> \o <<>> = <<>>
      OBVIOUS
    <2>4. Rendered(Taking(0)) = <<>> /\ 0 \in 0..n
      BY <2>1, NothingSaid
    <2>. HIDE DEF K
    <2>. QED  BY <2>2, <2>3, <2>4
  <1>6. ASSUME NEW k \in 0..n - 1, k \in T PROVE k + 1 \in T
    <2>1. /\ k \in Nat /\ k \in 0..n /\ k + 1 \in 0..n /\ k + 1 \in 1..n
          /\ k + 1 \in DOMAIN prefix
      BY <1>1
    <2>2. PICK u \in Seq(Lexemes) :
             /\ Says(IF k = 0 THEN Header ELSE q[k], q[k + 1]) = BlockEnd(k) \o u
             /\ QuantifierText(k + 1) = u \o BlockEnd(k + 1)
      BY <2>1, EntrySaid DEF q
    <2>. DEFINE s == Taking(k)
                t == Taking(k + 1)
                m == q[k + 1]
    <2>3. /\ s \in Seq(Messages) /\ Len(s) = k /\ \A i \in 1..k : s[i] = q[i]
          /\ t \in Seq(Messages) /\ Len(t) = k + 1 /\ \A i \in 1..k + 1 : t[i] = q[i]
      BY <1>2, <2>1
    <2>4. m \in Messages
      BY <1>1, <2>1
    <2>. HIDE DEF s, t, m
    <2>5. t = Append(s, m)
      <3>. DEFINE a == Append(s, m)
      <3>1. /\ a \in Seq(Messages) /\ Len(a) = k + 1 /\ a[k + 1] = m
            /\ \A i \in 1..k : a[i] = s[i]
        BY <2>3, <2>4
      <3>. HIDE DEF a
      <3>2. ASSUME NEW i \in 1..k + 1 PROVE t[i] = a[i]
        <4>1. i = k + 1 \/ i \in 1..k
          BY <2>1
        <4>. QED  BY <2>3, <3>1, <4>1 DEF m
      <3>3. t = a
        BY <2>3, <3>1, <3>2, SeqEqual
      <3>. QED  BY <3>3 DEF a
    <2>6. Before(s) = IF k = 0 THEN Header ELSE q[k]
      <3>1. k = 0 => s = <<>>
        BY <2>3, EmptySeq
      <3>2. k # 0 => s # <<>> /\ k \in 1..k
        BY <2>1, <2>3, EmptySeq
      <3>. QED  BY <2>3, <3>1, <3>2 DEF Before
    <2>7. /\ Rendered(s) \in Seq(Lexemes)
          /\ Rendered(t) = Rendered(s) \o (BlockEnd(k) \o u)
      <3>1. /\ Rendered(s) \in Seq(Lexemes)
            /\ Rendered(Append(s, m)) = Rendered(s) \o Says(Before(s), m)
        BY <2>3, <2>4, RenderedGrows
      <3>2. Says(Before(s), m) = BlockEnd(k) \o u
        BY <2>2, <2>6 DEF m
      <3>. QED  BY <2>5, <3>1, <3>2
    <2>8. K(k) \in Seq(Lexemes) /\ K(k + 1) = K(k) \o (u \o BlockEnd(k + 1))
      <3>. DEFINE f == Blocks(k)
                  g == Blocks(k + 1)
      <3>1. \A i \in 1..k + 1 : i \in 1..n
        BY <2>1
      <3>2. \A i \in 1..k : i \in 1..k + 1
        BY <2>1
      <3>3. /\ f \in [1..k -> Seq(Lexemes)] /\ g \in [1..k + 1 -> Seq(Lexemes)]
            /\ g[k + 1] = QuantifierText(k + 1) /\ \A i \in 1..k : g[i] = f[i]
        BY <1>4, <2>1, <3>1, <3>2
      <3>. HIDE DEF f, g
      <3>4. /\ FlattenSeq(f) \in Seq(Lexemes)
            /\ FlattenSeq(g) = FlattenSeq(f) \o g[k + 1]
        BY <2>1, <3>3, FlattenGrows
      <3>. QED  BY <2>2, <3>3, <3>4 DEF f, g
    <2>9. Rendered(s) \o BlockEnd(k) = K(k)
      BY <1>6 DEF s
    <2>. DEFINE r == Rendered(s)
                e == BlockEnd(k)
                f == BlockEnd(k + 1)
                w == K(k)
    <2>10. r \in Seq(Lexemes) /\ e \in Seq(Lexemes) /\ f \in Seq(Lexemes) /\ w \in Seq(Lexemes)
      BY <1>3, <2>1, <2>7, <2>8
    <2>. HIDE DEF r, e, f, w, K
    <2>11. r \o (e \o u) = w \o u
      <3>1. (r \o e) \o u = r \o (e \o u)
        BY <2>2, <2>10, ConcatText
      <3>. QED  BY <2>9, <3>1 DEF r, e, w
    <2>12. (w \o u) \o f = w \o (u \o f)
      BY <2>2, <2>10, ConcatText
    <2>13. Rendered(t) \o f = K(k + 1)
      BY <2>7, <2>8, <2>11, <2>12 DEF r, e, f, w
    <2>. QED  BY <2>1, <2>13 DEF f, t
  <1>7. n \in T
    <2>1. 0..n \subseteq T
      <3>. HIDE DEF T
      <3>. QED  BY <1>5, <1>6, CountingTo
    <2>2. n \in 0..n
      OBVIOUS
    <2>. HIDE DEF T
    <2>. QED  BY <2>1, <2>2
  <1>8. Taking(n) = q
    <2>1. n \in 0..n
      OBVIOUS
    <2>. QED  BY <1>1, <1>2, <2>1, SeqEqual
  <1>9. BlockEnd(n) = IF BlockOpen THEN Closing ELSE <<>>
    <2>1. ~SameBlock(n, n + 1)
      <3>1. n + 1 \notin DOMAIN prefix
        BY <1>1
      <3>. QED  BY <3>1 DEF SameBlock
    <2>2. prefix # <<>> <=> n \in DOMAIN prefix
      <3>1. prefix \in Seq(Int)
        BY DEF TypeOK
      <3>. QED  BY <1>0, <1>1, <3>1, EmptySeq
    <2>. QED  BY <1>0, <2>1, <2>2 DEF BlockEnd, BlockOpen
  <1>10. K(n) = FlattenSeq([i \in DOMAIN prefix |-> QuantifierText(i)])
    BY <1>1
  <1>. QED  BY <1>7, <1>8, <1>9, <1>10 DEF Closed, q

\* At the end of the input every message has been turned into text, and as many
\* fillers have been written as clauses were announced and not sent.
LEMMA EndDelivers ==
    ASSUME CommonInv, DeliveryInv, eof, role = "child"
    PROVE  text = FormulaText
  <1>1. TypeOK /\ RuntimeInv
    BY DEF CommonInv, BasicInv, OrderInv
  <1>2. QueueInv /\ StateInv /\ TextInv /\ ScriptInv /\ CallsInv
    BY DEF DeliveryInv
  <1>3. rt.state = "WORKING" /\ rt.outbuf = <<>> /\ rpc # "dispatch"
    BY <1>1 DEF RuntimeInv
  <1>4. msg.type = "SOLVE" /\ rt.written_clauses >= HeaderClauses
    <2>1. \A p : StateBehind(p) # "WORKING"
      BY DEF StateBehind
    <2>. QED  BY <1>2, <1>3, <2>1 DEF StateInv, Enough
  <1>5. Taken = Script
    <2>1. Stream = <<>>
      BY <1>2, <1>4 DEF QueueInv, Stream
    <2>2. Ahead = 0 /\ Hand = 0
      BY <1>3, <2>1, EmptySeq DEF Ahead, Ended, Hand
    <2>3. /\ Script \in Seq(Messages) /\ Taken \in Seq(Messages)
          /\ Len(Taken) = Len(Script)
          /\ \A i \in 1..Len(Script) : Taken[i] = Script[i]
      <3>1. /\ Done \in Nat /\ Done = Len(Script) - (Hand + Ahead)
            /\ Taken \in Seq(Messages) /\ Len(Taken) = Done
            /\ \A i \in 1..Done : Taken[i] = Script[i]
        BY <1>1, <1>2, TakenFacts
      <3>2. Script \in Seq(Messages) /\ Len(Script) \in Nat
        BY <1>1, ScriptType
      <3>3. Done = Len(Script)
        BY <2>2, <3>1, <3>2
      <3>. QED  BY <3>1, <3>2, <3>3
    <2>. QED  BY <2>3, SeqEqual
  <1>6. open = <<>> /\ (BlockOpen => clauses # <<>>) /\ Matrix = Written
    BY <1>2 DEF CallsInv, Matrix
  <1>7. /\ Written \in Seq(Seq(Int)) /\ Len(Written) \in Nat
        /\ DOMAIN Written = 1..Len(Written)
    BY <1>1, ScriptType
  <1>8. clauses # <<>> => Written # <<>>
    <2>1. clauses \in Seq(Seq(Int)) /\ Units(cube) \in Seq(Seq(Int))
      <3>1. cube \in Seq(Int) /\ 0 \in Int /\ clauses \in Seq(Seq(Int))
        BY <1>1 DEF TypeOK
      <3>. QED  BY <3>1, UnitsGrow
    <2>2. Len(Written) = Len(clauses) + Len(Units(cube))
          /\ Len(clauses) \in Nat /\ Len(Units(cube)) \in Nat
      <3>1. Written = clauses \o Units(cube)
        BY DEF Written, Units
      <3>. QED  BY <2>1, <3>1, Joined, Zenon
    <2>. QED  BY <1>7, <2>1, <2>2, EmptySeq
  <1>. DEFINE A == FlattenSeq([i \in DOMAIN prefix |-> QuantifierText(i)])
              B == MatrixText(Written)
              F == Filling(HeaderClauses - Len(Written), FillerText)
  <1>9. /\ A \in Seq(Lexemes) /\ B \in Seq(Lexemes) /\ ProblemLine \in Seq(Lexemes)
        /\ Closed(PrefixMessages, BlockOpen) = A
    <2>1. Closed(PrefixMessages, BlockOpen) = A
      BY <1>1, PrefixText
    <2>2. PrefixMessages \in Seq(Messages) /\ BlockOpen \in BOOLEAN /\ open \in Seq(Int)
      BY <1>1, PrefixSent, ScriptType DEF PrefixIsSent, TypeOK
    <2>3. B \in Seq(Lexemes)
      BY <1>7, <2>2, SendsType
    <2>4. ProblemLine \in Seq(Lexemes)
      <3>1. LitCount \in Int /\ HeaderClauses \in Int
        BY LibraryAssumption, RuntimeAssumption DEF HeaderClauses
      <3>. QED  BY <3>1, LexemeType DEF ProblemLine
    <2>. HIDE DEF A, B
    <2>. QED  BY <2>1, <2>2, <2>3, <2>4, ClosedType
  <1>10. Rendered(Script) = A \o B /\ ClauseEnds(Script) = Len(Written)
    <2>1. /\ ClauseEnds(Script) = Len(Written)
          /\ Rendered(Script) \o Lacks(BlockOpen, Written, <<>>)
               = (Closed(PrefixMessages, BlockOpen) \o MatrixText(Written)) \o Numbers(<<>>)
      BY <1>2, <1>6 DEF ScriptInv, Told, Script
    <2>2. Lacks(BlockOpen, Written, <<>>) = <<>>
      BY <1>6, <1>8 DEF Lacks
    <2>3. Rendered(Script) \in Seq(Lexemes)
      <3>1. Script \in Seq(Messages) /\ Header \in Messages
        BY <1>1, ScriptType, MessageType
      <3>. QED  BY <3>1, RenderedGrows
    <2>4. A \o B \in Seq(Lexemes)
      BY <1>9, ConcatProperties
    <2>. HIDE DEF A, B
    <2>5. /\ Rendered(Script) \o <<>> = Rendered(Script)
          /\ (A \o B) \o <<>> = A \o B
      BY <2>3, <2>4, ConcatEmptySeq
    <2>6. Rendered(Script) \o <<>> = (A \o B) \o <<>>
      BY <1>9, <2>1, <2>2, NothingSaid DEF B
    <2>. QED  BY <2>1, <2>5, <2>6
  <1>11. Filling(Fillers, rt.filler_clause) = F
    <2>1. rt.filler_clause = FillerText
      <3>1. rt.filler_clause = FillerFor(First(Script))
        BY <1>2, <1>5 DEF StateInv
      <3>. QED  BY <1>1, <1>2, <1>6, <3>1, FillerIsRight
    <2>2. Fillers = rt.written_clauses - Len(Written) /\ Fillers >= 0
          /\ (Fillers > 0 => rt.written_clauses <= HeaderClauses)
      BY <1>2, <1>5, <1>10 DEF TextInv, Fillers
    <2>3. HeaderClauses \in Int /\ rt.written_clauses \in Int
      BY <1>1, LibraryAssumption DEF HeaderClauses, TypeOK, Runtimes
    <2>4. CASE Fillers > 0
      <3>1. Fillers = HeaderClauses - Len(Written)
        BY <1>4, <1>7, <2>2, <2>3, <2>4
      <3>. QED  BY <2>1, <3>1
    <2>5. CASE ~(Fillers > 0)
      <3>1. Fillers = 0 /\ HeaderClauses - Len(Written) <= 0
            /\ HeaderClauses - Len(Written) \in Int
        BY <1>4, <1>7, <2>2, <2>3, <2>5
      <3>2. \A k \in Int : k <= 0 => 1..k = {} /\ 1..0 = {}
        OBVIOUS
      <3>3. 1..(HeaderClauses - Len(Written)) = 1..0
        BY <3>1, <3>2
      <3>4. F = Filling(0, FillerText)
        BY <3>3 DEF Filling
      <3>. QED  BY <2>1, <3>1, <3>4
    <2>. QED  BY <2>4, <2>5
  <1>12. text = (ProblemLine \o (A \o B)) \o F
    <2>1. text \o <<>> = text
      BY <1>1, ConcatEmptySeq DEF TypeOK
    <2>2. text \o rt.outbuf
            = (ProblemLine \o Rendered(Taken)) \o Filling(Fillers, rt.filler_clause)
      BY <1>2 DEF TextInv
    <2>. HIDE DEF A, B, F
    <2>. QED  BY <1>3, <1>5, <1>10, <1>11, <2>1, <2>2
  <1>13. FormulaText = ((ProblemLine \o A) \o B) \o F
    BY <1>7 DEF FormulaText, ProblemLine, MatrixText, Filling
  <1>14. (ProblemLine \o A) \o B = ProblemLine \o (A \o B)
    <2>. HIDE DEF A, B
    <2>. QED  BY <1>9, ConcatText
  <1>. HIDE DEF A, B, F
  <1>. QED  BY <1>12, <1>13, <1>14

\* When read() first returns 0 to a solving child, the solver has been given the
\* file that the client's calls describe, every message, clause and assumption
\* of it and the fillers up to the announced count: for any bounds, any stdio
\* buffer, any lengths the solver reads with, and every interleaving of the
\* library and the runtime, as long as the client ends its prefix and clauses.
THEOREM FormulaDelivered == ASSUME CommonUse PROVE Spec => []DeliversFormula
  <1>1. CommonInv /\ DeliveryInv => DeliversFormula
    BY EndDelivers DEF DeliversFormula
  <1>. QED  BY <1>1, AlwaysDelivery, PTL

=============================================================================
