---------------------------- MODULE MessageProofs ----------------------------
(***************************************************************************)
(* What the two compositions of library and runtime, Quapi and             *)
(* Serialization, have in common: messages, stdio streams, and the         *)
(* counters of quapi_solver.                                               *)
(***************************************************************************)
EXTENDS QuapiMessages, QuapiLibrary, SequenceTheorems, FiniteSetTheorems, TLAPS

-----------------------------------------------------------------------------
(***************************************************************************)
(* Types.                                                                  *)
(***************************************************************************)
\* Writing a message to a stdio stream (quapi_write_msg_to_file), and closing
\* or flushing it, leaves a stream of messages.
LEMMA StreamType ==
    ASSUME NEW f \in Streams, NEW m \in Messages
    PROVE  /\ quapi_write_msg_to_file(f, m) \in Streams
           /\ FFlush(f) \in Streams
  <1>1. FWrite(f, m) \in Streams
    BY DEF FWrite, Streams
  <1>2. \A g \in Streams : FFlush(g) \in Streams
    BY DEF FFlush, Streams
  <1>. QED  BY <1>1, <1>2 DEF quapi_write_msg_to_file

\* Every message the model sends is a message.
LEMMA MessageType ==
    /\ Header \in Messages /\ Started \in Messages /\ Solve \in Messages
    /\ Destructed \in Messages
    /\ \A n \in Int : /\ Literal(n) \in Messages /\ Fork(n) \in Messages
                      /\ ForkReport(n) \in Messages /\ ExitCode(n) \in Messages
                      /\ Quantifier(n) \in Messages
  BY DEF Header, Started, Solve, Destructed, Literal, Quantifier, Fork,
         ForkReport, ExitCode, Msg, Messages, MsgTypes, QUAPI_API_VERSION

\* What the API calls make of the counters.
LEMMA SolverType ==
    ASSUME NEW s \in Solvers, NEW lit \in Int
    PROVE  /\ AfterQuantify(s, lit) \in Solvers
           /\ AfterAdd(s, lit) \in Solvers
           /\ AfterMakeSolvable(s) \in Solvers
           /\ AfterAssume(s) \in Solvers
           /\ Working(s) \in Solvers
           /\ s.written_assumptions <= s.written_clauses
                => DropAssumptions(s) \in Solvers
  \* Sums get names, so that the solver sees record updates only.
  <1>. DEFINE c1 == IF lit = 0 THEN s.written_clauses + 1 ELSE s.written_clauses
              c2 == s.written_clauses + 1
              a2 == s.written_assumptions + 1
              c3 == s.written_clauses - s.written_assumptions
              a3 == 0
              q4 == IF lit # 0 THEN s.written_quantifier_literals + 1
                               ELSE s.written_quantifier_literals
              d4 == IF lit < 0 /\ InPrefixDepth(s)
                    THEN s.written_quantifier_literals
                    ELSE s.universal_prefix_depth
  <1>1. c1 \in Nat /\ c2 \in Nat /\ a2 \in Nat /\ a3 \in Nat
    BY DEF Solvers
  <1>2. s.written_assumptions <= s.written_clauses => c3 \in Nat
    BY DEF Solvers
  <1>3. AfterAdd(s, lit) = [s EXCEPT !.state = "INPUT_LITERALS",
                                     !.written_clauses = c1]
    BY DEF AfterAdd
  <1>4. AfterAssume(s) = [s EXCEPT !.state = "INPUT_ASSUMPTIONS",
                                   !.written_clauses = c2,
                                   !.written_assumptions = a2]
    BY DEF AfterAssume
  <1>5. DropAssumptions(s) = [s EXCEPT !.state = "INPUT_LITERALS",
                                       !.written_clauses = c3,
                                       !.written_assumptions = a3]
    BY DEF DropAssumptions
  <1>10. q4 \in Nat /\ d4 \in Nat \cup {-1}
    BY DEF Solvers
  <1>11. AfterQuantify(s, lit) = [s EXCEPT !.universal_prefix_depth = d4,
                                           !.written_quantifier_literals = q4]
    BY DEF AfterQuantify
  <1>. HIDE DEF c1, c2, a2, c3, a3, q4, d4
  <1>6. AfterAdd(s, lit) \in Solvers
    BY <1>1, <1>3 DEF Solvers, LibStates
  <1>7. AfterAssume(s) \in Solvers
    BY <1>1, <1>4 DEF Solvers, LibStates
  <1>8. c3 \in Nat => DropAssumptions(s) \in Solvers
    BY <1>1, <1>5 DEF Solvers, LibStates
  <1>9. AfterMakeSolvable(s) \in Solvers /\ Working(s) \in Solvers
    BY DEF AfterMakeSolvable, Working, Solvers, LibStates
  <1>12. AfterQuantify(s, lit) \in Solvers
    BY <1>10, <1>11 DEF Solvers
  <1>. QED  BY <1>2, <1>6, <1>7, <1>8, <1>9, <1>12

\* Two queues of messages, one behind the other.
LEMMA ConcatMessages ==
    \A a, b, c \in Seq(Messages) : (a \o b) \o c = a \o (b \o c)
  <1>1. ASSUME NEW a \in Seq(Messages), NEW b \in Seq(Messages),
               NEW c \in Seq(Messages)
        PROVE  (a \o b) \o c = a \o (b \o c)
    BY ConcatAssociative, SMT
  <1>. QED  BY <1>1

-----------------------------------------------------------------------------
(***************************************************************************)
(* Counting clauses in a queue.                                            *)
(***************************************************************************)
Ends(s) == {i \in 1..Len(s) : s[i] = Literal(0)}

\* A queue ends finitely many clauses.
LEMMA EndsFinite ==
    ASSUME NEW s \in Seq(Messages)
    PROVE  /\ IsFiniteSet(Ends(s)) /\ Ends(s) \subseteq 1..Len(s)
           /\ ClauseEnds(s) = Cardinality(Ends(s)) /\ ClauseEnds(s) \in Nat
  <1>1. Len(s) \in Nat /\ Ends(s) \subseteq 1..Len(s)
    BY DEF Ends
  <1>2. IsFiniteSet(1..Len(s))
    BY <1>1, FS_Interval
  <1>3. IsFiniteSet(Ends(s))
    BY <1>1, <1>2, FS_Subset
  <1>4. ClauseEnds(s) = Cardinality(Ends(s))
    BY DEF ClauseEnds, Ends
  <1>. QED  BY <1>1, <1>3, <1>4, FS_CardinalityType

\* A message behind the queue counts if it is a zero.
LEMMA EndsAppend ==
    ASSUME NEW s \in Seq(Messages), NEW m \in Messages
    PROVE  ClauseEnds(Append(s, m))
             = ClauseEnds(s) + (IF m = Literal(0) THEN 1 ELSE 0)
  <1>. DEFINE t == Append(s, m)
              n == Len(s) + 1
  <1>1. /\ t \in Seq(Messages) /\ Len(t) = n /\ Len(s) \in Nat /\ t[n] = m
        /\ \A i \in 1..Len(s) : t[i] = s[i]
    OBVIOUS
  <1>. HIDE DEF t
  <1>2. Ends(t) = IF m = Literal(0) THEN Ends(s) \cup {n} ELSE Ends(s)
    BY <1>1 DEF Ends
  <1>3. /\ IsFiniteSet(Ends(s)) /\ n \notin Ends(s)
        /\ ClauseEnds(s) = Cardinality(Ends(s)) /\ ClauseEnds(s) \in Nat
        /\ ClauseEnds(t) = Cardinality(Ends(t))
    BY <1>1, EndsFinite
  <1>4. Cardinality(Ends(s) \cup {n}) = Cardinality(Ends(s)) + 1
    BY <1>3, FS_AddElement
  <1>5. ClauseEnds(t) = ClauseEnds(s) + (IF m = Literal(0) THEN 1 ELSE 0)
    BY <1>2, <1>3, <1>4
  <1>. QED  BY <1>5 DEF t

\* A message taken from the front counts no longer.
LEMMA EndsTail ==
    ASSUME NEW s \in Seq(Messages), s # <<>>
    PROVE  ClauseEnds(s)
             = ClauseEnds(Tail(s)) + (IF s[1] = Literal(0) THEN 1 ELSE 0)
  <1>. DEFINE t == Tail(s)
              shift == [i \in Ends(t) |-> i + 1]
  <1>1. /\ t \in Seq(Messages) /\ Len(t) = Len(s) - 1
        /\ Len(s) \in Nat /\ Len(s) >= 1
        /\ \A i \in 1..Len(t) : t[i] = s[i + 1]
    OBVIOUS
  <1>. HIDE DEF t
  <1>2. \A i \in Ends(t) : i \in Nat /\ i + 1 \in Ends(s) \ {1}
    BY <1>1 DEF Ends
  <1>3. \A j \in Ends(s) \ {1} : j - 1 \in Ends(t) /\ (j - 1) + 1 = j
    BY <1>1 DEF Ends
  <1>4. shift \in Bijection(Ends(t), Ends(s) \ {1})
    <2>1. shift \in [Ends(t) -> Ends(s) \ {1}]
      BY <1>2
    <2>2. \A i, j \in Ends(t) : shift[i] = shift[j] => i = j
      BY <1>2
    <2>3. \A j \in Ends(s) \ {1} : \E i \in Ends(t) : shift[i] = j
      BY <1>3
    <2>. HIDE DEF shift
    <2>. QED
      BY <2>1, <2>2, <2>3 DEF Bijection, Injection, Surjection, IsInjective
  <1>5. ExistsBijection(Ends(t), Ends(s) \ {1})
    BY <1>4 DEF ExistsBijection
  <1>6. /\ IsFiniteSet(Ends(s)) /\ IsFiniteSet(Ends(t))
        /\ ClauseEnds(s) = Cardinality(Ends(s)) /\ ClauseEnds(s) \in Nat
        /\ ClauseEnds(t) = Cardinality(Ends(t)) /\ ClauseEnds(t) \in Nat
    BY <1>1, EndsFinite
  <1>7. Cardinality(Ends(s) \ {1}) = Cardinality(Ends(t))
    BY <1>5, <1>6, FS_Bijection
  <1>8. Cardinality(Ends(s) \ {1})
          = IF 1 \in Ends(s) THEN Cardinality(Ends(s)) - 1 ELSE Cardinality(Ends(s))
    BY <1>6, FS_RemoveElement
  <1>9. 1 \in Ends(s) <=> s[1] = Literal(0)
    BY <1>1 DEF Ends
  <1>10. ClauseEnds(s) = ClauseEnds(t) + (IF s[1] = Literal(0) THEN 1 ELSE 0)
    BY <1>6, <1>7, <1>8, <1>9
  <1>. QED  BY <1>10 DEF t
-----------------------------------------------------------------------------
(***************************************************************************)
(* What a stream holds, whatever is buffered and whatever is flushed.      *)
(***************************************************************************)
LEMMA ContentsWritten ==
    ASSUME NEW f \in Streams, NEW m \in Messages
    PROVE  /\ Contents(f) \in Seq(Messages)
           /\ Contents(quapi_write_msg_to_file(f, m)) = Append(Contents(f), m)
           /\ Contents(FFlush(f)) = Contents(f)
  <1>1. /\ f.buf \in Seq(Messages) /\ f.pipe \in Seq(Messages)
        /\ f.pipe \o f.buf \in Seq(Messages)
    BY ConcatProperties DEF Streams
  <1>2. ASSUME NEW g \in Streams PROVE Contents(FFlush(g)) = Contents(g)
    <2>1. g.buf \in Seq(Messages) /\ g.pipe \in Seq(Messages)
      BY DEF Streams
    <2>2. g.pipe \o g.buf \in Seq(Messages)
      BY <2>1, ConcatProperties
    <2>3. FFlush(g).buf = <<>> /\ FFlush(g).pipe = g.pipe \o g.buf
      BY DEF FFlush
    <2>. QED  BY <2>2, <2>3, ConcatEmptySeq DEF Contents
  <1>3. FWrite(f, m) \in Streams
    BY DEF FWrite, Streams
  <1>4. Contents(FWrite(f, m)) = Append(Contents(f), m)
    <2>1. <<m>> \in Seq(Messages)
      OBVIOUS
    <2>2. Append(f.pipe \o f.buf, m) = (f.pipe \o f.buf) \o <<m>>
      BY <1>1, AppendIsConcat
    <2>3. Append(f.buf, m) = f.buf \o <<m>>
      BY <1>1, AppendIsConcat
    <2>4. (f.pipe \o f.buf) \o <<m>> = f.pipe \o (f.buf \o <<m>>)
      BY <1>1, <2>1, ConcatMessages, Zenon
    <2>5. \/ /\ FWrite(f, m).pipe = f.pipe \o f.buf
             /\ FWrite(f, m).buf = <<m>>
          \/ /\ FWrite(f, m).pipe = f.pipe
             /\ FWrite(f, m).buf = Append(f.buf, m)
      BY DEF FWrite
    <2>. QED  BY <2>2, <2>3, <2>4, <2>5 DEF Contents
  <1>5. Contents(f) \in Seq(Messages)
    BY <1>1 DEF Contents
  <1>. QED  BY <1>2, <1>3, <1>4, <1>5 DEF quapi_write_msg_to_file

\* A reader takes the oldest message.
LEMMA ContentsRead ==
    ASSUME NEW f \in Streams, f.pipe # <<>>
    PROVE  /\ Contents(f) \in Seq(Messages) /\ Contents(f) # <<>>
           /\ Contents(f)[1] = Head(f.pipe)
           /\ Contents([f EXCEPT !.pipe = Tail(@)]) = Tail(Contents(f))
  <1>. DEFINE p == f.pipe
              b == f.buf
  <1>1. p \in Seq(Messages) /\ b \in Seq(Messages)
    BY DEF Streams
  <1>2. /\ [f EXCEPT !.pipe = Tail(@)].pipe = Tail(p)
        /\ [f EXCEPT !.pipe = Tail(@)].buf = b
    BY DEF Streams
  <1>3. /\ Contents(f) = p \o b
        /\ Contents([f EXCEPT !.pipe = Tail(@)]) = Tail(p) \o b
    BY <1>2 DEF Contents
  <1>. HIDE DEF p, b
  <1>4. p # <<>>
    BY DEF p
  <1>5. /\ p \o b \in Seq(Messages) /\ Len(p \o b) = Len(p) + Len(b)
        /\ Len(p) >= 1 /\ (p \o b)[1] = p[1] /\ p[1] = Head(p)
    BY <1>1, <1>4
  <1>6. p \o b # <<>>
    BY <1>5, <1>1
  <1>7. Tail(p \o b) = Tail(p) \o b
    BY <1>1, <1>4, <1>5, <1>6
  <1>. QED  BY <1>3, <1>5, <1>6, <1>7 DEF p
-----------------------------------------------------------------------------
(***************************************************************************)
(* Clauses and assumptions in the counters.                                *)
(***************************************************************************)
Added(s) == s.written_clauses - s.written_assumptions

\* Only quapi_add changes the number of clauses without the cube.
LEMMA AddedKept ==
    ASSUME NEW s \in Solvers
    PROVE  /\ Added(s) \in Int
           /\ \A lit \in Int : /\ Added(AfterQuantify(s, lit)) = Added(s)
                                /\ Added(AfterAdd(s, lit))
                                     = Added(s) + (IF lit = 0 THEN 1 ELSE 0)
           /\ Added(AfterMakeSolvable(s)) = Added(s)
           /\ Added(AfterAssume(s)) = Added(s)
           /\ Added(Working(s)) = Added(s)
           /\ Added(DropAssumptions(s)) = Added(s)
  <1>1. s.written_clauses \in Nat /\ s.written_assumptions \in Nat
    BY DEF Solvers
  <1>2. ASSUME NEW lit \in Int
        PROVE  /\ Added(AfterQuantify(s, lit)) = Added(s)
               /\ Added(AfterAdd(s, lit)) = Added(s) + (IF lit = 0 THEN 1 ELSE 0)
    <2>1. Added(AfterAdd(s, lit)) = Added(s) + (IF lit = 0 THEN 1 ELSE 0)
      BY <1>1 DEF Added, AfterAdd, Solvers
    <2>2. Added(AfterQuantify(s, lit)) = Added(s)
      BY DEF Added, AfterQuantify, Solvers
    <2>. QED  BY <2>1, <2>2
  <1>3. Added(AfterMakeSolvable(s)) = Added(s) /\ Added(Working(s)) = Added(s)
    BY DEF Added, AfterMakeSolvable, Working, Solvers
  <1>4. Added(AfterAssume(s)) = Added(s)
    BY <1>1 DEF Added, AfterAssume, Solvers
  <1>5. Added(DropAssumptions(s)) = Added(s)
    BY <1>1 DEF Added, DropAssumptions, Solvers
  <1>. QED  BY <1>1, <1>2, <1>3, <1>4, <1>5 DEF Added
=============================================================================
