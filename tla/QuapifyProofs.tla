---------------------------- MODULE QuapifyProofs ----------------------------
(***************************************************************************)
(* Quapify for any files and command lines: types, what the lists and the  *)
(* header promise, whose answers are printed, and the assertions of the    *)
(* library.                                                                *)
(***************************************************************************)
EXTENDS QuapifyProperties, CountingProofs, SequenceTheorems

-----------------------------------------------------------------------------
(***************************************************************************)
(* The two passes.  A pass over a file is determined by the file and the   *)
(* mode of the parser, so that the second one makes the calls of the       *)
(* first: what it has done after k tokens is Progress[k].                  *)
(***************************************************************************)
Passes == [parser : Parsers, clauses : Nat, added : BOOLEAN]

Start == [parser |-> NewParser, clauses |-> 0, added |-> FALSE]

\* One more token: the parser moves on, and it may make a call.
Read(p, strict, t) ==
    [parser  |-> parse_dimacs(strict, p.parser, t),
     clauses |-> IF CallFor(strict, p.parser, t) = <<"add", 0>>
                 THEN p.clauses + 1 ELSE p.clauses,
     added   |-> p.added \/ CallFor(strict, p.parser, t)[1] = "add"]

Pass(f, strict) ==
    LET p[k \in 0..Len(f)] ==
            IF k = 0 THEN Start ELSE Read(p[k - 1], strict, f[k])
    IN  p

Progress == Pass(file, cfg.strictness)

Running == {"header", "body"}

\* Both passes are where Progress says.
PassInv ==
    /\ pc \in {"pass 1", "pass 2"} =>
          /\ pos < Len(file) /\ parser = Progress[pos].parser
          /\ \A k \in 0..pos : Progress[k].parser.phase \in Running
    /\ pc \in {"cli", "inflate", "ready", "lists"} => pos = 0 /\ parser = NewParser
    /\ pc = "cli" => clausecount = 0 /\ varcount = 0
    /\ pc = "pass 1" => /\ clausecount = Progress[pos].clauses
                        /\ varcount > 0 => Progress[pos].added
    /\ pc \in {"inflate", "ready", "pass 2", "lists"} =>
          \E n \in 1..Len(file) :
             /\ Progress[n].parser.phase = "accepted"
             /\ \A k \in 0..n - 1 : Progress[k].parser.phase \in Running
             /\ clausecount = Progress[n].clauses
             /\ varcount > 0 => Progress[n].added
    /\ pc \in {"cli", "pass 1", "inflate", "ready"} => lib = Library!FreshSolver
    /\ pc = "pass 2" =>
          /\ lib.written_clauses = Progress[pos].clauses
          /\ lib.written_assumptions = 0
          /\ lib.state = IF Progress[pos].added THEN "INPUT_LITERALS" ELSE "INPUT"
    /\ pc = "lists" /\ varcount > 0 => lib.state # "INPUT"

\* What is left of the inputs, and where they end.
InputInv ==
    /\ args \in Seq(Options \cup {Solver})
    /\ \A k \in 1..Len(args) - 1 : args[k] # Solver
    /\ file \in Files
-----------------------------------------------------------------------------
(***************************************************************************)
(* The lists: counted by their zeros, and no stretch without a zero is     *)
(* longer than the counters say.                                           *)
(***************************************************************************)
\* Where lists end among the first n numbers of the array, and stretches of it in
\* which none does.
ZerosOf(array, n) == {k \in 1..n : array[k] = 0}

Unbroken(array, i, j) == \A k \in i..j : array[k] # 0

\* The counters of a configuration say how many lists it has, and bound them.
Counted(c) ==
    LET n == Len(c.assumptions)
    IN  /\ c.assumptions_count = Cardinality(ZerosOf(c.assumptions, n))
        /\ \A i, j \in 1..n :
              Unbroken(c.assumptions, i, j)
                 => \/ j - i < c.assumptions_max_assumption_size
                    \/ j - i < c.current_assumption_size
        /\ \A i \in 1..n : Unbroken(c.assumptions, i, n)
                            => n - i < c.current_assumption_size

\* -a has taken a number and will close its list.
InsideList ==
    /\ pc = "cli" /\ args # <<>>
    /\ \/ Head(args).opt = "bad a"
       \/ Head(args).opt = "a" /\ Head(args).words # <<>>

ListsInv ==
    /\ Counted(cfg)
    /\ cfg.current_assumption_size > 0 => InsideList \/ pc = "failed"
-----------------------------------------------------------------------------
(***************************************************************************)
(* The loop over the lists.                                                *)
(***************************************************************************)
Looping == {"lists", "done", "failed"}

\* The cursor stands in list number assumption_id, which began at assstart.
CursorInv ==
    /\ assumption_id = Cardinality(Zeros(ass - 1))
    /\ Unbroken(cfg.assumptions, assstart, ass - 1)
    /\ assstart = 1 \/ cfg.assumptions[assstart - 1] = 0
    /\ ass > 1 \/ rows # <<>> => pc \in Looping /\ cfg.current_assumption_size = 0
    /\ pc = "done" => ass = Len(cfg.assumptions) + 1

\* The counters of the library, and what the child has of the current list.
CubeInv ==
    /\ lib.state # "WORKING"
    /\ lib.written_assumptions <= lib.written_clauses
    /\ lib.written_clauses <= clausecount + lib.written_assumptions
    /\ Library!NeedsFork(lib) => lib.written_assumptions = 0
    /\ ~Leftovers =>
          IF Selected
          THEN /\ Child = SubSeq(cfg.assumptions, assstart, ass - 1)
               /\ lib.written_assumptions = ass - assstart
          ELSE Library!NeedsFork(lib)

\* One row for each selected list the cursor has passed.
RowsInv ==
    /\ {rows[i].id : i \in 1..Len(rows)}
          = {id \in 0..assumption_id - 1 : cfg.selected_assumption \in {-1, id}}
    /\ \A i, j \in 1..Len(rows) : i < j => rows[i].id < rows[j].id
    /\ \A i \in 1..Len(rows) : IsList(rows[i].id, rows[i].list)
    /\ OnlyRefusalsMix

\* The loop has not begun.
Untouched ==
    /\ pc # "done" /\ lib \in Library!Solvers /\ clausecount \in Nat
    /\ ass = 1 /\ assstart = 1 /\ assumption_id = 0 /\ rows = <<>>
    /\ Library!NeedsFork(lib) /\ lib.written_assumptions = 0
    /\ lib.written_clauses <= clausecount

QuapifyInv ==
    TypeOK /\ InputInv /\ PassInv /\ ListsInv /\ CursorInv /\ CubeInv /\ RowsInv
-----------------------------------------------------------------------------
(***************************************************************************)
(* The expansion of the splits: its states are the numbers from 0 on, in   *)
(* the mixed radix of the splits, and number n has n lists behind it.      *)
(***************************************************************************)
\* v[d] is the number that the first d digits of a state stand for.
Values(s, state, v) ==
    /\ v \in [0..Len(s) -> Nat] /\ v[0] = 0
    /\ \A d \in 1..Len(s) : v[d] = v[d - 1] * s[d] + state[d]

\* Only the first digit reaches its limit, and when it does the count is over.
Digits(s, state) ==
    /\ state \in Seq(Nat) /\ Len(state) = Len(s)
    /\ \A d \in 2..Len(s) : state[d] < s[d]
    /\ state[1] <= s[1]
    /\ state[1] = s[1] => \A d \in 2..Len(s) : state[d] = 0

\* The list stands in the array as number id, between the zeros around it.
ListAt(array, id, list) ==
    /\ list \in Seq(Int)
    /\ \E z \in 1..Len(array) :
          /\ array[z] = 0 /\ Cardinality(ZerosOf(array, z - 1)) = id
          /\ Len(list) < z
          /\ \A k \in 1..Len(list) :
                list[k] # 0 /\ array[(z - 1 - Len(list)) + k] = list[k]
          /\ Len(list) = z - 1 \/ array[z - 1 - Len(list)] = 0

\* The last n lists of a configuration are the first n combinations.
InflatedTo(c, q, n) ==
    /\ n <= c.assumptions_count
    /\ \A i \in 0..n - 1 :
          ListAt(c.assumptions, (c.assumptions_count - n) + i, Combination(c.intsplits, q, i))

SplitsInv ==
    /\ pc \in {"cli", "pass 1"} => intsplits_state = <<>>
    /\ pc = "inflate" /\ intsplits_state # <<>> =>
          /\ cfg.intsplits # <<>> /\ Digits(cfg.intsplits, intsplits_state)
          /\ \E v : /\ Values(cfg.intsplits, intsplits_state, v)
                   /\ InflatedTo(cfg, quantifiers, v[Len(cfg.intsplits)])
    /\ pc = "ready" /\ cfg.intsplits # <<>> =>
          InflatedTo(cfg, quantifiers, Product(cfg.intsplits))
-----------------------------------------------------------------------------
(***************************************************************************)
(* Files whose prefix comes before their clauses.                          *)
(***************************************************************************)
\* The parser knows whether it is in a block, and the library is given clauses
\* from the first number outside of one.
BlockInv ==
    /\ pc \in {"pass 1", "pass 2"} =>
          (parser.block # "none" <=> InBlock(file, pos + 1))
    /\ pc = "pass 2" /\ lib.state # "INPUT" =>
          \E k \in 1..pos : file[k].kind = "number" /\ ~InBlock(file, k)
-----------------------------------------------------------------------------
\* No solve is refused when universals may be left out.
AnsweredInv == AllowMissing => \A i \in 1..Len(rows) : rows[i].answered
-----------------------------------------------------------------------------
(***************************************************************************)
(* Powers of two, and the width of a split.                                *)
(***************************************************************************)
LEMMA Powers ==
    /\ Pow2[0] = 1
    /\ \A k \in 0..31 : Pow2[k] \in Nat /\ Pow2[k] > 0
    /\ \A k \in 1..31 : Pow2[k] = 2 * Pow2[k - 1]
  <1>. DEFINE Solves(g) == g = [k \in 0..31 |-> IF k = 0 THEN 1 ELSE 2 * g[k - 1]]
              F == [x \in Nat |-> [i \in 1..31 |-> 2 * x]]
  <1>1. F \in [Nat -> [1..31 -> Nat]]
    OBVIOUS
  <1>2. PICK h : Iterates(h, Nat, 1, 31, F)
    <2>. HIDE DEF F
    <2>. QED  BY <1>1, Iteration
  <1>3. ASSUME NEW k \in 1..31 PROVE h[k] = 2 * h[k - 1]
    BY <1>2 DEF Iterates
  <1>4. Solves(h)
    BY <1>2, <1>3 DEF Iterates
  <1>5. Solves(Pow2)
    <2>1. Pow2 = CHOOSE g : Solves(g)
      BY DEF Pow2
    <2>. HIDE DEF Solves
    <2>. QED  BY <1>4, <2>1
  <1>6. Pow2[0] = 1 /\ \A k \in 1..31 : Pow2[k] = 2 * Pow2[k - 1]
    BY <1>5
  <1>. DEFINE T == {k \in 0..31 : Pow2[k] \in Nat /\ Pow2[k] > 0}
  <1>7. 0 \in T
    BY <1>6
  <1>8. ASSUME NEW k \in 0..31 - 1, k \in T PROVE k + 1 \in T
    BY <1>6, <1>8
  <1>9. 0..31 \subseteq T
    <2>. HIDE DEF T
    <2>. QED  BY <1>7, <1>8, CountingTo
  <1>10. \A k \in 0..31 : Pow2[k] \in Nat /\ Pow2[k] > 0
    BY <1>9
  <1>. QED  BY <1>6, <1>10

\* Adding exponents.
LEMMA PowerSum ==
    ASSUME NEW a \in 0..31, NEW b \in 0..31, a + b <= 31
    PROVE  Pow2[a + b] = Pow2[a] * Pow2[b]
  <1>. DEFINE T == {k \in 0..b : Pow2[a + k] = Pow2[a] * Pow2[k]}
  <1>1. 0 \in T
    BY Powers
  <1>2. ASSUME NEW k \in 0..b - 1, k \in T PROVE k + 1 \in T
    <2>1. /\ Pow2[a + k] = Pow2[a] * Pow2[k]
          /\ Pow2[k + 1] = 2 * Pow2[k] /\ Pow2[a + (k + 1)] = 2 * Pow2[a + k]
          /\ Pow2[a] \in Nat /\ Pow2[k] \in Nat
      <3>1. k + 1 \in 1..31 /\ a + (k + 1) \in 1..31 /\ k \in 0..31
        BY <1>2
      <3>2. (k + 1) - 1 = k /\ (a + (k + 1)) - 1 = a + k
        BY <1>2
      <3>3. Pow2[k + 1] = 2 * Pow2[k]
        BY <3>1, <3>2, Powers
      <3>4. Pow2[a + (k + 1)] = 2 * Pow2[a + k]
        BY <3>1, <3>2, Powers
      <3>. QED  BY <1>2, <3>1, <3>3, <3>4, Powers
    <2>2. Pow2[a] * (2 * Pow2[k]) = 2 * (Pow2[a] * Pow2[k])
      BY <2>1
    <2>. QED  BY <2>1, <2>2
  <1>3. 0..b \subseteq T
    <2>. HIDE DEF T
    <2>. QED  BY <1>1, <1>2, CountingTo
  <1>. QED  BY <1>3

\* Powers grow.
LEMMA PowersGrow ==
    ASSUME NEW a \in 0..31, NEW b \in 0..31
    PROVE  Pow2[a] < Pow2[b] <=> a < b
  <1>1. ASSUME NEW c \in 0..31, NEW d \in 0..31, c < d PROVE Pow2[c] < Pow2[d]
    <2>1. Pow2[c + (d - c)] = Pow2[c] * Pow2[d - c] /\ c + (d - c) = d
      BY <1>1, PowerSum
    <2>2. d - c \in 1..31 /\ d - c - 1 \in 0..31
      BY <1>1
    <2>3. Pow2[d - c] = 2 * Pow2[d - c - 1] /\ Pow2[d - c - 1] \in Nat
          /\ Pow2[d - c - 1] > 0 /\ Pow2[c] \in Nat /\ Pow2[c] > 0
      BY <2>2, Powers
    <2>4. ASSUME NEW x \in Nat, NEW y \in Nat, x > 0, y > 0 PROVE x < x * (2 * y)
      <3>1. x * (2 * y) = x * y + x * y
        OBVIOUS
      <3>2. x * y >= x /\ x * y \in Nat
        BY <2>4
      <3>. QED  BY <2>4, <3>1, <3>2
    <2>. QED  BY <2>1, <2>3, <2>4
  <1>2. a < b => Pow2[a] < Pow2[b]
    BY <1>1
  <1>3. b < a => Pow2[b] < Pow2[a]
    BY <1>1
  <1>4. Pow2[a] \in Nat /\ Pow2[b] \in Nat
    BY Powers
  <1>. QED  BY <1>2, <1>3, <1>4

\* The ints end below the last power.
LEMMA Ints ==
    /\ MaxInt \in Nat /\ \A n \in Splits : n \in Nat /\ n > 0 /\ n < Pow2[31]
    /\ \A n \in Int : n > 0 /\ n <= MaxInt => n \in Splits
  <1>1. 31 \in 1..31 /\ 30 \in 0..31 /\ 31 - 1 = 30
    OBVIOUS
  <1>2. Pow2[31] = 2 * Pow2[30] /\ Pow2[30] \in Nat /\ Pow2[30] > 0
    BY <1>1, Powers
  <1>. QED  BY <1>2 DEF MaxInt, Splits

\* A round of the search keeps the highest bit between y and h.
Between(n, y, h) ==
    y \in 0..31 /\ h \in 0..31 /\ Pow2[y] <= n /\ n < Pow2[h]

LEMMA RoundNarrows ==
    ASSUME NEW n \in Nat, NEW y, NEW h, NEW j \in 1..31,
           Between(n, y, h), y + j <= 31, h <= y + j + j
    PROVE  /\ Round(n, y, j) \in {y, y + j}
           /\ \E g \in 0..31 : Between(n, Round(n, y, j), g) /\ g <= Round(n, y, j) + j
  <1>1. /\ y \in 0..31 /\ h \in 0..31 /\ y + j \in 0..31
        /\ Pow2[y] \in Nat /\ Pow2[y] > 0 /\ Pow2[j] \in Nat
        /\ Pow2[y + j] = Pow2[y] * Pow2[j]
    <2>1. y \in 0..31 /\ h \in 0..31 /\ j \in 0..31 /\ y + j \in 0..31
      BY DEF Between
    <2>. QED  BY <2>1, Powers, PowerSum
  <1>2. n \div Pow2[y] >= Pow2[j] <=> n >= Pow2[y] * Pow2[j]
    <2>1. ASSUME NEW a \in Nat, NEW b \in Nat, b > 0, NEW c \in Nat
          PROVE  a \div b >= c <=> a >= b * c
      BY <2>1
    <2>. QED  BY <1>1, <2>1
  <1>3. CASE n \div Pow2[y] >= Pow2[j]
    <2>1. Round(n, y, j) = y + j
      BY <1>3 DEF Round
    <2>2. Between(n, y + j, h)
      BY <1>1, <1>2, <1>3 DEF Between
    <2>. QED  BY <1>1, <2>1, <2>2
  <1>4. CASE ~(n \div Pow2[y] >= Pow2[j])
    <2>1. Round(n, y, j) = y
      BY <1>1, <1>4 DEF Round
    <2>2. Pow2[y + j] \in Nat
      BY <1>1, Powers
    <2>3. Between(n, y, y + j)
      BY <1>1, <1>2, <1>4, <2>2 DEF Between
    <2>. QED  BY <1>1, <2>1, <2>3
  <1>. QED  BY <1>3, <1>4

\* The five rounds find the highest bit.
LEMMA HighestBitIs ==
    ASSUME NEW n \in Splits
    PROVE  /\ HighestBit(n) \in 0..30
           /\ Pow2[HighestBit(n)] <= n /\ n < Pow2[HighestBit(n) + 1]
  <1>1. n \in Nat /\ Between(n, 0, 31)
    BY Ints, Powers DEF Between
  <1>. DEFINE a == Round(n, 0, 16)
              b == Round(n, a, 8)
              c == Round(n, b, 4)
              d == Round(n, c, 2)
              e == Round(n, d, 1)
  <1>2. a \in 0..16 /\ \E g \in 0..31 : Between(n, a, g) /\ g <= a + 16
    <2>1. 16 \in 1..31 /\ 0 + 16 <= 31 /\ 31 <= 0 + 16 + 16
      OBVIOUS
    <2>2. /\ a \in {0, 0 + 16}
          /\ \E g \in 0..31 : Between(n, a, g) /\ g <= a + 16
      BY <1>1, <2>1, RoundNarrows
    <2>. QED  BY <2>2
  <1>. HIDE DEF a
  <1>3. b \in 0..24 /\ \E g \in 0..31 : Between(n, b, g) /\ g <= b + 8
    <2>1. PICK h \in 0..31 : Between(n, a, h) /\ h <= a + 16
      BY <1>2
    <2>2. 8 \in 1..31 /\ a + 8 <= 31 /\ h <= a + 8 + 8
      BY <1>2, <2>1
    <2>3. /\ b \in {a, a + 8}
          /\ \E g \in 0..31 : Between(n, b, g) /\ g <= b + 8
      BY <1>1, <2>1, <2>2, RoundNarrows
    <2>. QED  BY <1>2, <2>3
  <1>. HIDE DEF b
  <1>4. c \in 0..28 /\ \E g \in 0..31 : Between(n, c, g) /\ g <= c + 4
    <2>1. PICK h \in 0..31 : Between(n, b, h) /\ h <= b + 8
      BY <1>3
    <2>2. 4 \in 1..31 /\ b + 4 <= 31 /\ h <= b + 4 + 4
      BY <1>3, <2>1
    <2>3. /\ c \in {b, b + 4}
          /\ \E g \in 0..31 : Between(n, c, g) /\ g <= c + 4
      BY <1>1, <2>1, <2>2, RoundNarrows
    <2>. QED  BY <1>3, <2>3
  <1>. HIDE DEF c
  <1>5. d \in 0..30 /\ \E g \in 0..31 : Between(n, d, g) /\ g <= d + 2
    <2>1. PICK h \in 0..31 : Between(n, c, h) /\ h <= c + 4
      BY <1>4
    <2>2. 2 \in 1..31 /\ c + 2 <= 31 /\ h <= c + 2 + 2
      BY <1>4, <2>1
    <2>3. /\ d \in {c, c + 2}
          /\ \E g \in 0..31 : Between(n, d, g) /\ g <= d + 2
      BY <1>1, <2>1, <2>2, RoundNarrows
    <2>. QED  BY <1>4, <2>3
  <1>. HIDE DEF d
  <1>6. e \in 0..31 /\ \E g \in 0..31 : Between(n, e, g) /\ g <= e + 1
    <2>1. PICK h \in 0..31 : Between(n, d, h) /\ h <= d + 2
      BY <1>5
    <2>2. 1 \in 1..31 /\ d + 1 <= 31 /\ h <= d + 1 + 1
      BY <1>5, <2>1
    <2>3. /\ e \in {d, d + 1}
          /\ \E g \in 0..31 : Between(n, e, g) /\ g <= e + 1
      BY <1>1, <2>1, <2>2, RoundNarrows
    <2>. QED  BY <1>5, <2>3
  <1>7. HighestBit(n) = e
    BY DEF HighestBit, a, b, c, d
  <1>. HIDE DEF e
  <1>8. PICK g \in 0..31 : Between(n, e, g) /\ g <= e + 1
    BY <1>6
  <1>9. /\ e \in 0..31 /\ Pow2[e] <= n /\ n < Pow2[g]
        /\ Pow2[e] \in Nat /\ Pow2[g] \in Nat
    BY <1>8, Powers DEF Between
  <1>10. e < g
    <2>1. Pow2[e] < Pow2[g]
      BY <1>1, <1>9
    <2>. QED  BY <1>8, <1>9, <2>1, PowersGrow
  <1>11. g = e + 1
    BY <1>8, <1>9, <1>10
  <1>. QED  BY <1>7, <1>9, <1>11

\* ceil_log2 is the width that the reference asks for, for every positive int.
LEMMA CeilLog2 ==
    ASSUME NEW n \in Splits
    PROVE  ceil_log2(n) = Width(n) /\ ceil_log2(n) \in 0..31
  <1>. DEFINE h == HighestBit(n)
              power == \E k \in 0..30 : n = Pow2[k]
              w == ceil_log2(n)
              Fits(x) == \A k \in 0..30 : Pow2[k] >= n <=> k >= x
  <1>1. h \in 0..30 /\ Pow2[h] <= n /\ n < Pow2[h + 1]
    BY HighestBitIs
  <1>2. n \in Nat /\ \A k \in 0..31 : Pow2[k] \in Nat
    BY Ints, Powers
  <1>3. w = h + (IF power THEN 0 ELSE 1)
    BY DEF ceil_log2
  <1>. HIDE DEF h, w
  <1>4. w \in 0..31 /\ Fits(w)
    <2>1. CASE power
      <3>1. PICK k \in 0..30 : n = Pow2[k]
        BY <2>1
      <3>2. k = h
        <4>1. ~(Pow2[k] < Pow2[h]) /\ Pow2[k] < Pow2[h + 1]
          BY <1>1, <1>2, <3>1
        <4>2. ~(k < h) /\ k < h + 1
          <5>1. h \in 0..31 /\ k \in 0..31 /\ h + 1 \in 0..31
            BY <1>1
          <5>. QED  BY <4>1, <5>1, PowersGrow
        <4>. QED  BY <1>1, <4>2
      <3>3. ASSUME NEW i \in 0..30 PROVE Pow2[i] >= n <=> i >= h
        <4>1. Pow2[i] < Pow2[h] <=> i < h
          <5>1. h \in 0..31 /\ i \in 0..31
            BY <1>1
          <5>. QED  BY <5>1, PowersGrow
        <4>. QED  BY <1>1, <1>2, <3>1, <3>2, <4>1
      <3>. QED  BY <1>1, <1>3, <2>1, <3>3
    <2>2. CASE ~power
      <3>1. Pow2[h] < n
        BY <1>1, <1>2, <2>2
      <3>2. ASSUME NEW i \in 0..30 PROVE Pow2[i] >= n <=> i >= h + 1
        <4>1. /\ Pow2[h] < Pow2[i] <=> h < i
              /\ Pow2[i] < Pow2[h + 1] <=> i < h + 1
          <5>1. h \in 0..31 /\ i \in 0..31 /\ h + 1 \in 0..31
            BY <1>1
          <5>. QED  BY <5>1, PowersGrow
        <4>2. Pow2[i] \in Nat /\ Pow2[h] \in Nat /\ Pow2[h + 1] \in Nat
          BY <1>1, <1>2
        <4>. QED  BY <1>1, <1>2, <3>1, <4>1, <4>2
      <3>. QED  BY <1>1, <1>3, <2>2, <3>2
    <2>. QED  BY <2>1, <2>2
  <1>5. ASSUME NEW x \in 0..31, Fits(x) PROVE x = w
    <2>1. ~(x < w)
      BY <1>4, <1>5
    <2>2. ~(w < x)
      BY <1>4, <1>5
    <2>. QED  BY <1>4, <2>1, <2>2
  <1>6. Width(n) = CHOOSE x \in 0..31 : Fits(x)
    BY DEF Width
  <1>. HIDE DEF Fits
  <1>7. Width(n) = w
    BY <1>4, <1>5, <1>6
  <1>. QED  BY <1>4, <1>7 DEF w
-----------------------------------------------------------------------------
(***************************************************************************)
(* The integer splits.                                                     *)
(***************************************************************************)
\* intsplits_summed_length adds up the widths.
LEMMA SummedLengths ==
    ASSUME NEW c \in Configs
    PROVE  /\ intsplits_summed_length(c, 0) = 0
           /\ \A i \in 1..Len(c.intsplits) :
                 intsplits_summed_length(c, i)
                   = intsplits_summed_length(c, i - 1) + intsplits_current_length(c, i)
           /\ \A i \in 0..Len(c.intsplits) : intsplits_summed_length(c, i) \in Nat
           /\ \A i \in 1..Len(c.intsplits) : intsplits_current_length(c, i) \in Nat
  <1>. DEFINE n == Len(c.intsplits)
              w(i) == intsplits_current_length(c, i)
  <1>1. n \in Nat /\ \A i \in 1..n : c.intsplits[i] \in Splits
    <2>1. c.intsplits \in Seq(Splits)
      BY DEF Configs
    <2>. QED  BY <2>1, ElementOfSeq, LenProperties
  <1>2. ASSUME NEW i \in 1..n PROVE w(i) \in Nat
    <2>1. c.intsplits[i] \in Splits
      BY <1>1
    <2>2. ceil_log2(c.intsplits[i]) \in 0..31
      BY <2>1, CeilLog2
    <2>3. \A x \in 0..31 : x \in Nat
      OBVIOUS
    <2>. QED  BY <2>2, <2>3, Zenon DEF intsplits_current_length
  <1>. HIDE DEF w, n
  <1>. DEFINE Solves(g) == g = [k \in 0..n |-> IF k = 0 THEN 0 ELSE g[k - 1] + w(k)]
              F == [x \in Nat |-> [i \in 1..n |-> x + w(i)]]
  <1>3. F \in [Nat -> [1..n -> Nat]]
    BY <1>2
  <1>4. PICK h : Iterates(h, Nat, 0, n, F)
    <2>. HIDE DEF F
    <2>. QED  BY <1>1, <1>3, Iteration
  <1>5. ASSUME NEW k \in 1..n PROVE h[k] = h[k - 1] + w(k)
    <2>1. k - 1 \in 0..n
      BY <1>1
    <2>. QED  BY <1>4, <2>1 DEF Iterates
  <1>6. Solves(h)
    BY <1>1, <1>4, <1>5 DEF Iterates
  <1>. DEFINE l == CHOOSE g : Solves(g)
  <1>7. Solves(l)
    BY <1>6
  <1>8. \A i : intsplits_summed_length(c, i) = l[i]
    BY DEF intsplits_summed_length, w, n
  <1>. HIDE DEF l
  <1>9. l[0] = 0 /\ \A k \in 1..n : l[k] = l[k - 1] + w(k)
    BY <1>1, <1>7
  <1>. DEFINE T == {k \in 0..n : l[k] \in Nat}
  <1>10. 0 \in T
    BY <1>1, <1>9
  <1>11. ASSUME NEW k \in 0..n - 1, k \in T PROVE k + 1 \in T
    BY <1>1, <1>2, <1>9, <1>11
  <1>12. 0..n \subseteq T
    <2>. HIDE DEF T
    <2>. QED  BY <1>1, <1>10, <1>11, CountingTo
  <1>13. \A i \in 0..n : l[i] \in Nat
    BY <1>12
  <1>. QED  BY <1>2, <1>8, <1>9, <1>13 DEF n, w
-----------------------------------------------------------------------------
(***************************************************************************)
(* The parser.                                                             *)
(***************************************************************************)
Modes == {"RELAXED", "NORMAL", "PEDANTIC"}

\* A token leads from parser to parser, and to a call of the library or to none;
\* a block is never quantified over 0.
LEMMA ParserType ==
    ASSUME NEW ps \in Parsers, NEW t \in Tokens, NEW strict
    PROVE  /\ parse_dimacs(strict, ps, t) \in Parsers
           /\ \/ CallFor(strict, ps, t) = NoCall
              \/ CallFor(strict, ps, t) = <<"add", t.n>>
              \/ \E q \in Int \ {0} : CallFor(strict, ps, t) = <<"quantify", q>>
  <1>1. \A p \in Parsers : Reject(p) \in Parsers /\ AtEnd(strict, p) \in Parsers
    BY DEF Reject, AtEnd, Parsers
  <1>2. /\ t.kind = "problem" => t.n \in Nat
        /\ t.n \in Int /\ t.m \in Nat
    BY DEF Tokens
  <1>3. t.kind = "problem" => ParseProblem(strict, ps, t) \in Parsers
    <2>1. SUFFICES ASSUME t.kind = "problem"
                   PROVE  ParseProblem(strict, ps, t) \in Parsers
      OBVIOUS
    <2>. DEFINE v == t.n
                c == t.m
                after == [ps EXCEPT !.phase = "body", !.variables = v, !.clauses = c]
    <2>2. v \in Nat /\ c \in Nat
      BY <1>2, <2>1
    <2>3. after \in Parsers
      <3>. HIDE DEF v, c
      <3>. QED  BY <2>2 DEF Parsers
    <2>. HIDE DEF after
    <2>. QED  BY <1>1, <2>3 DEF ParseProblem, RejectIf, after
  <1>4. ParseHeader(strict, ps, t) \in Parsers
    <2>1. CASE t.kind = "problem"
      BY <1>3, <2>1 DEF ParseHeader
    <2>2. CASE t.kind # "problem"
      BY <1>1, <2>2 DEF ParseHeader, RejectIf
    <2>. QED  BY <2>1, <2>2
  <1>5. ParseNumber(strict, ps, t) \in Parsers
    <2>. DEFINE n == t.n
                p == IF t.n = 0 /\ ps.block = "none" THEN ps.parsed + 1 ELSE ps.parsed
                b == IF t.n = 0 THEN "none" ELSE ps.block
                after == [ps EXCEPT !.lit = n, !.parsed = p, !.block = b]
    <2>1. n \in Int /\ p \in Nat /\ b \in {"none", "exists", "forall"}
      BY <1>2 DEF Parsers
    <2>2. after \in Parsers
      <3>. HIDE DEF n, p, b
      <3>. QED  BY <2>1 DEF Parsers
    <2>3. \/ ParseNumber(strict, ps, t) = Reject(ps)
          \/ ParseNumber(strict, ps, t) = after
      BY DEF ParseNumber
    <2>. HIDE DEF after
    <2>. QED  BY <1>1, <2>2, <2>3
  <1>6. ParseBody(strict, ps, t) \in Parsers
    <2>1. CASE t.kind = "number"
      BY <1>5, <2>1 DEF ParseBody
    <2>2. CASE t.kind \in {"e", "a"}
      <3>. DEFINE after == [ps EXCEPT !.block = IF t.kind = "e" THEN "exists"
                                                                ELSE "forall"]
      <3>1. after \in Parsers
        BY DEF Parsers
      <3>2. ParseBody(strict, ps, t) = RejectIf(ps.block # "none", after)
        BY <2>2 DEF ParseBody
      <3>. HIDE DEF after
      <3>. QED  BY <1>1, <3>1, <3>2 DEF RejectIf
    <2>3. CASE t.kind \notin {"number", "e", "a"}
      BY <1>1, <2>3 DEF ParseBody
    <2>. QED  BY <2>1, <2>2, <2>3
  <1>7. parse_dimacs(strict, ps, t) \in Parsers
    BY <1>4, <1>6 DEF parse_dimacs
  <1>8. Abs(t.n) \in Int /\ (t.n # 0 => Abs(t.n) # 0 /\ -Abs(t.n) # 0)
    BY <1>2 DEF Abs
  <1>9. \/ CallFor(strict, ps, t) = NoCall
        \/ CallFor(strict, ps, t) = <<"add", t.n>>
        \/ \E q \in Int \ {0} : CallFor(strict, ps, t) = <<"quantify", q>>
    BY <1>8 DEF CallFor
  <1>. QED  BY <1>7, <1>9

\* Calls are made in the body, for numbers; which one it is depends on the block.
LEMMA CallOf ==
    ASSUME NEW ps \in Parsers, NEW t \in Tokens, NEW strict
    PROVE  /\ CallFor(strict, ps, t)[1] = "quantify" =>
                 /\ ps.phase = "body" /\ t.kind = "number" /\ ps.block # "none"
           /\ CallFor(strict, ps, t)[1] = "add" =>
                 /\ ps.phase = "body" /\ t.kind = "number" /\ ps.block = "none"
                 /\ CallFor(strict, ps, t) = <<"add", t.n>>
           /\ CallFor(strict, ps, t) = <<"add", 0>> => CallFor(strict, ps, t)[1] = "add"
  BY DEF CallFor, NoCall

\* A file that is read to its end is accepted or rejected.
LEMMA EndOfPass ==
    ASSUME NEW ps \in Parsers, NEW strict
    PROVE  parse_dimacs(strict, ps, EndOfFile).phase \in {"accepted", "rejected"}
  <1>1. EndOfFile.kind = "eof" /\ EndOfFile.form = "plain"
    BY DEF EndOfFile, Token
  <1>2. Reject(ps).phase = "rejected"
    BY DEF Reject, Parsers
  <1>3. AtEnd(strict, ps).phase \in {"accepted", "rejected"}
    BY DEF AtEnd, Reject, Parsers
  <1>4. ParseHeader(strict, ps, EndOfFile) = Reject(ps)
    BY <1>1 DEF ParseHeader
  <1>5. ParseBody(strict, ps, EndOfFile) = AtEnd(strict, ps)
    BY <1>1 DEF ParseBody
  <1>. QED  BY <1>2, <1>3, <1>4, <1>5 DEF parse_dimacs
-----------------------------------------------------------------------------
(***************************************************************************)
(* A pass over a file.                                                     *)
(***************************************************************************)
\* A token takes one state of a pass to the next one.
LEMMA ReadType ==
    ASSUME NEW p \in Passes, NEW t \in Tokens, NEW strict
    PROVE  Read(p, strict, t) \in Passes
  <1>. DEFINE next == parse_dimacs(strict, p.parser, t)
              c == IF CallFor(strict, p.parser, t) = <<"add", 0>>
                   THEN p.clauses + 1 ELSE p.clauses
              a == p.added \/ CallFor(strict, p.parser, t)[1] = "add"
  <1>1. p.parser \in Parsers /\ p.clauses \in Nat
    BY DEF Passes
  <1>2. next \in Parsers
    BY <1>1, ParserType
  <1>3. c \in Nat
    BY <1>1
  <1>4. a \in BOOLEAN
    OBVIOUS
  <1>5. Read(p, strict, t) = [parser |-> next, clauses |-> c, added |-> a]
    BY DEF Read
  <1>. HIDE DEF next, c, a
  <1>. QED  BY <1>2, <1>3, <1>4, <1>5 DEF Passes

\* The recursion that defines a pass has its solution: it starts in Start, and
\* reads token by token.
LEMMA PassType ==
    ASSUME NEW f \in Files, NEW strict
    PROVE  /\ Pass(f, strict) \in [0..Len(f) -> Passes]
           /\ Pass(f, strict)[0] = Start
           /\ \A k \in 1..Len(f) :
                 Pass(f, strict)[k] = Read(Pass(f, strict)[k - 1], strict, f[k])
  <1>. DEFINE n == Len(f)
              Solves(g) == g = [k \in 0..n |-> IF k = 0 THEN Start
                                               ELSE Read(g[k - 1], strict, f[k])]
              F == [p \in Passes |-> [k \in 1..n |-> Read(p, strict, f[k])]]
  <1>1. f \in Seq(Tokens)
    BY QuapifyAssumption
  <1>2. n \in Nat /\ \A k \in 1..n : f[k] \in Tokens
    BY <1>1, LenProperties, ElementOfSeq
  <1>3. Start \in Passes
    BY DEF Start, Passes, NewParser, Parsers
  <1>. HIDE DEF n
  <1>4. F \in [Passes -> [1..n -> Passes]]
    BY <1>2, ReadType
  <1>5. PICK h : Iterates(h, Passes, Start, n, F)
    <2>. HIDE DEF F
    <2>. QED  BY <1>2, <1>3, <1>4, Iteration
  <1>6. h \in [0..n -> Passes] /\ h[0] = Start
    BY <1>5 DEF Iterates
  <1>7. ASSUME NEW k \in 1..n PROVE h[k] = Read(h[k - 1], strict, f[k])
    <2>1. h[k - 1] \in Passes
      BY <1>2, <1>6
    <2>2. h[k] = F[h[k - 1]][k]
      BY <1>5 DEF Iterates
    <2>. QED  BY <2>1, <2>2
  <1>8. Solves(h)
    <2>1. h = [k \in 0..n |-> h[k]]
      BY <1>6
    <2>2. \A k \in 0..n : k = 0 \/ k \in 1..n
      BY <1>2
    <2>3. ASSUME NEW k \in 0..n
          PROVE  h[k] = IF k = 0 THEN Start ELSE Read(h[k - 1], strict, f[k])
      BY <1>6, <1>7, <2>2
    <2>. QED  BY <2>1, <2>3
  <1>. DEFINE p == CHOOSE g : Solves(g)
  <1>9. Solves(p)
    BY <1>8
  <1>10. Pass(f, strict) = p
    BY DEF Pass, n
  <1>. HIDE DEF p
  <1>11. p[0] = Start /\ \A k \in 1..n : p[k] = Read(p[k - 1], strict, f[k])
    BY <1>2, <1>9
  <1>. DEFINE T == {k \in 0..n : p[k] \in Passes}
  <1>12. 0 \in T
    BY <1>2, <1>3, <1>11
  <1>13. ASSUME NEW k \in 0..n - 1, k \in T PROVE k + 1 \in T
    <2>1. k + 1 \in 1..n /\ (k + 1) - 1 = k
      BY <1>2
    <2>2. p[k + 1] = Read(p[k], strict, f[k + 1])
      BY <1>11, <2>1
    <2>3. p[k + 1] \in Passes
      BY <1>2, <1>13, <2>1, <2>2, ReadType
    <2>. QED  BY <2>1, <2>3
  <1>14. 0..n \subseteq T
    <2>. HIDE DEF T
    <2>. QED  BY <1>2, <1>12, <1>13, CountingTo
  <1>15. p = [k \in 0..n |-> p[k]] /\ \A k \in 0..n : p[k] \in Passes
    <2>1. p = [k \in 0..n |-> p[k]]
      BY <1>9
    <2>. QED  BY <1>14, <2>1
  <1>. QED  BY <1>10, <1>11, <1>15 DEF n

\* Along a pass clauses only become more, and the library stays in use.
LEMMA PassGrows ==
    ASSUME NEW f \in Files, NEW strict, NEW i \in 0..Len(f), NEW j \in i..Len(f)
    PROVE  /\ Pass(f, strict)[i].clauses <= Pass(f, strict)[j].clauses
           /\ Pass(f, strict)[i].added => Pass(f, strict)[j].added
  <1>. DEFINE p == Pass(f, strict)
              n == Len(f)
  <1>1. n \in Nat /\ i \in Nat
    BY QuapifyAssumption
  <1>2. p \in [0..n -> Passes] /\ \A k \in 1..n : p[k] = Read(p[k - 1], strict, f[k])
    BY PassType
  <1>. HIDE DEF p, n
  <1>3. ASSUME NEW k \in 0..n - 1
        PROVE  /\ p[k].clauses \in Nat /\ p[k + 1].clauses \in Nat
               /\ p[k].clauses <= p[k + 1].clauses
               /\ p[k].added => p[k + 1].added
    <2>1. k \in 0..n /\ k + 1 \in 1..n /\ k + 1 \in 0..n /\ (k + 1) - 1 = k
      BY <1>1
    <2>2. p[k + 1] = Read(p[k], strict, f[k + 1])
      BY <1>2, <2>1
    <2>3. p[k].clauses \in Nat /\ p[k + 1].clauses \in Nat
      BY <1>2, <2>1 DEF Passes
    <2>4. \/ p[k + 1].clauses = p[k].clauses + 1
          \/ p[k + 1].clauses = p[k].clauses
      BY <2>2 DEF Read
    <2>. DEFINE called == CallFor(strict, p[k].parser, f[k + 1])[1] = "add"
    <2>5. p[k + 1].added = (p[k].added \/ called)
      <3>. DEFINE a == p[k].added \/ called
      <3>1. Read(p[k], strict, f[k + 1]).added = a
        BY DEF Read
      <3>. QED  BY <2>2, <3>1
    <2>6. p[k].added => p[k + 1].added
      <3>. HIDE DEF called
      <3>. QED  BY <2>5
    <2>. QED  BY <2>3, <2>4, <2>6
  <1>. DEFINE Ahead(k) == /\ p[i].clauses <= p[k].clauses
                          /\ p[i].added => p[k].added
              T == {d \in Nat : i + d <= n => Ahead(i + d)}
  <1>4. 0 \in T
    <2>1. i \in 0..n /\ i + 0 = i
      BY <1>1 DEF n
    <2>2. p[i].clauses \in Nat
      BY <1>2, <2>1 DEF Passes
    <2>3. Ahead(i)
      BY <2>2
    <2>. HIDE DEF Ahead
    <2>. QED  BY <2>1, <2>3
  <1>5. ASSUME NEW d \in T PROVE d + 1 \in T
    <2>1. SUFFICES ASSUME i + (d + 1) <= n PROVE Ahead(i + (d + 1))
      OBVIOUS
    <2>2. /\ d \in Nat /\ i + d \in 0..n - 1 /\ i + (d + 1) = (i + d) + 1
          /\ i \in 0..n /\ i + d <= n
      BY <1>1, <2>1
    <2>3. Ahead(i + d)
      <3>. HIDE DEF Ahead
      <3>. QED  BY <2>2
    <2>. DEFINE k == i + d
    <2>4. k \in 0..n - 1 /\ i + (d + 1) = k + 1 /\ Ahead(k)
      BY <2>2, <2>3
    <2>. HIDE DEF k
    <2>5. /\ p[k].clauses \in Nat /\ p[k + 1].clauses \in Nat
          /\ p[k].clauses <= p[k + 1].clauses
      BY <1>3, <2>4
    <2>6. p[i].clauses \in Nat
      BY <1>2, <2>2 DEF Passes
    <2>7. p[i].clauses <= p[k + 1].clauses
      BY <2>4, <2>5, <2>6
    <2>8. p[i].added => p[k + 1].added
      BY <1>3, <2>4, Zenon
    <2>. QED  BY <2>4, <2>7, <2>8
  <1>6. T = Nat
    <2>1. T \in SUBSET Nat
      OBVIOUS
    <2>. HIDE DEF T
    <2>. QED  BY <1>4, <1>5, <2>1, CountingUp
  <1>7. j - i \in Nat /\ i + (j - i) = j /\ j <= n
    BY <1>1 DEF n
  <1>8. Ahead(j)
    <2>. HIDE DEF Ahead
    <2>. QED  BY <1>6, <1>7
  <1>. QED  BY <1>8 DEF p
-----------------------------------------------------------------------------
(***************************************************************************)
(* Lists and their counters.                                               *)
(***************************************************************************)
\* The zeros of an array, counted from its front.
LEMMA ZerosCount ==
    ASSUME NEW array, NEW n \in Nat
    PROVE  /\ IsFiniteSet(ZerosOf(array, n))
           /\ Cardinality(ZerosOf(array, n)) \in Nat
           /\ Cardinality(ZerosOf(array, n + 1))
                = Cardinality(ZerosOf(array, n)) + (IF array[n + 1] = 0 THEN 1 ELSE 0)
           /\ \A m \in 0..n :
                 Cardinality(ZerosOf(array, m)) <= Cardinality(ZerosOf(array, n))
  <1>1. IsFiniteSet(1..n) /\ ZerosOf(array, n) \subseteq 1..n
    BY FS_Interval DEF ZerosOf
  <1>2. IsFiniteSet(ZerosOf(array, n))
    BY <1>1, FS_Subset
  <1>3. Cardinality(ZerosOf(array, n)) \in Nat
    BY <1>2, FS_CardinalityType
  <1>4. ASSUME NEW m \in 0..n
        PROVE  Cardinality(ZerosOf(array, m)) <= Cardinality(ZerosOf(array, n))
    <2>1. ZerosOf(array, m) \subseteq ZerosOf(array, n)
      BY DEF ZerosOf
    <2>. QED  BY <1>2, <2>1, FS_Subset
  <1>5. CASE array[n + 1] = 0
    <2>1. ZerosOf(array, n + 1) = ZerosOf(array, n) \cup {n + 1}
      BY <1>5 DEF ZerosOf
    <2>2. n + 1 \notin ZerosOf(array, n)
      BY DEF ZerosOf
    <2>3. Cardinality(ZerosOf(array, n) \cup {n + 1}) = Cardinality(ZerosOf(array, n)) + 1
      BY <1>2, <2>2, FS_AddElement
    <2>. QED  BY <1>2, <1>3, <1>4, <1>5, <2>1, <2>3
  <1>6. CASE array[n + 1] # 0
    <2>1. ZerosOf(array, n + 1) = ZerosOf(array, n)
      BY <1>6 DEF ZerosOf
    <2>. QED  BY <1>2, <1>3, <1>4, <1>6, <2>1
  <1>. QED  BY <1>5, <1>6

\* add_to_assumptions puts its number behind the others and counts.
LEMMA AddType ==
    ASSUME NEW c \in Configs, NEW a \in Int
    PROVE  /\ add_to_assumptions(c, a) \in Configs
           /\ add_to_assumptions(c, a).assumptions = Append(c.assumptions, a)
           /\ add_to_assumptions(c, a).assumptions_count
                = IF a = 0 THEN c.assumptions_count + 1 ELSE c.assumptions_count
           /\ add_to_assumptions(c, a).current_assumption_size
                = IF a = 0 THEN 0 ELSE c.current_assumption_size + 1
           /\ add_to_assumptions(c, a).assumptions_max_assumption_size
                = IF /\ a = 0
                     /\ c.current_assumption_size > c.assumptions_max_assumption_size
                  THEN c.current_assumption_size ELSE c.assumptions_max_assumption_size
  <1>. DEFINE array == Append(c.assumptions, a)
              count == IF a = 0 THEN c.assumptions_count + 1 ELSE c.assumptions_count
              size  == IF a = 0 THEN 0 ELSE c.current_assumption_size + 1
              max   == IF /\ a = 0
                          /\ c.current_assumption_size > c.assumptions_max_assumption_size
                       THEN c.current_assumption_size
                       ELSE c.assumptions_max_assumption_size
  <1>1. /\ c.assumptions \in Seq(Int) /\ c.assumptions_count \in Nat
        /\ c.current_assumption_size \in Nat /\ c.assumptions_max_assumption_size \in Nat
    BY DEF Configs
  <1>2. array \in Seq(Int)
    BY <1>1
  <1>3. count \in Nat /\ size \in Nat /\ max \in Nat
    BY <1>1
  <1>4. add_to_assumptions(c, a)
          = [c EXCEPT !.assumptions = array, !.assumptions_count = count,
                      !.current_assumption_size = size,
                      !.assumptions_max_assumption_size = max]
    BY DEF add_to_assumptions
  <1>. HIDE DEF array, count, size, max
  <1>5. /\ add_to_assumptions(c, a) \in Configs
        /\ add_to_assumptions(c, a).assumptions = array
        /\ add_to_assumptions(c, a).assumptions_count = count
        /\ add_to_assumptions(c, a).current_assumption_size = size
        /\ add_to_assumptions(c, a).assumptions_max_assumption_size = max
    BY <1>2, <1>3, <1>4 DEF Configs
  <1>. QED  BY <1>5 DEF array, count, size, max

\* The counters stay those of the lists, one number at a time.
LEMMA AddCounts ==
    ASSUME NEW c \in Configs, NEW a \in Int, Counted(c)
    PROVE  Counted(add_to_assumptions(c, a))
  <1>. DEFINE d     == add_to_assumptions(c, a)
              old   == c.assumptions
              array == d.assumptions
              n     == Len(old)
              max   == c.assumptions_max_assumption_size
              size  == c.current_assumption_size
  <1>1. old \in Seq(Int) /\ n \in Nat /\ max \in Nat /\ size \in Nat
    BY DEF Configs
  <1>2. array = Append(old, a)
    BY AddType
  <1>3. Len(array) = n + 1 /\ array[n + 1] = a /\ \A k \in 1..n : array[k] = old[k]
    BY <1>1, <1>2, AppendProperties
  <1>4. /\ d.assumptions_count = IF a = 0 THEN c.assumptions_count + 1
                                          ELSE c.assumptions_count
        /\ d.current_assumption_size = IF a = 0 THEN 0 ELSE size + 1
        /\ d.assumptions_max_assumption_size = IF a = 0 /\ size > max THEN size ELSE max
    BY AddType
  <1>5. /\ c.assumptions_count = Cardinality(ZerosOf(old, n))
        /\ \A i, j \in 1..n : Unbroken(old, i, j) => j - i < max \/ j - i < size
        /\ \A i \in 1..n : Unbroken(old, i, n) => n - i < size
    BY DEF Counted
  <1>. HIDE DEF d, old, array, n, max, size
  <1>6. ZerosOf(array, n) = ZerosOf(old, n)
    BY <1>3 DEF ZerosOf
  <1>7. d.assumptions_count = Cardinality(ZerosOf(array, n + 1))
    <2>1. Cardinality(ZerosOf(array, n + 1))
            = Cardinality(ZerosOf(array, n)) + (IF array[n + 1] = 0 THEN 1 ELSE 0)
      BY <1>1, ZerosCount
    <2>2. Cardinality(ZerosOf(array, n)) \in Nat
      BY <1>1, ZerosCount
    <2>. QED  BY <1>3, <1>4, <1>5, <1>6, <2>1, <2>2
  <1>8. ASSUME NEW i \in 1..n + 1, NEW j \in 1..n, Unbroken(array, i, j)
        PROVE  j - i < max \/ j - i < size
    <2>1. CASE i = n + 1
      BY <1>1, <2>1
    <2>2. CASE i # n + 1
      <3>1. i \in 1..n /\ Unbroken(old, i, j)
        BY <1>1, <1>3, <1>8, <2>2 DEF Unbroken
      <3>. QED  BY <1>5, <3>1
    <2>. QED  BY <2>1, <2>2
  <1>9. ASSUME NEW i \in 1..n + 1, Unbroken(array, i, n + 1)
        PROVE  a # 0 /\ (n + 1) - i < size + 1
    <2>1. a # 0
      BY <1>1, <1>3, <1>9 DEF Unbroken
    <2>2. CASE i = n + 1
      BY <1>1, <2>1, <2>2
    <2>3. CASE i # n + 1
      <3>1. i \in 1..n /\ Unbroken(old, i, n)
        BY <1>1, <1>3, <1>9, <2>3 DEF Unbroken
      <3>2. n - i < size
        BY <1>5, <3>1
      <3>. QED  BY <1>1, <2>1, <3>1, <3>2
    <2>. QED  BY <2>2, <2>3
  <1>10. ASSUME NEW i \in 1..n + 1, NEW j \in 1..n + 1, Unbroken(array, i, j)
         PROVE  \/ j - i < d.assumptions_max_assumption_size
                \/ j - i < d.current_assumption_size
    <2>1. CASE j = n + 1
      BY <1>1, <1>4, <1>9, <1>10, <2>1
    <2>2. CASE j # n + 1
      <3>1. j \in 1..n
        BY <1>1, <2>2
      <3>2. j - i < max \/ j - i < size
        BY <1>8, <1>10, <3>1
      <3>. QED  BY <1>1, <1>4, <3>1, <3>2
    <2>. QED  BY <2>1, <2>2
  <1>11. ASSUME NEW i \in 1..n + 1, Unbroken(array, i, n + 1)
         PROVE  (n + 1) - i < d.current_assumption_size
    BY <1>4, <1>9, <1>11
  <1>. QED  BY <1>3, <1>7, <1>10, <1>11 DEF Counted, d, array

\* AddList puts a list and its 0 behind the others.
LEMMA AddListType ==
    ASSUME NEW c \in Configs, NEW list \in Seq(Int)
    PROVE  /\ AddList(c, list) \in Configs
           /\ AddList(c, list).assumptions = (c.assumptions \o list) \o <<0>>
           /\ AddList(c, list).assumptions_count = c.assumptions_count + 1
           /\ AddList(c, list).current_assumption_size = c.current_assumption_size
           /\ AddList(c, list).strictness = c.strictness
           /\ AddList(c, list).intsplits = c.intsplits
           /\ AddList(c, list).assumptions_max_assumption_size
                = IF Len(list) > c.assumptions_max_assumption_size
                  THEN Len(list) ELSE c.assumptions_max_assumption_size
  <1>. DEFINE array == (c.assumptions \o list) \o <<0>>
              count == c.assumptions_count + 1
              max   == IF Len(list) > c.assumptions_max_assumption_size
                       THEN Len(list) ELSE c.assumptions_max_assumption_size
  <1>1. /\ c.assumptions \in Seq(Int) /\ c.assumptions_count \in Nat
        /\ c.assumptions_max_assumption_size \in Nat /\ Len(list) \in Nat
    BY DEF Configs
  <1>2. array \in Seq(Int)
    <2>1. <<0>> \in Seq(Int)
      OBVIOUS
    <2>2. c.assumptions \o list \in Seq(Int)
      BY <1>1, ConcatProperties
    <2>. QED  BY <2>1, <2>2, ConcatProperties
  <1>3. count \in Nat /\ max \in Nat
    BY <1>1
  <1>4. AddList(c, list) = [c EXCEPT !.assumptions = array, !.assumptions_count = count,
                                     !.assumptions_max_assumption_size = max]
    BY DEF AddList
  <1>. HIDE DEF array, count, max
  <1>5. /\ AddList(c, list) \in Configs
        /\ AddList(c, list).assumptions = array
        /\ AddList(c, list).assumptions_count = count
        /\ AddList(c, list).current_assumption_size = c.current_assumption_size
        /\ AddList(c, list).strictness = c.strictness
        /\ AddList(c, list).intsplits = c.intsplits
        /\ AddList(c, list).assumptions_max_assumption_size = max
    BY <1>2, <1>3, <1>4 DEF Configs
  <1>. QED  BY <1>5 DEF array, count, max

\* Where it puts them.
LEMMA AddedArray ==
    ASSUME NEW c \in Configs, NEW list \in Seq(Int \ {0})
    PROVE  LET array == AddList(c, list).assumptions
               n     == Len(c.assumptions)
               m     == Len(list)
           IN  /\ Len(array) = n + m + 1 /\ array[n + m + 1] = 0
               /\ \A k \in 1..n : array[k] = c.assumptions[k]
               /\ \A k \in 1..m : array[n + k] = list[k]
  <1>. DEFINE old   == c.assumptions
              array == AddList(c, list).assumptions
              n     == Len(old)
              m     == Len(list)
              both  == old \o list
  <1>1. old \in Seq(Int) /\ n \in Nat /\ m \in Nat /\ list \in Seq(Int)
    BY SeqMonotonic DEF Configs
  <1>2. array = both \o <<0>>
    BY <1>1, AddListType
  <1>3. <<0>> \in Seq(Int) /\ Len(<<0>>) = 1 /\ <<0>>[1] = 0
    OBVIOUS
  <1>4. /\ both \in Seq(Int) /\ Len(both) = n + m
        /\ \A k \in 1..n + m : both[k] = IF k <= n THEN old[k] ELSE list[k - n]
    BY <1>1, ConcatProperties
  <1>. HIDE DEF both
  <1>5. /\ Len(both \o <<0>>) = n + m + 1
        /\ \A k \in 1..n + m + 1 :
              (both \o <<0>>)[k] = IF k <= n + m THEN both[k] ELSE <<0>>[k - (n + m)]
    <2>. DEFINE end == <<0>>
    <2>1. end \in Seq(Int) /\ Len(end) = 1
      BY <1>3
    <2>2. both \in Seq(Int) /\ Len(both) = n + m
      BY <1>4
    <2>. HIDE DEF end, n, m
    <2>3. /\ Len(both \o end) = Len(both) + Len(end)
          /\ \A k \in 1..Len(both) + Len(end) :
                (both \o end)[k] = IF k <= Len(both) THEN both[k] ELSE end[k - Len(both)]
      BY <2>1, <2>2, ConcatProperties
    <2>. QED  BY <2>1, <2>2, <2>3 DEF end
  <1>. HIDE DEF array, n, m, old
  <1>6. Len(array) = n + m + 1 /\ array[n + m + 1] = 0
    <2>1. n + m + 1 \in 1..n + m + 1 /\ (n + m + 1) - (n + m) = 1
          /\ ~(n + m + 1 <= n + m)
      BY <1>1
    <2>. QED  BY <1>2, <1>3, <1>5, <2>1
  <1>7. ASSUME NEW k \in 1..n + m
        PROVE  array[k] = IF k <= n THEN old[k] ELSE list[k - n]
    <2>1. k \in 1..n + m + 1 /\ k <= n + m
      BY <1>1
    <2>2. array[k] = both[k]
      BY <1>2, <1>5, <2>1
    <2>. QED  BY <1>4, <2>2
  <1>8. ASSUME NEW k \in 1..m PROVE array[n + k] = list[k]
    <2>1. n + k \in 1..n + m /\ ~(n + k <= n) /\ (n + k) - n = k
      BY <1>1
    <2>. QED  BY <1>7, <2>1
  <1>. QED  BY <1>1, <1>6, <1>7, <1>8 DEF array, n, m, old

\* The counters stay those of the lists when a whole one is added.
LEMMA AddListCounts ==
    ASSUME NEW c \in Configs, NEW list \in Seq(Int \ {0}), Counted(c),
           c.current_assumption_size = 0
    PROVE  Counted(AddList(c, list))
  <1>. DEFINE d     == AddList(c, list)
              old   == c.assumptions
              array == d.assumptions
              n     == Len(old)
              m     == Len(list)
              max   == c.assumptions_max_assumption_size
  <1>1. old \in Seq(Int) /\ n \in Nat /\ m \in Nat /\ max \in Nat /\ list \in Seq(Int)
    BY SeqMonotonic DEF Configs
  <1>2. /\ Len(array) = n + m + 1 /\ array[n + m + 1] = 0
        /\ \A k \in 1..n : array[k] = old[k]
        /\ \A k \in 1..m : array[n + k] = list[k]
    BY AddedArray
  <1>3. /\ Len(array) = n + m + 1 /\ array[n + m + 1] = 0
        /\ \A k \in 1..n : array[k] = old[k]
        /\ \A k \in n + 1 .. n + m : array[k] # 0
    <2>1. \A k \in 1..m : list[k] # 0
      BY ElementOfSeq
    <2>. HIDE DEF array, n, m, old
    <2>2. ASSUME NEW k \in n + 1 .. n + m PROVE array[k] # 0
      <3>1. k - n \in 1..m /\ n + (k - n) = k
        BY <1>1
      <3>. QED  BY <1>2, <2>1, <3>1
    <2>. QED  BY <1>2, <2>2
  <1>4. /\ d.assumptions_count = c.assumptions_count + 1
        /\ d.current_assumption_size = 0
        /\ d.assumptions_max_assumption_size = IF m > max THEN m ELSE max
    BY <1>1, AddListType
  <1>5. /\ c.assumptions_count = Cardinality(ZerosOf(old, n))
        /\ \A i, j \in 1..n : Unbroken(old, i, j) => j - i < max \/ j - i < 0
        /\ \A i \in 1..n : Unbroken(old, i, n) => n - i < 0
    BY DEF Counted
  <1>. HIDE DEF d, old, array, n, m, max
  <1>6. ZerosOf(array, n + m) = ZerosOf(old, n)
    BY <1>1, <1>3 DEF ZerosOf
  <1>7. d.assumptions_count = Cardinality(ZerosOf(array, n + m + 1))
    <2>1. n + m \in Nat
      BY <1>1
    <2>2. /\ Cardinality(ZerosOf(array, (n + m) + 1))
               = Cardinality(ZerosOf(array, n + m))
                   + (IF array[(n + m) + 1] = 0 THEN 1 ELSE 0)
          /\ Cardinality(ZerosOf(array, n + m)) \in Nat
      BY <2>1, ZerosCount
    <2>. QED  BY <1>3, <1>4, <1>5, <1>6, <2>2
  <1>8. ASSUME NEW i \in 1..n + m + 1, NEW j \in 1..n + m, Unbroken(array, i, j)
        PROVE  j - i < max \/ j - i < m
    <2>1. CASE j < i
      BY <1>1, <2>1
    <2>2. CASE i > n
      BY <1>1, <2>2
    <2>3. CASE i <= n /\ i <= j
      <3>1. j <= n
        <4>1. SUFFICES ASSUME j > n PROVE FALSE
          BY <1>1
        <4>2. i \in 1..n /\ Unbroken(old, i, n)
          BY <1>1, <1>3, <1>8, <2>3, <4>1 DEF Unbroken
        <4>. QED  BY <1>1, <1>5, <4>2
      <3>2. i \in 1..n /\ j \in 1..n /\ Unbroken(old, i, j)
        BY <1>1, <1>3, <1>8, <2>3, <3>1 DEF Unbroken
      <3>3. j - i < max \/ j - i < 0
        BY <1>5, <3>2
      <3>. QED  BY <1>1, <2>3, <3>2, <3>3
    <2>. QED  BY <1>1, <2>1, <2>2, <2>3
  <1>9. ASSUME NEW i \in 1..n + m + 1 PROVE ~Unbroken(array, i, n + m + 1)
    BY <1>1, <1>3 DEF Unbroken
  <1>10. ASSUME NEW i \in 1..n + m + 1, NEW j \in 1..n + m + 1, Unbroken(array, i, j)
         PROVE  j - i < d.assumptions_max_assumption_size
    <2>1. j \in 1..n + m
      <3>1. j # n + m + 1
        BY <1>9, <1>10
      <3>. QED  BY <1>1, <3>1
    <2>2. j - i < max \/ j - i < m
      BY <1>8, <1>10, <2>1
    <2>. QED  BY <1>1, <1>4, <2>1, <2>2
  <1>. QED  BY <1>3, <1>7, <1>9, <1>10 DEF Counted, d, array

\* The list of a combination of the splits has no 0 in it.
LEMMA SplitListType ==
    ASSUME NEW c \in Configs, NEW q \in Seq(Int \ {0}), NEW state,
           ~SplitsTooLong(c, q)
    PROVE  intsplit_state_to_assumption(c, q, state) \in Seq(Int \ {0})
  <1>. DEFINE n == intsplits_summed_length(c, Len(c.intsplits))
              sign(k) == BitOf(c, state, k) = 0
              e(k) == LET v == q[k]
                          a == IF v < 0 THEN -v ELSE v
                      IN  IF sign(k) THEN -a ELSE a
  <1>1. Len(c.intsplits) \in Nat
    BY DEF Configs
  <1>2. n \in Nat
    BY <1>1, SummedLengths
  <1>3. n <= Len(q)
    <2>1. ~(n > Len(q))
      BY DEF SplitsTooLong
    <2>. HIDE DEF n
    <2>. QED  BY <1>2, <2>1, LenProperties
  <1>4. ASSUME NEW k \in 1..n PROVE e(k) \in Int \ {0}
    <2>1. k \in 1..Len(q)
      <3>. HIDE DEF n
      <3>. QED  BY <1>2, <1>3
    <2>2. q[k] \in Int \ {0}
      BY <2>1, ElementOfSeq
    <2>. HIDE DEF sign
    <2>. QED  BY <2>2
  <1>5. intsplit_state_to_assumption(c, q, state) = [k \in 1..n |-> e(k)]
    BY DEF intsplit_state_to_assumption
  <1>. HIDE DEF n, e
  <1>6. [k \in 1..n |-> e(k)] \in Seq(Int \ {0})
    BY <1>2, <1>4, IsASeq
  <1>. QED  BY <1>5, <1>6
-----------------------------------------------------------------------------
(***************************************************************************)
(* The combinations: the states of inflate_intsplits are the numbers from  *)
(* 0 on, written in the mixed radix of the splits.                         *)
(***************************************************************************)
\* Every state stands for a number.
LEMMA ValuesExist ==
    ASSUME NEW s \in Seq(Splits), NEW state \in Seq(Nat), Len(state) = Len(s)
    PROVE  \E v : Values(s, state, v)
  <1>. DEFINE n == Len(s)
              F == [x \in Nat |-> [d \in 1..n |-> x * s[d] + state[d]]]
  <1>1. n \in Nat
    BY LenProperties
  <1>2. ASSUME NEW x \in Nat, NEW d \in 1..n PROVE x * s[d] + state[d] \in Nat
    <2>1. s[d] \in Nat
      BY ElementOfSeq, Ints
    <2>2. state[d] \in Nat
      BY ElementOfSeq
    <2>3. x * s[d] \in Nat
      BY <2>1
    <2>. QED  BY <2>2, <2>3
  <1>3. F \in [Nat -> [1..n -> Nat]]
    BY <1>2
  <1>4. PICK h : Iterates(h, Nat, 0, n, F)
    <2>. HIDE DEF F, n
    <2>. QED  BY <1>1, <1>3, Iteration
  <1>5. ASSUME NEW d \in 1..n PROVE h[d] = h[d - 1] * s[d] + state[d]
    <2>1. d - 1 \in 0..n
      BY <1>1
    <2>2. h \in [0..n -> Nat] /\ h[d] = F[h[d - 1]][d]
      <3>. HIDE DEF F
      <3>. QED  BY <1>4 DEF Iterates
    <2>3. h[d - 1] \in Nat
      BY <2>1, <2>2
    <2>. QED  BY <2>2, <2>3
  <1>6. Values(s, state, h)
    BY <1>4, <1>5 DEF Iterates, Values
  <1>. QED  BY <1>6

\* The product of the splits, step by step.
LEMMA Products ==
    ASSUME NEW s \in Seq(Splits)
    PROVE  \E p \in [0..Len(s) -> Nat] :
              /\ p[0] = 1 /\ \A k \in 1..Len(s) : p[k] = p[k - 1] * s[k]
              /\ Product(s) = p[Len(s)]
  <1>. DEFINE n == Len(s)
              F == [x \in Nat |-> [k \in 1..n |-> x * s[k]]]
              Solves(g) == g = [k \in 0..n |-> IF k = 0 THEN 1 ELSE g[k - 1] * s[k]]
              p == CHOOSE g : Solves(g)
  <1>1. n \in Nat
    BY LenProperties
  <1>2. ASSUME NEW d \in 1..n PROVE s[d] \in Nat
    BY ElementOfSeq, Ints
  <1>3. F \in [Nat -> [1..n -> Nat]]
    <2>1. \A x, y \in Nat : x * y \in Nat
      OBVIOUS
    <2>. QED  BY <1>2, <2>1
  <1>4. PICK h : Iterates(h, Nat, 1, n, F)
    <2>. HIDE DEF F, n
    <2>. QED  BY <1>1, <1>3, Iteration
  <1>5. ASSUME NEW d \in 1..n PROVE h[d] = h[d - 1] * s[d]
    <2>1. h[d - 1] \in Nat
      BY <1>1, <1>4 DEF Iterates
    <2>. QED  BY <1>4, <2>1 DEF Iterates
  <1>6. Solves(h)
    BY <1>1, <1>4, <1>5 DEF Iterates
  <1>7. Solves(p)
    BY <1>6
  <1>8. Product(s) = p[n]
    BY DEF Product
  <1>. HIDE DEF p
  <1>9. p[0] = 1 /\ \A k \in 1..n : p[k] = p[k - 1] * s[k]
    BY <1>1, <1>7
  <1>. DEFINE T == {k \in 0..n : p[k] \in Nat}
  <1>10. 0 \in T
    BY <1>1, <1>9
  <1>11. ASSUME NEW k \in 0..n - 1, k \in T PROVE k + 1 \in T
    <2>1. k + 1 \in 1..n /\ (k + 1) - 1 = k /\ p[k] \in Nat
      BY <1>1, <1>11
    <2>2. p[k + 1] = p[k] * s[k + 1] /\ s[k + 1] \in Nat
      BY <1>2, <1>9, <2>1
    <2>3. \A x, y \in Nat : x * y \in Nat
      OBVIOUS
    <2>. QED  BY <1>1, <2>1, <2>2, <2>3
  <1>12. 0..n \subseteq T
    <2>. HIDE DEF T
    <2>. QED  BY <1>1, <1>10, <1>11, CountingTo
  <1>13. p \in [0..n -> Nat]
    BY <1>7, <1>12
  <1>. QED  BY <1>8, <1>9, <1>13

\* The digits that the reference takes out of a number are those of the state.
LEMMA DigitsOfValue ==
    ASSUME NEW s \in Seq(Splits), NEW state, NEW v, Values(s, state, v),
           Digits(s, state), state[1] < s[1]
    PROVE  \A d \in 1..Len(s) : Digit(s, v[Len(s)], d) = state[d]
  <1>. DEFINE n == Len(s)
              i == v[n]
              F == [x \in Nat |-> [k \in 1..n |-> x \div s[n + 1 - k]]]
              Solves(g) == g = [k \in 0..n |-> IF k = 0 THEN i
                                               ELSE g[k - 1] \div s[n + 1 - k]]
              left == CHOOSE g : Solves(g)
  <1>1. n \in Nat /\ v \in [0..n -> Nat] /\ i \in Nat
    BY LenProperties DEF Values
  <1>2. ASSUME NEW d \in 1..n PROVE s[d] \in Nat /\ s[d] > 0
    BY ElementOfSeq, Ints
  <1>3. F \in [Nat -> [1..n -> Nat]]
    <2>1. \A x, y \in Nat : y > 0 => x \div y \in Nat
      OBVIOUS
    <2>2. \A k \in 1..n : n + 1 - k \in 1..n
      BY <1>1
    <2>. QED  BY <1>2, <2>1, <2>2
  <1>. HIDE DEF i
  <1>4. PICK h : Iterates(h, Nat, i, n, F)
    <2>. HIDE DEF F, n
    <2>. QED  BY <1>1, <1>3, Iteration
  <1>5. ASSUME NEW k \in 1..n PROVE h[k] = h[k - 1] \div s[n + 1 - k]
    <2>1. k - 1 \in 0..n
      BY <1>1
    <2>2. h \in [0..n -> Nat] /\ h[k] = F[h[k - 1]][k]
      <3>. HIDE DEF F
      <3>. QED  BY <1>4 DEF Iterates
    <2>3. h[k - 1] \in Nat
      BY <2>1, <2>2
    <2>. QED  BY <2>2, <2>3
  <1>6. Solves(h)
    BY <1>1, <1>4, <1>5 DEF Iterates
  <1>7. Solves(left)
    BY <1>6
  <1>8. \A d : Digit(s, i, d) = left[n - d] % s[d]
    BY DEF Digit
  <1>. HIDE DEF left
  <1>9. left[0] = i /\ \A k \in 1..n : left[k] = left[k - 1] \div s[n + 1 - k]
    <2>1. 0 \in 0..n /\ \A k \in 1..n : k \in 0..n /\ k # 0
      BY <1>1
    <2>. HIDE DEF n
    <2>. QED  BY <1>7, <2>1, Zenon
  <1>10. ASSUME NEW d \in 1..n
         PROVE  /\ v[d - 1] \in Nat /\ state[d] \in Nat /\ state[d] < s[d]
                /\ v[d] = v[d - 1] * s[d] + state[d]
    <2>1. state[d] \in Nat /\ (d = 1 \/ d \in 2..n)
      BY <1>1, ElementOfSeq DEF Digits
    <2>2. state[d] < s[d]
      BY <1>1, <2>1 DEF Digits
    <2>3. v[d - 1] \in Nat
      <3>1. d - 1 \in 0..n
        BY <1>1
      <3>. QED  BY <3>1 DEF Values
    <2>4. v[d] = v[d - 1] * s[d] + state[d]
      BY DEF Values
    <2>. QED  BY <2>1, <2>2, <2>3, <2>4
  <1>11. ASSUME NEW d \in 1..n
         PROVE  v[d] \div s[d] = v[d - 1] /\ v[d] % s[d] = state[d]
    <2>1. \A a, b, r \in Nat : r < b => (a * b + r) \div b = a /\ (a * b + r) % b = r
      <3>1. ASSUME NEW a \in Nat, NEW b \in Nat, NEW r \in Nat, r < b
            PROVE  (a * b + r) \div b = a /\ (a * b + r) % b = r
        BY <3>1
      <3>. QED  BY <3>1
    <2>2. /\ v[d - 1] \in Nat /\ s[d] \in Nat /\ state[d] \in Nat /\ state[d] < s[d]
          /\ v[d] = v[d - 1] * s[d] + state[d]
      BY <1>2, <1>10
    <2>3. /\ (v[d - 1] * s[d] + state[d]) \div s[d] = v[d - 1]
          /\ (v[d - 1] * s[d] + state[d]) % s[d] = state[d]
      BY <2>1, <2>2, Zenon
    <2>. QED  BY <2>2, <2>3, Zenon
  <1>. DEFINE T == {k \in 0..n : left[k] = v[n - k]}
  <1>12. 0 \in T
    BY <1>1, <1>9 DEF i
  <1>13. ASSUME NEW k \in 0..n - 1, k \in T PROVE k + 1 \in T
    <2>1. /\ n - k \in 1..n /\ k + 1 \in 1..n /\ (k + 1) - 1 = k
          /\ n + 1 - (k + 1) = n - k /\ (n - k) - 1 = n - (k + 1)
      BY <1>1
    <2>2. left[k + 1] = v[n - k] \div s[n - k]
      BY <1>9, <1>13, <2>1
    <2>. QED  BY <1>11, <2>1, <2>2
  <1>14. 0..n \subseteq T
    <2>. HIDE DEF T
    <2>. QED  BY <1>1, <1>12, <1>13, CountingTo
  <1>15. ASSUME NEW d \in 1..n PROVE left[n - d] = v[d]
    <2>1. n - d \in 0..n /\ n - (n - d) = d
      BY <1>1
    <2>. QED  BY <1>14, <2>1
  <1>. QED  BY <1>8, <1>11, <1>15 DEF i

\* The next state stands for the next number.
LEMMA NextNumber ==
    ASSUME NEW c \in Configs, c.intsplits # <<>>, NEW state, NEW v, NEW w,
           Digits(c.intsplits, state), state[1] < c.intsplits[1],
           Values(c.intsplits, state, v),
           Values(c.intsplits, NextCombination(c, state), w)
    PROVE  /\ Digits(c.intsplits, NextCombination(c, state))
           /\ w[Len(c.intsplits)] = v[Len(c.intsplits)] + 1
  <1>. DEFINE s    == c.intsplits
              n    == Len(s)
              next == NextCombination(c, state)
              full(d) == \A e \in d + 1 .. n : AtLimit(c, state, e)
              e(d) == IF ~full(d) THEN state[d]
                      ELSE IF d # 1 /\ AtLimit(c, state, d) THEN 0 ELSE state[d] + 1
  <1>1. s \in Seq(Splits) /\ n \in Nat /\ n >= 1
    <2>1. s \in Seq(Splits)
      BY DEF Configs
    <2>. QED  BY <2>1, EmptySeq, LenProperties
  <1>2. ASSUME NEW d \in 1..n PROVE s[d] \in Nat /\ s[d] > 0 /\ state[d] \in Nat
    <2>1. s[d] \in Splits
      BY <1>1, ElementOfSeq
    <2>2. state \in Seq(Nat) /\ d \in 1..Len(state)
      BY DEF Digits
    <2>. QED  BY <2>1, <2>2, ElementOfSeq, Ints
  <1>3. ASSUME NEW d \in 2..n PROVE state[d] < s[d]
    BY DEF Digits
  <1>4. \A d \in 1..n : AtLimit(c, state, d) <=> state[d] + 1 = s[d]
    BY DEF AtLimit
  <1>5. next = [d \in 1..n |-> e(d)]
    <2>1. Len(state) = n
      BY DEF Digits
    <2>. QED  BY <2>1 DEF NextCombination
  <1>6. \A d \in 1..n : e(d) \in Nat
    <2>. HIDE DEF full
    <2>. QED  BY <1>2
  <1>7. next \in Seq(Nat) /\ Len(next) = n /\ \A d \in 1..n : next[d] = e(d)
    <2>1. [d \in 1..n |-> e(d)] \in Seq(Nat)
      <3>. HIDE DEF e, n
      <3>. QED  BY <1>1, <1>6, IsASeq
    <2>. HIDE DEF e, n, next
    <2>2. next \in Seq(Nat) /\ DOMAIN next = 1..n
      BY <1>5, <2>1
    <2>3. DOMAIN next = 1..Len(next) /\ Len(next) \in Nat
      BY <2>2, LenProperties
    <2>. QED  BY <1>1, <1>5, <2>2, <2>3
  <1>8. ASSUME NEW d \in 1..n PROVE full(d - 1) <=> full(d) /\ AtLimit(c, state, d)
    <2>1. \A x : x \in (d - 1) + 1 .. n <=> x = d \/ x \in d + 1 .. n
      BY <1>1
    <2>. QED  BY <2>1
  <1>9. full(n)
    BY <1>1
  <1>10. ASSUME NEW d \in 1..n, full(1) PROVE full(d) /\ (d # 1 => AtLimit(c, state, d))
    BY <1>1, <1>10
  <1>. HIDE DEF s, n, next, full
  <1>11. Digits(s, next)
    <2>1. ASSUME NEW d \in 2..n PROVE next[d] < s[d]
      <3>1. d \in 1..n /\ d # 1
        BY <1>1
      <3>2. /\ s[d] \in Nat /\ s[d] > 0 /\ state[d] \in Nat /\ state[d] < s[d]
            /\ AtLimit(c, state, d) <=> state[d] + 1 = s[d]
        BY <1>2, <1>3, <1>4, <3>1
      <3>3. next[d] = e(d)
        BY <1>7, <3>1
      <3>4. \/ next[d] = state[d]
            \/ next[d] = 0
            \/ ~AtLimit(c, state, d) /\ next[d] = state[d] + 1
        BY <3>1, <3>3
      <3>. QED  BY <3>2, <3>4
    <2>2. 1 \in 1..n /\ state[1] < s[1]
      BY <1>1 DEF s
    <2>3. next[1] <= s[1]
      BY <1>2, <1>7, <2>2
    <2>4. ASSUME next[1] = s[1], NEW d \in 2..n PROVE next[d] = 0
      <3>1. full(1)
        BY <1>2, <1>7, <2>2, <2>4
      <3>2. d \in 1..n /\ d # 1
        BY <1>1
      <3>3. full(d) /\ AtLimit(c, state, d)
        BY <1>10, <3>1, <3>2
      <3>. QED  BY <1>7, <3>2, <3>3
    <2>. HIDE DEF e
    <2>. QED  BY <1>7, <2>1, <2>3, <2>4 DEF Digits, n
  <1>12. /\ v \in [0..n -> Nat] /\ v[0] = 0 /\ w \in [0..n -> Nat] /\ w[0] = 0
         /\ \A d \in 1..n : /\ v[d] = v[d - 1] * s[d] + state[d]
                            /\ w[d] = w[d - 1] * s[d] + next[d]
    BY DEF Values, n, s, next
  <1>. DEFINE T == {d \in 0..n : d >= 1 => w[d] = v[d] + (IF full(d) THEN 1 ELSE 0)}
  <1>13. 0 \in T
    BY <1>1
  <1>14. ASSUME NEW d \in 0..n - 1, d \in T PROVE d + 1 \in T
    <2>. DEFINE k == d + 1
    <2>1. k \in 1..n /\ k - 1 = d /\ d \in 0..n
      BY <1>1
    <2>. HIDE DEF k
    <2>2. /\ v[k] = v[d] * s[k] + state[k] /\ w[k] = w[d] * s[k] + next[k]
          /\ v[d] \in Nat /\ w[d] \in Nat
          /\ s[k] \in Nat /\ s[k] > 0 /\ state[k] \in Nat /\ next[k] = e(k)
      BY <1>2, <1>7, <1>12, <2>1
    <2>3. full(d) <=> full(k) /\ AtLimit(c, state, k)
      BY <1>8, <2>1
    <2>4. (v[d] + 1) * s[k] = v[d] * s[k] + s[k] /\ v[d] * s[k] \in Nat
      <3>1. \A x, y \in Nat : (x + 1) * y = x * y + y /\ x * y \in Nat
        OBVIOUS
      <3>. QED  BY <2>2, <3>1, Zenon
    <2>5. w[k] = v[k] + (IF full(k) THEN 1 ELSE 0)
      <3>1. CASE d = 0
        <4>1. v[d] = 0 /\ w[d] = 0 /\ k = 1 /\ v[d] * s[k] = 0 /\ w[d] * s[k] = 0
          BY <1>12, <2>1, <2>2, <3>1
        <4>. QED  BY <2>2, <4>1
      <3>2. CASE d # 0
        <4>1. k # 1 /\ w[d] = v[d] + (IF full(d) THEN 1 ELSE 0)
          BY <1>14, <2>1, <3>2
        <4>2. CASE ~full(k)
          BY <2>2, <2>3, <4>1, <4>2
        <4>3. CASE full(k) /\ AtLimit(c, state, k)
          <5>1. w[d] = v[d] + 1 /\ next[k] = 0 /\ state[k] + 1 = s[k]
            BY <1>4, <2>1, <2>2, <2>3, <4>1, <4>3
          <5>2. w[d] * s[k] = v[d] * s[k] + s[k]
            BY <2>4, <5>1
          <5>. QED  BY <2>2, <2>4, <4>3, <5>1, <5>2
        <4>4. CASE full(k) /\ ~AtLimit(c, state, k)
          <5>1. w[d] = v[d] /\ next[k] = state[k] + 1
            BY <2>2, <2>3, <4>1, <4>4
          <5>. QED  BY <2>2, <2>4, <4>4, <5>1
        <4>. QED  BY <4>2, <4>3, <4>4
      <3>. QED  BY <3>1, <3>2
    <2>. QED  BY <1>1, <2>1, <2>5 DEF k
  <1>15. 0..n \subseteq T
    <2>. HIDE DEF T
    <2>. QED  BY <1>1, <1>13, <1>14, CountingTo
  <1>16. w[n] = v[n] + 1
    BY <1>1, <1>9, <1>15
  <1>. QED  BY <1>11, <1>16 DEF s, n, next

\* When the first digit is at its limit, all combinations have been counted.
LEMMA LastNumber ==
    ASSUME NEW s \in Seq(Splits), s # <<>>, NEW state, NEW v,
           Digits(s, state), Values(s, state, v), state[1] = s[1]
    PROVE  v[Len(s)] = Product(s)
  <1>. DEFINE n == Len(s)
  <1>1. n \in Nat /\ n >= 1
    BY EmptySeq, LenProperties
  <1>2. PICK p \in [0..n -> Nat] :
           /\ p[0] = 1 /\ \A k \in 1..n : p[k] = p[k - 1] * s[k]
           /\ Product(s) = p[n]
    BY Products
  <1>3. /\ v \in [0..n -> Nat] /\ v[0] = 0
        /\ \A d \in 1..n : v[d] = v[d - 1] * s[d] + state[d]
    BY DEF Values
  <1>4. ASSUME NEW d \in 1..n PROVE s[d] \in Nat
    BY ElementOfSeq, Ints
  <1>5. ASSUME NEW d \in 2..n PROVE state[d] = 0
    BY DEF Digits
  <1>. HIDE DEF n
  <1>. DEFINE T == {d \in 0..n : d >= 1 => v[d] = p[d]}
  <1>6. 0 \in T
    BY <1>1
  <1>7. ASSUME NEW d \in 0..n - 1, d \in T PROVE d + 1 \in T
    <2>. DEFINE k == d + 1
    <2>1. k \in 1..n /\ k - 1 = d /\ d \in 0..n
      BY <1>1
    <2>. HIDE DEF k
    <2>2. /\ v[k] = v[d] * s[k] + state[k] /\ p[k] = p[d] * s[k]
          /\ v[d] \in Nat /\ p[d] \in Nat /\ s[k] \in Nat
      BY <1>2, <1>3, <1>4, <2>1
    <2>3. v[k] = p[k]
      <3>1. CASE d = 0
        <4>1. v[d] = 0 /\ p[d] = 1 /\ k = 1
          BY <1>2, <1>3, <2>1, <3>1
        <4>2. 0 * s[k] = 0 /\ 1 * s[k] = s[k] /\ state[k] = s[k]
          BY <2>2, <4>1
        <4>. QED  BY <2>2, <4>1, <4>2
      <3>2. CASE d # 0
        <4>1. state[k] = 0 /\ v[d] = p[d]
          BY <1>5, <1>7, <2>1, <3>2
        <4>2. p[d] * s[k] \in Nat
          BY <2>2
        <4>. QED  BY <2>2, <4>1, <4>2
      <3>. QED  BY <3>1, <3>2
    <2>. QED  BY <1>1, <2>1, <2>3 DEF k
  <1>8. 0..n \subseteq T
    <2>. HIDE DEF T
    <2>. QED  BY <1>1, <1>6, <1>7, CountingTo
  <1>9. v[n] = p[n]
    BY <1>1, <1>8
  <1>. QED  BY <1>2, <1>9 DEF n

\* The variables of a split come behind those of the splits before.
LEMMA SummedGrows ==
    ASSUME NEW c \in Configs, NEW i \in 0..Len(c.intsplits),
           NEW j \in i..Len(c.intsplits)
    PROVE  intsplits_summed_length(c, i) <= intsplits_summed_length(c, j)
  <1>. DEFINE n == Len(c.intsplits)
              sum(d) == intsplits_summed_length(c, d)
              w(d) == intsplits_current_length(c, d)
              T == {k \in 0..j - i : sum(i) <= sum(i + k)}
  <1>1. n \in Nat
    BY DEF Configs
  <1>2. /\ \A d \in 1..n : sum(d) = sum(d - 1) + w(d) /\ w(d) \in Nat
        /\ \A d \in 0..n : sum(d) \in Nat
    BY SummedLengths
  <1>. HIDE DEF n, sum, w
  <1>3. i \in 0..n /\ j \in i..n
    BY DEF n
  <1>4. 0 \in T
    BY <1>1, <1>2, <1>3
  <1>5. ASSUME NEW k \in 0..j - i - 1, k \in T PROVE k + 1 \in T
    <2>1. /\ i + (k + 1) \in 1..n /\ (i + (k + 1)) - 1 = i + k /\ i + k \in 0..n
          /\ k + 1 \in 0..j - i
      BY <1>1, <1>3
    <2>2. sum(i + (k + 1)) = sum(i + k) + w(i + (k + 1)) /\ w(i + (k + 1)) \in Nat
      BY <1>2, <2>1
    <2>. QED  BY <1>2, <1>3, <1>5, <2>1, <2>2
  <1>6. 0..j - i \subseteq T
    <2>. HIDE DEF T
    <2>. QED  BY <1>1, <1>3, <1>4, <1>5, CountingTo
  <1>7. j - i \in 0..j - i /\ i + (j - i) = j
    BY <1>1, <1>3
  <1>8. sum(i) <= sum(j)
    BY <1>6, <1>7
  <1>. QED  BY <1>8 DEF sum

\* SplitOf finds the split of a bit.
LEMMA SplitFound ==
    ASSUME NEW c \in Configs, NEW d \in 1..Len(c.intsplits), NEW k \in Int,
           k \in First(c, d) + 1 .. First(c, d + 1)
    PROVE  SplitOf(c, k) = d
  <1>. DEFINE n == Len(c.intsplits)
              sum(i) == intsplits_summed_length(c, i)
              Holds(i) == k \in First(c, i) + 1 .. First(c, i + 1)
  <1>1. n \in Nat
    BY DEF Configs
  <1>2. \A i \in 0..n : sum(i) \in Nat
    BY SummedLengths
  <1>3. ASSUME NEW i \in 0..n, NEW j \in i..n PROVE sum(i) <= sum(j)
    BY <1>3, SummedGrows
  <1>4. ASSUME NEW i \in 1..n PROVE Holds(i) <=> sum(i - 1) < k /\ k <= sum(i)
    <2>1. (i + 1) - 1 = i /\ i \in 0..n /\ i - 1 \in 0..n
      BY <1>1
    <2>2. First(c, i) = sum(i - 1) /\ First(c, i + 1) = sum(i)
      BY <2>1 DEF First
    <2>3. sum(i - 1) \in Nat /\ sum(i) \in Nat
      BY <1>2, <2>1
    <2>. HIDE DEF sum
    <2>. QED  BY <2>2, <2>3
  <1>5. SplitOf(c, k) = CHOOSE i \in 1..n : Holds(i)
    BY DEF SplitOf
  <1>6. Holds(d) /\ d \in 1..n
    OBVIOUS
  <1>. HIDE DEF Holds, sum, n
  <1>7. ASSUME NEW i \in 1..n, NEW j \in 1..n, i < j, Holds(i), Holds(j) PROVE FALSE
    <2>1. i \in 0..n /\ j - 1 \in i..n /\ j - 1 \in 0..n
      BY <1>1, <1>7
    <2>2. sum(i) <= sum(j - 1) /\ sum(i) \in Nat /\ sum(j - 1) \in Nat
      BY <1>2, <1>3, <2>1
    <2>3. k <= sum(i) /\ sum(j - 1) < k
      BY <1>4, <1>7
    <2>. QED  BY <2>2, <2>3
  <1>8. ASSUME NEW i \in 1..n, Holds(i), i # d PROVE FALSE
    <2>1. i < d \/ d < i
      BY <1>1, <1>6, <1>8
    <2>. QED  BY <1>6, <1>7, <1>8, <2>1
  <1>. QED  BY <1>5, <1>6, <1>8

\* A number in binary over a stretch of the prefix.
LEMMA BinaryStretch ==
    ASSUME NEW q \in Seq(Int), NEW used \in Nat, NEW w \in 0..31, used + w <= Len(q),
           NEW n \in Nat
    PROVE  LET b == Binary(SubSeq(q, used + 1, used + w), n)
           IN  /\ b \in Seq(Int) /\ Len(b) = w
               /\ \A j \in 1..w :
                     b[j] = IF (n \div Pow2[w - j]) % 2 = 1 THEN Abs(q[used + j])
                                                            ELSE -Abs(q[used + j])
  <1>. DEFINE b == Binary(SubSeq(q, used + 1, used + w), n)
              u == SubSeq(q, used + 1, used + w)
              bit(j) == (n \div Pow2[w - j]) % 2
              e(j) == IF bit(j) = 1 THEN Abs(u[j]) ELSE -Abs(u[j])
  <1>1. Len(q) \in Nat /\ w \in Nat
    BY LenProperties
  <1>2. used + 1 \in Int /\ used + w \in Int
    BY <1>1
  <1>3. \A k \in used + 1 .. used + w : k \in 1..Len(q)
    BY <1>1
  <1>4. \A k \in 1..Len(q) : q[k] \in Int
    BY ElementOfSeq
  <1>5. /\ u \in Seq(Int)
        /\ Len(u) = IF used + 1 <= used + w THEN (used + w) - (used + 1) + 1 ELSE 0
        /\ \A j \in 1..(used + w) - (used + 1) + 1 : u[j] = q[(used + 1) + j - 1]
    BY <1>2, <1>3, <1>4, SubSeqProperties
  <1>. HIDE DEF u
  <1>6. Len(u) = w /\ \A j \in 1..w : u[j] = q[used + j] /\ u[j] \in Int
    <2>1. /\ (used + w) - (used + 1) + 1 = w
          /\ w = 0 \/ used + 1 <= used + w
          /\ \A j \in 1..w : (used + 1) + j - 1 = used + j
          /\ used + 1 <= used + w => w # 0
      BY <1>1
    <2>2. Len(u) = w
      BY <1>5, <2>1
    <2>. QED  BY <1>5, <2>1, <2>2, ElementOfSeq
  <1>7. b = [j \in 1..w |-> e(j)]
    BY <1>6 DEF Binary, u
  <1>8. \A j \in 1..w : e(j) \in Int
    <2>1. \A x \in Int : Abs(x) \in Int /\ -Abs(x) \in Int
      BY DEF Abs
    <2>. HIDE DEF bit
    <2>. QED  BY <1>6, <2>1
  <1>9. \A j \in 1..w : e(j) = IF bit(j) = 1 THEN Abs(q[used + j]) ELSE -Abs(q[used + j])
    BY <1>6
  <1>. HIDE DEF e, bit, b
  <1>10. [j \in 1..w |-> e(j)] \in Seq(Int)
    BY <1>1, <1>8, IsASeq
  <1>11. Len([j \in 1..w |-> e(j)]) = w
    BY <1>1
  <1>. QED  BY <1>7, <1>9, <1>10, <1>11 DEF bit, b

\* A stretch put behind the beginning of a sequence, and continuing it.
LEMMA Continued ==
    ASSUME NEW f, NEW u \in Nat, NEW w \in Nat, \A k \in 1..u + w : f[k] \in Int,
           NEW b \in Seq(Int), Len(b) = w, \A j \in 1..w : b[j] = f[u + j]
    PROVE  [k \in 1..u |-> f[k]] \o b = [k \in 1..u + w |-> f[k]]
  <1>. DEFINE x == [k \in 1..u |-> f[k]]
              y == [k \in 1..u + w |-> f[k]]
  <1>1. u + w \in Nat /\ \A k \in 1..u : k \in 1..u + w
    OBVIOUS
  <1>2. x \in Seq(Int) /\ y \in Seq(Int)
    BY <1>1, IsASeq
  <1>3. Len(x) = u /\ Len(y) = u + w
    BY <1>1
  <1>4. /\ \A k \in 1..u : x[k] = f[k]
        /\ \A k \in 1..u + w : y[k] = f[k]
    OBVIOUS
  <1>. HIDE DEF x, y
  <1>5. /\ x \o b \in Seq(Int) /\ Len(x \o b) = u + w
        /\ \A k \in 1..u + w : (x \o b)[k] = IF k <= u THEN x[k] ELSE b[k - u]
    BY <1>2, <1>3, ConcatProperties
  <1>6. ASSUME NEW k \in 1..u + w PROVE (x \o b)[k] = y[k]
    <2>1. CASE k <= u
      <3>1. k \in 1..u
        BY <2>1
      <3>. QED  BY <1>4, <1>5, <2>1, <3>1
    <2>2. CASE ~(k <= u)
      <3>1. k - u \in 1..w /\ u + (k - u) = k
        BY <2>2
      <3>. QED  BY <1>4, <1>5, <2>2, <3>1
    <2>. QED  BY <2>1, <2>2
  <1>7. x \o b = y
    BY <1>2, <1>3, <1>5, <1>6, SeqEqual
  <1>. QED  BY <1>7 DEF x, y

\* Shifting and masking leaves a bit.
LEMMA Bits == \A x, y \in Nat : y > 0 => (x \div y) % 2 \in {0, 1}
  <1>1. \A x, y \in Nat : y > 0 => x \div y \in Nat
    OBVIOUS
  <1>2. \A z \in Nat : z % 2 \in {0, 1}
    OBVIOUS
  <1>. QED  BY <1>1, <1>2, Zenon

\* The bits of a split stand where the reference puts them.
LEMMA SplitWritten ==
    ASSUME NEW c \in Configs, NEW q \in Seq(Int \ {0}), NEW state \in Seq(Nat),
           Len(state) = Len(c.intsplits), ~SplitsTooLong(c, q),
           NEW d \in 1..Len(c.intsplits)
    PROVE  LET used == intsplits_summed_length(c, d - 1)
               w    == Width(c.intsplits[d])
               b    == Binary(SubSeq(q, used + 1, used + w), state[d])
           IN  /\ used \in Nat /\ w \in Nat /\ used + w = intsplits_summed_length(c, d)
               /\ b \in Seq(Int) /\ Len(b) = w
               /\ \A j \in 1..w :
                     b[j] = intsplit_state_to_assumption(c, q, state)[used + j]
  <1>. DEFINE n == Len(c.intsplits)
              used == intsplits_summed_length(c, d - 1)
              w == Width(c.intsplits[d])
              b == Binary(SubSeq(q, used + 1, used + w), state[d])
              sum(i) == intsplits_summed_length(c, i)
              all == intsplit_state_to_assumption(c, q, state)
  <1>1. n \in Nat /\ c.intsplits \in Seq(Splits)
    BY LenProperties DEF Configs
  <1>2. c.intsplits[d] \in Splits
    BY <1>1, ElementOfSeq
  <1>3. w \in 0..31 /\ w = intsplits_current_length(c, d)
    BY <1>2, CeilLog2 DEF intsplits_current_length
  <1>4. /\ sum(d) = sum(d - 1) + w
        /\ \A i \in 0..n : sum(i) \in Nat
    BY <1>3, SummedLengths
  <1>5. d \in 0..n /\ d - 1 \in 0..n /\ n \in d..n /\ n \in 0..n
    BY <1>1
  <1>6. sum(d) <= sum(n)
    BY <1>5, SummedGrows
  <1>7. Len(q) \in Nat /\ q \in Seq(Int) /\ \A k \in 1..Len(q) : q[k] \in Int
    BY ElementOfSeq, LenProperties, SeqMonotonic
  <1>8. ~(sum(n) > Len(q))
    BY DEF SplitsTooLong
  <1>9. state[d] \in Nat
    BY ElementOfSeq
  <1>. HIDE DEF sum, n, all, used, w, b
  <1>10. /\ used \in Nat /\ w \in Nat /\ used + w = sum(d) /\ used + w <= sum(n)
         /\ sum(n) \in Nat /\ sum(n) <= Len(q)
    <2>1. \A x \in 0..31 : x \in Nat
      OBVIOUS
    <2>2. w \in Nat
      BY <1>3, <2>1, Zenon
    <2>3. used = sum(d - 1)
      BY DEF sum, used
    <2>. QED  BY <1>4, <1>5, <1>6, <1>7, <1>8, <2>2, <2>3
  <1>11. used + w <= Len(q)
    BY <1>7, <1>10
  <1>12. /\ b \in Seq(Int) /\ Len(b) = w
         /\ \A j \in 1..w :
              b[j] = IF (state[d] \div Pow2[w - j]) % 2 = 1 THEN Abs(q[used + j])
                                                            ELSE -Abs(q[used + j])
    <2>1. /\ q \in Seq(Int) /\ used \in Nat /\ w \in 0..31 /\ used + w <= Len(q)
          /\ state[d] \in Nat
      BY <1>3, <1>7, <1>9, <1>10, <1>11
    <2>. QED  BY <2>1, BinaryStretch DEF b
  <1>13. ASSUME NEW j \in 1..w PROVE b[j] = all[used + j]
    <2>. DEFINE k == used + j
                bit == (state[d] \div Pow2[w - j]) % 2
    <2>1. k \in 1..sum(n) /\ k \in 1..Len(q) /\ k \in Int
      BY <1>7, <1>10
    <2>2. (d + 1) - 1 = d
      BY <1>1
    <2>3. First(c, d) = used /\ First(c, d + 1) = used + w
      BY <1>10, <2>2 DEF First, sum, used
    <2>4. k \in First(c, d) + 1 .. First(c, d + 1) /\ First(c, d + 1) - k = w - j
      BY <1>10, <2>3
    <2>. HIDE DEF k
    <2>5. SplitOf(c, k) = d
      BY <2>1, <2>4, SplitFound DEF n
    <2>6. BitOf(c, state, k) = bit
      BY <2>4, <2>5 DEF BitOf, get_bit
    <2>7. bit \in {0, 1}
      <3>1. w - j \in 0..31
        <4>1. \A x \in 0..31 : \A y \in 1..x : x - y \in 0..31
          OBVIOUS
        <4>. QED  BY <1>3, <4>1, Zenon
      <3>2. Pow2[w - j] \in Nat /\ Pow2[w - j] > 0
        BY <3>1, Powers
      <3>. QED  BY <1>9, <3>2, Bits, Zenon
    <2>8. b[j] = IF bit = 1 THEN Abs(q[k]) ELSE -Abs(q[k])
      BY <1>12 DEF k
    <2>. HIDE DEF bit
    <2>9. all[k] = LET v == q[k]
                       a == IF v < 0 THEN -v ELSE v
                   IN  IF BitOf(c, state, k) = 0 THEN -a ELSE a
      BY <2>1 DEF all, intsplit_state_to_assumption, sum, n
    <2>10. all[k] = IF bit = 0 THEN -Abs(q[k]) ELSE Abs(q[k])
      BY <1>7, <2>1, <2>6, <2>9 DEF Abs
    <2>. QED  BY <2>7, <2>8, <2>10 DEF k
  <1>. QED  BY <1>10, <1>12, <1>13 DEF sum, all, used, w, b

\* The list that the code writes for a state is the combination of its number.
LEMMA CombinationOfState ==
    ASSUME NEW c \in Configs, NEW q \in Seq(Int \ {0}), NEW state, NEW v,
           ~SplitsTooLong(c, q), Digits(c.intsplits, state),
           state[1] < c.intsplits[1], Values(c.intsplits, state, v)
    PROVE  Combination(c.intsplits, q, v[Len(c.intsplits)])
              = intsplit_state_to_assumption(c, q, state)
  <1>. DEFINE s == c.intsplits
              n == Len(s)
              number == v[n]
              all == intsplit_state_to_assumption(c, q, state)
              sum(d) == intsplits_summed_length(c, d)
              L(d) == [k \in 1..sum(d) |-> all[k]]
              Longer(x, d) == LET used == Len(x)
                                  vs   == SubSeq(q, used + 1, used + Width(s[d]))
                              IN  x \o Binary(vs, Digit(s, number, d))
              Solves(g) == g = [d \in 0..n |-> IF d = 0 THEN <<>> ELSE Longer(g[d - 1], d)]
              g == CHOOSE h : Solves(h)
  <1>1. s \in Seq(Splits) /\ n \in Nat
    BY LenProperties DEF Configs
  <1>2. sum(0) = 0 /\ \A d \in 0..n : sum(d) \in Nat
    BY SummedLengths
  <1>3. all \in Seq(Int \ {0}) /\ all = [k \in 1..sum(n) |-> all[k]] /\ Len(all) = sum(n)
    <2>1. all \in Seq(Int \ {0})
      BY SplitListType
    <2>2. DOMAIN all = 1..sum(n)
      BY DEF intsplit_state_to_assumption
    <2>3. sum(n) \in Nat
      BY <1>1, <1>2
    <2>. HIDE DEF all, sum
    <2>. QED  BY <2>1, <2>2, <2>3, LenProperties
  <1>4. \A d \in 0..n : sum(d) <= sum(n)
    <2>1. ASSUME NEW d \in 0..n PROVE sum(d) <= sum(n)
      <3>1. n \in d..n
        BY <1>1
      <3>. QED  BY <3>1, SummedGrows
    <2>. QED  BY <2>1
  <1>5. \A d \in 1..n : Digit(s, number, d) = state[d]
    BY <1>1, DigitsOfValue
  <1>6. state \in Seq(Nat) /\ Len(state) = n
    BY DEF Digits
  <1>7. Combination(s, q, number) = g[n]
    BY DEF Combination
  <1>8. ASSUME NEW d \in 1..n PROVE Longer(L(d - 1), d) = L(d)
    <2>. DEFINE used == sum(d - 1)
                w == Width(s[d])
                b == Binary(SubSeq(q, used + 1, used + w), state[d])
    <2>1. /\ used \in Nat /\ w \in Nat /\ used + w = sum(d)
          /\ b \in Seq(Int) /\ Len(b) = w
          /\ \A j \in 1..w : b[j] = all[used + j]
      BY <1>6, SplitWritten
    <2>2. d \in 0..n
      BY <1>1
    <2>. HIDE DEF all, sum, n, s
    <2>3. sum(d) <= sum(n) /\ sum(n) \in Nat
      BY <1>1, <1>2, <1>4, <2>2
    <2>4. Len(L(d - 1)) = used
      BY <2>1
    <2>5. Longer(L(d - 1), d) = L(d - 1) \o b
      BY <1>5, <2>4
    <2>. HIDE DEF used, w, b
    <2>6. \A k \in 1..used + w : all[k] \in Int
      <3>1. \A k \in 1..used + w : k \in 1..sum(n)
        BY <2>1, <2>3
      <3>. QED  BY <1>3, <3>1, ElementOfSeq
    <2>7. [k \in 1..used |-> all[k]] \o b = [k \in 1..used + w |-> all[k]]
      BY <2>1, <2>6, Continued
    <2>8. L(d - 1) = [k \in 1..used |-> all[k]] /\ L(d) = [k \in 1..used + w |-> all[k]]
      BY <2>1 DEF used
    <2>. QED  BY <2>5, <2>7, <2>8
  <1>9. L(0) = <<>>
    BY <1>2
  <1>10. L(n) = all
    BY <1>3
  <1>. HIDE DEF Longer, L, number, n, s, all
  <1>11. Solves([d \in 0..n |-> L(d)])
    <2>1. \A d \in 1..n : d - 1 \in 0..n
      BY <1>1
    <2>2. \A d \in 0..n : d # 0 => d \in 1..n
      BY <1>1
    <2>. QED  BY <1>8, <1>9, <2>1, <2>2
  <1>12. Solves(g)
    BY <1>11
  <1>. HIDE DEF g
  <1>13. g[0] = <<>> /\ \A d \in 1..n : g[d] = Longer(g[d - 1], d)
    <2>1. 0 \in 0..n /\ \A k \in 1..n : k \in 0..n /\ k # 0
      BY <1>1
    <2>. QED  BY <1>12, <2>1, Zenon
  <1>. DEFINE T == {d \in 0..n : g[d] = L(d)}
  <1>14. 0 \in T
    BY <1>1, <1>9, <1>13
  <1>15. ASSUME NEW d \in 0..n - 1, d \in T PROVE d + 1 \in T
    <2>1. d + 1 \in 1..n /\ (d + 1) - 1 = d /\ d + 1 \in 0..n
      BY <1>1
    <2>2. g[d + 1] = Longer(L(d), d + 1)
      BY <1>13, <1>15, <2>1
    <2>3. Longer(L((d + 1) - 1), d + 1) = L(d + 1)
      BY <1>8, <2>1
    <2>. QED  BY <2>1, <2>2, <2>3
  <1>16. 0..n \subseteq T
    <2>. HIDE DEF T
    <2>. QED  BY <1>1, <1>14, <1>15, CountingTo
  <1>17. g[n] = L(n)
    BY <1>1, <1>16
  <1>. QED  BY <1>7, <1>10, <1>17 DEF s, n, number, all

-----------------------------------------------------------------------------
(***************************************************************************)
(* The lists of the combinations, in the array.                            *)
(***************************************************************************)
\* Such a list is one in the sense of the properties.
LEMMA ListIs ==
    ASSUME NEW id, NEW list, cfg.assumptions \in Seq(Int),
           ListAt(cfg.assumptions, id, list)
    PROVE  IsList(id, list)
  <1>. DEFINE array == cfg.assumptions
              n == Len(array)
              m == Len(list)
  <1>1. array \in Seq(Int) /\ n \in Nat /\ list \in Seq(Int) /\ m \in Nat
    BY LenProperties DEF ListAt
  <1>. HIDE DEF m
  <1>2. PICK z \in 1..n :
           /\ array[z] = 0 /\ Cardinality(ZerosOf(array, z - 1)) = id
           /\ m < z
           /\ \A k \in 1..m : list[k] # 0 /\ array[(z - 1 - m) + k] = list[k]
           /\ m = z - 1 \/ array[z - 1 - m] = 0
    BY DEF ListAt, m
  <1>. HIDE DEF n
  <1>3. z - m \in Int /\ z - 1 \in Int /\ \A k \in z - m .. z - 1 : k \in 1..n
    BY <1>1, <1>2
  <1>4. \A k \in z - m .. z - 1 : array[k] \in Int
    <2>1. \A k \in 1..n : array[k] \in Int
      BY <1>1, ElementOfSeq DEF n
    <2>. QED  BY <1>3, <2>1
  <1>5. SubSeq(array, z - m, z - 1) = list
    <2>. DEFINE u == SubSeq(array, z - m, z - 1)
    <2>1. /\ u \in Seq(Int)
          /\ Len(u) = IF z - m <= z - 1 THEN (z - 1) - (z - m) + 1 ELSE 0
          /\ \A k \in 1..(z - 1) - (z - m) + 1 : u[k] = array[(z - m) + k - 1]
      BY <1>3, <1>4, SubSeqProperties
    <2>. HIDE DEF u, array
    <2>2. /\ (z - 1) - (z - m) + 1 = m
          /\ z - m <= z - 1 <=> m # 0
          /\ \A k \in 1..m : (z - m) + k - 1 = (z - 1 - m) + k
      BY <1>1, <1>2
    <2>3. Len(u) = m
      BY <1>1, <2>1, <2>2
    <2>4. ASSUME NEW k \in 1..m PROVE u[k] = list[k]
      <3>1. u[k] = array[(z - m) + k - 1] /\ (z - m) + k - 1 = (z - 1 - m) + k
        BY <2>1, <2>2
      <3>. QED  BY <1>2, <3>1
    <2>5. u = list
      BY <1>1, <2>1, <2>3, <2>4, SeqEqual DEF m
    <2>. QED  BY <2>5 DEF u
  <1>6. z \in Zeros(n) /\ Cardinality(Zeros(z - 1)) = id
    BY <1>1, <1>2 DEF Zeros, ZerosOf
  <1>7. z - m - 1 = z - 1 - m
    BY <1>1, <1>2
  <1>8. /\ z \in Zeros(Len(cfg.assumptions)) /\ Cardinality(Zeros(z - 1)) = id
        /\ Len(list) < z
        /\ list = SubSeq(cfg.assumptions, z - Len(list), z - 1)
        /\ \A k \in 1..Len(list) : list[k] # 0
        /\ Len(list) = z - 1 \/ cfg.assumptions[z - Len(list) - 1] = 0
    BY <1>2, <1>5, <1>6, <1>7 DEF m, n
  <1>. QED  BY <1>8 DEF IsList

\* Lists stay where they are when others are put behind them.
LEMMA ListStays ==
    ASSUME NEW old \in Seq(Int), NEW array \in Seq(Int), Len(old) <= Len(array),
           \A k \in 1..Len(old) : array[k] = old[k],
           NEW id, NEW list, ListAt(old, id, list)
    PROVE  ListAt(array, id, list)
  <1>. DEFINE n == Len(old)
              m == Len(list)
  <1>1. n \in Nat /\ list \in Seq(Int) /\ m \in Nat /\ Len(array) \in Nat
    BY LenProperties DEF ListAt
  <1>. HIDE DEF m
  <1>2. PICK z \in 1..n :
           /\ old[z] = 0 /\ Cardinality(ZerosOf(old, z - 1)) = id
           /\ m < z
           /\ \A k \in 1..m : list[k] # 0 /\ old[(z - 1 - m) + k] = list[k]
           /\ m = z - 1 \/ old[z - 1 - m] = 0
    BY DEF ListAt, m
  <1>3. \A k \in 1..n : array[k] = old[k]
    OBVIOUS
  <1>4. n <= Len(array)
    OBVIOUS
  <1>. HIDE DEF n
  <1>5. z \in 1..Len(array) /\ array[z] = 0
    BY <1>1, <1>2, <1>3, <1>4
  <1>6. ZerosOf(array, z - 1) = ZerosOf(old, z - 1)
    <2>1. \A k \in 1..z - 1 : array[k] = old[k]
      BY <1>1, <1>2, <1>3
    <2>. QED  BY <2>1 DEF ZerosOf
  <1>7. ASSUME NEW k \in 1..m PROVE array[(z - 1 - m) + k] = list[k]
    <2>1. (z - 1 - m) + k \in 1..n
      BY <1>1, <1>2
    <2>. QED  BY <1>2, <1>3, <2>1
  <1>8. m = z - 1 \/ array[z - 1 - m] = 0
    <2>1. m = z - 1 \/ z - 1 - m \in 1..n
      BY <1>1, <1>2
    <2>. QED  BY <1>2, <1>3, <2>1
  <1>9. \A k \in 1..m : list[k] # 0 /\ array[(z - 1 - m) + k] = list[k]
    BY <1>2, <1>7
  <1>. QED  BY <1>1, <1>2, <1>5, <1>6, <1>8, <1>9 DEF ListAt, m

\* AddList makes its list the last one.
LEMMA ListAdded ==
    ASSUME NEW c \in Configs, NEW list \in Seq(Int \ {0}), Counted(c),
           c.current_assumption_size = 0
    PROVE  ListAt(AddList(c, list).assumptions, c.assumptions_count, list)
  <1>. DEFINE old   == c.assumptions
              array == AddList(c, list).assumptions
              n     == Len(old)
              m     == Len(list)
              z     == n + m + 1
  <1>1. n \in Nat /\ m \in Nat /\ list \in Seq(Int)
    BY SeqMonotonic, LenProperties DEF Configs
  <1>2. /\ Len(array) = n + m + 1 /\ array[n + m + 1] = 0
        /\ \A k \in 1..n : array[k] = old[k]
        /\ \A k \in 1..m : array[n + k] = list[k]
    BY AddedArray
  <1>3. \A k \in 1..m : list[k] # 0
    BY ElementOfSeq
  <1>4. /\ c.assumptions_count = Cardinality(ZerosOf(old, n))
        /\ \A i \in 1..n : Unbroken(old, i, n) => n - i < 0
    BY DEF Counted
  <1>. HIDE DEF old, array, n, m
  <1>5. z \in 1..Len(array) /\ array[z] = 0 /\ m < z /\ z - 1 = n + m /\ z - 1 - m = n
    BY <1>1, <1>2
  <1>. HIDE DEF z
  <1>6. ZerosOf(array, n + m) = ZerosOf(old, n)
    <2>1. ASSUME NEW k \in 1..n + m, array[k] = 0 PROVE k \in 1..n
      <3>1. SUFFICES ASSUME k > n PROVE FALSE
        BY <1>1
      <3>2. k - n \in 1..m /\ n + (k - n) = k
        BY <1>1, <3>1
      <3>. QED  BY <1>2, <1>3, <2>1, <3>2
    <2>2. \A k \in 1..n : k \in 1..n + m
      BY <1>1
    <2>. QED  BY <1>2, <2>1, <2>2 DEF ZerosOf
  <1>7. m = z - 1 \/ array[z - 1 - m] = 0
    <2>1. CASE n = 0
      BY <1>1, <1>5, <2>1
    <2>2. CASE n # 0
      <3>1. n \in 1..n /\ ~(n - n < 0)
        BY <1>1, <2>2
      <3>2. old[n] = 0
        <4>1. \A k \in n..n : k = n
          BY <1>1
        <4>. QED  BY <1>4, <3>1, <4>1 DEF Unbroken
      <3>. QED  BY <1>2, <1>5, <3>1, <3>2
    <2>. QED  BY <2>1, <2>2
  <1>8. \A k \in 1..m : list[k] # 0 /\ array[(z - 1 - m) + k] = list[k]
    BY <1>2, <1>3, <1>5
  <1>9. Cardinality(ZerosOf(array, z - 1)) = c.assumptions_count
    BY <1>4, <1>5, <1>6
  <1>10. ListAt(array, c.assumptions_count, list)
    BY <1>1, <1>5, <1>7, <1>8, <1>9 DEF ListAt, m
  <1>. QED  BY <1>10 DEF array

\* A turn of the loop adds the next one.
LEMMA OneMore ==
    ASSUME NEW c \in Configs, Counted(c), c.current_assumption_size = 0,
           NEW q \in Seq(Int \ {0}), NEW n \in Nat, InflatedTo(c, q, n),
           NEW list \in Seq(Int \ {0}), list = Combination(c.intsplits, q, n)
    PROVE  InflatedTo(AddList(c, list), q, n + 1)
  <1>. DEFINE d == AddList(c, list)
              count == c.assumptions_count
  <1>1. list \in Seq(Int) /\ c.assumptions \in Seq(Int) /\ count \in Nat
    BY SeqMonotonic DEF Configs
  <1>2. /\ d \in Configs /\ d.assumptions_count = count + 1
        /\ d.intsplits = c.intsplits
    BY <1>1, AddListType
  <1>3. d.assumptions \in Seq(Int)
    BY <1>2 DEF Configs
  <1>4. /\ Len(c.assumptions) <= Len(d.assumptions)
        /\ \A k \in 1..Len(c.assumptions) : d.assumptions[k] = c.assumptions[k]
    <2>1. Len(c.assumptions) \in Nat /\ Len(list) \in Nat
      BY <1>1, LenProperties
    <2>2. /\ Len(d.assumptions) = Len(c.assumptions) + Len(list) + 1
          /\ \A k \in 1..Len(c.assumptions) : d.assumptions[k] = c.assumptions[k]
      BY AddedArray
    <2>3. \A x, y \in Nat : x <= x + y + 1
      OBVIOUS
    <2>4. Len(c.assumptions) <= Len(c.assumptions) + Len(list) + 1
      BY <2>1, <2>3, Zenon
    <2>. HIDE DEF d
    <2>. QED  BY <2>2, <2>4, Zenon
  <1>5. ListAt(d.assumptions, count, list)
    BY ListAdded
  <1>6. /\ n <= count
        /\ \A i \in 0..n - 1 :
              ListAt(c.assumptions, (count - n) + i, Combination(c.intsplits, q, i))
    BY DEF InflatedTo
  <1>7. list = Combination(c.intsplits, q, n)
    OBVIOUS
  <1>. HIDE DEF d, count
  <1>8. ASSUME NEW i \in 0..n
        PROVE  ListAt(d.assumptions, (count - n) + i, Combination(c.intsplits, q, i))
    <2>1. CASE i = n
      <3>1. (count - n) + i = count
        BY <1>1, <2>1
      <3>. QED  BY <1>5, <1>7, <2>1, <3>1
    <2>2. CASE i # n
      <3>1. i \in 0..n - 1
        BY <2>2
      <3>2. ListAt(c.assumptions, (count - n) + i, Combination(c.intsplits, q, i))
        BY <1>6, <3>1
      <3>. QED  BY <1>1, <1>3, <1>4, <3>2, ListStays
    <2>. QED  BY <2>1, <2>2
  <1>9. /\ n + 1 <= d.assumptions_count
        /\ \A i \in 0..(n + 1) - 1 :
              ListAt(d.assumptions, (d.assumptions_count - (n + 1)) + i,
                     Combination(d.intsplits, q, i))
    <2>1. d.assumptions_count - (n + 1) = count - n /\ (n + 1) - 1 = n
          /\ n + 1 <= d.assumptions_count
      BY <1>1, <1>2, <1>6
    <2>. QED  BY <1>2, <1>8, <2>1
  <1>. QED  BY <1>9 DEF InflatedTo, d
-----------------------------------------------------------------------------
(***************************************************************************)
(* The library.                                                            *)
(***************************************************************************)
\* Each operation on the library's counters keeps them counters.
LEMMA LibraryType ==
    ASSUME NEW s \in Library!Solvers, NEW lit \in Int
    PROVE  /\ Library!AfterQuantify(s, lit) \in Library!Solvers
           /\ Library!AfterAdd(s, lit) \in Library!Solvers
           /\ Library!AfterMakeSolvable(s) \in Library!Solvers
           /\ Library!AfterAssume(s) \in Library!Solvers
           /\ Library!Working(s) \in Library!Solvers
           /\ s.written_assumptions <= s.written_clauses
                => Library!DropAssumptions(s) \in Library!Solvers
  <1>. DEFINE c1 == IF lit = 0 THEN s.written_clauses + 1 ELSE s.written_clauses
              c2 == s.written_clauses + 1
              a2 == s.written_assumptions + 1
              c3 == s.written_clauses - s.written_assumptions
              a3 == 0
              q4 == IF lit # 0 THEN s.written_quantifier_literals + 1
                               ELSE s.written_quantifier_literals
              flips == lit < 0 /\ Library!InPrefixDepth(s)
              d4 == IF flips THEN s.written_quantifier_literals
                    ELSE s.universal_prefix_depth
  <1>1. /\ s.written_clauses \in Nat /\ s.written_assumptions \in Nat
        /\ s.written_quantifier_literals \in Nat
        /\ s.universal_prefix_depth \in Nat \cup {-1}
    BY DEF Library!Solvers
  <1>2. c1 \in Nat /\ c2 \in Nat /\ a2 \in Nat /\ a3 \in Nat /\ q4 \in Nat
    BY <1>1
  <1>3. d4 \in Nat \cup {-1}
    <2>. HIDE DEF flips
    <2>. QED  BY <1>1
  <1>4. s.written_assumptions <= s.written_clauses => c3 \in Nat
    BY <1>1
  <1>5. Library!AfterAdd(s, lit) = [s EXCEPT !.state = "INPUT_LITERALS",
                                             !.written_clauses = c1]
    BY DEF Library!AfterAdd
  <1>6. Library!AfterAssume(s) = [s EXCEPT !.state = "INPUT_ASSUMPTIONS",
                                           !.written_clauses = c2,
                                           !.written_assumptions = a2]
    BY DEF Library!AfterAssume
  <1>7. Library!DropAssumptions(s) = [s EXCEPT !.state = "INPUT_LITERALS",
                                               !.written_clauses = c3,
                                               !.written_assumptions = a3]
    BY DEF Library!DropAssumptions
  <1>8. Library!AfterQuantify(s, lit) = [s EXCEPT !.universal_prefix_depth = d4,
                                                  !.written_quantifier_literals = q4]
    BY DEF Library!AfterQuantify
  <1>. HIDE DEF c1, c2, a2, c3, a3, q4, d4
  <1>9. Library!AfterAdd(s, lit) \in Library!Solvers
    BY <1>2, <1>5 DEF Library!Solvers, Library!LibStates
  <1>10. Library!AfterAssume(s) \in Library!Solvers
    BY <1>2, <1>6 DEF Library!Solvers, Library!LibStates
  <1>11. c3 \in Nat => Library!DropAssumptions(s) \in Library!Solvers
    BY <1>2, <1>7 DEF Library!Solvers, Library!LibStates
  <1>12. /\ Library!AfterMakeSolvable(s) \in Library!Solvers
         /\ Library!Working(s) \in Library!Solvers
    BY DEF Library!AfterMakeSolvable, Library!Working, Library!Solvers, Library!LibStates
  <1>13. Library!AfterQuantify(s, lit) \in Library!Solvers
    BY <1>2, <1>3, <1>8 DEF Library!Solvers
  <1>. QED  BY <1>4, <1>9, <1>10, <1>11, <1>12, <1>13

\* What an assumption changes.
LEMMA AssumeEffect ==
    ASSUME NEW s \in Library!Solvers,
           NEW t, t = Library!AfterAssume(Library!AfterMakeSolvable(s))
    PROVE  /\ t \in Library!Solvers /\ t.state = "INPUT_ASSUMPTIONS"
           /\ t.written_clauses = s.written_clauses + 1
           /\ t.written_assumptions = s.written_assumptions + 1
           /\ ~Library!NeedsFork(t)
  <1>1. Library!AfterMakeSolvable(s) \in Library!Solvers /\ 0 \in Int
    BY LibraryType
  <1>2. t \in Library!Solvers
    BY <1>1, LibraryType
  <1>3. /\ t.state = "INPUT_ASSUMPTIONS"
        /\ t.written_clauses = s.written_clauses + 1
        /\ t.written_assumptions = s.written_assumptions + 1
    BY DEF Library!AfterAssume, Library!AfterMakeSolvable, Library!Solvers
  <1>. QED  BY <1>2, <1>3 DEF Library!NeedsFork

\* What an answer changes: the cube is forgotten, and the child is gone.
LEMMA AnswerEffect ==
    ASSUME NEW s \in Library!Solvers, s.written_assumptions <= s.written_clauses,
           NEW t, t = Library!DropAssumptions(
                          Library!Working(Library!AfterMakeSolvable(s)))
    PROVE  /\ t \in Library!Solvers /\ t.state = "INPUT_LITERALS"
           /\ t.written_clauses = s.written_clauses - s.written_assumptions
           /\ t.written_assumptions = 0
           /\ Library!NeedsFork(t)
  <1>. DEFINE w == Library!Working(Library!AfterMakeSolvable(s))
  <1>1. Library!AfterMakeSolvable(s) \in Library!Solvers /\ 0 \in Int
    BY LibraryType
  <1>2. w \in Library!Solvers
    BY <1>1, LibraryType
  <1>3. /\ w.written_assumptions = s.written_assumptions
        /\ w.written_clauses = s.written_clauses
    BY DEF Library!Working, Library!AfterMakeSolvable, Library!Solvers
  <1>. HIDE DEF w
  <1>4. Library!DropAssumptions(w) \in Library!Solvers
    BY <1>1, <1>2, <1>3, LibraryType
  <1>5. t = Library!DropAssumptions(w)
    BY DEF w
  <1>6. /\ t.state = "INPUT_LITERALS" /\ t.written_assumptions = 0
        /\ t.written_clauses = s.written_clauses - s.written_assumptions
    BY <1>2, <1>3, <1>5 DEF Library!DropAssumptions, Library!Solvers
  <1>. QED  BY <1>4, <1>5, <1>6 DEF Library!NeedsFork
-----------------------------------------------------------------------------
(***************************************************************************)
(* Up to the loop.                                                         *)
(***************************************************************************)
\* The loop has not begun while the tool is elsewhere.
LEMMA BeforeLoop ==
    QuapifyInv /\ pc \in {"cli", "pass 1", "inflate", "ready", "pass 2"}
        => Untouched /\ cfg.current_assumption_size \in Nat
  <1>1. SUFFICES ASSUME QuapifyInv, pc \in {"cli", "pass 1", "inflate", "ready", "pass 2"}
                 PROVE  Untouched /\ cfg.current_assumption_size \in Nat
    OBVIOUS
  <1>2. /\ lib \in Library!Solvers /\ ass \in Nat /\ ass >= 1 /\ assstart \in 1..ass
        /\ clausecount \in Nat /\ cfg.current_assumption_size \in Nat
    <2>1. /\ lib \in Library!Solvers /\ cfg \in Configs /\ assstart \in 1..ass
          /\ ass \in 1 .. Len(cfg.assumptions) + 1 /\ clausecount \in Nat
      BY <1>1 DEF QuapifyInv, TypeOK
    <2>2. cfg.current_assumption_size \in Nat /\ cfg.assumptions \in Seq(Int)
      BY <2>1 DEF Configs
    <2>3. Len(cfg.assumptions) \in Nat
      BY <2>2
    <2>. QED  BY <2>1, <2>2, <2>3
  <1>3. ass = 1 /\ rows = <<>> /\ assumption_id = Cardinality(ZerosOf(cfg.assumptions, 0))
    <2>1. pc \notin Looping
      BY <1>1 DEF Looping
    <2>2. /\ ass > 1 \/ rows # <<>> => pc \in Looping
          /\ assumption_id = Cardinality(Zeros(ass - 1))
      BY <1>1 DEF QuapifyInv, CursorInv
    <2>3. ass = 1 /\ rows = <<>>
      BY <1>2, <2>1, <2>2
    <2>4. Zeros(ass - 1) = ZerosOf(cfg.assumptions, 0)
      BY <2>3 DEF Zeros, ZerosOf
    <2>. QED  BY <2>2, <2>3, <2>4
  <1>4. assumption_id = 0
    <2>1. ZerosOf(cfg.assumptions, 0) = {}
      BY DEF ZerosOf
    <2>. QED  BY <1>3, <2>1, FS_EmptySet
  <1>5. lib.state \in {"INPUT", "INPUT_LITERALS"} /\ lib.written_assumptions = 0
    <2>1. CASE pc = "pass 2"
      <3>1. /\ lib.written_assumptions = 0
            /\ lib.state = IF Progress[pos].added THEN "INPUT_LITERALS" ELSE "INPUT"
        BY <1>1, <2>1 DEF QuapifyInv, PassInv
      <3>. QED  BY <3>1
    <2>2. CASE pc # "pass 2"
      <3>1. lib = Library!FreshSolver
        BY <1>1, <2>2 DEF QuapifyInv, PassInv
      <3>. QED  BY <3>1 DEF Library!FreshSolver
    <2>. QED  BY <2>1, <2>2
  <1>6. lib.written_clauses <= clausecount
    <2>1. lib.written_clauses <= clausecount + lib.written_assumptions
      BY <1>1 DEF QuapifyInv, CubeInv
    <2>. QED  BY <1>2, <1>5, <2>1
  <1>7. assstart = 1 /\ Library!NeedsFork(lib) /\ pc # "done"
    <2>1. assstart = 1
      BY <1>2, <1>3
    <2>2. Library!NeedsFork(lib)
      BY <1>5 DEF Library!NeedsFork
    <2>3. pc # "done"
      BY <1>1
    <2>. QED  BY <2>1, <2>2, <2>3
  <1>. QED  BY <1>2, <1>3, <1>4, <1>5, <1>6, <1>7 DEF Untouched

\* Until then its invariants hold by themselves.
LEMMA LoopNotBegun ==
    Untouched => CursorInv /\ CubeInv /\ RowsInv
  <1>1. SUFFICES ASSUME Untouched PROVE CursorInv /\ CubeInv /\ RowsInv
    OBVIOUS
  <1>2. /\ lib \in Library!Solvers /\ lib.written_assumptions = 0 /\ clausecount \in Nat
        /\ lib.written_clauses <= clausecount /\ Library!NeedsFork(lib)
        /\ ass = 1 /\ assstart = 1 /\ assumption_id = 0 /\ rows = <<>> /\ pc # "done"
    BY <1>1 DEF Untouched
  <1>3. CursorInv
    <2>1. Zeros(0) = {} /\ ass - 1 = 0
      BY <1>2 DEF Zeros
    <2>2. Cardinality(Zeros(ass - 1)) = 0
      BY <2>1, FS_EmptySet
    <2>3. Unbroken(cfg.assumptions, assstart, ass - 1)
      BY <1>2 DEF Unbroken
    <2>. QED  BY <1>2, <2>2, <2>3 DEF CursorInv
  <1>4. CubeInv
    <2>1. SubSeq(cfg.assumptions, assstart, ass - 1) = <<>>
      <3>1. SubSeq(cfg.assumptions, 1, 0) = <<>>
        BY SubSeqEmpty
      <3>. QED  BY <1>2, <3>1
    <2>2. Child = <<>>
      BY <1>2 DEF Child
    <2>3. /\ lib.written_clauses \in Nat
          /\ lib.written_clauses <= clausecount + lib.written_assumptions
          /\ lib.written_assumptions <= lib.written_clauses
          /\ lib.written_assumptions = ass - assstart
      <3>1. lib.written_clauses \in Nat
        BY <1>2 DEF Library!Solvers
      <3>. QED  BY <1>2, <3>1
    <2>4. lib.state # "WORKING"
      BY <1>2 DEF Library!NeedsFork
    <2>. QED  BY <1>2, <2>1, <2>2, <2>3, <2>4 DEF CubeInv
  <1>5. RowsInv
    <2>1. Len(rows) = 0 /\ 1..0 = {}
      BY <1>2
    <2>2. {rows[i].id : i \in 1..Len(rows)} = {}
      BY <2>1
    <2>3. 0..assumption_id - 1 = {}
      BY <1>2
    <2>. QED  BY <2>1, <2>2, <2>3 DEF RowsInv, OnlyRefusalsMix
  <1>. QED  BY <1>3, <1>4, <1>5

\* The command line, one option or number at a time.
LEMMA RestOfLine ==
    ASSUME NEW line \in Seq(Options \cup {Solver}), line \notin {<<>>, <<Solver>>},
           \A k \in 1..Len(line) - 1 : line[k] # Solver
    PROVE  /\ Head(line) \in Options /\ Tail(line) \in Seq(Options \cup {Solver})
           /\ \A k \in 1..Len(Tail(line)) - 1 : Tail(line)[k] # Solver
           /\ \A o \in Options :
                 /\ <<o>> \o Tail(line) \in Seq(Options \cup {Solver})
                 /\ \A k \in 1..Len(<<o>> \o Tail(line)) - 1 :
                       (<<o>> \o Tail(line))[k] # Solver
                 /\ <<o>> \o Tail(line) # <<>> /\ Head(<<o>> \o Tail(line)) = o
  <1>. DEFINE S == Options \cup {Solver}
              n == Len(line)
  <1>1. n \in Nat /\ n >= 1 /\ Head(line) = line[1] /\ line[1] \in S
    BY EmptySeq, ElementOfSeq
  <1>2. line[1] # Solver
    <2>1. CASE n = 1
      <3>1. line = <<line[1]>>
        BY <2>1
      <3>. QED  BY <3>1
    <2>2. CASE n # 1
      <3>1. 1 \in 1..n - 1
        <4>. HIDE DEF n
        <4>. QED  BY <1>1, <2>2
      <3>. QED  BY <3>1
    <2>. QED  BY <2>1, <2>2
  <1>3. /\ Tail(line) \in Seq(S) /\ Len(Tail(line)) = n - 1
        /\ \A k \in 1..n - 1 : Tail(line)[k] = line[k + 1]
    BY HeadTailProperties
  <1>4. \A k \in 1..Len(Tail(line)) - 1 : Tail(line)[k] # Solver
    BY <1>1, <1>3
  <1>5. ASSUME NEW o \in Options
        PROVE  /\ <<o>> \o Tail(line) \in Seq(S)
               /\ \A k \in 1..Len(<<o>> \o Tail(line)) - 1 :
                     (<<o>> \o Tail(line))[k] # Solver
               /\ <<o>> \o Tail(line) # <<>> /\ Head(<<o>> \o Tail(line)) = o
    <2>. DEFINE rest == Tail(line)
                new  == <<o>> \o rest
    <2>1. o # Solver
      <3>1. o.opt \in {"a", "bad a", "i", "I", "g", "r", "s", "?"}
        BY DEF Options
      <3>2. Solver.opt = "--"
        BY DEF Solver, Option
      <3>. QED  BY <3>1, <3>2
    <2>2. <<o>> \in Seq(S) /\ Len(<<o>>) = 1 /\ <<o>>[1] = o
      OBVIOUS
    <2>. HIDE DEF S, n, rest
    <2>3. rest \in Seq(S) /\ Len(rest) = n - 1
          /\ \A k \in 1..n - 1 : rest[k] = line[k + 1]
      BY <1>3 DEF rest
    <2>4. /\ new \in Seq(S) /\ Len(new) = 1 + (n - 1)
          /\ \A k \in 1..1 + (n - 1) : new[k] = IF k <= 1 THEN <<o>>[k] ELSE rest[k - 1]
      BY <2>2, <2>3, ConcatProperties
    <2>. HIDE DEF new
    <2>5. Len(new) = n /\ new[1] = o
      BY <1>1, <2>2, <2>4
    <2>6. ASSUME NEW k \in 1..Len(new) - 1 PROVE new[k] # Solver
      <3>1. CASE k = 1
        BY <2>1, <2>5, <3>1
      <3>2. CASE k # 1
        <4>1. new[k] = line[k] /\ k \in 1..n - 1
          <5>1. k \in 1..1 + (n - 1) /\ ~(k <= 1) /\ k - 1 \in 1..n - 1 /\ (k - 1) + 1 = k
                /\ k \in 1..n - 1
            BY <1>1, <2>5, <3>2
          <5>2. new[k] = rest[k - 1] /\ rest[k - 1] = line[(k - 1) + 1]
            BY <2>3, <2>4, <5>1
          <5>. QED  BY <5>1, <5>2
        <4>. QED  BY <4>1 DEF n
      <3>. QED  BY <3>1, <3>2
    <2>7. new # <<>> /\ Head(new) = o
      <3>1. new # <<>>
        BY <1>1, <2>4, <2>5, EmptySeq
      <3>. QED  BY <2>4, <2>5, <3>1
    <2>. QED  BY <2>4, <2>6, <2>7 DEF new, rest, S
  <1>. QED  BY <1>1, <1>2, <1>3, <1>4, <1>5

\* One turn of getopt.
LEMMA CliStep == QuapifyInv /\ parse_cli => QuapifyInv'
  <1>1. SUFFICES ASSUME QuapifyInv, parse_cli PROVE QuapifyInv'
    OBVIOUS
  <1>. DEFINE o == Head(args)
              add(c, n) == add_to_assumptions(c, n)
  <1>2. /\ pc = "cli" /\ args \notin {<<>>, <<Solver>>}
        /\ UNCHANGED <<file, pos, parser, counts, intsplits_state, lib, given, cursor, rows>>
    BY <1>1 DEF parse_cli
  <1>3. /\ cfg \in Configs /\ Counted(cfg)
        /\ cfg.current_assumption_size > 0 => InsideList
    BY <1>1, <1>2 DEF QuapifyInv, TypeOK, ListsInv
  <1>4. /\ args \in Seq(Options \cup {Solver})
        /\ \A k \in 1..Len(args) - 1 : args[k] # Solver
    BY <1>1 DEF QuapifyInv, InputInv
  <1>5. o \in Options
    BY <1>2, <1>4, RestOfLine
  <1>6. o.words \in Seq(Int) /\ o.n \in Int /\ o.n <= MaxInt
    <2>1. o.n \in -MaxInt - 1 .. MaxInt /\ o.words \in Seq(Int)
      BY <1>5 DEF Options
    <2>. QED  BY <2>1, Ints
  <1>7. Untouched /\ cfg.current_assumption_size \in Nat
    BY <1>1, <1>2, BeforeLoop
  <1>8. ASSUME NEW c \in Configs, NEW n \in Int, Counted(c)
        PROVE  /\ add(c, n) \in Configs /\ Counted(add(c, n))
               /\ add(c, 0).current_assumption_size = 0
    <2>1. 0 \in Int
      OBVIOUS
    <2>2. add(c, n) \in Configs
      BY <1>8, AddType
    <2>3. Counted(add(c, n))
      BY <1>8, AddCounts
    <2>4. add(c, 0).current_assumption_size = 0
      BY <1>8, <2>1, AddType
    <2>. QED  BY <2>2, <2>3, <2>4
  <1>. DEFINE LineOK ==
                  /\ args' \in Seq(Options \cup {Solver})
                  /\ \A k \in 1..Len(args') - 1 : args'[k] # Solver
              ConfigOK ==
                  /\ cfg' \in Configs /\ Counted(cfg')
                  /\ cfg'.current_assumption_size > 0 => InsideList' \/ pc' = "failed"
                  /\ pc' \in {"cli", "exited", "failed"}
  <1>9. ASSUME TakeNumber(o) PROVE LineOK /\ ConfigOK
    <2>. DEFINE added == add(cfg, Head(o.words))
                last  == o.opt = "a" /\ Len(o.words) = 1
                q     == [o EXCEPT !.words = Tail(o.words)]
    <2>1. /\ o.opt \in {"a", "bad a"} /\ o.words # <<>> /\ pc' = "cli"
          /\ cfg' = IF last /\ Head(o.words) # 0 THEN add(added, 0) ELSE added
          /\ args' = IF last THEN Tail(args) ELSE <<q>> \o Tail(args)
      BY <1>2, <1>9 DEF TakeNumber
    <2>2. Head(o.words) \in Int /\ Tail(o.words) \in Seq(Int)
      BY <1>6, <2>1, HeadTailProperties
    <2>3. q \in Options /\ q.opt = o.opt /\ q.words = Tail(o.words)
      BY <1>5, <2>2 DEF Options
    <2>4. Len(o.words) \in Nat \ {0} /\ Len(Tail(o.words)) = Len(o.words) - 1
      BY <1>6, <2>1, EmptySeq, HeadTailProperties
    <2>5. added \in Configs /\ Counted(added)
      BY <1>3, <1>8, <2>2
    <2>6. add(added, 0) \in Configs /\ Counted(add(added, 0))
          /\ add(added, 0).current_assumption_size = 0
      BY <1>8, <2>5
    <2>7. last /\ Head(o.words) = 0 => added.current_assumption_size = 0
      BY <1>3, <1>8, <2>2
    <2>8. /\ Tail(args) \in Seq(Options \cup {Solver})
          /\ \A k \in 1..Len(Tail(args)) - 1 : Tail(args)[k] # Solver
          /\ <<q>> \o Tail(args) \in Seq(Options \cup {Solver})
          /\ \A k \in 1..Len(<<q>> \o Tail(args)) - 1 : (<<q>> \o Tail(args))[k] # Solver
          /\ <<q>> \o Tail(args) # <<>> /\ Head(<<q>> \o Tail(args)) = q
      BY <1>2, <1>4, <2>3, RestOfLine
    <2>9. ~last => q.opt = "bad a" \/ (q.opt = "a" /\ q.words # <<>>)
      <3>1. Len(o.words) # 1 => Len(Tail(o.words)) # 0
        BY <2>4
      <3>2. Len(o.words) # 1 => Tail(o.words) # <<>>
        <4>. HIDE DEF o
        <4>. QED  BY <3>1, EmptySeq
      <3>. HIDE DEF o, q
      <3>. QED  BY <2>1, <2>3, <3>2
    <2>. HIDE DEF o, add, added, q
    <2>10. LineOK
      <3>1. CASE last
        BY <2>1, <2>8, <3>1
      <3>2. CASE ~last
        BY <2>1, <2>8, <3>2
      <3>. QED  BY <3>1, <3>2
    <2>11. ConfigOK
      <3>1. CASE last
        <4>. HIDE DEF last
        <4>1. CASE Head(o.words) = 0
          <5>1. cfg' = added /\ cfg'.current_assumption_size = 0
            BY <2>1, <2>7, <3>1, <4>1
          <5>2. ~(cfg'.current_assumption_size > 0)
            BY <5>1
          <5>3. cfg' \in Configs /\ Counted(cfg')
            BY <2>5, <5>1
          <5>. QED  BY <2>1, <5>2, <5>3
        <4>2. CASE Head(o.words) # 0
          <5>1. cfg' = add(added, 0)
            BY <2>1, <3>1, <4>2
          <5>2. cfg' \in Configs /\ Counted(cfg') /\ cfg'.current_assumption_size = 0
            BY <2>6, <5>1
          <5>3. ~(cfg'.current_assumption_size > 0)
            BY <5>2
          <5>. QED  BY <2>1, <5>2, <5>3
        <4>. QED  BY <4>1, <4>2
      <3>2. CASE ~last
        <4>. HIDE DEF last
        <4>1. InsideList'
          BY <2>1, <2>8, <2>9, <3>2 DEF InsideList
        <4>. QED  BY <2>1, <2>5, <3>2, <4>1
      <3>. QED  BY <3>1, <3>2
    <2>. HIDE DEF LineOK, ConfigOK, last
    <2>. QED  BY <2>10, <2>11
  <1>10. ASSUME TakeNothing(o) PROVE LineOK /\ ConfigOK
    <2>1. /\ o.opt = "a" /\ o.words = <<>> /\ pc' = "cli" /\ args' = Tail(args)
          /\ cfg' = cfg \/ cfg' = add(cfg, 0)
      BY <1>2, <1>10 DEF TakeNothing
    <2>2. cfg.current_assumption_size = 0
      <3>1. ~InsideList
        BY <2>1 DEF InsideList
      <3>. QED  BY <1>3, <1>7, <3>1
    <2>3. add(cfg, 0) \in Configs /\ Counted(add(cfg, 0))
          /\ add(cfg, 0).current_assumption_size = 0
      BY <1>3, <1>8
    <2>4. /\ Tail(args) \in Seq(Options \cup {Solver})
          /\ \A k \in 1..Len(Tail(args)) - 1 : Tail(args)[k] # Solver
      BY <1>2, <1>4, RestOfLine
    <2>. HIDE DEF add
    <2>. QED  BY <1>3, <2>1, <2>2, <2>3, <2>4
  <1>11. ASSUME MissNumber(o) PROVE LineOK /\ ConfigOK
    <2>1. /\ o.opt = "a" /\ o.words = <<>> /\ args' = Tail(args)
          /\ pc' = "failed" /\ cfg' = cfg
      BY <1>11 DEF MissNumber
    <2>2. cfg.current_assumption_size = 0
      <3>1. ~InsideList
        BY <2>1 DEF InsideList
      <3>. QED  BY <1>3, <1>7, <3>1
    <2>3. /\ Tail(args) \in Seq(Options \cup {Solver})
          /\ \A k \in 1..Len(Tail(args)) - 1 : Tail(args)[k] # Solver
      BY <1>2, <1>4, RestOfLine
    <2>. QED  BY <1>3, <2>1, <2>2, <2>3
  <1>12. ASSUME TakeOption(o) PROVE LineOK /\ ConfigOK
    <2>1. /\ pc' \in {"cli", "exited", "failed"} /\ args' = Tail(args)
          /\ \/ cfg' = cfg
             \/ o.opt = "i" /\ cfg' = add_intsplit_nesting_level(cfg, o.n)
             \/ cfg' = [cfg EXCEPT !.selected_assumption = o.n]
             \/ cfg' = [cfg EXCEPT !.generate_assumption_list = TRUE]
             \/ cfg' = [cfg EXCEPT !.strictness = "RELAXED"]
             \/ cfg' = [cfg EXCEPT !.strictness = "PEDANTIC"]
      BY <1>2, <1>12 DEF TakeOption
    <2>2. \/ cfg.current_assumption_size = 0
          \/ pc' = "failed"
      <3>1. InsideList => pc' = "failed"
        BY <1>12 DEF InsideList, TakeOption
      <3>. QED  BY <1>3, <1>7, <3>1
    <2>3. /\ cfg' \in Configs
          /\ cfg'.assumptions = cfg.assumptions
          /\ cfg'.assumptions_count = cfg.assumptions_count
          /\ cfg'.assumptions_max_assumption_size = cfg.assumptions_max_assumption_size
          /\ cfg'.current_assumption_size = cfg.current_assumption_size
      <3>1. CASE cfg' = add_intsplit_nesting_level(cfg, o.n)
        <4>1. CASE o.n <= 0
          BY <1>3, <3>1, <4>1 DEF add_intsplit_nesting_level
        <4>2. CASE ~(o.n <= 0)
          <5>. DEFINE s == Append(cfg.intsplits, o.n)
          <5>1. s \in Seq(Splits)
            <6>1. o.n \in Splits
              BY <1>6, <4>2, Ints
            <6>. QED  BY <1>3, <6>1 DEF Configs
          <5>2. cfg' = [cfg EXCEPT !.intsplits = s]
            BY <3>1, <4>2 DEF add_intsplit_nesting_level
          <5>. HIDE DEF s
          <5>. QED  BY <1>3, <5>1, <5>2 DEF Configs
        <4>. QED  BY <4>1, <4>2
      <3>2. CASE cfg' = [cfg EXCEPT !.selected_assumption = o.n]
        BY <1>3, <1>6, <3>2 DEF Configs
      <3>3. CASE cfg' = [cfg EXCEPT !.generate_assumption_list = TRUE]
        BY <1>3, <3>3 DEF Configs
      <3>4. CASE \/ cfg' = [cfg EXCEPT !.strictness = "RELAXED"]
                 \/ cfg' = [cfg EXCEPT !.strictness = "PEDANTIC"]
        BY <1>3, <3>4 DEF Configs
      <3>. QED  BY <1>3, <2>1, <3>1, <3>2, <3>3, <3>4
    <2>4. Counted(cfg')
      BY <1>3, <2>3 DEF Counted
    <2>5. /\ Tail(args) \in Seq(Options \cup {Solver})
          /\ \A k \in 1..Len(Tail(args)) - 1 : Tail(args)[k] # Solver
      BY <1>2, <1>4, RestOfLine
    <2>. QED  BY <2>1, <2>2, <2>3, <2>4, <2>5
  <1>13. LineOK /\ ConfigOK
    <2>1. TakeNumber(o) \/ TakeNothing(o) \/ MissNumber(o) \/ TakeOption(o)
      BY <1>1 DEF parse_cli
    <2>. HIDE DEF o, LineOK, ConfigOK
    <2>. QED  BY <1>9, <1>10, <1>11, <1>12, <2>1
  <1>. HIDE DEF o, add
  <1>14. Untouched'
    BY <1>2, <1>7, <1>13 DEF Untouched, Library!NeedsFork, Library!Solvers,
       Library!LibStates, counts, cursor
  <1>15. CursorInv' /\ CubeInv' /\ RowsInv'
    <2>1. (Untouched => CursorInv /\ CubeInv /\ RowsInv)'
      BY LoopNotBegun, PTL
    <2>. QED  BY <1>14, <2>1
  <1>16. TypeOK'
    <2>1. /\ ass' = 1 /\ assstart' = 1 /\ assumption_id' = 0
      BY <1>14 DEF Untouched
    <2>2. cfg'.assumptions \in Seq(Int) /\ cfg'.assumptions_count \in Nat
      BY <1>13 DEF Configs
    <2>3. /\ ass' \in 1 .. Len(cfg'.assumptions) + 1 /\ assstart' \in 1..ass'
          /\ assumption_id' \in 0..cfg'.assumptions_count
      BY <2>1, <2>2
    <2>. QED
      BY <1>1, <1>2, <1>13, <2>3 DEF QuapifyInv, TypeOK, Ends, counts, Library!Solvers,
         Library!LibStates
  <1>17. InputInv'
    BY <1>1, <1>2, <1>13 DEF QuapifyInv, InputInv
  <1>18. PassInv'
    <2>1. /\ pos = 0 /\ parser = NewParser /\ clausecount = 0 /\ varcount = 0
          /\ lib = Library!FreshSolver
      BY <1>1, <1>2 DEF QuapifyInv, PassInv
    <2>2. /\ pos' = 0 /\ parser' = NewParser /\ clausecount' = 0 /\ varcount' = 0
          /\ lib' = Library!FreshSolver
      BY <1>2, <2>1 DEF counts
    <2>3. pc' \notin {"pass 1", "inflate", "ready", "pass 2", "lists"}
      BY <1>13
    <2>. QED  BY <2>2, <2>3 DEF PassInv, Library!FreshSolver
  <1>19. ListsInv'
    BY <1>13 DEF ListsInv, Counted
  <1>. QED  BY <1>15, <1>16, <1>17, <1>18, <1>19 DEF QuapifyInv

\* Where a pass begins.
LEMMA PassBegins ==
    ASSUME NEW f \in Files, NEW strict
    PROVE  /\ Pass(f, strict)[0] = Start /\ 0 < Len(f)
           /\ \A k \in 0..0 : Pass(f, strict)[k].parser.phase \in Running
  <1>1. Pass(f, strict)[0] = Start
    BY PassType
  <1>2. 0 < Len(f)
    BY QuapifyAssumption, EmptySeq
  <1>3. Start.parser.phase \in Running
    BY DEF Start, NewParser, Running
  <1>. QED  BY <1>1, <1>2, <1>3

\* The end of the options.
LEMMA CliParsedStep == QuapifyInv /\ CliParsed => QuapifyInv'
  <1>1. SUFFICES ASSUME QuapifyInv, CliParsed PROVE QuapifyInv'
    OBVIOUS
  <1>2. /\ pc = "cli" /\ args \in {<<>>, <<Solver>>} /\ pc' \in {"pass 1", "failed"}
        /\ cfg' = cfg \/ cfg' = add_to_assumptions(cfg, 0)
        /\ UNCHANGED <<args, file, pos, parser, quantifiers, varcount, clausecount,
                       intsplits_state, lib, given, ass, assstart, assumption_id, rows>>
    BY <1>1 DEF CliParsed, input, counts, cursor
  <1>3. /\ cfg \in Configs /\ Counted(cfg)
        /\ cfg.current_assumption_size > 0 => InsideList
    BY <1>1, <1>2 DEF QuapifyInv, TypeOK, ListsInv
  <1>4. Untouched /\ cfg.current_assumption_size \in Nat
    BY <1>1, <1>2, BeforeLoop
  <1>5. ~InsideList
    <2>1. Head(<<Solver>>) = Solver /\ Solver.opt = "--"
      BY DEF Solver, Option
    <2>. QED  BY <1>2, <2>1 DEF InsideList
  <1>6. cfg.current_assumption_size = 0
    BY <1>3, <1>4, <1>5
  <1>7. cfg' \in Configs /\ Counted(cfg') /\ cfg'.current_assumption_size = 0
    <2>1. 0 \in Int
      OBVIOUS
    <2>2. add_to_assumptions(cfg, 0) \in Configs
      BY <1>3, <2>1, AddType
    <2>3. add_to_assumptions(cfg, 0).current_assumption_size = 0
      BY <1>3, <2>1, AddType
    <2>4. Counted(add_to_assumptions(cfg, 0))
      BY <1>3, <2>1, AddCounts
    <2>. QED  BY <1>2, <1>3, <1>6, <2>2, <2>3, <2>4
  <1>8. Untouched'
    BY <1>2, <1>4 DEF Untouched, Library!NeedsFork, Library!Solvers, Library!LibStates
  <1>9. CursorInv' /\ CubeInv' /\ RowsInv'
    <2>1. (Untouched => CursorInv /\ CubeInv /\ RowsInv)'
      BY LoopNotBegun, PTL
    <2>. QED  BY <1>8, <2>1
  <1>10. TypeOK'
    <2>1. ass' = 1 /\ assstart' = 1 /\ assumption_id' = 0
      BY <1>8 DEF Untouched
    <2>2. cfg'.assumptions \in Seq(Int) /\ cfg'.assumptions_count \in Nat
      BY <1>7 DEF Configs
    <2>3. /\ ass' \in 1 .. Len(cfg'.assumptions) + 1 /\ assstart' \in 1..ass'
          /\ assumption_id' \in 0..cfg'.assumptions_count
      BY <2>1, <2>2
    <2>. QED
      BY <1>1, <1>2, <1>7, <2>3 DEF QuapifyInv, TypeOK, Ends, Library!Solvers,
         Library!LibStates
  <1>11. InputInv'
    BY <1>1, <1>2 DEF QuapifyInv, InputInv
  <1>12. PassInv'
    <2>1. /\ pos = 0 /\ parser = NewParser /\ clausecount = 0 /\ varcount = 0
          /\ lib = Library!FreshSolver
      BY <1>1, <1>2 DEF QuapifyInv, PassInv
    <2>2. /\ pos' = 0 /\ parser' = NewParser /\ clausecount' = 0 /\ varcount' = 0
          /\ lib' = (Library!FreshSolver)'
      BY <1>2, <2>1 DEF Library!FreshSolver
    <2>3. file' \in Files
      BY <1>11 DEF InputInv
    <2>. DEFINE p == Pass(file', cfg'.strictness)
    <2>4. /\ p[0] = Start /\ 0 < Len(file')
          /\ \A k \in 0..0 : p[k].parser.phase \in Running
      BY <2>3, PassBegins
    <2>5. Progress' = p
      BY DEF Progress
    <2>. HIDE DEF p
    <2>6. /\ p[0].parser = NewParser /\ p[0].clauses = 0
      BY <2>4 DEF Start
    <2>7. pc' = "pass 1" =>
             /\ pos' < Len(file') /\ parser' = Progress'[pos'].parser
             /\ \A k \in 0..pos' : Progress'[k].parser.phase \in Running
             /\ clausecount' = Progress'[pos'].clauses
             /\ varcount' > 0 => Progress'[pos'].added
      <3>1. ~(varcount' > 0)
        BY <2>2
      <3>. QED  BY <2>2, <2>4, <2>5, <2>6, <3>1
    <2>8. pc' \notin {"cli", "inflate", "ready", "pass 2", "lists"}
      BY <1>2
    <2>. QED  BY <2>2, <2>7, <2>8 DEF PassInv
  <1>13. ListsInv'
    <2>1. ~(cfg'.current_assumption_size > 0)
      BY <1>7
    <2>. QED  BY <1>7, <2>1 DEF ListsInv, Counted
  <1>. QED  BY <1>9, <1>10, <1>11, <1>12, <1>13 DEF QuapifyInv

\* A token of a pass, and where it leads.
LEMMA NextToken ==
    QuapifyInv /\ pc \in {"pass 1", "pass 2"} =>
        /\ token \in Tokens /\ parser \in Parsers /\ Parsed \in Parsers
        /\ pos \in Nat /\ pos + 1 \in 1..Len(file) /\ Len(file) \in Nat
        /\ Parsed = Progress[pos + 1].parser
        /\ Progress[pos].clauses \in Nat /\ Progress[pos + 1].clauses \in Nat
        /\ Progress[pos + 1].clauses = IF Called = <<"add", 0>>
                                       THEN Progress[pos].clauses + 1
                                       ELSE Progress[pos].clauses
        /\ Progress[pos].added => Progress[pos + 1].added
        /\ Called[1] = "add" => Progress[pos + 1].added
        /\ Progress[pos + 1].added => Progress[pos].added \/ Called[1] = "add"
        /\ Parsed.phase \in Running => pos + 1 < Len(file)
  <1>1. SUFFICES ASSUME QuapifyInv, pc \in {"pass 1", "pass 2"}
                 PROVE  /\ token \in Tokens /\ parser \in Parsers /\ Parsed \in Parsers
                        /\ pos \in Nat /\ pos + 1 \in 1..Len(file) /\ Len(file) \in Nat
                        /\ Parsed = Progress[pos + 1].parser
                        /\ Progress[pos].clauses \in Nat
                        /\ Progress[pos + 1].clauses \in Nat
                        /\ Progress[pos + 1].clauses = IF Called = <<"add", 0>>
                                                       THEN Progress[pos].clauses + 1
                                                       ELSE Progress[pos].clauses
                        /\ Progress[pos].added => Progress[pos + 1].added
                        /\ Called[1] = "add" => Progress[pos + 1].added
                        /\ Progress[pos + 1].added
                             => Progress[pos].added \/ Called[1] = "add"
                        /\ Parsed.phase \in Running => pos + 1 < Len(file)
    BY Zenon
  <1>. DEFINE f == file
              n == Len(file)
              strict == cfg.strictness
  <1>2. f \in Files
    BY <1>1 DEF QuapifyInv, InputInv
  <1>3. f \in Seq(Tokens) /\ f[n] = EndOfFile /\ n \in Nat
    BY <1>2, QuapifyAssumption
  <1>4. pos < n /\ parser = Progress[pos].parser
    BY <1>1 DEF QuapifyInv, PassInv
  <1>5. pos \in 0..n
    BY <1>1 DEF QuapifyInv, TypeOK
  <1>6. parser \in Parsers
    BY <1>1 DEF QuapifyInv, TypeOK
  <1>7. /\ Progress \in [0..n -> Passes]
        /\ \A k \in 1..n : Progress[k] = Read(Progress[k - 1], strict, f[k])
    BY <1>2, PassType DEF Progress
  <1>. HIDE DEF f, n, strict
  <1>8. pos \in Nat /\ pos + 1 \in 1..n /\ (pos + 1) - 1 = pos /\ pos + 1 \in 0..n
    BY <1>3, <1>4, <1>5
  <1>9. token \in Tokens /\ token = f[pos + 1]
    <2>1. f[pos + 1] \in Tokens
      BY <1>3, <1>8, ElementOfSeq DEF n, f
    <2>. QED  BY <2>1 DEF token, f
  <1>10. Parsed \in Parsers /\ Parsed = parse_dimacs(strict, parser, f[pos + 1])
    BY <1>6, <1>9, ParserType DEF Parsed, strict
  <1>11. Called = CallFor(strict, Progress[pos].parser, f[pos + 1])
    BY <1>4, <1>9 DEF Called, strict
  <1>12. Progress[pos + 1] = Read(Progress[pos], strict, f[pos + 1])
    BY <1>7, <1>8
  <1>13. Progress[pos].clauses \in Nat /\ Progress[pos + 1].clauses \in Nat
    BY <1>5, <1>7, <1>8 DEF Passes
  <1>14. Progress[pos + 1].parser = Parsed
    BY <1>4, <1>10, <1>12 DEF Read
  <1>15. Progress[pos + 1].clauses = IF Called = <<"add", 0>>
                                     THEN Progress[pos].clauses + 1
                                     ELSE Progress[pos].clauses
    BY <1>11, <1>12 DEF Read
  <1>16. Progress[pos + 1].added = (Progress[pos].added \/ Called[1] = "add")
    <2>. DEFINE a == Progress[pos].added
                       \/ CallFor(strict, Progress[pos].parser, f[pos + 1])[1] = "add"
    <2>1. Read(Progress[pos], strict, f[pos + 1]).added = a
      BY DEF Read
    <2>. QED  BY <1>11, <1>12, <2>1
  <1>17. Parsed.phase \in Running => pos + 1 < n
    <2>1. SUFFICES ASSUME pos + 1 = n PROVE Parsed.phase \notin Running
      BY <1>3, <1>8
    <2>2. Parsed = parse_dimacs(strict, parser, EndOfFile)
      BY <1>3, <1>10, <2>1
    <2>3. Parsed.phase \in {"accepted", "rejected"}
      BY <1>6, <2>2, EndOfPass
    <2>. QED  BY <2>3 DEF Running
  <1>18. /\ Progress[pos].added => Progress[pos + 1].added
         /\ Called[1] = "add" => Progress[pos + 1].added
         /\ Progress[pos + 1].added => Progress[pos].added \/ Called[1] = "add"
    BY <1>16, Zenon
  <1>. QED
    BY <1>3, <1>6, <1>8, <1>9, <1>10, <1>13, <1>14, <1>15, <1>17, <1>18 DEF n

\* A call comes with a number that is not 0 if it quantifies.
LEMMA CallArgument ==
    ASSUME NEW ps \in Parsers, NEW t \in Tokens, NEW strict,
           NEW call, call = CallFor(strict, ps, t)
    PROVE  /\ call[2] \in Int
           /\ call[1] = "quantify" => call[2] # 0
           /\ call = <<"add", 0>> => call[1] = "add"
           /\ call[1] = "add" => call = <<"add", call[2]>>
  <1>1. t.n \in Int
    BY DEF Tokens
  <1>2. \/ call = NoCall
        \/ call = <<"add", t.n>>
        \/ \E q \in Int \ {0} : call = <<"quantify", q>>
    BY ParserType
  <1>3. CASE call = NoCall
    BY <1>3 DEF NoCall
  <1>4. CASE call = <<"add", t.n>>
    BY <1>1, <1>4
  <1>5. CASE \E q \in Int \ {0} : call = <<"quantify", q>>
    BY <1>5
  <1>. QED  BY <1>2, <1>3, <1>4, <1>5

\* A token of the first pass.
LEMMA FirstPassStep == QuapifyInv /\ FirstPass => QuapifyInv'
  <1>1. SUFFICES ASSUME QuapifyInv, FirstPass PROVE QuapifyInv'
    OBVIOUS
  <1>2. /\ pc = "pass 1" /\ ParserMoves("inflate")
        /\ UNCHANGED <<args, file, cfg, intsplits_state, lib, given, ass, assstart,
                       assumption_id, rows>>
    BY <1>1 DEF FirstPass, input, cursor
  <1>3. /\ token \in Tokens /\ parser \in Parsers /\ Parsed \in Parsers
        /\ pos \in Nat /\ pos + 1 \in 1..Len(file) /\ Len(file) \in Nat
        /\ Parsed = Progress[pos + 1].parser
        /\ Progress[pos].clauses \in Nat /\ Progress[pos + 1].clauses \in Nat
        /\ Progress[pos + 1].clauses = IF Called = <<"add", 0>>
                                       THEN Progress[pos].clauses + 1
                                       ELSE Progress[pos].clauses
        /\ Parsed.phase \in Running => pos + 1 < Len(file)
    BY <1>1, <1>2, NextToken, Zenon
  <1>4. /\ Progress[pos].added => Progress[pos + 1].added
        /\ Called[1] = "add" => Progress[pos + 1].added
    BY <1>1, <1>2, NextToken, Zenon
  <1>5. Called[2] \in Int /\ (Called[1] = "quantify" => Called[2] # 0)
    BY <1>3, CallArgument DEF Called
  <1>6. Untouched
    BY <1>1, <1>2, BeforeLoop
  <1>7. /\ \A k \in 0..pos : Progress[k].parser.phase \in Running
        /\ clausecount = Progress[pos].clauses /\ (varcount > 0 => Progress[pos].added)
        /\ lib = Library!FreshSolver
    BY <1>1, <1>2 DEF QuapifyInv, PassInv
  <1>8. varcount \in Nat /\ quantifiers \in Seq(Int \ {0})
    BY <1>1 DEF QuapifyInv, TypeOK
  <1>9. quantifiers' \in Seq(Int \ {0})
    <2>1. CASE Called[1] = "quantify"
      <3>1. quantifiers' = Append(quantifiers, Called[2])
        BY <1>1, <2>1 DEF FirstPass
      <3>2. Called[2] \in Int \ {0}
        BY <1>5, <2>1
      <3>. QED  BY <1>8, <3>1, <3>2, AppendProperties
    <2>2. CASE Called[1] # "quantify"
      BY <1>1, <1>8, <2>2 DEF FirstPass
    <2>. QED  BY <2>1, <2>2
  <1>10. clausecount' = Progress[pos + 1].clauses
    BY <1>1, <1>3, <1>7 DEF FirstPass
  <1>11. /\ varcount' \in Nat
         /\ varcount' > 0 => Progress[pos + 1].added
    <2>1. Abs(Called[2]) \in Nat
      BY <1>5 DEF Abs
    <2>2. \/ Called[1] = "add" /\ varcount' = Abs(Called[2])
          \/ varcount' = varcount
      BY <1>1 DEF FirstPass
    <2>3. varcount' \in Nat
      BY <1>8, <2>1, <2>2
    <2>4. varcount' > 0 => Progress[pos + 1].added
      BY <1>4, <1>7, <2>2, Zenon
    <2>. QED  BY <2>3, <2>4
  <1>12. Progress' = Progress
    BY <1>2 DEF Progress
  <1>13. Parsed.phase \in {"header", "body", "accepted", "rejected"}
    BY <1>3 DEF Parsers
  <1>14. /\ pos' = IF Parsed.phase = "accepted" THEN 0 ELSE pos + 1
         /\ parser' = IF Parsed.phase = "accepted" THEN NewParser ELSE Parsed
         /\ pc' = CASE Parsed.phase = "accepted" -> "inflate"
                    [] Parsed.phase = "rejected" -> "failed"
                    [] OTHER -> pc
    BY <1>2 DEF ParserMoves
  <1>15. /\ pc' \in {"pass 1", "inflate", "failed"} /\ pos' \in 0..Len(file')
         /\ parser' \in Parsers
    <2>1. NewParser \in Parsers
      BY DEF NewParser, Parsers
    <2>2. parser' \in Parsers
      BY <1>3, <1>14, <2>1
    <2>3. pos' \in 0..Len(file)
      BY <1>3, <1>14
    <2>4. pc' \in {"pass 1", "inflate", "failed"}
      BY <1>2, <1>14
    <2>. QED  BY <1>2, <2>2, <2>3, <2>4
  <1>16. PassInv'
    <2>1. CASE Parsed.phase \in Running
      <3>1. pc' = "pass 1" /\ pos' = pos + 1 /\ parser' = Parsed
        BY <1>2, <1>14, <2>1 DEF Running
      <3>2. \A k \in 0..pos + 1 : Progress[k].parser.phase \in Running
        <4>1. \A k \in 0..pos + 1 : k \in 0..pos \/ k = pos + 1
          BY <1>3
        <4>. QED  BY <1>3, <1>7, <2>1, <4>1
      <3>3. lib' = (Library!FreshSolver)'
        BY <1>2, <1>7 DEF Library!FreshSolver
      <3>4. pos' < Len(file')
        BY <1>2, <1>3, <2>1, <3>1
      <3>. QED
        BY <1>3, <1>10, <1>11, <1>12, <3>1, <3>2, <3>3, <3>4 DEF PassInv
    <2>2. CASE Parsed.phase = "accepted"
      <3>1. pc' = "inflate" /\ pos' = 0 /\ parser' = NewParser
        BY <1>2, <1>14, <2>2
      <3>2. lib' = (Library!FreshSolver)'
        BY <1>2, <1>7 DEF Library!FreshSolver
      <3>. DEFINE n == pos + 1
      <3>3. \A k \in 0..n - 1 : k \in 0..pos
        BY <1>3
      <3>4. /\ n \in 1..Len(file')
            /\ Progress'[n].parser.phase = "accepted"
            /\ \A k \in 0..n - 1 : Progress'[k].parser.phase \in Running
            /\ clausecount' = Progress'[n].clauses
            /\ varcount' > 0 => Progress'[n].added
        BY <1>2, <1>3, <1>7, <1>10, <1>11, <1>12, <2>2, <3>3
      <3>. HIDE DEF n
      <3>. QED  BY <3>1, <3>2, <3>4 DEF PassInv
    <2>3. CASE Parsed.phase = "rejected"
      <3>1. pc' = "failed"
        BY <1>14, <2>3
      <3>. QED  BY <3>1 DEF PassInv
    <2>. QED  BY <1>13, <2>1, <2>2, <2>3 DEF Running
  <1>17. Untouched'
    <2>1. lib.written_clauses = 0
      BY <1>7 DEF Library!FreshSolver
    <2>2. clausecount' \in Nat /\ pc' # "done"
      BY <1>3, <1>10, <1>15
    <2>3. lib'.written_clauses <= clausecount'
      <3>1. lib'.written_clauses = 0
        BY <1>2, <2>1
      <3>. QED  BY <2>2, <3>1
    <2>. QED
      BY <1>2, <1>6, <2>2, <2>3 DEF Untouched, Library!NeedsFork,
         Library!Solvers, Library!LibStates
  <1>18. CursorInv' /\ CubeInv' /\ RowsInv'
    <2>1. (Untouched => CursorInv /\ CubeInv /\ RowsInv)'
      BY LoopNotBegun, PTL
    <2>. QED  BY <1>17, <2>1
  <1>19. TypeOK'
    BY <1>1, <1>2, <1>3, <1>9, <1>10, <1>11, <1>15 DEF QuapifyInv, TypeOK, Ends,
       Library!Solvers, Library!LibStates
  <1>20. InputInv' /\ ListsInv'
    BY <1>1, <1>2, <1>15 DEF QuapifyInv, InputInv, ListsInv, InsideList
  <1>. QED  BY <1>16, <1>18, <1>19, <1>20 DEF QuapifyInv

\* A token of the second pass, which stays behind the first one.
LEMMA SecondPassStep == QuapifyInv /\ SecondPass => QuapifyInv'
  <1>1. SUFFICES ASSUME QuapifyInv, SecondPass PROVE QuapifyInv'
    OBVIOUS
  <1>2. /\ pc = "pass 2" /\ ParserMoves("lists")
        /\ lib' = CASE Called[1] = "quantify" -> Library!AfterQuantify(lib, Called[2])
                    [] Called[1] = "add"      -> Library!AfterAdd(lib, Called[2])
                    [] OTHER                  -> lib
        /\ UNCHANGED <<args, file, cfg, quantifiers, varcount, clausecount,
                       intsplits_state, given, ass, assstart, assumption_id, rows>>
    BY <1>1 DEF SecondPass, input, cursor, counts
  <1>3. /\ token \in Tokens /\ parser \in Parsers /\ Parsed \in Parsers
        /\ pos \in Nat /\ pos + 1 \in 1..Len(file) /\ Len(file) \in Nat
        /\ Parsed = Progress[pos + 1].parser
        /\ Progress[pos].clauses \in Nat /\ Progress[pos + 1].clauses \in Nat
        /\ Progress[pos + 1].clauses = IF Called = <<"add", 0>>
                                       THEN Progress[pos].clauses + 1
                                       ELSE Progress[pos].clauses
        /\ Parsed.phase \in Running => pos + 1 < Len(file)
    BY <1>1, <1>2, NextToken, Zenon
  <1>4. /\ Progress[pos].added => Progress[pos + 1].added
        /\ Called[1] = "add" => Progress[pos + 1].added
        /\ Progress[pos + 1].added => Progress[pos].added \/ Called[1] = "add"
    BY <1>1, <1>2, NextToken, Zenon
  <1>5. /\ Called[2] \in Int
        /\ Called = <<"add", 0>> => Called[1] = "add"
        /\ Called[1] = "add" => Called = <<"add", Called[2]>>
    BY <1>3, CallArgument DEF Called
  <1>6. Untouched
    BY <1>1, <1>2, BeforeLoop
  <1>7. /\ \A k \in 0..pos : Progress[k].parser.phase \in Running
        /\ lib.written_clauses = Progress[pos].clauses
        /\ lib.written_assumptions = 0
        /\ lib.state = IF Progress[pos].added THEN "INPUT_LITERALS" ELSE "INPUT"
    BY <1>1, <1>2 DEF QuapifyInv, PassInv
  <1>8. PICK n \in 1..Len(file) :
            /\ Progress[n].parser.phase = "accepted"
            /\ \A k \in 0..n - 1 : Progress[k].parser.phase \in Running
            /\ clausecount = Progress[n].clauses
            /\ varcount > 0 => Progress[n].added
    BY <1>1, <1>2, Zenon DEF QuapifyInv, PassInv
  <1>9. pos + 1 \in 0..n /\ pos + 1 <= n
    <2>1. n \notin 0..pos
      BY <1>7, <1>8 DEF Running
    <2>. QED  BY <1>3, <2>1
  <1>10. lib \in Library!Solvers /\ lib.written_clauses \in Nat
    BY <1>6 DEF Untouched, Library!Solvers
  <1>11. /\ lib' \in Library!Solvers /\ lib'.written_assumptions = 0
         /\ lib'.written_clauses = Progress[pos + 1].clauses
         /\ lib'.state = IF Progress[pos + 1].added THEN "INPUT_LITERALS" ELSE "INPUT"
    <2>1. CASE Called[1] = "add"
      <3>1. lib' = Library!AfterAdd(lib, Called[2])
        BY <1>2, <2>1
      <3>2. Called = <<"add", 0>> <=> Called[2] = 0
        BY <1>5, <2>1
      <3>3. lib' \in Library!Solvers
        BY <1>5, <1>10, <3>1, LibraryType
      <3>4. /\ lib'.written_assumptions = 0 /\ lib'.state = "INPUT_LITERALS"
            /\ lib'.written_clauses = IF Called[2] = 0 THEN lib.written_clauses + 1
                                                       ELSE lib.written_clauses
        BY <1>7, <1>10, <3>1 DEF Library!AfterAdd, Library!Solvers
      <3>5. Progress[pos + 1].added
        BY <1>4, <2>1, Zenon
      <3>. QED  BY <1>3, <1>7, <3>2, <3>3, <3>4, <3>5
    <2>2. CASE Called[1] # "add"
      <3>1. Progress[pos + 1].clauses = Progress[pos].clauses
        BY <1>3, <1>5, <2>2
      <3>2. Progress[pos + 1].added <=> Progress[pos].added
        BY <1>4, <2>2, Zenon
      <3>3. CASE Called[1] = "quantify"
        <4>1. lib' = Library!AfterQuantify(lib, Called[2])
          BY <1>2, <3>3
        <4>2. lib' \in Library!Solvers
          BY <1>5, <1>10, <4>1, LibraryType
        <4>3. /\ lib'.written_assumptions = lib.written_assumptions
              /\ lib'.state = lib.state
              /\ lib'.written_clauses = lib.written_clauses
          BY <1>10, <4>1 DEF Library!AfterQuantify, Library!Solvers
        <4>. QED  BY <1>7, <3>1, <3>2, <4>2, <4>3
      <3>4. CASE Called[1] # "quantify"
        <4>1. lib' = lib
          BY <1>2, <2>2, <3>4
        <4>. QED  BY <1>7, <1>10, <3>1, <3>2, <4>1
      <3>. QED  BY <3>3, <3>4
    <2>. QED  BY <2>1, <2>2
  <1>12. Progress[pos + 1].clauses <= clausecount
    <2>1. n \in pos + 1 .. Len(file) /\ pos + 1 \in 0..Len(file) /\ n \in 0..Len(file)
          /\ n \in Nat
      BY <1>3, <1>8, <1>9
    <2>2. file \in Files
      BY <1>1 DEF QuapifyInv, InputInv
    <2>3. Progress[pos + 1].clauses <= Progress[n].clauses
      BY <2>1, <2>2, PassGrows DEF Progress
    <2>. QED  BY <1>8, <2>3
  <1>13. Progress' = Progress
    BY <1>2 DEF Progress
  <1>14. Parsed.phase \in {"header", "body", "accepted", "rejected"}
    BY <1>3 DEF Parsers
  <1>15. /\ pos' = IF Parsed.phase = "accepted" THEN 0 ELSE pos + 1
         /\ parser' = IF Parsed.phase = "accepted" THEN NewParser ELSE Parsed
         /\ pc' = CASE Parsed.phase = "accepted" -> "lists"
                    [] Parsed.phase = "rejected" -> "failed"
                    [] OTHER -> pc
    BY <1>2 DEF ParserMoves
  <1>16. /\ pc' \in {"pass 2", "lists", "failed"} /\ pos' \in 0..Len(file')
         /\ parser' \in Parsers
    <2>1. NewParser \in Parsers
      BY DEF NewParser, Parsers
    <2>2. parser' \in Parsers
      BY <1>3, <1>15, <2>1
    <2>3. pos' \in 0..Len(file)
      BY <1>3, <1>15
    <2>4. pc' \in {"pass 2", "lists", "failed"}
      BY <1>2, <1>15
    <2>. QED  BY <1>2, <2>2, <2>3, <2>4
  <1>17. PassInv'
    <2>1. CASE Parsed.phase \in Running
      <3>1. pc' = "pass 2" /\ pos' = pos + 1 /\ parser' = Parsed
        BY <1>2, <1>15, <2>1 DEF Running
      <3>2. \A k \in 0..pos + 1 : Progress[k].parser.phase \in Running
        <4>1. \A k \in 0..pos + 1 : k \in 0..pos \/ k = pos + 1
          BY <1>3
        <4>. QED  BY <1>3, <1>7, <2>1, <4>1
      <3>3. pos' < Len(file') /\ parser' = Progress'[pos'].parser
        BY <1>2, <1>3, <1>13, <2>1, <3>1
      <3>4. \E m \in 1..Len(file') :
                /\ Progress'[m].parser.phase = "accepted"
                /\ \A k \in 0..m - 1 : Progress'[k].parser.phase \in Running
                /\ clausecount' = Progress'[m].clauses
                /\ varcount' > 0 => Progress'[m].added
        BY <1>2, <1>8, <1>13, Zenon
      <3>5. /\ lib'.written_clauses = Progress'[pos'].clauses
            /\ lib'.written_assumptions = 0
            /\ lib'.state = IF Progress'[pos'].added THEN "INPUT_LITERALS" ELSE "INPUT"
        BY <1>11, <1>13, <3>1
      <3>. QED  BY <1>13, <3>1, <3>2, <3>3, <3>4, <3>5 DEF PassInv
    <2>2. CASE Parsed.phase = "accepted"
      <3>1. pc' = "lists" /\ pos' = 0 /\ parser' = NewParser
        BY <1>2, <1>15, <2>2
      <3>2. n = pos + 1
        <4>1. pos + 1 \notin 0..n - 1
          BY <1>3, <1>8, <2>2 DEF Running
        <4>. QED  BY <1>3, <1>9, <4>1
      <3>3. varcount' > 0 => lib'.state # "INPUT"
        BY <1>2, <1>8, <1>11, <3>2
      <3>4. \E m \in 1..Len(file') :
                /\ Progress'[m].parser.phase = "accepted"
                /\ \A k \in 0..m - 1 : Progress'[k].parser.phase \in Running
                /\ clausecount' = Progress'[m].clauses
                /\ varcount' > 0 => Progress'[m].added
        BY <1>2, <1>8, <1>13, Zenon
      <3>. QED  BY <3>1, <3>3, <3>4 DEF PassInv
    <2>3. CASE Parsed.phase = "rejected"
      <3>1. pc' = "failed"
        BY <1>15, <2>3
      <3>. QED  BY <3>1 DEF PassInv
    <2>. QED  BY <1>14, <2>1, <2>2, <2>3 DEF Running
  <1>18. Untouched'
    <2>1. Library!NeedsFork(lib)'
      BY <1>11 DEF Library!NeedsFork
    <2>2. lib'.written_clauses <= clausecount' /\ pc' # "done"
      BY <1>2, <1>11, <1>12, <1>16
    <2>. QED
      BY <1>2, <1>6, <1>11, <2>1, <2>2 DEF Untouched, Library!Solvers, Library!LibStates
  <1>19. CursorInv' /\ CubeInv' /\ RowsInv'
    <2>1. (Untouched => CursorInv /\ CubeInv /\ RowsInv)'
      BY LoopNotBegun, PTL
    <2>. QED  BY <1>18, <2>1
  <1>20. TypeOK'
    BY <1>1, <1>2, <1>11, <1>16 DEF QuapifyInv, TypeOK, Ends, Library!Solvers,
       Library!LibStates
  <1>21. InputInv' /\ ListsInv'
    BY <1>1, <1>2, <1>16 DEF QuapifyInv, InputInv, ListsInv, InsideList
  <1>. QED  BY <1>17, <1>19, <1>20, <1>21 DEF QuapifyInv

\* Between the passes: the lists of the splits.
LEMMA InflateStep ==
    QuapifyInv /\ (StartInflate \/ inflate_intsplits) => QuapifyInv'
  <1>1. SUFFICES ASSUME QuapifyInv, StartInflate \/ inflate_intsplits PROVE QuapifyInv'
    OBVIOUS
  <1>2. /\ pc = "inflate"
        /\ UNCHANGED <<args, file, pos, parser, quantifiers, varcount, clausecount, lib,
                       given, ass, assstart, assumption_id, rows>>
    BY <1>1 DEF StartInflate, inflate_intsplits, input, cursor, counts
  <1>3. /\ cfg \in Configs /\ Counted(cfg) /\ intsplits_state \in Seq(Nat)
        /\ quantifiers \in Seq(Int \ {0})
        /\ cfg.current_assumption_size > 0 => InsideList
    BY <1>1, <1>2 DEF QuapifyInv, TypeOK, ListsInv
  <1>4. Untouched /\ cfg.current_assumption_size \in Nat
    BY <1>1, <1>2, BeforeLoop
  <1>5. cfg.current_assumption_size = 0
    BY <1>2, <1>3, <1>4 DEF InsideList
  <1>6. /\ pc' \in {"inflate", "ready", "failed"} /\ intsplits_state' \in Seq(Nat)
        /\ \/ cfg' = cfg
           \/ \E list \in Seq(Int \ {0}) : cfg' = AddList(cfg, list)
    <2>1. CASE StartInflate
      <3>1. [i \in 1..Len(cfg.intsplits) |-> 0] \in Seq(Nat)
        BY <1>3 DEF Configs
      <3>. QED  BY <1>2, <1>3, <2>1, <3>1 DEF StartInflate
    <2>2. CASE inflate_intsplits
      <3>1. CASE cfg' = cfg /\ intsplits_state' = intsplits_state
        BY <1>2, <1>3, <2>2, <3>1 DEF inflate_intsplits
      <3>2. CASE ~(cfg' = cfg /\ intsplits_state' = intsplits_state)
        <4>. DEFINE list == intsplit_state_to_assumption(cfg, quantifiers, intsplits_state)
        <4>1. /\ ~SplitsTooLong(cfg, quantifiers) /\ cfg' = AddList(cfg, list)
              /\ intsplits_state' = NextCombination(cfg, intsplits_state) /\ pc' = pc
          BY <2>2, <3>2 DEF inflate_intsplits
        <4>2. list \in Seq(Int \ {0})
          BY <1>3, <4>1, SplitListType
        <4>3. NextCombination(cfg, intsplits_state) \in Seq(Nat)
          <5>. DEFINE n == Len(intsplits_state)
                      keep(d) == \E e \in d + 1 .. n : ~AtLimit(cfg, intsplits_state, e)
                      carry(d) == d # 1 /\ AtLimit(cfg, intsplits_state, d)
                      next(d) == IF keep(d) THEN intsplits_state[d]
                                 ELSE IF carry(d) THEN 0 ELSE intsplits_state[d] + 1
          <5>1. n \in Nat /\ \A d \in 1..n : intsplits_state[d] \in Nat
            BY <1>3, ElementOfSeq
          <5>2. \A d \in 1..n : next(d) \in Nat
            <6>. HIDE DEF keep, carry
            <6>. QED  BY <5>1
          <5>3. NextCombination(cfg, intsplits_state) = [d \in 1..n |-> next(d)]
            BY DEF NextCombination
          <5>. HIDE DEF n, next
          <5>4. [d \in 1..n |-> next(d)] \in Seq(Nat)
            BY <5>1, <5>2, IsASeq
          <5>. QED  BY <5>3, <5>4
        <4>. HIDE DEF list
        <4>. QED  BY <1>2, <4>1, <4>2, <4>3
      <3>. QED  BY <3>1, <3>2
    <2>. QED  BY <1>1, <2>1, <2>2
  <1>7. /\ cfg' \in Configs /\ Counted(cfg') /\ cfg'.current_assumption_size = 0
        /\ cfg'.strictness = cfg.strictness
    <2>1. ASSUME NEW list \in Seq(Int \ {0}), cfg' = AddList(cfg, list)
          PROVE  /\ cfg' \in Configs /\ Counted(cfg') /\ cfg'.current_assumption_size = 0
                 /\ cfg'.strictness = cfg.strictness
      <3>1. list \in Seq(Int)
        BY SeqMonotonic
      <3>2. /\ AddList(cfg, list) \in Configs
            /\ AddList(cfg, list).current_assumption_size = cfg.current_assumption_size
            /\ AddList(cfg, list).strictness = cfg.strictness
        BY <1>3, <3>1, AddListType
      <3>3. Counted(AddList(cfg, list))
        BY <1>3, <1>5, AddListCounts
      <3>. QED  BY <1>5, <2>1, <3>2, <3>3
    <2>. QED  BY <1>3, <1>5, <1>6, <2>1
  <1>8. Untouched'
    BY <1>2, <1>4, <1>6 DEF Untouched, Library!NeedsFork, Library!Solvers,
       Library!LibStates
  <1>9. CursorInv' /\ CubeInv' /\ RowsInv'
    <2>1. (Untouched => CursorInv /\ CubeInv /\ RowsInv)'
      BY LoopNotBegun, PTL
    <2>. QED  BY <1>8, <2>1
  <1>10. TypeOK'
    <2>1. ass' = 1 /\ assstart' = 1 /\ assumption_id' = 0
      BY <1>8 DEF Untouched
    <2>2. cfg'.assumptions \in Seq(Int) /\ cfg'.assumptions_count \in Nat
      BY <1>7 DEF Configs
    <2>3. /\ ass' \in 1 .. Len(cfg'.assumptions) + 1 /\ assstart' \in 1..ass'
          /\ assumption_id' \in 0..cfg'.assumptions_count
      BY <2>1, <2>2
    <2>. QED
      BY <1>1, <1>2, <1>6, <1>7, <2>3 DEF QuapifyInv, TypeOK, Ends, Library!Solvers,
         Library!LibStates
  <1>11. InputInv'
    BY <1>1, <1>2 DEF QuapifyInv, InputInv
  <1>12. PassInv'
    <2>1. Progress' = Progress
      BY <1>2, <1>7 DEF Progress
    <2>2. /\ pos = 0 /\ parser = NewParser /\ lib = Library!FreshSolver
          /\ \E n \in 1..Len(file) :
                /\ Progress[n].parser.phase = "accepted"
                /\ \A k \in 0..n - 1 : Progress[k].parser.phase \in Running
                /\ clausecount = Progress[n].clauses
                /\ varcount > 0 => Progress[n].added
      BY <1>1, <1>2, Zenon DEF QuapifyInv, PassInv
    <2>3. /\ pos' = 0 /\ parser' = NewParser
          /\ \E n \in 1..Len(file') :
                /\ Progress'[n].parser.phase = "accepted"
                /\ \A k \in 0..n - 1 : Progress'[k].parser.phase \in Running
                /\ clausecount' = Progress'[n].clauses
                /\ varcount' > 0 => Progress'[n].added
      BY <1>2, <2>1, <2>2, Zenon
    <2>4. lib' = (Library!FreshSolver)'
      BY <1>2, <2>2 DEF Library!FreshSolver
    <2>5. pc' \notin {"cli", "pass 1", "pass 2", "lists"}
      BY <1>6
    <2>. QED  BY <2>3, <2>4, <2>5 DEF PassInv
  <1>13. ListsInv'
    <2>1. ~(cfg'.current_assumption_size > 0)
      BY <1>7
    <2>. QED  BY <1>7, <2>1 DEF ListsInv, Counted
  <1>. QED  BY <1>9, <1>10, <1>11, <1>12, <1>13 DEF QuapifyInv

\* The solver is there and knows nothing yet.
LEMMA StartSolverStep == QuapifyInv /\ StartSolver => QuapifyInv'
  <1>1. SUFFICES ASSUME QuapifyInv, StartSolver PROVE QuapifyInv'
    OBVIOUS
  <1>2. /\ pc = "ready" /\ pc' \in {"listed", "pass 2", "failed"}
        /\ UNCHANGED <<args, file, pos, parser, cfg, quantifiers, varcount, clausecount,
                       intsplits_state, lib, given, ass, assstart, assumption_id, rows>>
    BY <1>1 DEF StartSolver, input, cursor, counts
  <1>3. Untouched
    BY <1>1, <1>2, BeforeLoop
  <1>4. Untouched'
    BY <1>2, <1>3 DEF Untouched, Library!NeedsFork, Library!Solvers, Library!LibStates
  <1>5. CursorInv' /\ CubeInv' /\ RowsInv'
    <2>1. (Untouched => CursorInv /\ CubeInv /\ RowsInv)'
      BY LoopNotBegun, PTL
    <2>. QED  BY <1>4, <2>1
  <1>6. TypeOK'
    BY <1>1, <1>2 DEF QuapifyInv, TypeOK, Ends, Library!Solvers, Library!LibStates
  <1>7. InputInv' /\ ListsInv'
    BY <1>1, <1>2 DEF QuapifyInv, InputInv, ListsInv, InsideList
  <1>8. PassInv'
    <2>1. Progress' = Progress
      BY <1>2 DEF Progress
    <2>2. /\ pos = 0 /\ parser = NewParser /\ lib = Library!FreshSolver
          /\ \E n \in 1..Len(file) :
                /\ Progress[n].parser.phase = "accepted"
                /\ \A k \in 0..n - 1 : Progress[k].parser.phase \in Running
                /\ clausecount = Progress[n].clauses
                /\ varcount > 0 => Progress[n].added
      BY <1>1, <1>2, Zenon DEF QuapifyInv, PassInv
    <2>3. /\ pos' = 0 /\ parser' = NewParser
          /\ \E n \in 1..Len(file') :
                /\ Progress'[n].parser.phase = "accepted"
                /\ \A k \in 0..n - 1 : Progress'[k].parser.phase \in Running
                /\ clausecount' = Progress'[n].clauses
                /\ varcount' > 0 => Progress'[n].added
      BY <1>2, <2>1, <2>2, Zenon
    <2>4. /\ Progress[0] = Start /\ 0 < Len(file)
          /\ \A k \in 0..0 : Progress[k].parser.phase \in Running
      <3>1. file \in Files
        BY <1>1 DEF QuapifyInv, InputInv
      <3>. QED  BY <3>1, PassBegins DEF Progress
    <2>5. /\ lib'.written_clauses = 0 /\ lib'.written_assumptions = 0
          /\ lib'.state = "INPUT"
      BY <1>2, <2>2 DEF Library!FreshSolver
    <2>6. /\ Progress'[0].parser = NewParser /\ Progress'[0].clauses = 0
          /\ ~Progress'[0].added
      BY <2>1, <2>4 DEF Start
    <2>7. /\ pos' < Len(file') /\ parser' = Progress'[pos'].parser
          /\ \A k \in 0..pos' : Progress'[k].parser.phase \in Running
      BY <1>2, <2>1, <2>3, <2>4, <2>6
    <2>8. /\ lib'.written_clauses = Progress'[pos'].clauses
          /\ lib'.state = IF Progress'[pos'].added THEN "INPUT_LITERALS" ELSE "INPUT"
      BY <2>3, <2>5, <2>6
    <2>9. pc' \notin {"cli", "pass 1", "inflate", "ready", "lists"}
      BY <1>2
    <2>. QED  BY <2>3, <2>5, <2>7, <2>8, <2>9 DEF PassInv
  <1>. QED  BY <1>5, <1>6, <1>7, <1>8 DEF QuapifyInv
-----------------------------------------------------------------------------
(***************************************************************************)
(* The loop over the lists.                                                *)
(***************************************************************************)
Rows == [id : Nat, list : Seq(Int), answered : BOOLEAN, cube : Seq(Int)]

\* What the cursor stands on.
LEMMA AtElement ==
    QuapifyInv /\ pc = "lists" /\ ass <= Len(cfg.assumptions) =>
        /\ cfg.assumptions \in Seq(Int) /\ Len(cfg.assumptions) \in Nat
        /\ ass \in 1..Len(cfg.assumptions) /\ assstart \in 1..ass /\ element \in Int
        /\ assumption_id \in Nat /\ assumption_id = Cardinality(Zeros(ass - 1))
        /\ Cardinality(Zeros(ass)) = IF element = 0 THEN assumption_id + 1
                                                    ELSE assumption_id
        /\ Cardinality(Zeros(ass)) <= cfg.assumptions_count
        /\ cfg.assumptions_count \in Nat
        /\ Unbroken(cfg.assumptions, assstart, ass - 1)
        /\ assstart = 1 \/ cfg.assumptions[assstart - 1] = 0
  <1>1. SUFFICES ASSUME QuapifyInv, pc = "lists", ass <= Len(cfg.assumptions)
                 PROVE  /\ cfg.assumptions \in Seq(Int) /\ Len(cfg.assumptions) \in Nat
                        /\ ass \in 1..Len(cfg.assumptions) /\ assstart \in 1..ass
                        /\ element \in Int
                        /\ assumption_id \in Nat
                        /\ assumption_id = Cardinality(Zeros(ass - 1))
                        /\ Cardinality(Zeros(ass)) = IF element = 0 THEN assumption_id + 1
                                                     ELSE assumption_id
                        /\ Cardinality(Zeros(ass)) <= cfg.assumptions_count
                        /\ cfg.assumptions_count \in Nat
                        /\ Unbroken(cfg.assumptions, assstart, ass - 1)
                        /\ assstart = 1 \/ cfg.assumptions[assstart - 1] = 0
    BY Zenon
  <1>. DEFINE a == cfg.assumptions
              n == Len(cfg.assumptions)
  <1>2. cfg \in Configs /\ assstart \in 1..ass /\ ass \in 1..n + 1
    BY <1>1 DEF QuapifyInv, TypeOK
  <1>3. a \in Seq(Int) /\ n \in Nat /\ cfg.assumptions_count \in Nat
    BY <1>2 DEF Configs
  <1>. HIDE DEF a, n
  <1>4. ass \in 1..n /\ ass - 1 \in Nat /\ (ass - 1) + 1 = ass
    BY <1>1, <1>2, <1>3 DEF n
  <1>5. a[ass] \in Int /\ element = a[ass]
    <2>1. a[ass] \in Int
      BY <1>3, <1>4, ElementOfSeq DEF n, a
    <2>. QED  BY <2>1 DEF element, a
  <1>6. /\ Zeros(ass - 1) = ZerosOf(a, ass - 1) /\ Zeros(ass) = ZerosOf(a, (ass - 1) + 1)
    BY <1>4 DEF Zeros, ZerosOf, a
  <1>7. /\ assumption_id = Cardinality(Zeros(ass - 1))
        /\ Unbroken(a, assstart, ass - 1)
        /\ assstart = 1 \/ a[assstart - 1] = 0
    BY <1>1 DEF QuapifyInv, CursorInv, a
  <1>8. /\ Cardinality(ZerosOf(a, ass - 1)) \in Nat
        /\ Cardinality(ZerosOf(a, (ass - 1) + 1))
             = Cardinality(ZerosOf(a, ass - 1)) + (IF a[(ass - 1) + 1] = 0 THEN 1 ELSE 0)
    BY <1>4, ZerosCount
  <1>9. Cardinality(Zeros(ass)) = IF element = 0 THEN assumption_id + 1
                                                 ELSE assumption_id
    BY <1>4, <1>5, <1>6, <1>7, <1>8
  <1>10. Cardinality(Zeros(ass)) <= cfg.assumptions_count
    <2>1. cfg.assumptions_count = Cardinality(ZerosOf(a, n))
      BY <1>1 DEF QuapifyInv, ListsInv, Counted, a, n
    <2>2. ass \in 0..n
      BY <1>3, <1>4
    <2>3. Cardinality(ZerosOf(a, ass)) <= Cardinality(ZerosOf(a, n))
      BY <1>3, <2>2, ZerosCount
    <2>. QED  BY <1>4, <1>6, <2>1, <2>3
  <1>. QED
    BY <1>2, <1>3, <1>4, <1>5, <1>6, <1>7, <1>8, <1>9, <1>10 DEF a, n

\* What the loop does not touch.
LEMMA LoopFrame ==
    /\ QuapifyInv /\ pc = "lists" /\ pc' \in Looping
    /\ UNCHANGED <<args, file, pos, parser, cfg, quantifiers, varcount, clausecount,
                   intsplits_state>>
    /\ lib' = lib \/ lib'.state # "INPUT"
    => /\ InputInv' /\ PassInv' /\ ListsInv' /\ cfg'.current_assumption_size = 0
       /\ pc' \in Ends \cup {"lists"} /\ pos' \in 0..Len(file') /\ parser' \in Parsers
       /\ cfg' \in Configs /\ quantifiers' \in Seq(Int \ {0}) /\ varcount' \in Nat
       /\ clausecount' \in Nat /\ intsplits_state' \in Seq(Nat)
  <1>1. SUFFICES ASSUME QuapifyInv, pc = "lists", pc' \in Looping,
                        UNCHANGED <<args, file, pos, parser, cfg, quantifiers, varcount,
                                    clausecount, intsplits_state>>,
                        lib' = lib \/ lib'.state # "INPUT"
                 PROVE  /\ InputInv' /\ PassInv' /\ ListsInv'
                        /\ cfg'.current_assumption_size = 0
                        /\ pc' \in Ends \cup {"lists"} /\ pos' \in 0..Len(file')
                        /\ parser' \in Parsers /\ cfg' \in Configs
                        /\ quantifiers' \in Seq(Int \ {0}) /\ varcount' \in Nat
                        /\ clausecount' \in Nat /\ intsplits_state' \in Seq(Nat)
    BY Zenon
  <1>2. /\ pos' \in 0..Len(file') /\ parser' \in Parsers
        /\ cfg' \in Configs /\ quantifiers' \in Seq(Int \ {0}) /\ varcount' \in Nat
        /\ clausecount' \in Nat /\ intsplits_state' \in Seq(Nat)
    BY <1>1 DEF QuapifyInv, TypeOK
  <1>3. pc' \in Ends \cup {"lists"}
    BY <1>1 DEF Looping, Ends
  <1>4. InputInv'
    BY <1>1 DEF QuapifyInv, InputInv
  <1>5. cfg'.current_assumption_size = 0
    <2>1. cfg'.current_assumption_size \in Nat
      BY <1>2 DEF Configs
    <2>2. ~(cfg.current_assumption_size > 0)
      BY <1>1 DEF QuapifyInv, ListsInv, InsideList
    <2>. QED  BY <1>1, <2>1, <2>2
  <1>6. ListsInv'
    <2>1. ~(cfg'.current_assumption_size > 0)
      BY <1>5
    <2>2. Counted(cfg)
      BY <1>1 DEF QuapifyInv, ListsInv
    <2>. QED  BY <1>1, <2>1, <2>2 DEF ListsInv, Counted
  <1>7. PassInv'
    <2>1. Progress' = Progress
      BY <1>1 DEF Progress
    <2>2. /\ pos = 0 /\ parser = NewParser
          /\ \E n \in 1..Len(file) :
                /\ Progress[n].parser.phase = "accepted"
                /\ \A k \in 0..n - 1 : Progress[k].parser.phase \in Running
                /\ clausecount = Progress[n].clauses
                /\ varcount > 0 => Progress[n].added
      BY <1>1, Zenon DEF QuapifyInv, PassInv
    <2>3. varcount > 0 => lib.state # "INPUT"
      BY <1>1 DEF QuapifyInv, PassInv
    <2>4. /\ pos' = 0 /\ parser' = NewParser
          /\ \E n \in 1..Len(file') :
                /\ Progress'[n].parser.phase = "accepted"
                /\ \A k \in 0..n - 1 : Progress'[k].parser.phase \in Running
                /\ clausecount' = Progress'[n].clauses
                /\ varcount' > 0 => Progress'[n].added
      BY <1>1, <2>1, <2>2, Zenon
    <2>5. varcount' > 0 => lib'.state # "INPUT"
      BY <1>1, <2>3
    <2>6. pc' \notin {"cli", "pass 1", "inflate", "ready", "pass 2"}
      BY <1>1 DEF Looping
    <2>. QED  BY <2>4, <2>5, <2>6 DEF PassInv
  <1>. QED  BY <1>2, <1>3, <1>4, <1>5, <1>6, <1>7

\* As long as no list ends, the rows are right.
LEMMA RowsStay ==
    QuapifyInv /\ UNCHANGED <<cfg, assumption_id, rows>> => RowsInv'
  <1>1. SUFFICES ASSUME QuapifyInv, UNCHANGED <<cfg, assumption_id, rows>>
                 PROVE  RowsInv'
    OBVIOUS
  <1>2. RowsInv /\ cfg' = cfg /\ assumption_id' = assumption_id /\ rows' = rows
    BY <1>1 DEF QuapifyInv
  <1>3. {rows'[i].id : i \in 1..Len(rows')}
          = {id \in 0..assumption_id' - 1 : cfg'.selected_assumption \in {-1, id}}
    BY <1>2 DEF RowsInv
  <1>4. \A i, j \in 1..Len(rows') : i < j => rows'[i].id < rows'[j].id
    BY <1>2 DEF RowsInv
  <1>5. ASSUME NEW i \in 1..Len(rows') PROVE IsList(rows[i].id, rows[i].list)'
    <2>1. IsList(rows[i].id, rows[i].list)
      BY <1>2 DEF RowsInv
    <2>. QED  BY <1>2, <2>1 DEF IsList, Zeros
  <1>6. OnlyRefusalsMix'
    BY <1>2 DEF RowsInv, OnlyRefusalsMix
  <1>. QED  BY <1>3, <1>4, <1>5, <1>6 DEF RowsInv

\* The end of the loop, and a literal that quapi_assume does not take.
LEMMA LoopEndsStep == QuapifyInv /\ (AssumeFails \/ AllSolved) => QuapifyInv'
  <1>1. SUFFICES ASSUME QuapifyInv, AssumeFails \/ AllSolved PROVE QuapifyInv'
    OBVIOUS
  <1>2. /\ pc = "lists" /\ pc' \in {"done", "failed"}
        /\ pc' = "done" => ass > Len(cfg.assumptions)
        /\ UNCHANGED <<args, file, pos, parser, cfg, quantifiers, varcount, clausecount,
                       intsplits_state, lib, given, ass, assstart, assumption_id, rows>>
    BY <1>1 DEF AssumeFails, AllSolved, input, cursor, counts
  <1>3. /\ InputInv' /\ PassInv' /\ ListsInv' /\ cfg'.current_assumption_size = 0
        /\ pc' \in Ends \cup {"lists"} /\ pos' \in 0..Len(file') /\ parser' \in Parsers
        /\ cfg' \in Configs /\ quantifiers' \in Seq(Int \ {0}) /\ varcount' \in Nat
        /\ clausecount' \in Nat /\ intsplits_state' \in Seq(Nat)
    <2>1. pc' \in Looping
      BY <1>2 DEF Looping
    <2>. QED  BY <1>1, <1>2, <2>1, LoopFrame, Zenon
  <1>4. TypeOK'
    BY <1>1, <1>2, <1>3 DEF QuapifyInv, TypeOK, Library!Solvers, Library!LibStates
  <1>5. CursorInv'
    <2>1. ass \in 1 .. Len(cfg.assumptions) + 1 /\ Len(cfg.assumptions) \in Nat
      <3>1. cfg.assumptions \in Seq(Int) /\ ass \in 1 .. Len(cfg.assumptions) + 1
        BY <1>1 DEF QuapifyInv, TypeOK, Configs
      <3>. QED  BY <3>1, LenProperties
    <2>2. pc' = "done" => ass' = Len(cfg'.assumptions) + 1
      BY <1>2, <2>1
    <2>3. pc' \in Looping
      BY <1>2 DEF Looping
    <2>. QED
      BY <1>1, <1>2, <1>3, <2>2, <2>3 DEF QuapifyInv, CursorInv, Zeros, Unbroken
  <1>6. CubeInv'
    BY <1>1, <1>2 DEF QuapifyInv, CubeInv, Leftovers, Selected, Child, Library!NeedsFork
  <1>7. RowsInv'
    BY <1>1, <1>2, RowsStay
  <1>. QED  BY <1>3, <1>4, <1>5, <1>6, <1>7 DEF QuapifyInv

\* A literal of a list that is not selected, and one that is assumed.
LEMMA LiteralStep == QuapifyInv /\ (SkipLiteral \/ AssumeLiteral) => QuapifyInv'
  <1>1. SUFFICES ASSUME QuapifyInv, SkipLiteral \/ AssumeLiteral PROVE QuapifyInv'
    OBVIOUS
  <1>. DEFINE a == cfg.assumptions
  <1>2. /\ pc = "lists" /\ ass <= Len(cfg.assumptions) /\ element # 0 /\ ass' = ass + 1
        /\ UNCHANGED <<pc, args, file, pos, parser, cfg, quantifiers, varcount,
                       clausecount, intsplits_state, assstart, assumption_id, rows>>
    BY <1>1 DEF SkipLiteral, AssumeLiteral, input, cursor, counts
  <1>3. /\ ~Selected /\ UNCHANGED <<lib, given>>
        \/ /\ Selected
           /\ lib' = Library!AfterAssume(Library!AfterMakeSolvable(lib))
           /\ given' = Append(Child, element)
    BY <1>1 DEF SkipLiteral, AssumeLiteral
  <1>4. /\ a \in Seq(Int) /\ Len(a) \in Nat
        /\ ass \in 1..Len(a) /\ assstart \in 1..ass /\ element \in Int
        /\ assumption_id \in Nat /\ Cardinality(Zeros(ass)) = assumption_id
        /\ cfg.assumptions_count \in Nat /\ assumption_id <= cfg.assumptions_count
        /\ Unbroken(a, assstart, ass - 1)
        /\ assstart = 1 \/ a[assstart - 1] = 0
    BY <1>1, <1>2, AtElement
  <1>5. /\ lib \in Library!Solvers /\ given \in Seq(Int \ {0}) /\ clausecount \in Nat
        /\ rows \in Seq(Rows)
    BY <1>1 DEF QuapifyInv, TypeOK, Rows
  <1>6. /\ lib.state # "WORKING"
        /\ lib.written_assumptions <= lib.written_clauses
        /\ lib.written_clauses <= clausecount + lib.written_assumptions
        /\ Library!NeedsFork(lib) => lib.written_assumptions = 0
        /\ ~Leftovers =>
              IF Selected
              THEN /\ Child = SubSeq(a, assstart, ass - 1)
                   /\ lib.written_assumptions = ass - assstart
              ELSE Library!NeedsFork(lib)
    BY <1>1 DEF QuapifyInv, CubeInv
  <1>7. lib.written_assumptions \in Nat /\ lib.written_clauses \in Nat
    BY <1>5 DEF Library!Solvers
  <1>8. Child \in Seq(Int \ {0})
    BY <1>5 DEF Child
  <1>9. Selected => /\ lib' \in Library!Solvers /\ lib'.state = "INPUT_ASSUMPTIONS"
                    /\ lib'.written_clauses = lib.written_clauses + 1
                    /\ lib'.written_assumptions = lib.written_assumptions + 1
    BY <1>3, <1>5, AssumeEffect
  <1>10. /\ InputInv' /\ PassInv' /\ ListsInv' /\ cfg'.current_assumption_size = 0
         /\ pc' \in Ends \cup {"lists"} /\ pos' \in 0..Len(file') /\ parser' \in Parsers
         /\ cfg' \in Configs /\ quantifiers' \in Seq(Int \ {0}) /\ varcount' \in Nat
         /\ clausecount' \in Nat /\ intsplits_state' \in Seq(Nat)
    <2>1. pc' \in Looping
      BY <1>2 DEF Looping
    <2>2. lib' = lib \/ lib'.state # "INPUT"
      BY <1>3, <1>9
    <2>. QED  BY <1>1, <1>2, <2>1, <2>2, LoopFrame, Zenon
  <1>11. TypeOK'
    <2>1. lib' \in Library!Solvers
      BY <1>3, <1>5, <1>9
    <2>2. given' \in Seq(Int \ {0})
      <3>1. Append(Child, element) \in Seq(Int \ {0})
        <4>1. element \in Int \ {0}
          BY <1>2, <1>4
        <4>. QED  BY <1>8, <4>1, AppendProperties
      <3>. QED  BY <1>3, <1>5, <3>1
    <2>3. /\ ass' \in 1 .. Len(cfg'.assumptions) + 1 /\ assstart' \in 1..ass'
          /\ assumption_id' \in 0..cfg'.assumptions_count
      <3>1. /\ ass + 1 \in 1 .. Len(a) + 1 /\ assstart \in 1..ass + 1
            /\ assumption_id \in 0..cfg.assumptions_count
        BY <1>4
      <3>. QED  BY <1>2, <3>1
    <2>. QED
      BY <1>2, <1>5, <1>10, <2>1, <2>2, <2>3 DEF TypeOK, Rows, Library!Solvers,
         Library!LibStates
  <1>12. CursorInv'
    <2>1. ass' - 1 = ass
      BY <1>2, <1>4
    <2>2. Unbroken(a, assstart, ass)
      <3>1. \A k \in assstart..ass : k \in assstart..ass - 1 \/ k = ass
        BY <1>4
      <3>2. a[ass] # 0
        BY <1>2 DEF element
      <3>. QED  BY <1>4, <3>1, <3>2 DEF Unbroken
    <2>4. Cardinality(Zeros(ass - 1))' = assumption_id'
      BY <1>2, <1>4, <2>1 DEF Zeros
    <2>5. pc' \in Looping /\ pc' # "done"
      BY <1>2 DEF Looping
    <2>. QED  BY <1>2, <1>4, <1>10, <2>1, <2>2, <2>4, <2>5 DEF CursorInv
  <1>13. CubeInv'
    <2>1. Selected' <=> Selected
      BY <1>2 DEF Selected
    <2>2. Leftovers' <=> Leftovers
      BY <1>2 DEF Leftovers
    <2>3. CASE ~Selected
      <3>1. lib' = lib /\ given' = given
        BY <1>3, <2>3
      <3>. QED
        BY <1>2, <1>6, <2>1, <2>2, <2>3, <3>1 DEF CubeInv, Library!NeedsFork
    <2>4. CASE Selected
      <3>1. ~Library!NeedsFork(lib)' /\ lib'.state # "WORKING"
        BY <1>9, <2>4 DEF Library!NeedsFork
      <3>2. Child' = Append(Child, element)
        BY <1>3, <2>4, <3>1 DEF Child
      <3>3. /\ lib'.written_assumptions <= lib'.written_clauses
            /\ lib'.written_clauses <= clausecount' + lib'.written_assumptions
        BY <1>2, <1>5, <1>6, <1>7, <1>9, <2>4
      <3>4. ~Leftovers => /\ Child' = SubSeq(a, assstart, ass)
                          /\ lib'.written_assumptions = ass' - assstart'
        <4>1. SUFFICES ASSUME ~Leftovers
                       PROVE  /\ Child' = SubSeq(a, assstart, ass)
                              /\ lib'.written_assumptions = ass' - assstart'
          OBVIOUS
        <4>2. /\ Child = SubSeq(a, assstart, ass - 1)
              /\ lib.written_assumptions = ass - assstart
          BY <1>6, <2>4, <4>1
        <4>3. SubSeq(a, assstart, ass) = SubSeq(a, assstart, ass - 1) \o <<a[ass]>>
          <5>1. assstart \in 1..Len(a) /\ ass \in assstart..Len(a)
            BY <1>4
          <5>. QED  BY <1>4, <5>1, SubSeqRecursiveSecond
        <4>4. Append(Child, element) = Child \o <<element>>
          BY <1>8
        <4>5. lib'.written_assumptions = ass' - assstart'
          BY <1>2, <1>4, <1>9, <2>4, <4>2
        <4>. QED  BY <3>2, <4>2, <4>3, <4>4, <4>5 DEF element
      <3>5. ass' - 1 = ass /\ assstart' = assstart /\ cfg'.assumptions = a
        BY <1>2, <1>4
      <3>. QED  BY <2>1, <2>2, <2>4, <3>1, <3>3, <3>4, <3>5 DEF CubeInv
    <2>. QED  BY <2>3, <2>4
  <1>14. RowsInv'
    BY <1>1, <1>2, RowsStay
  <1>. QED  BY <1>10, <1>11, <1>12, <1>13, <1>14 DEF QuapifyInv

\* The end of a list: it gets its row, and the next one begins.
LEMMA SolveListStep == QuapifyInv /\ SolveList => QuapifyInv'
  <1>1. SUFFICES ASSUME QuapifyInv, SolveList PROVE QuapifyInv'
    OBVIOUS
  <1>. DEFINE a == cfg.assumptions
              list == SubSeq(a, assstart, ass - 1)
  <1>2. /\ pc = "lists" /\ ass <= Len(cfg.assumptions) /\ element = 0
        /\ assstart' = ass + 1 /\ ass' = ass + 1 /\ assumption_id' = assumption_id + 1
        /\ UNCHANGED <<pc, args, file, pos, parser, cfg, quantifiers, varcount,
                       clausecount, intsplits_state>>
    BY <1>1 DEF SolveList, EndOfList, input, counts
  <1>3. \/ ~Selected /\ UNCHANGED <<lib, given, rows>>
        \/ /\ Selected /\ UNCHANGED <<lib, given>>
           /\ rows' = Append(rows, Row(FALSE, <<>>))
        \/ /\ Selected /\ rows' = Append(rows, Row(TRUE, Child)) /\ given' = Child
           /\ lib' = Library!DropAssumptions(
                         Library!Working(Library!AfterMakeSolvable(lib)))
    BY <1>1 DEF SolveList
  <1>4. /\ a \in Seq(Int) /\ Len(a) \in Nat
        /\ ass \in 1..Len(a) /\ assstart \in 1..ass
        /\ assumption_id \in Nat /\ assumption_id = Cardinality(Zeros(ass - 1))
        /\ Cardinality(Zeros(ass)) = assumption_id + 1
        /\ cfg.assumptions_count \in Nat /\ assumption_id + 1 <= cfg.assumptions_count
        /\ Unbroken(a, assstart, ass - 1)
        /\ assstart = 1 \/ a[assstart - 1] = 0
    BY <1>1, <1>2, AtElement
  <1>5. /\ lib \in Library!Solvers /\ given \in Seq(Int \ {0}) /\ clausecount \in Nat
        /\ rows \in Seq(Rows)
    BY <1>1 DEF QuapifyInv, TypeOK, Rows
  <1>6. /\ lib.state # "WORKING"
        /\ lib.written_assumptions <= lib.written_clauses
        /\ lib.written_clauses <= clausecount + lib.written_assumptions
        /\ Library!NeedsFork(lib) => lib.written_assumptions = 0
        /\ ~Leftovers => IF Selected THEN Child = list ELSE Library!NeedsFork(lib)
    BY <1>1 DEF QuapifyInv, CubeInv
  <1>7. lib.written_assumptions \in Nat /\ lib.written_clauses \in Nat
    BY <1>5 DEF Library!Solvers
  <1>8. Child \in Seq(Int \ {0}) /\ Child \in Seq(Int)
    <2>1. Child \in Seq(Int \ {0})
      BY <1>5 DEF Child
    <2>. QED  BY <2>1, SeqMonotonic
  <1>9. list \in Seq(Int) /\ Len(list) = ass - assstart
        /\ \A k \in 1..Len(list) : list[k] # 0
    <2>1. \A k \in assstart .. ass - 1 : a[k] \in Int /\ a[k] # 0
      <3>1. \A k \in assstart .. ass - 1 : k \in 1..Len(a)
        BY <1>4
      <3>. QED  BY <1>4, <3>1, ElementOfSeq DEF Unbroken
    <2>2. /\ list \in Seq(Int)
          /\ Len(list) = IF assstart <= ass - 1 THEN ass - 1 - assstart + 1 ELSE 0
          /\ \A k \in 1 .. ass - 1 - assstart + 1 : list[k] = a[assstart + k - 1]
      <3>1. assstart \in Int /\ ass - 1 \in Int
        BY <1>4
      <3>. QED  BY <2>1, <3>1, SubSeqProperties
    <2>3. Len(list) = ass - assstart
      BY <1>4, <2>2
    <2>4. ASSUME NEW k \in 1..Len(list) PROVE list[k] # 0
      <3>. HIDE DEF list
      <3>1. k \in 1 .. ass - 1 - assstart + 1 /\ assstart + k - 1 \in assstart .. ass - 1
        BY <1>4, <2>3
      <3>. QED  BY <2>1, <2>2, <3>1
    <2>. QED  BY <2>2, <2>3, <2>4
  <1>10. IsList(assumption_id, list)
    <2>. HIDE DEF list
    <2>1. ass \in Zeros(Len(a))
      BY <1>2, <1>4 DEF Zeros, element
    <2>2. ass - Len(list) = assstart /\ Len(list) < ass
      BY <1>4, <1>9
    <2>3. list = SubSeq(a, ass - Len(list), ass - 1)
      BY <2>2 DEF list
    <2>4. Len(list) = ass - 1 \/ a[ass - Len(list) - 1] = 0
      <3>1. assstart = 1 => Len(list) = ass - 1
        BY <1>4, <1>9
      <3>. QED  BY <1>4, <2>2, <3>1
    <2>. QED  BY <1>4, <1>9, <2>1, <2>2, <2>3, <2>4 DEF IsList
  <1>. DEFINE answer == Library!DropAssumptions(
                            Library!Working(Library!AfterMakeSolvable(lib)))
  <1>11. /\ answer \in Library!Solvers /\ answer.state = "INPUT_LITERALS"
         /\ answer.written_clauses = lib.written_clauses - lib.written_assumptions
         /\ answer.written_assumptions = 0
    BY <1>5, <1>6, AnswerEffect
  <1>. HIDE DEF answer
  <1>12. lib' = lib \/ (Selected /\ lib' = answer)
    BY <1>3 DEF answer
  <1>13. /\ InputInv' /\ PassInv' /\ ListsInv' /\ cfg'.current_assumption_size = 0
         /\ pc' \in Ends \cup {"lists"} /\ pos' \in 0..Len(file') /\ parser' \in Parsers
         /\ cfg' \in Configs /\ quantifiers' \in Seq(Int \ {0}) /\ varcount' \in Nat
         /\ clausecount' \in Nat /\ intsplits_state' \in Seq(Nat)
    <2>1. pc' \in Looping
      BY <1>2 DEF Looping
    <2>2. lib' = lib \/ lib'.state # "INPUT"
      BY <1>11, <1>12
    <2>. QED  BY <1>1, <1>2, <2>1, <2>2, LoopFrame, Zenon
  <1>14. /\ Row(FALSE, <<>>) \in Rows /\ Row(TRUE, Child) \in Rows
         /\ Selected => rows' # rows
    <2>. DEFINE refused == Row(FALSE, <<>>)
                solved  == Row(TRUE, Child)
    <2>1. refused \in Rows /\ solved \in Rows
      <3>1. <<>> \in Seq(Int)
        OBVIOUS
      <3>. QED  BY <1>4, <1>8, <1>9, <3>1 DEF Rows, Row
    <2>2. Selected => rows' = Append(rows, refused) \/ rows' = Append(rows, solved)
      BY <1>3
    <2>. HIDE DEF refused, solved
    <2>3. \A r \in Rows : Len(Append(rows, r)) = Len(rows) + 1 /\ Len(rows) \in Nat
      BY <1>5
    <2>4. Selected => rows' # rows
      BY <2>1, <2>2, <2>3
    <2>. QED  BY <2>1, <2>4 DEF refused, solved
  <1>. DEFINE row == rows'[Len(rows')]
  <1>15. ASSUME rows' # rows
         PROVE  /\ Selected /\ row \in Rows /\ rows' = Append(rows, row)
                /\ Len(rows') = Len(rows) + 1 /\ Len(rows) \in Nat
                /\ \A i \in 1..Len(rows) : rows'[i] = rows[i]
                /\ row.id = assumption_id /\ row.list = list
                /\ row.answered => row.cube = Child /\ lib' = answer
    <2>. DEFINE refused == Row(FALSE, <<>>)
                solved  == Row(TRUE, Child)
    <2>1. refused \in Rows /\ solved \in Rows
      BY <1>14
    <2>2. /\ refused.id = assumption_id /\ refused.list = list /\ ~refused.answered
          /\ solved.id = assumption_id /\ solved.list = list /\ solved.cube = Child
      BY DEF Row
    <2>3. /\ Selected
          /\ \/ rows' = Append(rows, refused)
             \/ rows' = Append(rows, solved) /\ lib' = answer
      BY <1>3, <1>15 DEF answer
    <2>. HIDE DEF refused, solved, row
    <2>4. PICK r \in {refused, solved} :
              /\ rows' = Append(rows, r)
              /\ (r = solved /\ lib' = answer) \/ r = refused
      BY <2>3
    <2>5. r \in Rows /\ Len(rows) \in Nat
      BY <1>5, <2>1, <2>4
    <2>6. /\ Len(rows') = Len(rows) + 1 /\ rows'[Len(rows) + 1] = r
          /\ \A i \in 1..Len(rows) : rows'[i] = rows[i]
      BY <1>5, <2>4, <2>5, AppendProperties
    <2>7. row = r
      BY <2>6 DEF row
    <2>8. r.answered => r.cube = Child /\ lib' = answer
      <3>1. CASE r = solved
        <4>1. lib' = answer \/ r = refused
          BY <2>4
        <4>2. r = refused => ~r.answered
          BY <2>2
        <4>. QED  BY <2>2, <3>1, <4>1, <4>2
      <3>2. CASE r = refused
        BY <2>2, <3>2
      <3>. QED  BY <2>4, <3>1, <3>2
    <2>9. r.id = assumption_id /\ r.list = list
      BY <2>2, <2>4
    <2>. QED  BY <2>3, <2>4, <2>5, <2>6, <2>7, <2>8, <2>9
  <1>. HIDE DEF row
  <1>16. rows' \in Seq(Rows)
    <2>1. CASE rows' = rows
      BY <1>5, <2>1
    <2>2. CASE rows' # rows
      BY <1>5, <1>15, <2>2, AppendProperties
    <2>. QED  BY <2>1, <2>2
  <1>17. TypeOK'
    <2>1. lib' \in Library!Solvers
      BY <1>5, <1>11, <1>12
    <2>2. given' \in Seq(Int \ {0})
      BY <1>3, <1>5, <1>8
    <2>3. /\ ass' \in 1 .. Len(cfg'.assumptions) + 1 /\ assstart' \in 1..ass'
          /\ assumption_id' \in 0..cfg'.assumptions_count
      <3>1. /\ ass + 1 \in 1 .. Len(a) + 1 /\ ass + 1 \in 1..ass + 1
            /\ assumption_id + 1 \in 0..cfg.assumptions_count
        BY <1>4
      <3>. QED  BY <1>2, <3>1
    <2>. QED
      BY <1>13, <1>16, <2>1, <2>2, <2>3 DEF TypeOK, Rows, Library!Solvers,
         Library!LibStates
  <1>18. CursorInv'
    <2>1. ass' - 1 = ass /\ assstart' - 1 = ass
      BY <1>2, <1>4
    <2>2. Unbroken(a, ass + 1, ass)
      BY <1>4 DEF Unbroken
    <2>3. Cardinality(Zeros(ass - 1))' = assumption_id'
      BY <1>2, <1>4, <2>1 DEF Zeros
    <2>4. cfg'.assumptions[assstart' - 1] = 0
      BY <1>2, <2>1 DEF element
    <2>5. pc' \in Looping /\ pc' # "done"
      BY <1>2 DEF Looping
    <2>6. Unbroken(cfg.assumptions, assstart, ass - 1)'
      BY <1>2, <2>1, <2>2 DEF Unbroken
    <2>. QED  BY <1>13, <2>3, <2>4, <2>5, <2>6 DEF CursorInv
  <1>19. CubeInv'
    <2>1. /\ lib'.state # "WORKING"
          /\ lib'.written_assumptions <= lib'.written_clauses
          /\ lib'.written_clauses <= clausecount' + lib'.written_assumptions
          /\ Library!NeedsFork(lib)' => lib'.written_assumptions = 0
      <3>1. CASE lib' = lib
        BY <1>2, <1>6, <3>1 DEF Library!NeedsFork
      <3>2. CASE lib' = answer
        <4>1. lib.written_clauses - lib.written_assumptions \in Nat
              /\ lib.written_clauses - lib.written_assumptions <= clausecount
          BY <1>5, <1>6, <1>7
        <4>2. /\ lib'.written_assumptions = 0 /\ lib'.state = "INPUT_LITERALS"
              /\ lib'.written_clauses \in Nat /\ lib'.written_clauses <= clausecount
          BY <1>11, <3>2, <4>1
        <4>. QED  BY <1>2, <1>5, <4>2
      <3>. QED  BY <1>12, <3>1, <3>2
    <2>2. ~Leftovers' => Library!NeedsFork(lib)'
      <3>1. CASE rows' = rows
        <4>1. ~Selected /\ lib' = lib
          BY <1>3, <1>14, <3>1
        <4>. QED  BY <1>6, <3>1, <4>1 DEF Leftovers, Library!NeedsFork
      <3>2. CASE rows' # rows
        <4>1. rows' # <<>>
          BY <1>15, <1>16, <3>2, EmptySeq
        <4>2. ~Leftovers' => row.answered
          BY <4>1 DEF Leftovers, row
        <4>. QED  BY <1>11, <1>15, <3>2, <4>2 DEF Library!NeedsFork
      <3>. QED  BY <3>1, <3>2
    <2>3. SubSeq(cfg.assumptions, assstart, ass - 1)' = <<>>
      <3>1. ass' - 1 < assstart' /\ assstart' \in Int /\ ass' - 1 \in Int
        BY <1>2, <1>4
      <3>. QED  BY <3>1, SubSeqEmpty
    <2>4. Library!NeedsFork(lib)' => Child' = <<>>
      BY DEF Child
    <2>5. ass' - assstart' = 0
      BY <1>2, <1>4
    <2>. QED  BY <2>1, <2>2, <2>3, <2>4, <2>5 DEF CubeInv
  <1>20. RowsInv'
    <2>. DEFINE n == Len(rows)
    <2>1. /\ {rows[i].id : i \in 1..n}
                = {id \in 0..assumption_id - 1 : cfg.selected_assumption \in {-1, id}}
          /\ \A i, j \in 1..n : i < j => rows[i].id < rows[j].id
          /\ \A i \in 1..n : IsList(rows[i].id, rows[i].list)
          /\ OnlyRefusalsMix
      BY <1>1 DEF QuapifyInv, RowsInv
    <2>3. \A id \in 0..assumption_id : id \in 0..assumption_id - 1 \/ id = assumption_id
      BY <1>4
    <2>4. CASE rows' = rows
      <3>1. ~Selected
        BY <1>14, <2>4
      <3>2. {id \in 0..assumption_id - 1 : cfg.selected_assumption \in {-1, id}}
              = {id \in 0..assumption_id' - 1 : cfg'.selected_assumption \in {-1, id}}
        BY <1>2, <1>4, <2>3, <3>1 DEF Selected
      <3>3. {rows'[i].id : i \in 1..Len(rows')}
              = {id \in 0..assumption_id' - 1 : cfg'.selected_assumption \in {-1, id}}
        BY <2>1, <2>4, <3>2
      <3>4. \A i, j \in 1..Len(rows') : i < j => rows'[i].id < rows'[j].id
        BY <2>1, <2>4
      <3>5. ASSUME NEW i \in 1..Len(rows') PROVE IsList(rows[i].id, rows[i].list)'
        <4>1. IsList(rows[i].id, rows[i].list)
          BY <2>1, <2>4
        <4>. QED  BY <1>2, <2>4, <4>1 DEF IsList, Zeros
      <3>6. OnlyRefusalsMix'
        BY <2>1, <2>4 DEF OnlyRefusalsMix
      <3>. QED  BY <3>3, <3>4, <3>5, <3>6 DEF RowsInv
    <2>5. CASE rows' # rows
      <3>1. /\ Selected /\ Len(rows') = n + 1 /\ n \in Nat
            /\ \A i \in 1..n : rows'[i] = rows[i]
            /\ row = rows'[n + 1] /\ row.id = assumption_id /\ row.list = list
            /\ row.answered => row.cube = Child
        BY <1>15, <2>5 DEF row
      <3>. HIDE DEF n, list
      <3>2. \A i \in 1..n + 1 : i \in 1..n \/ i = n + 1
        BY <3>1
      <3>3. \A i \in 1..n : rows[i].id \in 0..assumption_id - 1
        BY <2>1
      <3>4. {rows'[i].id : i \in 1..n + 1}
              = {id \in 0..assumption_id : cfg.selected_assumption \in {-1, id}}
        <4>1. {rows'[i].id : i \in 1..n + 1} = {rows[i].id : i \in 1..n} \cup {assumption_id}
          <5>1. \A i \in 1..n : i \in 1..n + 1
            BY <3>1
          <5>2. n + 1 \in 1..n + 1
            BY <3>1
          <5>. QED  BY <3>1, <3>2, <5>1, <5>2
        <4>2. {id \in 0..assumption_id : cfg.selected_assumption \in {-1, id}}
                = {id \in 0..assumption_id - 1 : cfg.selected_assumption \in {-1, id}}
                    \cup {assumption_id}
          <5>1. /\ \A id \in 0..assumption_id - 1 : id \in 0..assumption_id
                /\ assumption_id \in 0..assumption_id
            BY <1>4
          <5>. QED  BY <2>3, <3>1, <5>1 DEF Selected
        <4>. QED  BY <2>1, <4>1, <4>2
      <3>5. assumption_id' - 1 = assumption_id
        BY <1>2, <1>4
      <3>6. ASSUME NEW i \in 1..n + 1, NEW j \in 1..n + 1, i < j
            PROVE  rows'[i].id < rows'[j].id
        <4>1. i \in 1..n
          BY <3>1, <3>6
        <4>2. CASE j = n + 1
          <5>1. rows'[i].id \in 0..assumption_id - 1 /\ rows'[j].id = assumption_id
            BY <3>1, <3>3, <4>1, <4>2
          <5>. QED  BY <1>4, <5>1
        <4>3. CASE j # n + 1
          <5>1. j \in 1..n
            BY <3>2, <4>3
          <5>. QED  BY <2>1, <3>1, <3>6, <4>1, <5>1
        <4>. QED  BY <4>2, <4>3
      <3>7. ASSUME NEW i \in 1..n + 1 PROVE IsList(rows[i].id, rows[i].list)'
        <4>1. IsList(rows'[i].id, rows'[i].list)
          <5>1. CASE i \in 1..n
            BY <2>1, <3>1, <5>1
          <5>2. CASE i = n + 1
            BY <1>10, <3>1, <5>2
          <5>. QED  BY <3>2, <5>1, <5>2
        <4>. QED  BY <1>2, <4>1 DEF IsList, Zeros
      <3>8. ASSUME NEW i \in 1..n + 1, rows'[i].answered,
                   i = 1 \/ rows'[i - 1].answered
            PROVE  rows'[i].cube = rows'[i].list
        <4>1. CASE i \in 1..n
          <5>1. i = 1 \/ i - 1 \in 1..n
            BY <3>1, <4>1
          <5>2. rows[i].answered /\ (i = 1 \/ rows[i - 1].answered)
            BY <3>1, <3>8, <4>1, <5>1
          <5>. QED  BY <2>1, <3>1, <4>1, <5>2 DEF OnlyRefusalsMix, n
        <4>2. CASE i = n + 1
          <5>1. ~Leftovers
            <6>1. CASE n = 0
              <7>1. rows = <<>>
                BY <1>5, <6>1, EmptySeq DEF n
              <7>. QED  BY <7>1 DEF Leftovers
            <6>2. CASE n # 0
              <7>1. n \in 1..n /\ i # 1 /\ i - 1 = n
                BY <3>1, <4>2, <6>2
              <7>2. rows[n].answered
                BY <3>1, <3>8, <7>1
              <7>. QED  BY <7>2 DEF Leftovers, n
            <6>. QED  BY <6>1, <6>2
          <5>2. Child = list
            BY <1>6, <3>1, <5>1
          <5>. QED  BY <3>1, <3>8, <4>2, <5>2
        <4>. QED  BY <3>2, <4>1, <4>2
      <3>9. OnlyRefusalsMix'
        BY <3>1, <3>8 DEF OnlyRefusalsMix
      <3>10. {rows'[i].id : i \in 1..Len(rows')}
              = {id \in 0..assumption_id' - 1 : cfg'.selected_assumption \in {-1, id}}
        BY <1>2, <3>1, <3>4, <3>5
      <3>. QED  BY <3>1, <3>6, <3>7, <3>9, <3>10 DEF RowsInv
    <2>. QED  BY <2>4, <2>5
  <1>. QED  BY <1>13, <1>17, <1>18, <1>19, <1>20 DEF QuapifyInv
-----------------------------------------------------------------------------
(***************************************************************************)
(* The invariant, and what follows from it.                                *)
(***************************************************************************)
LEMMA QuapifyInit == Init => QuapifyInv
  <1>1. SUFFICES ASSUME Init PROVE QuapifyInv
    OBVIOUS
  <1>2. /\ pc = "cli" /\ args \in CommandLines /\ file \in Files
        /\ pos = 0 /\ parser = NewParser /\ cfg = EmptyConfig
        /\ quantifiers = <<>> /\ varcount = 0 /\ clausecount = 0
        /\ intsplits_state = <<>> /\ lib = Library!FreshSolver /\ given = <<>>
        /\ ass = 1 /\ assstart = 1 /\ assumption_id = 0 /\ rows = <<>>
    BY <1>1 DEF Init
  <1>3. EmptyConfig \in Configs
    BY DEF EmptyConfig, Configs
  <1>4. Library!FreshSolver \in Library!Solvers
    BY DEF Library!FreshSolver, Library!Solvers, Library!LibStates
  <1>5. NewParser \in Parsers
    BY DEF NewParser, Parsers
  <1>6. InputInv
    BY <1>2, QuapifyAssumption DEF InputInv
  <1>7. Untouched
    <2>1. Library!NeedsFork(lib) /\ lib.written_assumptions = 0 /\ lib.written_clauses = 0
      BY <1>2 DEF Library!NeedsFork, Library!FreshSolver
    <2>. QED  BY <1>2, <1>4, <2>1 DEF Untouched
  <1>8. CursorInv /\ CubeInv /\ RowsInv
    BY <1>7, LoopNotBegun
  <1>9. TypeOK
    <2>1. Len(file) \in Nat
      BY <1>2, QuapifyAssumption, LenProperties
    <2>2. cfg.assumptions = <<>> /\ cfg.assumptions_count = 0
      BY <1>2 DEF EmptyConfig
    <2>3. /\ pos \in 0..Len(file) /\ ass \in 1 .. Len(cfg.assumptions) + 1
          /\ assstart \in 1..ass /\ assumption_id \in 0..cfg.assumptions_count
      BY <1>2, <2>1, <2>2
    <2>4. /\ quantifiers \in Seq(Int \ {0}) /\ intsplits_state \in Seq(Nat)
          /\ given \in Seq(Int \ {0})
      BY <1>2
    <2>5. rows \in Seq([id : Nat, list : Seq(Int), answered : BOOLEAN, cube : Seq(Int)])
      BY <1>2, EmptySeq
    <2>. QED  BY <1>2, <1>3, <1>4, <1>5, <2>3, <2>4, <2>5 DEF TypeOK
  <1>10. PassInv
    BY <1>2 DEF PassInv
  <1>11. ListsInv
    <2>1. /\ cfg.assumptions = <<>> /\ cfg.assumptions_count = 0
          /\ cfg.current_assumption_size = 0
      BY <1>2 DEF EmptyConfig
    <2>2. Len(cfg.assumptions) = 0 /\ 1..0 = {}
      BY <2>1
    <2>3. ZerosOf(cfg.assumptions, 0) = {}
      BY DEF ZerosOf
    <2>4. Cardinality(ZerosOf(cfg.assumptions, Len(cfg.assumptions))) = 0
      BY <2>2, <2>3, FS_EmptySet
    <2>. QED  BY <2>1, <2>2, <2>4 DEF ListsInv, Counted
  <1>. QED  BY <1>6, <1>8, <1>9, <1>10, <1>11 DEF QuapifyInv

LEMMA QuapifyStep == QuapifyInv /\ [Next]_vars => QuapifyInv'
  <1>1. SUFFICES ASSUME QuapifyInv, [Next]_vars PROVE QuapifyInv'
    OBVIOUS
  <1>2. CASE parse_cli
    BY <1>1, <1>2, CliStep
  <1>3. CASE CliParsed
    BY <1>1, <1>3, CliParsedStep
  <1>4. CASE FirstPass
    BY <1>1, <1>4, FirstPassStep
  <1>5. CASE SecondPass
    BY <1>1, <1>5, SecondPassStep
  <1>6. CASE StartInflate \/ inflate_intsplits
    BY <1>1, <1>6, InflateStep
  <1>7. CASE StartSolver
    BY <1>1, <1>7, StartSolverStep
  <1>8. CASE SkipLiteral \/ AssumeLiteral
    BY <1>1, <1>8, LiteralStep
  <1>9. CASE AssumeFails \/ AllSolved
    BY <1>1, <1>9, LoopEndsStep
  <1>10. CASE SolveList
    BY <1>1, <1>10, SolveListStep
  <1>11. CASE UNCHANGED vars
    <2>1. UNCHANGED <<pc, args, file, pos, parser, cfg, quantifiers, varcount, clausecount,
                      intsplits_state, lib, given, ass, assstart, assumption_id, rows>>
      BY <1>11 DEF vars
    <2>2. TypeOK'
      BY <1>1, <2>1 DEF QuapifyInv, TypeOK, Library!Solvers, Library!LibStates
    <2>3. InputInv' /\ ListsInv'
      BY <1>1, <2>1 DEF QuapifyInv, InputInv, ListsInv, InsideList
    <2>4. PassInv'
      <3>1. Progress' = Progress
        BY <2>1 DEF Progress
      <3>. QED
        BY <1>1, <2>1, <3>1, Zenon DEF QuapifyInv, PassInv, Library!FreshSolver
    <2>5. CursorInv'
      BY <1>1, <2>1 DEF QuapifyInv, CursorInv, Zeros, Unbroken
    <2>6. CubeInv'
      BY <1>1, <2>1 DEF QuapifyInv, CubeInv, Leftovers, Selected, Child, Library!NeedsFork
    <2>7. RowsInv'
      BY <1>1, <2>1, RowsStay
    <2>. QED  BY <2>2, <2>3, <2>4, <2>5, <2>6, <2>7 DEF QuapifyInv
  <1>. QED
    BY <1>1, <1>2, <1>3, <1>4, <1>5, <1>6, <1>7, <1>8, <1>9, <1>10, <1>11
       DEF Next, Ended

LEMMA QuapifyInvariant == Spec => []QuapifyInv
  BY QuapifyInit, QuapifyStep, PTL DEF Spec

\* The header has room for everything that is written, whatever the formula and
\* the lists: the clauses are at most those the first pass counted, and the
\* literals of a list are at most as many as the longest one has.
LEMMA HeaderHasRoom == QuapifyInv => HeaderSuffices
  <1>1. SUFFICES ASSUME QuapifyInv, ~Leftovers
                 PROVE  lib.written_clauses <= Library!HeaderClauses
    BY DEF HeaderSuffices
  <1>. DEFINE a == cfg.assumptions
              max == cfg.assumptions_max_assumption_size
  <1>2. /\ lib \in Library!Solvers /\ clausecount \in Nat /\ cfg \in Configs
        /\ assstart \in 1..ass /\ ass \in 1 .. Len(a) + 1
    BY <1>1 DEF QuapifyInv, TypeOK
  <1>3. /\ a \in Seq(Int) /\ max \in Nat /\ cfg.current_assumption_size \in Nat
        /\ lib.written_clauses \in Nat /\ lib.written_assumptions \in Nat
    BY <1>2 DEF Configs, Library!Solvers
  <1>4. Len(a) \in Nat
    BY <1>3, LenProperties
  <1>. HIDE DEF max
  <1>5. lib.written_clauses <= clausecount + lib.written_assumptions
    BY <1>1 DEF QuapifyInv, CubeInv
  <1>6. lib.written_assumptions <= max
    <2>1. CASE ~Selected
      <3>1. lib.written_assumptions = 0
        BY <1>1, <2>1 DEF QuapifyInv, CubeInv
      <3>. QED  BY <1>3, <3>1
    <2>2. CASE Selected
      <3>1. lib.written_assumptions = ass - assstart
        BY <1>1, <2>2 DEF QuapifyInv, CubeInv
      <3>2. CASE assstart = ass
        BY <1>2, <1>3, <1>4, <3>1, <3>2
      <3>3. CASE assstart # ass
        <4>1. /\ assstart \in 1..Len(a) /\ ass - 1 \in 1..Len(a) /\ ass > 1
          BY <1>2, <1>4, <3>3
        <4>2. Unbroken(a, assstart, ass - 1) /\ cfg.current_assumption_size = 0
          BY <1>1, <4>1 DEF QuapifyInv, CursorInv
        <4>3. ass - 1 - assstart < max \/ ass - 1 - assstart < 0
          <5>1. \A i, j \in 1..Len(a) :
                   Unbroken(a, i, j) => \/ j - i < max
                                        \/ j - i < cfg.current_assumption_size
            BY <1>1 DEF QuapifyInv, ListsInv, Counted, max
          <5>. QED  BY <4>1, <4>2, <5>1
        <4>. QED  BY <1>2, <1>3, <1>4, <3>1, <3>3, <4>1, <4>3
      <3>. QED  BY <3>2, <3>3
    <2>. QED  BY <2>1, <2>2
  <1>7. Library!HeaderClauses = IF max > 0 THEN clausecount + max ELSE clausecount
    BY DEF Library!HeaderClauses, max
  <1>. QED  BY <1>2, <1>3, <1>5, <1>6, <1>7

\* At the end of the array each list has been passed.
LEMMA AllListsPassed == QuapifyInv => EveryListOnce
  <1>1. SUFFICES ASSUME QuapifyInv, pc = "done" PROVE EveryListOnce
    BY DEF EveryListOnce
  <1>2. cfg.assumptions \in Seq(Int)
    BY <1>1 DEF QuapifyInv, TypeOK, Configs
  <1>3. Len(cfg.assumptions) \in Nat
    BY <1>2, LenProperties
  <1>4. ass = Len(cfg.assumptions) + 1 /\ assumption_id = Cardinality(Zeros(ass - 1))
    BY <1>1 DEF QuapifyInv, CursorInv
  <1>5. ass - 1 = Len(cfg.assumptions)
    BY <1>3, <1>4
  <1>6. assumption_id = Cardinality(Zeros(Len(cfg.assumptions)))
    BY <1>4, <1>5
  <1>. QED  BY <1>1, <1>6 DEF QuapifyInv, RowsInv, EveryListOnce
-----------------------------------------------------------------------------
(***************************************************************************)
(* Blocks.                                                                 *)
(***************************************************************************)
\* Whether a number is in a block depends on the token in front of it.
LEMMA BlockBehind ==
    ASSUME NEW f, NEW k \in Nat \ {0}
    PROVE  InBlock(f, k + 1)
             <=> \/ f[k].kind \in {"e", "a"}
                 \/ InBlock(f, k) /\ ~(f[k].kind = "number" /\ f[k].n = 0)
  <1>. DEFINE open(b, j) == \A z \in b + 1 .. j - 1 : f[z].kind = "number" => f[z].n # 0
              block(b) == f[b].kind \in {"e", "a"}
              ends == f[k].kind = "number" /\ f[k].n = 0
  <1>1. /\ InBlock(f, k) <=> \E b \in 1..k - 1 : block(b) /\ open(b, k)
        /\ InBlock(f, k + 1) <=> \E b \in 1..k : block(b) /\ open(b, k + 1)
    <2>1. (k + 1) - 1 = k
      OBVIOUS
    <2>. QED  BY <2>1 DEF InBlock
  <1>2. open(k, k + 1)
    <2>1. k + 1 .. (k + 1) - 1 = {}
      OBVIOUS
    <2>. QED  BY <2>1
  <1>3. ASSUME NEW b \in 1..k - 1 PROVE open(b, k + 1) <=> open(b, k) /\ ~ends
    <2>1. \A z \in b + 1 .. (k + 1) - 1 : z \in b + 1 .. k - 1 \/ z = k
      OBVIOUS
    <2>2. \A z \in b + 1 .. k - 1 : z \in b + 1 .. (k + 1) - 1
      OBVIOUS
    <2>3. k \in b + 1 .. (k + 1) - 1
      OBVIOUS
    <2>. QED  BY <2>1, <2>2, <2>3
  <1>4. k \in 1..k /\ \A b \in 1..k : b = k \/ b \in 1..k - 1
    OBVIOUS
  <1>5. \A b \in 1..k - 1 : b \in 1..k
    OBVIOUS
  <1>. HIDE DEF open, block, ends
  <1>6. (\E b \in 1..k : block(b) /\ open(b, k + 1))
          <=> block(k) \/ ((\E b \in 1..k - 1 : block(b) /\ open(b, k)) /\ ~ends)
    BY <1>2, <1>3, <1>4, <1>5
  <1>7. InBlock(f, k + 1) <=> block(k) \/ (InBlock(f, k) /\ ~ends)
    BY <1>1, <1>6
  <1>. QED  BY <1>7 DEF block, ends

\* The parser keeps track of that.
LEMMA ParserBlock ==
    ASSUME NEW ps \in Parsers, NEW t \in Tokens, NEW strict,
           ps.phase \in Running, parse_dimacs(strict, ps, t).phase \in Running
    PROVE  parse_dimacs(strict, ps, t).block # "none"
             <=> \/ t.kind \in {"e", "a"}
                 \/ ps.block # "none" /\ ~(t.kind = "number" /\ t.n = 0)
  <1>. DEFINE after == parse_dimacs(strict, ps, t)
              goal == after.block # "none"
                        <=> \/ t.kind \in {"e", "a"}
                            \/ ps.block # "none" /\ ~(t.kind = "number" /\ t.n = 0)
  <1>1. \A q \in Parsers : Reject(q).phase = "rejected"
    BY DEF Reject, Parsers
  <1>2. AtEnd(strict, ps).phase \in {"accepted", "rejected"}
    BY DEF AtEnd, Reject, Parsers
  <1>3. "rejected" \notin Running /\ "accepted" \notin Running
    BY DEF Running
  <1>4. CASE ps.phase = "header"
    <2>1. after = ParseHeader(strict, ps, t)
      BY <1>4 DEF parse_dimacs
    <2>2. CASE t.kind = "problem"
      <3>. DEFINE v == t.n
                  c == t.m
                  new == [ps EXCEPT !.phase = "body", !.variables = v, !.clauses = c]
                  bad == \/ t.form = "malformed"
                         \/ t.form = "spaced" /\ strict = "PEDANTIC"
      <3>1. after = IF bad THEN Reject(new) ELSE new
        BY <2>1, <2>2 DEF ParseHeader, ParseProblem, RejectIf
      <3>2. Reject(new).phase = "rejected" /\ new.block = ps.block
        BY DEF Reject, Parsers
      <3>. HIDE DEF new, bad
      <3>3. after.block = ps.block
        BY <1>3, <3>1, <3>2
      <3>. QED  BY <2>2, <3>3
    <2>3. CASE t.kind # "problem"
      <3>1. after = ps \/ after = Reject(ps)
        BY <2>1, <2>3 DEF ParseHeader, RejectIf
      <3>2. after = ps
        BY <1>1, <1>3, <3>1
      <3>3. t.kind \in {"empty", "comment"}
        <4>1. after # Reject(ps)
          BY <1>1, <1>3
        <4>. QED  BY <2>1, <2>3, <4>1 DEF ParseHeader
      <3>. QED  BY <3>2, <3>3
    <2>. QED  BY <2>2, <2>3
  <1>5. CASE ps.phase = "body"
    <2>1. after = ParseBody(strict, ps, t)
      BY <1>5 DEF parse_dimacs
    <2>2. CASE t.kind = "number"
      <3>. DEFINE n == t.n
                  p == IF t.n = 0 /\ ps.block = "none" THEN ps.parsed + 1 ELSE ps.parsed
                  b == IF t.n = 0 THEN "none" ELSE ps.block
                  new == [ps EXCEPT !.lit = n, !.parsed = p, !.block = b]
      <3>1. after = Reject(ps) \/ after = new
        BY <2>1, <2>2 DEF ParseBody, ParseNumber
      <3>2. after = new
        BY <1>1, <1>3, <3>1
      <3>3. new.block = b
        <4>. HIDE DEF n, p, b
        <4>. QED  BY DEF Parsers
      <3>. HIDE DEF new
      <3>. QED  BY <2>2, <3>2, <3>3
    <2>3. CASE t.kind \in {"e", "a"}
      <3>. DEFINE b == IF t.kind = "e" THEN "exists" ELSE "forall"
                  new == [ps EXCEPT !.block = b]
      <3>1. after = RejectIf(ps.block # "none", new)
        BY <2>1, <2>3 DEF ParseBody
      <3>2. new \in Parsers /\ new.block = b /\ b # "none"
        BY DEF Parsers
      <3>. HIDE DEF new, b
      <3>3. after.block = b
        BY <1>1, <1>3, <3>1, <3>2 DEF RejectIf
      <3>. QED  BY <2>3, <3>2, <3>3
    <2>4. CASE t.kind \notin {"number", "e", "a"}
      <3>1. after \in {ps, Reject(ps), AtEnd(strict, ps)}
        BY <2>1, <2>4 DEF ParseBody
      <3>2. after = ps
        BY <1>1, <1>2, <1>3, <3>1
      <3>. QED  BY <2>4, <3>2
    <2>. QED  BY <2>2, <2>3, <2>4
  <1>. QED  BY <1>4, <1>5 DEF Running

\* A token moves both along.
LEMMA BlockMoves ==
    /\ QuapifyInv /\ BlockInv /\ pc \in {"pass 1", "pass 2"}
    /\ Parsed.phase \in Running
    => (Parsed.block # "none" <=> InBlock(file, (pos + 1) + 1))
  <1>1. SUFFICES ASSUME QuapifyInv, BlockInv, pc \in {"pass 1", "pass 2"},
                        Parsed.phase \in Running
                 PROVE  Parsed.block # "none" <=> InBlock(file, (pos + 1) + 1)
    OBVIOUS
  <1>2. /\ token \in Tokens /\ parser \in Parsers /\ pos \in Nat
    BY <1>1, NextToken, Zenon
  <1>3. parser.block # "none" <=> InBlock(file, pos + 1)
    BY <1>1 DEF BlockInv
  <1>4. parser.phase \in Running
    <2>1. pos \in 0..pos
      BY <1>2
    <2>. QED  BY <1>1, <2>1 DEF QuapifyInv, PassInv
  <1>5. Parsed.block # "none"
          <=> \/ token.kind \in {"e", "a"}
              \/ parser.block # "none" /\ ~(token.kind = "number" /\ token.n = 0)
    BY <1>1, <1>2, <1>4, ParserBlock DEF Parsed
  <1>. DEFINE k == pos + 1
  <1>6. k \in Nat \ {0}
    BY <1>2
  <1>7. InBlock(file, k + 1)
          <=> \/ file[k].kind \in {"e", "a"}
              \/ InBlock(file, k) /\ ~(file[k].kind = "number" /\ file[k].n = 0)
    <2>. HIDE DEF k
    <2>. QED  BY <1>6, BlockBehind
  <1>. QED  BY <1>3, <1>5, <1>7 DEF token

\* No block is open where a file begins.
LEMMA BlockBegins == \A f : ~InBlock(f, 1)
  <1>1. 1..1 - 1 = {}
    OBVIOUS
  <1>. QED  BY <1>1 DEF InBlock

LEMMA BlockStep == QuapifyInv /\ BlockInv /\ [Next]_vars => BlockInv'
  <1>1. SUFFICES ASSUME QuapifyInv, BlockInv, [Next]_vars PROVE BlockInv'
    OBVIOUS
  <1>. DEFINE here == parser.block # "none" <=> InBlock(file, pos + 1)
              seen == \E k \in 1..pos : file[k].kind = "number" /\ ~InBlock(file, k)
  <1>2. /\ pc \in {"pass 1", "pass 2"} => here
        /\ pc = "pass 2" /\ lib.state # "INPUT" => seen
    BY <1>1 DEF BlockInv
  <1>3. ASSUME pc' \notin {"pass 1", "pass 2"} PROVE BlockInv'
    BY <1>3 DEF BlockInv
  <1>4. ASSUME pos' = 0, parser' = NewParser, pc' = "pass 2" => lib'.state = "INPUT"
        PROVE  BlockInv'
    <2>1. pos' + 1 = 1 /\ parser'.block = "none"
      <3>1. pos' + 1 = 1
        <4>1. pos' = 0
          BY <1>4, Zenon
        <4>. QED  BY <4>1
      <3>2. NewParser.block = "none"
        BY DEF NewParser
      <3>. QED  BY <1>4, <3>1, <3>2
    <2>2. ~InBlock(file', pos' + 1)
      BY <2>1, BlockBegins
    <2>. QED  BY <1>4, <2>1, <2>2 DEF BlockInv
  <1>5. ASSUME pc \in {"pass 1", "pass 2"}, Parsed.phase \in Running,
               pos' = pos + 1, parser' = Parsed, file' = file
        PROVE  here'
    <2>1. Parsed.block # "none" <=> InBlock(file, (pos + 1) + 1)
      BY <1>1, <1>5, BlockMoves
    <2>. QED  BY <1>5, <2>1 DEF InBlock
  <1>6. CASE CliParsed
    <2>1. /\ pc = "cli" /\ pos' = pos /\ parser' = parser /\ pc' \in {"pass 1", "failed"}
      BY <1>6 DEF CliParsed
    <2>2. pos = 0 /\ parser = NewParser
      BY <1>1, <2>1 DEF QuapifyInv, PassInv
    <2>. QED  BY <1>4, <2>1, <2>2
  <1>7. CASE StartSolver
    <2>1. /\ pc = "ready" /\ pos' = pos /\ parser' = parser /\ lib' = lib
      BY <1>7 DEF StartSolver
    <2>2. pos = 0 /\ parser = NewParser /\ lib = Library!FreshSolver
      BY <1>1, <2>1 DEF QuapifyInv, PassInv
    <2>. QED  BY <1>4, <2>1, <2>2 DEF Library!FreshSolver
  <1>8. CASE FirstPass
    <2>1. /\ pc = "pass 1" /\ file' = file
          /\ pos' = IF Parsed.phase = "accepted" THEN 0 ELSE pos + 1
          /\ parser' = IF Parsed.phase = "accepted" THEN NewParser ELSE Parsed
          /\ pc' = CASE Parsed.phase = "accepted" -> "inflate"
                     [] Parsed.phase = "rejected" -> "failed"
                     [] OTHER -> pc
      BY <1>8 DEF FirstPass, ParserMoves, input
    <2>2. Parsed.phase \in {"header", "body", "accepted", "rejected"}
      BY <1>1, <2>1, NextToken DEF Parsers
    <2>3. CASE Parsed.phase \in Running
      <3>1. pc' = "pass 1" /\ pos' = pos + 1 /\ parser' = Parsed
        BY <2>1, <2>3 DEF Running
      <3>2. here'
        BY <1>5, <2>1, <2>3, <3>1
      <3>. QED  BY <3>1, <3>2 DEF BlockInv
    <2>4. CASE Parsed.phase \notin Running
      <3>1. pc' \in {"inflate", "failed"}
        BY <2>1, <2>2, <2>4 DEF Running
      <3>. QED  BY <1>3, <3>1
    <2>. QED  BY <2>3, <2>4
  <1>9. CASE SecondPass
    <2>1. /\ pc = "pass 2" /\ file' = file
          /\ pos' = IF Parsed.phase = "accepted" THEN 0 ELSE pos + 1
          /\ parser' = IF Parsed.phase = "accepted" THEN NewParser ELSE Parsed
          /\ pc' = CASE Parsed.phase = "accepted" -> "lists"
                     [] Parsed.phase = "rejected" -> "failed"
                     [] OTHER -> pc
          /\ lib' = CASE Called[1] = "quantify" -> Library!AfterQuantify(lib, Called[2])
                      [] Called[1] = "add"      -> Library!AfterAdd(lib, Called[2])
                      [] OTHER                  -> lib
      BY <1>9 DEF SecondPass, ParserMoves, input
    <2>2. /\ token \in Tokens /\ parser \in Parsers /\ pos \in Nat
          /\ Parsed.phase \in {"header", "body", "accepted", "rejected"}
      <3>1. token \in Tokens /\ parser \in Parsers /\ Parsed \in Parsers /\ pos \in Nat
        BY <1>1, <2>1, NextToken, Zenon
      <3>. QED  BY <3>1 DEF Parsers
    <2>3. CASE Parsed.phase \in Running
      <3>1. pc' = "pass 2" /\ pos' = pos + 1 /\ parser' = Parsed
        BY <2>1, <2>3 DEF Running
      <3>2. here'
        BY <1>5, <2>1, <2>3, <3>1
      <3>3. ASSUME lib'.state # "INPUT" PROVE seen'
        <4>1. CASE lib.state # "INPUT"
          <5>1. PICK k \in 1..pos : file[k].kind = "number" /\ ~InBlock(file, k)
            BY <1>2, <2>1, <4>1
          <5>2. k \in 1..pos + 1
            BY <2>2
          <5>. QED  BY <2>1, <3>1, <5>1, <5>2 DEF InBlock
        <4>2. CASE lib.state = "INPUT"
          <5>1. Called[1] = "add"
            <6>1. lib \in Library!Solvers
              BY <1>1 DEF QuapifyInv, TypeOK
            <6>2. Library!AfterQuantify(lib, Called[2]).state = lib.state
              BY <6>1 DEF Library!AfterQuantify, Library!Solvers
            <6>. QED  BY <2>1, <3>3, <4>2, <6>2
          <5>2. token.kind = "number" /\ parser.block = "none"
            BY <2>2, <5>1, CallOf DEF Called
          <5>3. ~InBlock(file, pos + 1)
            BY <1>2, <2>1, <5>2
          <5>4. pos + 1 \in 1..pos + 1
            BY <2>2
          <5>5. file[pos + 1].kind = "number"
            BY <5>2 DEF token
          <5>. QED  BY <2>1, <3>1, <5>3, <5>4, <5>5 DEF InBlock
        <4>. QED  BY <4>1, <4>2
      <3>. QED  BY <3>1, <3>2, <3>3 DEF BlockInv
    <2>4. CASE Parsed.phase \notin Running
      <3>1. pc' \in {"lists", "failed"}
        BY <2>1, <2>2, <2>4 DEF Running
      <3>. QED  BY <1>3, <3>1
    <2>. QED  BY <2>3, <2>4
  <1>10. CASE parse_cli
    <2>1. pc' \in {"cli", "exited", "failed"}
      BY <1>10 DEF parse_cli, TakeNumber, TakeNothing, MissNumber, TakeOption
    <2>. QED  BY <1>3, <2>1
  <1>11. CASE StartInflate \/ inflate_intsplits
    <2>1. pc' \in {"inflate", "ready", "failed"}
      BY <1>11 DEF StartInflate, inflate_intsplits
    <2>. QED  BY <1>3, <2>1
  <1>12. CASE SkipLiteral \/ AssumeFails \/ AssumeLiteral \/ SolveList \/ AllSolved
    <2>1. pc' \in {"lists", "failed", "done"}
      BY <1>12 DEF SkipLiteral, AssumeFails, AssumeLiteral, SolveList, AllSolved
    <2>. QED  BY <1>3, <2>1
  <1>13. CASE UNCHANGED vars
    <2>1. /\ pc' = pc /\ file' = file /\ pos' = pos /\ parser' = parser /\ lib' = lib
      BY <1>13 DEF vars
    <2>2. \A k : InBlock(file', k) <=> InBlock(file, k)
      BY <2>1 DEF InBlock
    <2>3. pc' \in {"pass 1", "pass 2"} => (parser'.block # "none" <=> InBlock(file', pos' + 1))
      BY <1>2, <2>1, <2>2
    <2>4. ASSUME pc' = "pass 2", lib'.state # "INPUT" PROVE seen'
      <3>1. seen
        BY <1>2, <2>1, <2>4
      <3>. QED  BY <2>1, <2>2, <3>1
    <2>. QED  BY <2>3, <2>4 DEF BlockInv
  <1>. QED
    BY <1>1, <1>6, <1>7, <1>8, <1>9, <1>10, <1>11, <1>12, <1>13 DEF Next, Ended

\* A clause in front of a block would be a number outside of all blocks, which a
\* file whose prefix comes first does not have.
LEMMA BlocksAllowCalls ==
    ASSUME PrefixFirst
    PROVE  QuapifyInv /\ BlockInv => CallsAllowed
  <1>1. SUFFICES ASSUME QuapifyInv, BlockInv PROVE CallsAllowed
    OBVIOUS
  <1>2. ASSUME pc = "pass 2", Called[1] = "quantify" PROVE Library!CanQuantify(lib)
    <2>1. SUFFICES ASSUME lib.state # "INPUT" PROVE FALSE
      BY DEF Library!CanQuantify
    <2>2. token \in Tokens /\ parser \in Parsers /\ pos \in Nat
          /\ pos + 1 \in 1..Len(file) /\ Len(file) \in Nat
      BY <1>1, <1>2, NextToken, Zenon
    <2>3. parser.block # "none"
      BY <1>2, <2>2, CallOf DEF Called
    <2>4. InBlock(file, pos + 1)
      BY <1>1, <1>2, <2>3 DEF BlockInv
    <2>5. PICK b \in 1..(pos + 1) - 1 :
              /\ file[b].kind \in {"e", "a"}
              /\ \A z \in b + 1 .. (pos + 1) - 1 : file[z].kind = "number" => file[z].n # 0
      BY <2>4 DEF InBlock
    <2>6. PICK k \in 1..pos : file[k].kind = "number" /\ ~InBlock(file, k)
      BY <1>1, <1>2, <2>1 DEF BlockInv
    <2>7. b \in 1..pos /\ b \in 1..Len(file) /\ b # k
      BY <2>2, <2>5, <2>6
    <2>8. CASE k < b
      <3>1. k \in 1..b - 1 /\ file \in Files
        BY <1>1, <2>2, <2>7, <2>8 DEF QuapifyInv, InputInv
      <3>2. InBlock(file, k)
        BY <2>5, <2>6, <2>7, <3>1 DEF PrefixFirst
      <3>. QED  BY <2>6, <3>2
    <2>9. CASE b < k
      <3>1. /\ b \in 1..k - 1
            /\ \A z \in b + 1 .. k - 1 : z \in b + 1 .. (pos + 1) - 1
        BY <2>2, <2>7, <2>9
      <3>2. InBlock(file, k)
        BY <2>5, <3>1 DEF InBlock
      <3>. QED  BY <2>6, <3>2
    <2>. QED  BY <2>2, <2>7, <2>8, <2>9
  <1>3. ASSUME pc = "pass 2" PROVE Library!CanAdd(lib)
    <2>1. lib.state = IF Progress[pos].added THEN "INPUT_LITERALS" ELSE "INPUT"
      BY <1>1, <1>3 DEF QuapifyInv, PassInv
    <2>. QED  BY <2>1 DEF Library!CanAdd
  <1>4. ASSUME pc = "lists", ass <= Len(cfg.assumptions), element # 0, MayAssume
        PROVE  Library!CanAssume(lib)
    <2>1. element \in Int
      BY <1>1, <1>4, AtElement
    <2>2. varcount \in Nat /\ lib \in Library!Solvers
      BY <1>1 DEF QuapifyInv, TypeOK
    <2>3. varcount > 0
      <3>1. Abs(element) <= varcount
        BY <1>4 DEF MayAssume
      <3>2. Abs(element) \in Nat \ {0}
        BY <1>4, <2>1 DEF Abs
      <3>. QED  BY <2>2, <3>1, <3>2
    <2>4. lib.state # "INPUT" /\ lib.state # "WORKING"
      BY <1>1, <1>4, <2>3 DEF QuapifyInv, PassInv, CubeInv
    <2>. QED  BY <2>2, <2>4 DEF Library!CanAssume, Library!Solvers, Library!LibStates
  <1>. QED  BY <1>2, <1>3, <1>4 DEF CallsAllowed

LEMMA AnsweredStep == QuapifyInv /\ AnsweredInv /\ [Next]_vars => AnsweredInv'
  <1>1. SUFFICES ASSUME QuapifyInv, AnsweredInv, [Next]_vars, AllowMissing
                 PROVE  \A i \in 1..Len(rows') : rows'[i].answered
    BY DEF AnsweredInv
  <1>2. \A i \in 1..Len(rows) : rows[i].answered
    BY <1>1 DEF AnsweredInv
  <1>3. rows' = rows \/ rows' = Append(rows, Row(TRUE, Child))
    <2>1. CASE SolveList
      BY <1>1, <2>1 DEF SolveList, Library!SolveRefused
    <2>2. CASE ~SolveList
      BY <1>1, <2>2 DEF Next, vars, parse_cli, CliParsed, FirstPass, SecondPass,
         StartInflate, inflate_intsplits, StartSolver, SkipLiteral, AssumeFails,
         AssumeLiteral, AllSolved, Ended
    <2>. QED  BY <2>1, <2>2
  <1>. DEFINE row == Row(TRUE, Child)
  <1>4. row.answered = TRUE
    BY DEF Row
  <1>5. rows \in Seq(Rows) /\ row \in Rows
    <2>1. cfg.assumptions \in Seq(Int) /\ assstart \in 1..ass
          /\ ass \in 1 .. Len(cfg.assumptions) + 1 /\ assumption_id \in Nat
          /\ given \in Seq(Int \ {0}) /\ rows \in Seq(Rows)
      <3>1. /\ cfg \in Configs /\ assumption_id \in 0..cfg.assumptions_count
            /\ assstart \in 1..ass /\ ass \in 1 .. Len(cfg.assumptions) + 1
            /\ given \in Seq(Int \ {0}) /\ rows \in Seq(Rows)
        BY <1>1 DEF QuapifyInv, TypeOK, Rows
      <3>2. cfg.assumptions \in Seq(Int) /\ cfg.assumptions_count \in Nat
        BY <3>1 DEF Configs
      <3>. QED  BY <3>1, <3>2
    <2>2. Len(cfg.assumptions) \in Nat
      BY <2>1, LenProperties
    <2>3. SubSeq(cfg.assumptions, assstart, ass - 1) \in Seq(Int)
      <3>1. \A k \in assstart .. ass - 1 : k \in 1..Len(cfg.assumptions)
        BY <2>1, <2>2
      <3>2. \A k \in assstart .. ass - 1 : cfg.assumptions[k] \in Int
        BY <2>1, <3>1, ElementOfSeq
      <3>3. assstart \in Int /\ ass - 1 \in Int
        BY <2>1, <2>2
      <3>. QED  BY <3>2, <3>3, SubSeqProperties
    <2>4. Child \in Seq(Int)
      <3>1. Child \in Seq(Int \ {0})
        BY <2>1 DEF Child
      <3>. QED  BY <3>1, SeqMonotonic
    <2>. QED  BY <2>1, <2>3, <2>4 DEF Row, Rows
  <1>. HIDE DEF row
  <1>6. CASE rows' = Append(rows, row)
    <2>1. /\ Len(rows') = Len(rows) + 1 /\ rows'[Len(rows) + 1] = row
          /\ \A i \in 1..Len(rows) : rows'[i] = rows[i]
          /\ Len(rows) \in Nat
      BY <1>5, <1>6, AppendProperties, LenProperties
    <2>2. \A i \in 1..Len(rows') : i \in 1..Len(rows) \/ i = Len(rows) + 1
      BY <2>1
    <2>. QED  BY <1>2, <1>4, <2>1, <2>2
  <1>. QED  BY <1>2, <1>3, <1>6 DEF row
-----------------------------------------------------------------------------
(***************************************************************************)
(* The expansion of the splits.                                            *)
(***************************************************************************)
\* Before the first pass there is nothing to expand.
LEMMA SplitsBegin == Init => SplitsInv
  BY DEF Init, SplitsInv

\* main starts with the digits of 0, and with no list behind them.
LEMMA StartsAtZero ==
    ASSUME QuapifyInv, StartInflate PROVE SplitsInv'
  <1>. DEFINE s == cfg.intsplits
              n == Len(s)
              zeros == [d \in 1..n |-> 0]
              v == [d \in 0..n |-> 0]
  <1>1. /\ cfg' = cfg /\ quantifiers' = quantifiers
        /\ \/ s = <<>> /\ pc' = "ready"
           \/ pc' = "failed"
           \/ s # <<>> /\ pc' = "inflate" /\ intsplits_state' = zeros
    BY DEF StartInflate, counts
  <1>2. s \in Seq(Splits) /\ n \in Nat /\ cfg.assumptions_count \in Nat
    <2>1. cfg \in Configs
      BY DEF QuapifyInv, TypeOK
    <2>. QED  BY <2>1, LenProperties DEF Configs
  <1>3. \A d \in 1..n : s[d] \in Nat /\ s[d] > 0
    <2>1. ASSUME NEW d \in 1..n PROVE s[d] \in Nat /\ s[d] > 0
      BY <1>2, ElementOfSeq, Ints
    <2>. QED  BY <2>1
  <1>4. zeros \in Seq(Nat) /\ Len(zeros) = n /\ \A d \in 1..n : zeros[d] = 0
    <2>. HIDE DEF n
    <2>. QED  BY <1>2
  <1>5. s # <<>> => n >= 1
    BY <1>2, EmptySeq
  <1>6. ASSUME s # <<>> PROVE Digits(s, zeros)
    <2>1. 1 \in 1..n /\ \A d \in 2..n : d \in 1..n
      <3>. HIDE DEF n
      <3>. QED  BY <1>2, <1>5, <1>6
    <2>. HIDE DEF s, zeros
    <2>2. zeros[1] = 0 /\ zeros[1] < s[1] /\ s[1] \in Nat
      BY <1>3, <1>4, <2>1
    <2>3. \A d \in 2..n : zeros[d] = 0 /\ zeros[d] < s[d]
      BY <1>3, <1>4, <2>1
    <2>. QED  BY <1>4, <2>2, <2>3 DEF Digits
  <1>7. Values(s, zeros, v) /\ v[n] = 0
    <2>. HIDE DEF n
    <2>1. /\ v \in [0..n -> Nat] /\ \A d \in 0..n : v[d] = 0
      OBVIOUS
    <2>2. 0 \in 0..n /\ n \in 0..n /\ \A d \in 1..n : d \in 0..n /\ d - 1 \in 0..n
      BY <1>2
    <2>. HIDE DEF v, zeros, s
    <2>3. ASSUME NEW d \in 1..n PROVE v[d] = v[d - 1] * s[d] + zeros[d]
      <3>1. v[d] = 0 /\ v[d - 1] = 0 /\ zeros[d] = 0 /\ s[d] \in Nat
        BY <1>3, <1>4, <2>1, <2>2
      <3>2. 0 * s[d] = 0
        BY <3>1
      <3>. QED  BY <3>1, <3>2
    <2>. QED  BY <2>1, <2>2, <2>3 DEF Values, n
  <1>8. InflatedTo(cfg, quantifiers, 0)
    <2>1. \A i \in 0..0 - 1 : FALSE
      OBVIOUS
    <2>. QED  BY <1>2, <2>1 DEF InflatedTo
  <1>. HIDE DEF s, n, zeros, v
  <1>9. CASE s = <<>> /\ pc' = "ready"
    BY <1>1, <1>9 DEF SplitsInv, s
  <1>10. CASE pc' = "failed"
    BY <1>10 DEF SplitsInv
  <1>11. CASE s # <<>> /\ pc' = "inflate" /\ intsplits_state' = zeros
    <2>1. /\ Digits(cfg'.intsplits, intsplits_state')
          /\ Values(cfg'.intsplits, intsplits_state', v)
          /\ InflatedTo(cfg', quantifiers', v[Len(cfg'.intsplits)])
          /\ cfg'.intsplits # <<>>
      BY <1>1, <1>6, <1>7, <1>8, <1>11 DEF s, n
    <2>. QED  BY <1>11, <2>1 DEF SplitsInv
  <1>. QED  BY <1>1, <1>9, <1>10, <1>11

\* A turn of its loop writes the next combination, or finds that there is none.
LEMMA TurnOfInflate ==
    ASSUME QuapifyInv, QuapifyInv', SplitsInv, inflate_intsplits PROVE SplitsInv'
  <1>. DEFINE s == cfg.intsplits
              n == Len(s)
              q == quantifiers
              state == intsplits_state
              list == intsplit_state_to_assumption(cfg, q, state)
              next == NextCombination(cfg, state)
  <1>1. /\ pc = "inflate" /\ state # <<>> /\ quantifiers' = q
        /\ \/ state[1] > s[1] - 1 /\ pc' = "ready" /\ cfg' = cfg
           \/ pc' = "failed"
           \/ /\ ~(state[1] > s[1] - 1) /\ pc' = pc
              /\ ~SplitsTooLong(cfg, q)
              /\ cfg' = AddList(cfg, list) /\ intsplits_state' = next
    BY DEF inflate_intsplits, counts
  <1>2. /\ cfg \in Configs /\ q \in Seq(Int \ {0}) /\ intsplits_state' \in Seq(Nat)
        /\ Counted(cfg)
        /\ cfg.current_assumption_size > 0 => InsideList
    BY <1>1 DEF QuapifyInv, TypeOK, ListsInv
  <1>3. cfg.current_assumption_size = 0
    <2>1. cfg.current_assumption_size \in Nat /\ ~InsideList
      BY <1>1, <1>2 DEF Configs, InsideList
    <2>. QED  BY <1>2, <2>1
  <1>4. s # <<>> /\ Digits(s, state)
    BY <1>1 DEF SplitsInv
  <1>5. PICK v : Values(s, state, v) /\ InflatedTo(cfg, q, v[n])
    BY <1>1 DEF SplitsInv
  <1>6. s \in Seq(Splits) /\ n \in Nat /\ n >= 1
    <2>1. s \in Seq(Splits)
      BY <1>2 DEF Configs
    <2>. QED  BY <1>4, <2>1, EmptySeq, LenProperties
  <1>7. state \in Seq(Nat) /\ Len(state) = n /\ state[1] <= s[1]
    BY <1>4 DEF Digits
  <1>8. s[1] \in Nat /\ state[1] \in Nat /\ v[n] \in Nat
    <2>1. 1 \in 1..n /\ n \in 0..n
      <3>. HIDE DEF n
      <3>. QED  BY <1>6
    <2>2. s[1] \in Nat
      BY <1>6, <2>1, ElementOfSeq, Ints
    <2>3. state[1] \in Nat
      <3>1. 1 \in 1..Len(state)
        BY <1>7, <2>1
      <3>. QED  BY <1>7, <3>1, ElementOfSeq
    <2>4. v[n] \in Nat
      BY <1>5, <2>1 DEF Values
    <2>. QED  BY <2>2, <2>3, <2>4
  <1>9. CASE state[1] > s[1] - 1 /\ pc' = "ready" /\ cfg' = cfg
    <2>1. state[1] = s[1]
      <3>. HIDE DEF s, state
      <3>. QED  BY <1>7, <1>8, <1>9
    <2>2. v[n] = Product(s)
      BY <1>4, <1>5, <1>6, <2>1, LastNumber
    <2>3. InflatedTo(cfg', quantifiers', Product(cfg'.intsplits))
      BY <1>1, <1>5, <1>9, <2>2
    <2>. QED  BY <1>9, <2>3 DEF SplitsInv
  <1>10. CASE pc' = "failed"
    BY <1>10 DEF SplitsInv
  <1>11. CASE /\ ~(state[1] > s[1] - 1) /\ pc' = pc
              /\ ~SplitsTooLong(cfg, q)
              /\ cfg' = AddList(cfg, list) /\ intsplits_state' = next
    <2>1. state[1] < s[1]
      <3>. HIDE DEF s, state
      <3>. QED  BY <1>8, <1>11
    <2>2. list \in Seq(Int \ {0})
      BY <1>2, <1>11, SplitListType
    <2>3. cfg'.intsplits = s
      <3>1. list \in Seq(Int)
        BY <2>2, SeqMonotonic
      <3>2. AddList(cfg, list).intsplits = s
        BY <1>2, <3>1, AddListType
      <3>. QED  BY <1>11, <3>2
    <2>4. next \in Seq(Nat) /\ Len(next) = n
      <3>1. next \in Seq(Nat)
        BY <1>2, <1>11
      <3>2. DOMAIN next = 1..n
        BY <1>7 DEF NextCombination
      <3>3. DOMAIN next = 1..Len(next) /\ Len(next) \in Nat
        BY <3>1, LenProperties
      <3>. HIDE DEF next, n
      <3>. QED  BY <1>6, <3>1, <3>2, <3>3
    <2>5. PICK w : Values(s, next, w)
      BY <1>6, <2>4, ValuesExist
    <2>6. Digits(s, next) /\ w[n] = v[n] + 1
      BY <1>2, <1>4, <1>5, <2>1, <2>5, NextNumber
    <2>7. list = Combination(s, q, v[n])
      BY <1>2, <1>4, <1>5, <1>11, <2>1, CombinationOfState
    <2>8. InflatedTo(AddList(cfg, list), q, v[n] + 1)
      <3>. HIDE DEF list, q, n
      <3>. QED  BY <1>2, <1>3, <1>5, <1>8, <2>2, <2>7, OneMore
    <2>. HIDE DEF s, n, q, state, list, next
    <2>9. /\ cfg'.intsplits # <<>> /\ Digits(cfg'.intsplits, intsplits_state')
          /\ Values(cfg'.intsplits, intsplits_state', w)
          /\ InflatedTo(cfg', quantifiers', w[Len(cfg'.intsplits)])
      <3>1. Len(cfg'.intsplits) = n
        BY <2>3 DEF n
      <3>. QED  BY <1>1, <1>4, <1>11, <2>3, <2>5, <2>6, <2>8, <3>1
    <2>. QED  BY <1>1, <1>11, <2>9 DEF SplitsInv
  <1>. QED  BY <1>1, <1>9, <1>10, <1>11

\* Nothing else happens to the lists while main is between the passes.
LEMMA SplitsStep ==
    QuapifyInv /\ SplitsInv /\ [Next]_vars => SplitsInv'
  <1>1. SUFFICES ASSUME QuapifyInv, SplitsInv, [Next]_vars PROVE SplitsInv'
    OBVIOUS
  <1>2. CASE StartInflate
    BY <1>1, <1>2, StartsAtZero
  <1>3. CASE inflate_intsplits
    <2>1. QuapifyInv'
      BY <1>1, QuapifyStep
    <2>. QED  BY <1>1, <1>3, <2>1, TurnOfInflate
  <1>4. CASE parse_cli \/ CliParsed \/ FirstPass
    <2>1. /\ pc \in {"cli", "pass 1"} /\ intsplits_state' = intsplits_state
          /\ pc' # "ready"
      BY <1>1, <1>4 DEF parse_cli, CliParsed, FirstPass, ParserMoves, TakeNumber, TakeNothing,
         MissNumber, TakeOption
    <2>. QED  BY <1>1, <2>1 DEF SplitsInv
  <1>5. CASE UNCHANGED vars
    BY <1>1, <1>5 DEF SplitsInv, vars
  <1>6. CASE \/ SecondPass \/ StartSolver \/ SkipLiteral \/ AssumeFails
             \/ AssumeLiteral \/ SolveList \/ AllSolved
    <2>1. pc' \notin {"cli", "pass 1", "inflate", "ready"}
      BY <1>6 DEF SecondPass, StartSolver, SkipLiteral, AssumeFails, AssumeLiteral,
         SolveList, AllSolved, ParserMoves
    <2>. QED  BY <1>1, <2>1 DEF SplitsInv
  <1>. QED  BY <1>1, <1>2, <1>3, <1>4, <1>5, <1>6 DEF Next, Ended

\* What the invariants say of the array is what the reference asks for.
LEMMA ExactlyInflated == QuapifyInv /\ SplitsInv => SplitsExact
  <1>1. SUFFICES ASSUME QuapifyInv, SplitsInv, pc = "ready" PROVE SplitsExact
    BY DEF SplitsExact
  <1>. DEFINE array == cfg.assumptions
              n == Len(array)
              max == cfg.assumptions_max_assumption_size
              size == cfg.current_assumption_size
              count == cfg.assumptions_count
  <1>2. /\ cfg \in Configs /\ Counted(cfg)
        /\ size > 0 => InsideList
    BY <1>1 DEF QuapifyInv, TypeOK, ListsInv
  <1>3. array \in Seq(Int) /\ n \in Nat /\ max \in Nat /\ size \in Nat /\ count \in Nat
    BY <1>2, LenProperties DEF Configs
  <1>4. size = 0
    <2>1. ~InsideList
      BY <1>1 DEF InsideList
    <2>. HIDE DEF size
    <2>. QED  BY <1>2, <1>3, <2>1
  <1>5. count = Cardinality(Zeros(n))
    <2>1. ZerosOf(array, n) = Zeros(n)
      BY DEF ZerosOf, Zeros
    <2>. QED  BY <1>2, <2>1 DEF Counted
  <1>6. ASSUME NEW i \in 1..n, NEW j \in 1..n, \A k \in i..j : array[k] # 0
        PROVE  j - i < max
    <2>1. Unbroken(array, i, j)
      BY <1>6 DEF Unbroken
    <2>2. j - i < max \/ j - i < size
      BY <1>2, <2>1 DEF Counted
    <2>. HIDE DEF n, max, size
    <2>. QED  BY <1>3, <1>4, <2>2
  <1>7. ASSUME cfg.intsplits # <<>> PROVE Inflated(Product(cfg.intsplits))
    <2>. DEFINE p == Product(cfg.intsplits)
    <2>1. InflatedTo(cfg, quantifiers, p)
      BY <1>1, <1>7 DEF SplitsInv
    <2>. HIDE DEF p
    <2>2. p <= count /\ \A i \in 0..p - 1 :
             ListAt(array, (count - p) + i, Combination(cfg.intsplits, quantifiers, i))
      BY <2>1 DEF InflatedTo
    <2>3. \A i \in 0..p - 1 :
             IsList((count - p) + i, Combination(cfg.intsplits, quantifiers, i))
      BY <1>3, <2>2, ListIs
    <2>. HIDE DEF count
    <2>4. Inflated(p)
      BY <1>5, <2>2, <2>3 DEF Inflated
    <2>. QED  BY <2>4 DEF p
  <1>. QED  BY <1>5, <1>6, <1>7 DEF SplitsExact
-----------------------------------------------------------------------------
(***************************************************************************)
(* The theorems.                                                           *)
(***************************************************************************)
\* main, the parser and the lists keep every variable within its type, for any
\* files and command lines: quantifiers and assumptions are never 0, the cursor
\* stays in the array, and no list is numbered beyond the counter of lists.
THEOREM QuapifyTypes == Spec => []TypeOK
  <1>1. QuapifyInv => TypeOK
    BY DEF QuapifyInv
  <1>. QED  BY <1>1, QuapifyInvariant, PTL

\* quapi_add and quapi_assume write no more clauses to the child than the header
\* says: main announces what the first pass and the lists have counted.
THEOREM QuapifyHeader == Spec => []HeaderSuffices
  BY HeaderHasRoom, QuapifyInvariant, PTL

\* solve_with_assumptions prints the answer to a cube next to the list that is
\* this cube, unless the solve of the list before was refused.
THEOREM QuapifyAnswers == Spec => []OnlyRefusalsMix
  <1>1. QuapifyInv => OnlyRefusalsMix
    BY DEF QuapifyInv, RowsInv
  <1>. QED  BY <1>1, QuapifyInvariant, PTL

\* With QUAPI_ALLOW_MISSING_UNIVERSAL_ASSUMPTIONS quapi_solve refuses nothing, so
\* that every answer belongs to its list.
THEOREM QuapifyAllAnswers ==
    ASSUME AllowMissing
    PROVE  Spec => []RowsAnswerTheirLists
  <1>1. Init => AnsweredInv
    <2>1. SUFFICES ASSUME Init PROVE AnsweredInv
      OBVIOUS
    <2>2. Len(rows) = 0
      BY <2>1 DEF Init
    <2>. QED  BY <2>2 DEF AnsweredInv
  <1>2. QuapifyInv /\ AnsweredInv => RowsAnswerTheirLists
    <2>1. SUFFICES ASSUME QuapifyInv, AnsweredInv PROVE RowsAnswerTheirLists
      OBVIOUS
    <2>2. Len(rows) \in Nat
      BY <2>1, LenProperties DEF QuapifyInv, TypeOK
    <2>3. ASSUME NEW i \in 1..Len(rows) PROVE rows[i].cube = rows[i].list
      <3>1. i = 1 \/ i - 1 \in 1..Len(rows)
        BY <2>2
      <3>2. rows[i].answered /\ (i = 1 \/ rows[i - 1].answered)
        BY <2>1, <3>1 DEF AnsweredInv
      <3>. QED  BY <2>1, <3>2 DEF QuapifyInv, RowsInv, OnlyRefusalsMix
    <2>. QED  BY <2>3 DEF RowsAnswerTheirLists
  <1>. QED  BY <1>1, <1>2, AnsweredStep, QuapifyInvariant, PTL DEF Spec

\* When main comes to the end of the array, each list that -I selects has been
\* solved, or refused, once and in order, and is named as it was given.
THEOREM QuapifyLists == Spec => []EveryListOnce
  BY AllListsPassed, QuapifyInvariant, PTL

\* inflate_intsplits, ceil_log2 and intsplit_state_to_assumption give -i the lists
\* it asks for: every combination of the splits once, as a mixed-radix number
\* written in binary over the prefix, for any splits that the prefix has room for.
THEOREM QuapifySplits == Spec => []SplitsExact
  BY SplitsBegin, SplitsStep, ExactlyInflated, QuapifyInvariant, PTL DEF Spec

\* Files that have their prefix in front lead quapify to no call of the library
\* that its assertions forbid.
THEOREM QuapifyCalls ==
    ASSUME PrefixFirst
    PROVE  Spec => []CallsAllowed
  <1>1. Init => BlockInv
    BY DEF Init, BlockInv
  <1>2. QuapifyInv /\ BlockInv => CallsAllowed
    BY BlocksAllowCalls
  <1>. QED  BY <1>1, <1>2, BlockStep, QuapifyInvariant, PTL DEF Spec
=============================================================================
