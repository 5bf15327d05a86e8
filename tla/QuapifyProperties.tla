-------------------------- MODULE QuapifyProperties --------------------------
(***************************************************************************)
(* What quapify owes its user: the lists asked for, each solved once under *)
(* exactly its own assumptions, for a formula announced as it is.          *)
(***************************************************************************)
EXTENDS Quapify, SequencesExt

TypeOK ==
    /\ pc \in {"cli", "pass 1", "inflate", "ready", "pass 2", "lists"} \cup Ends
    /\ pos \in 0..Len(file)
    /\ parser \in Parsers
    /\ cfg \in Configs
    /\ quantifiers \in Seq(Int \ {0}) /\ varcount \in Nat /\ clausecount \in Nat
    /\ intsplits_state \in Seq(Nat)
    /\ lib \in Library!Solvers
    /\ given \in Seq(Int \ {0})
    /\ assstart \in 1..ass /\ ass \in 1 .. Len(cfg.assumptions) + 1
    /\ assumption_id \in 0..cfg.assumptions_count
    /\ rows \in Seq([id : Nat, list : Seq(Int), answered : BOOLEAN,
                     cube : Seq(Int)])
-----------------------------------------------------------------------------
(***************************************************************************)
(* The lists that the command line asks for, without counters and carries. *)
(***************************************************************************)
Product(s) ==
    LET p[k \in 0..Len(s)] == IF k = 0 THEN 1 ELSE p[k - 1] * s[k]
    IN  p[Len(s)]

\* As many bits as it takes to count up to n.
Width(n) == CHOOSE w \in 0..31 : \A k \in 0..30 : Pow2[k] >= n <=> k >= w

\* Digit d of combination number i, in the mixed radix of the splits: what is
\* left when i is divided by those behind.
Digit(splits, i, d) ==
    LET n == Len(splits)
        left[k \in 0..n] == IF k = 0 THEN i ELSE left[k - 1] \div splits[n + 1 - k]
    IN  left[n - d] % splits[d]

\* The number n in binary over the variables vs.
Binary(vs, n) ==
    [k \in 1..Len(vs) |->
        IF (n \div Pow2[Len(vs) - k]) % 2 = 1 THEN Abs(vs[k]) ELSE -Abs(vs[k])]

\* Combination number i: each split takes the next variables of the prefix.
Combination(splits, prefix, i) ==
    LET c[d \in 0..Len(splits)] ==
            IF d = 0 THEN <<>>
            ELSE LET used == Len(c[d - 1])
                     vs   == SubSeq(prefix, used + 1, used + Width(splits[d]))
                 IN  c[d - 1] \o Binary(vs, Digit(splits, i, d))
    IN  c[Len(splits)]

\* Positions of the zeros among the first n numbers of the array.
Zeros(n) == {k \in 1..n : cfg.assumptions[k] = 0}

\* The stretch in front of a zero is list number id if as many zeros come before.
IsList(id, list) ==
    \E z \in Zeros(Len(cfg.assumptions)) :
        /\ Cardinality(Zeros(z - 1)) = id
        /\ Len(list) < z
        /\ list = SubSeq(cfg.assumptions, z - Len(list), z - 1)
        /\ \A k \in 1..Len(list) : list[k] # 0
        /\ Len(list) = z - 1 \/ cfg.assumptions[z - Len(list) - 1] = 0

\* The last n lists are the first n combinations of the splits, in order.
Inflated(n) ==
    LET lists == Cardinality(Zeros(Len(cfg.assumptions)))
    IN  /\ n <= lists
        /\ \A i \in 0..n - 1 :
              IsList(lists - n + i, Combination(cfg.intsplits, quantifiers, i))

\* inflate_intsplits adds every combination of the splits once, in the order
\* of the numbers they stand for, and nothing behind them; the counters that
\* size the solver's header are those of the lists.
SplitsExact ==
    pc = "ready" =>
        LET array == cfg.assumptions
        IN  /\ cfg.intsplits # <<>> => Inflated(Product(cfg.intsplits))
            /\ cfg.assumptions_count = Cardinality(Zeros(Len(array)))
            /\ \A i, j \in 1..Len(array) :
                  (\A k \in i..j : array[k] # 0)
                     => j - i < cfg.assumptions_max_assumption_size

\* Every answer that is printed belongs to the list printed next to it: the
\* child was forked for this list and given its literals, no more, no fewer.
RowsAnswerTheirLists ==
    \A i \in 1..Len(rows) : rows[i].answered => rows[i].cube = rows[i].list

\* A refused solve leaves its literals behind: RowsAnswerTheirLists fails for the
\* list behind it.  It does no more harm than that: all other answers, the ones
\* further behind included, belong to their lists.
OnlyRefusalsMix ==
    \A i \in 1..Len(rows) :
        /\ rows[i].answered
        /\ i = 1 \/ rows[i - 1].answered
        => rows[i].cube = rows[i].list

\* When the tool succeeds, each list that was selected has one row, in order,
\* numbered by its position.
EveryListOnce ==
    pc = "done" =>
        LET selected == {id \in 0 .. Cardinality(Zeros(Len(cfg.assumptions))) - 1 :
                            cfg.selected_assumption \in {-1, id}}
        IN  /\ selected = {rows[i].id : i \in 1..Len(rows)}
            /\ \A i, j \in 1..Len(rows) : i < j => rows[i].id < rows[j].id
            /\ \A i \in 1..Len(rows) : IsList(rows[i].id, rows[i].list)

\* Literals of a list that was refused are still with the child.
Leftovers == rows # <<>> /\ ~rows[Len(rows)].answered

\* The second pass and the assumptions stay within what the first pass
\* counted: the child is never sent more clauses than its problem line says,
\* although the check in quapi_assume would let twice the assumptions through.
HeaderSuffices == ~Leftovers => lib.written_clauses <= Library!HeaderClauses

\* The number at position k of f is in a block: no zero has ended it yet.
InBlock(f, k) ==
    \E b \in 1..k - 1 :
        /\ f[b].kind \in {"e", "a"}
        /\ \A z \in b + 1 .. k - 1 : f[z].kind = "number" => f[z].n # 0

\* As the format wants it: in front of a block there are numbers of blocks only.
PrefixFirst ==
    \A f \in Files : \A b \in 1..Len(f) :
        f[b].kind \in {"e", "a"} =>
            \A k \in 1..b - 1 : f[k].kind = "number" => InBlock(f, k)

\* The assertions of quapi_quantify, quapi_add and quapi_assume hold whenever
\* quapify makes the call, for files whose prefix comes before their clauses:
\* the parser does not insist on that order.
CallsAllowed ==
    /\ pc = "pass 2" /\ Called[1] = "quantify" => Library!CanQuantify(lib)
    /\ pc = "pass 2" /\ Called[1] = "add" => Library!CanAdd(lib)
    /\ pc = "lists" /\ ass <= Len(cfg.assumptions) /\ element # 0
         /\ Selected /\ MayAssume => Library!CanAssume(lib)

\* The tool comes to an end, whatever it is given: parser, enumeration and the
\* loop over the lists all move on.  (An option and its argument are separate
\* words here; getopt is made to return an option written as -a1 forever.)
Terminates == <>(pc \in Ends)
=============================================================================
