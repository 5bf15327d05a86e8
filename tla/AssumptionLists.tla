--------------------------- MODULE AssumptionLists ---------------------------
(***************************************************************************)
(* quapify/src/quapify.c: struct config, the assumption lists it collects, *)
(* and the integer splits.  A split of n reads the next ceil_log2(n)       *)
(* quantifiers as the bits of a number below n, most significant first;    *)
(* several splits are enumerated like the digits of a counter.             *)
(***************************************************************************)
EXTENDS Integers, Sequences

\* The powers of two; an int is below the last.
Pow2[k \in 0..31] == IF k = 0 THEN 1 ELSE 2 * Pow2[k - 1]

MaxInt == Pow2[30] - 1 + Pow2[30]

\* A split is a positive int.
Splits == 1..MaxInt

\* All lists in one array, each ended by 0.
Configs == [assumptions : Seq(Int), assumptions_count : Nat,
            assumptions_max_assumption_size : Nat,
            current_assumption_size : Nat,
            intsplits : Seq(Splits), selected_assumption : Int,
            generate_assumption_list : BOOLEAN,
            strictness : {"RELAXED", "NORMAL", "PEDANTIC"}]

EmptyConfig == [assumptions |-> <<>>, assumptions_count |-> 0,
                assumptions_max_assumption_size |-> 0,
                current_assumption_size |-> 0,
                intsplits |-> <<>>, selected_assumption |-> -1,
                generate_assumption_list |-> FALSE, strictness |-> "NORMAL"]

\* Mutant: the longest list is measured one element too late.
add_to_assumptions_NoMax(cfg, a) ==
    [cfg EXCEPT
       !.assumptions = Append(@, a),
       !.assumptions_count = IF a = 0 THEN @ + 1 ELSE @,
       !.current_assumption_size = IF a = 0 THEN 0 ELSE @ + 1,
       !.assumptions_max_assumption_size =
           IF a # 0 /\ cfg.current_assumption_size > @
           THEN cfg.current_assumption_size ELSE @]

add_to_assumptions(cfg, a) ==
    [cfg EXCEPT
       !.assumptions = Append(@, a),
       !.assumptions_count = IF a = 0 THEN @ + 1 ELSE @,
       !.current_assumption_size = IF a = 0 THEN 0 ELSE @ + 1,
       !.assumptions_max_assumption_size =
           IF a = 0 /\ cfg.current_assumption_size > @
           THEN cfg.current_assumption_size ELSE @]

\* The same for one whole list: its literals, and then 0.
AddList(cfg, list) ==
    [cfg EXCEPT
       !.assumptions = @ \o list \o <<0>>,
       !.assumptions_count = @ + 1,
       !.assumptions_max_assumption_size = IF Len(list) > @ THEN Len(list) ELSE @]

\* A split that is not positive is ignored.
add_intsplit_nesting_level(cfg, n) ==
    IF n <= 0 THEN cfg ELSE [cfg EXCEPT !.intsplits = Append(@, n)]
-----------------------------------------------------------------------------
\* One round of the binary search for the highest bit: y is how far n has been
\* shifted, j how many bits this round looks at.
Round(n, y, j) == y + (IF n \div Pow2[y] >= Pow2[j] THEN j ELSE 0)

\* The argument is an int, so the round for the upper 32 bits never applies.
HighestBit(n) ==
    Round(n, Round(n, Round(n, Round(n, Round(n, 0, 16), 8), 4), 2), 1)

\* One more unless n is a power of two.
ceil_log2(n) == HighestBit(n) + (IF \E k \in 0..30 : n = Pow2[k] THEN 0 ELSE 1)

get_bit(n, b) == (n \div Pow2[b]) % 2

intsplits_current_length(cfg, i) == ceil_log2(cfg.intsplits[i])

\* Of the first i splits.
intsplits_summed_length(cfg, i) ==
    LET l[k \in 0..Len(cfg.intsplits)] ==
            IF k = 0 THEN 0 ELSE l[k - 1] + intsplits_current_length(cfg, k)
    IN  l[i]
-----------------------------------------------------------------------------
(***************************************************************************)
(* intsplit_state_to_assumption: the list for one state of the counter.    *)
(***************************************************************************)

SplitsTooLong(cfg, quantifiers) ==
    intsplits_summed_length(cfg, Len(cfg.intsplits)) > Len(quantifiers)

\* The quantifiers of split i are those behind the earlier splits.
First(cfg, i) == intsplits_summed_length(cfg, i - 1)

SplitOverBlocks(cfg, quantifiers) ==
    \E i \in 1..Len(cfg.intsplits) :
        \E k \in First(cfg, i) + 1 .. First(cfg, i + 1) - 1 :
            (quantifiers[k] < 0) # (quantifiers[k + 1] < 0)

\* The split that quantifier k is a bit of.
SplitOf(cfg, k) ==
    CHOOSE i \in 1..Len(cfg.intsplits) : k \in First(cfg, i) + 1 .. First(cfg, i + 1)

\* Mutant: least significant bit first.
BitOf_Reversed(cfg, state, k) ==
    LET i == SplitOf(cfg, k)
    IN  get_bit(state[i], k - First(cfg, i) - 1)

BitOf(cfg, state, k) ==
    LET i == SplitOf(cfg, k)
    IN  get_bit(state[i], First(cfg, i + 1) - k)

\* The sign of each variable is a bit of its split's number.
intsplit_state_to_assumption(cfg, quantifiers, state) ==
    [k \in 1..intsplits_summed_length(cfg, Len(cfg.intsplits)) |->
        LET v == quantifiers[k]
            a == IF v < 0 THEN -v ELSE v
        IN  IF BitOf(cfg, state, k) = 0 THEN -a ELSE a]

AtLimit(cfg, state, d) == state[d] + 1 = cfg.intsplits[d]

\* The inner loop of inflate_intsplits: a digit moves on when all behind it are
\* at their limits.  The first one is not carried over, so that the outer loop
\* sees it run past its limit.
NextCombination(cfg, state) ==
    [d \in 1..Len(state) |->
        IF \E e \in d + 1 .. Len(state) : ~AtLimit(cfg, state, e) THEN state[d]
        ELSE IF d # 1 /\ AtLimit(cfg, state, d) THEN 0
        ELSE state[d] + 1]
=============================================================================
