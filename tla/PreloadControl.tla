--------------------------- MODULE PreloadControl ---------------------------
(***************************************************************************)
(* The control of the preloaded runtime's state machine, without the text  *)
(* it produces: which state function of preload/src/runtime.c follows      *)
(* which.                                                                  *)
(***************************************************************************)
EXTENDS Integers

\* The states, and the two ways out of the state machine: WORKING, and the
\* fault that err("... %s", msg->type) runs into by formatting an integer.
PreloadStates == {"WAITING_FOR_HEADER", "READING_PREFIX", "READING_EXISTS",
                  "READING_FORALL", "READING_CLAUSE", "READING_MATRIX",
                  "WORKING", "CRASHED"}

(***************************************************************************)
(* The control of the state functions: the function that follows st when   *)
(* it is handed m.  enough says whether the clauses written so far reach   *)
(* the number announced in the header.                                     *)
(***************************************************************************)
NextState(st, m, enough) ==
    CASE st = "WAITING_FOR_HEADER" -> "READING_PREFIX"
      [] st = "READING_PREFIX" ->
           ( CASE m.type = "QUANTIFIER" /\ m.data > 0 -> "READING_EXISTS"
               [] m.type = "QUANTIFIER" /\ m.data < 0 -> "READING_FORALL"
               [] m.type = "QUANTIFIER" /\ m.data = 0 -> "READING_PREFIX"
               [] m.type \in {"LITERAL", "SOLVE"}     -> "READING_MATRIX"
               [] m.type = "FORK"                     -> "READING_PREFIX"
               [] OTHER                               -> "CRASHED" )
      [] st \in {"READING_EXISTS", "READING_FORALL"} ->
           ( CASE m.type = "QUANTIFIER" /\ m.data > 0 -> "READING_EXISTS"
               [] m.type = "QUANTIFIER" /\ m.data < 0 -> "READING_FORALL"
               [] m.type = "QUANTIFIER" /\ m.data = 0 -> "READING_PREFIX"
               [] m.type = "LITERAL"                  -> "READING_CLAUSE"
               [] OTHER                               -> "CRASHED" )
      [] st = "READING_CLAUSE" ->
           ( CASE m.type = "LITERAL" /\ m.data = 0    -> "READING_MATRIX"
               [] m.type = "LITERAL" /\ m.data # 0    -> "READING_CLAUSE"
               [] OTHER                               -> "CRASHED" )
      [] st = "READING_MATRIX" ->
           ( CASE m.type = "LITERAL" /\ m.data # 0    -> "READING_CLAUSE"
               [] m.type = "SOLVE" /\ enough          -> "WORKING"
               [] OTHER                               -> "READING_MATRIX" )
      [] OTHER -> st

\* A clause is counted when READING_CLAUSE meets its terminating zero.
EndsClause(st, m) == st = "READING_CLAUSE" /\ m.type = "LITERAL" /\ m.data = 0

\* advance_state for one message, from read_msg until another is needed:
\* READING_PREFIX hands the first literal, or SOLVE, on to READING_MATRIX, and
\* SOLVE is repeated until the filler clauses reach the announced number.
AdvanceState(st, m) ==
    IF st = "READING_PREFIX" /\ m.type \in {"LITERAL", "SOLVE"}
    THEN NextState("READING_MATRIX", m, TRUE)
    ELSE NextState(st, m, TRUE)
=============================================================================
