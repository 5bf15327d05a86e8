--------------------------- MODULE QuapiRefinement ---------------------------
(***************************************************************************)
(* Quapi seen through its API.  The clauses of the formula are what the    *)
(* library has counted without the unit clauses of the cube; a solve lasts *)
(* from the call, with the fork it may need, to the end of the poll loop.  *)
(***************************************************************************)
EXTENDS Quapi

Contract == INSTANCE IncrementalSolver WITH
    Lits    <- Lits,
    Decide  <- Verdict,
    formula <- lib.written_clauses - lib.written_assumptions,
    cube    <- cube,
    solving <- lpc = "poll" \/ (lpc = "fork" /\ call = 0),
    result  <- ret

\* Library, seed and children together are the incremental solver quapi.h
\* describes: assumptions go to one child and are forgotten with it, clauses
\* stay with the seed, and every quapi_solve comes back with the answer to its
\* own question.  Neither reset nor terminate interferes, and no solver fails.
ImplementsSolver == Contract!Spec
=============================================================================
