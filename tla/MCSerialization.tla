--------------------------- MODULE MCSerialization ---------------------------
(***************************************************************************)
(* Serialization for TLC.                                                  *)
(***************************************************************************)
EXTENDS SerializationProperties

\* A negative literal; the assumptions bring in both signs.
MCClauseLits == {-2}

\* A byte-wise reader, and one whose buffer takes all there is.
MCReadSizes == {1, 64}
=============================================================================
