---------------------------- MODULE QuapiMessages ----------------------------
(***************************************************************************)
(* The wire format shared by the library and the preloaded runtime, and    *)
(* the stdio streams the library writes it through.                        *)
(*                                                                         *)
(* A quapi_msg is a type and a four-byte union; here a type and an         *)
(* integer.  The integer is the literal of LITERAL and QUANTIFIER, the pid *)
(* of FORK_REPORT, the code of EXIT_CODE, the wait flag of FORK and the    *)
(* API version of HEADER and STARTED.  SOLVE and DESTRUCTED carry nothing. *)
(***************************************************************************)
EXTENDS Integers, Sequences, FiniteSets

CONSTANT
    FileBuf     \* messages a stdio buffer holds before it spills (4096 / 5)

ASSUME FileBufAssumption == FileBuf \in Nat \ {0}

MsgTypes == {"HEADER", "QUANTIFIER", "LITERAL", "FORK", "FORK_REPORT",
             "STARTED", "SOLVE", "EXIT_CODE", "DESTRUCTED"}

Messages == [type : MsgTypes, data : Int]

Msg(type, data) == [type |-> type, data |-> data]

QUAPI_API_VERSION == 3

Header         == Msg("HEADER", QUAPI_API_VERSION)
Started        == Msg("STARTED", QUAPI_API_VERSION)
Literal(lit)   == Msg("LITERAL", lit)
Quantifier(l)  == Msg("QUANTIFIER", l)
Fork(wait)     == Msg("FORK", wait)
ForkReport(p)  == Msg("FORK_REPORT", p)
Solve          == Msg("SOLVE", 0)
ExitCode(c)    == Msg("EXIT_CODE", c)
Destructed     == Msg("DESTRUCTED", 0)

(***************************************************************************)
(* A FILE* opened on the write end of a pipe: the messages still in the    *)
(* stdio buffer, and the ones the kernel already holds.                    *)
(***************************************************************************)
Streams == [buf : Seq(Messages), pipe : Seq(Messages)]

\* Mutants: a request that stays in the stdio buffer.
FlushingTypes_NoFork == {"HEADER", "SOLVE", "STARTED"}
FlushingTypes_NoSolve == {"HEADER", "FORK", "STARTED"}

FlushingTypes == {"HEADER", "FORK", "SOLVE", "STARTED"}

FFlush(f) == [buf |-> <<>>, pipe |-> f.pipe \o f.buf]

\* fwrite: a full buffer is written out before the new message is buffered.
FWrite(f, m) ==
    IF Len(f.buf) >= FileBuf
    THEN [buf |-> <<m>>, pipe |-> f.pipe \o f.buf]
    ELSE [buf |-> Append(f.buf, m), pipe |-> f.pipe]

quapi_write_msg_to_file(f, m) ==
    IF m.type \in FlushingTypes THEN FFlush(FWrite(f, m)) ELSE FWrite(f, m)

\* Everything written to a stream that no reader has taken yet.
Contents(f) == f.pipe \o f.buf

\* The clauses that end among the messages of s.
ClauseEnds(s) == Cardinality({i \in 1..Len(s) : s[i] = Literal(0)})
=============================================================================
