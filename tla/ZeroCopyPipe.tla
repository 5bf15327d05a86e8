---------------------------- MODULE ZeroCopyPipe ----------------------------
(***************************************************************************)
(* common/src/zero-copy-pipes-linux.c: a pipe that carries references to   *)
(* the writer's pages instead of copies of them.                           *)
(*                                                                         *)
(* The writer fills one of two buffers while the pages of the other are in *)
(* the pipe.  Nothing tells it when the reader has taken them: it relies on*)
(* vmsplice blocking until a whole buffer fits into the pipe.  The reader  *)
(* copies pages at the moment it splices them out.                         *)
(*                                                                         *)
(* A buffer is an array of cells.  Cell 0 is the counter of written cells, *)
(* the others hold units of messages, numbered in the order they are       *)
(* written.  A message is one unit; HEADER is longer, and is read in two   *)
(* calls.                                                                  *)
(***************************************************************************)
EXTENDS Integers, Sequences

CONSTANTS
    PageCells,      \* cells of a page (4096 bytes)
    BufPages,       \* pages of a buffer (buf_size, 64 KiB: 16)
    PipePages,      \* pages the kernel's pipe holds (16 unless it is resized)
    HeaderCells,    \* cells of a HEADER message with its trailing data
    MaxSent         \* bound: units written

buf_size == BufPages * PageCells

ASSUME ZeroCopyAssumption ==
    /\ PageCells \in Nat \ {0} /\ BufPages \in Nat \ {0}
    /\ PipePages = BufPages
    /\ HeaderCells \in 2 .. buf_size - 2
    /\ MaxSent \in Nat /\ MaxSent >= HeaderCells

VARIABLES
    wpc,          \* writer: "idle", "given" (holds a prepared pointer),
                  \* "written", "splice" (the loop of flush_out), or "prepare"
    job,          \* whether the message being written flushes, and where
                  \* flush_out returns to
    buf,          \* the writer's two buffers
    current_buf,
    prepared,     \* address handed out by prepare_write: buffer and cell
    left,         \* pages that flush_out has still to hand over
    pipe,         \* pages in the kernel: buffer and page number
    rbuf,         \* the reader's mapping of its memfd
    read_pos,
    rpc,          \* reader: "message", or "trailing" for the rest of HEADER
    got,          \* history: units the reader was given
    sent,         \* history: units written
    flushed       \* history: units handed to vmsplice

wvars == <<wpc, job, buf, current_buf, prepared, left, sent>>
rvars == <<rbuf, read_pos, rpc, got>>
vars == <<wpc, job, buf, current_buf, prepared, left, pipe, rbuf, read_pos,
          rpc, got, sent, flushed>>

Cells == 0 .. buf_size - 1
Blank == [c \in Cells |-> 0]
NoJob == [flush |-> FALSE, then |-> "idle"]

Init ==
    /\ wpc = "idle" /\ job = NoJob
    /\ buf = [b \in {0, 1} |-> Blank] /\ current_buf = 0
    /\ prepared = <<0, 0>> /\ left = 0
    /\ pipe = <<>>
    /\ rbuf = Blank /\ read_pos = 0 /\ rpc = "message"
    /\ got = <<>> /\ sent = 0 /\ flushed = 0

written == buf[current_buf][0]
-----------------------------------------------------------------------------
(***************************************************************************)
(* The writer.                                                             *)
(***************************************************************************)

\* Mutant: the counter itself is not allowed for.
ensure_space_free_NoCounter(size) == written + size < buf_size + 1

ensure_space_free(size) == written + size + 1 < buf_size

\* Enter flush_out on behalf of j; afterwards go on at `then`.
StartFlush(j, then) ==
    /\ wpc' = "splice"
    /\ job' = [j EXCEPT !.then = then]
    /\ left' = BufPages
    /\ UNCHANGED <<buf, current_buf, prepared, sent>>

\* QUAPI_GIVE_MSGS: the caller is given memory inside the current buffer.
quapi_zerocopy_pipe_prepare_write(flush) ==
    LET j == [NoJob EXCEPT !.flush = flush]
    IN  /\ wpc = "idle" /\ sent > 0 /\ sent < MaxSent
        /\ IF ensure_space_free(1)
           THEN /\ wpc' = "given" /\ job' = j
                /\ prepared' = <<current_buf, written + 1>>
                /\ UNCHANGED <<buf, current_buf, left, sent>>
           ELSE StartFlush(j, "prepare")
        /\ UNCHANGED <<pipe, rvars, flushed>>

\* Mutant: the address is taken from the buffer that was just handed over.
Prepared_OldBuffer ==
    /\ wpc = "prepare"
    /\ wpc' = "given"
    /\ prepared' = <<1 - current_buf, written + 1>>
    /\ UNCHANGED <<job, buf, current_buf, left, sent, pipe, rvars, flushed>>

\* prepare_write goes on after the flush it had to do.
Prepared ==
    /\ wpc = "prepare"
    /\ wpc' = "given"
    /\ prepared' = <<current_buf, written + 1>>
    /\ UNCHANGED <<job, buf, current_buf, left, sent, pipe, rvars, flushed>>

\* Units sent + 1 .. sent + size at cells at + 1 .. at + size of buffer b, and
\* the counter of the current buffer raised.
Filled(b, at, size) ==
    [i \in {0, 1} |-> [c \in Cells |->
        IF i = b /\ c \in at .. at + size - 1 THEN sent + (c - at) + 1
        ELSE IF i = current_buf /\ c = 0 THEN written + size
        ELSE buf[i][c]]]

\* quapi_zerocopy_pipe_write of a message that was filled in prepared memory:
\* only the counter changes.  prepare_write has made room for it.
WritePrepared ==
    /\ wpc = "given" /\ ensure_space_free(1)
    /\ buf' = Filled(prepared[1], prepared[2], 1)
    /\ prepared' = <<prepared[1], prepared[2] + 1>>
    /\ sent' = sent + 1
    /\ wpc' = IF job.flush THEN "written" ELSE "idle"
    /\ UNCHANGED <<job, current_buf, left, pipe, rvars, flushed>>

\* HEADER, the first message, is copied from memory of its own.
WriteHeader ==
    /\ wpc = "idle" /\ sent = 0 /\ ensure_space_free(HeaderCells)
    /\ buf' = Filled(current_buf, written + 1, HeaderCells)
    /\ sent' = HeaderCells
    /\ wpc' = "written"
    /\ job' = [NoJob EXCEPT !.flush = TRUE]
    /\ UNCHANGED <<current_buf, prepared, left, pipe, rvars, flushed>>

quapi_zerocopy_pipe_flush ==
    /\ wpc = "written"
    /\ IF written > 0
       THEN StartFlush(job, "idle")
       ELSE wpc' = "idle" /\ UNCHANGED <<job, buf, current_buf, prepared, left,
                                         sent>>
    /\ UNCHANGED <<pipe, rvars, flushed>>

\* Mutant: the writer goes on in the buffer it has just handed over.
Switched_SameBuffer ==
    /\ current_buf' = current_buf
    /\ buf' = [buf EXCEPT ![current_buf'][0] = 0]

\* Mutant: the counter of the new buffer still holds its old value.
Switched_NoReset == current_buf' = (current_buf + 1) % 2 /\ UNCHANGED buf

\* The other buffer is the current one now, and counts from zero.
Switched ==
    /\ current_buf' = (current_buf + 1) % 2
    /\ buf' = [buf EXCEPT ![current_buf'][0] = 0]

\* The next n pages of the current buffer.
VmSplice(n) == [i \in 1..n |-> <<current_buf, BufPages - left + i - 1>>]

\* One turn of the loop in flush_out: as many pages as the pipe has room for.
flush_out ==
    LET room == PipePages - Len(pipe)
        n    == IF left < room THEN left ELSE room
    IN  /\ wpc = "splice" /\ room > 0
        /\ pipe' = pipe \o VmSplice(n)
        /\ left' = left - n
        /\ IF left' = 0
           THEN /\ Switched
                /\ flushed' = sent
                /\ wpc' = job.then
           ELSE UNCHANGED <<buf, current_buf, flushed, wpc>>
        /\ UNCHANGED <<job, prepared, sent, rvars>>
-----------------------------------------------------------------------------
(***************************************************************************)
(* The reader.                                                             *)
(***************************************************************************)

\* What a page of the writer holds now, seen as page p of the reader.
Copied(n) ==
    [c \in Cells |->
        LET p == c \div PageCells
        IN  IF p < n
            THEN buf[pipe[p + 1][1]][pipe[p + 1][2] * PageCells + (c % PageCells)]
            ELSE 0]

\* Mutant: splice is asked for a page instead of a buffer.
SpliceSize_OnePage == 1

\* splice takes what is there, up to a buffer.
SpliceSize == IF Len(pipe) < BufPages THEN Len(pipe) ELSE BufPages

\* quapi_zerocopy_pipe_read: `size` cells from `rb` at position `at`, as the
\* units of the message now being read.
Give(rb, at, size, next) ==
    /\ got' = got \o [i \in 1..size |-> rb[at + i]]
    /\ read_pos' = at + size
    /\ rpc' = next

\* The first message is HEADER, whose trailing data is read by a second call.
MessageRead(rb, at) ==
    Give(rb, at, 1, IF rb[at + 1] = 1 THEN "trailing" ELSE "message")

ReadSize == IF rpc = "message" THEN 1 ELSE HeaderCells - 1

NeedsFlushRead == read_pos + ReadSize > rbuf[0]

\* Enough is left in the mapping.
quapi_zerocopy_pipe_read ==
    /\ ~NeedsFlushRead
    /\ IF rpc = "message" THEN MessageRead(rbuf, read_pos)
                          ELSE Give(rbuf, read_pos, ReadSize, "message")
    /\ UNCHANGED <<wvars, pipe, rbuf, flushed>>

\* The mapping is used up: wait for the next buffer, and read from its start.
flush_read ==
    /\ NeedsFlushRead /\ pipe # <<>>
    /\ rbuf' = Copied(SpliceSize)
    /\ pipe' = SubSeq(pipe, SpliceSize + 1, Len(pipe))
    /\ IF rpc = "message" THEN MessageRead(rbuf', 0)
                          ELSE Give(rbuf', 0, ReadSize, "message")
    /\ UNCHANGED <<wvars, flushed>>
-----------------------------------------------------------------------------
WriterStep ==
    \/ Prepared \/ WritePrepared \/ quapi_zerocopy_pipe_flush \/ flush_out

ClientStep ==
    \/ WriteHeader
    \/ \E f \in BOOLEAN : quapi_zerocopy_pipe_prepare_write(f)

ReaderStep == quapi_zerocopy_pipe_read \/ flush_read

\* The client has no more to write, and the reader has read all it can get.
Quiet ==
    /\ wpc = "idle" /\ sent = MaxSent
    /\ NeedsFlushRead /\ pipe = <<>>
    /\ UNCHANGED vars

Next == WriterStep \/ ClientStep \/ ReaderStep \/ Quiet

\* A write that has begun goes on, and the reader reads; the client need not
\* write at all.
Fairness == WF_vars(WriterStep) /\ WF_vars(ReaderStep)

Spec == Init /\ [][Next]_vars /\ Fairness
-----------------------------------------------------------------------------
PageRefs == {0, 1} \X (0 .. BufPages - 1)

TypeOK ==
    /\ wpc \in {"idle", "prepare", "given", "written", "splice"}
    /\ job \in [flush : BOOLEAN, then : {"idle", "prepare"}]
    /\ buf \in [{0, 1} -> [Cells -> 0 .. MaxSent]]
    /\ current_buf \in {0, 1}
    /\ prepared \in {0, 1} \X (Cells \cup {buf_size})
    /\ left \in 0 .. BufPages
    /\ pipe \in Seq(PageRefs) /\ Len(pipe) <= PipePages
    /\ rbuf \in [Cells -> 0 .. MaxSent]
    /\ read_pos \in Cells
    /\ rpc \in {"message", "trailing"}
    /\ got \in Seq(0 .. MaxSent)
    /\ sent \in 0 .. MaxSent /\ flushed \in 0 .. MaxSent

(***************************************************************************)
(* Properties.                                                             *)
(***************************************************************************)

\* flush_out: no page of the buffer that is being filled is still in the pipe,
\* so the reader never splices a page that changes under it.  The only thing
\* that keeps the writer off is that the pipe holds one buffer and no more.
PagesSettled ==
    wpc # "splice" => \A i \in 1..Len(pipe) : pipe[i][1] # current_buf

\* quapi_zerocopy_pipe_prepare_write: the memory a caller was given lies in
\* the current buffer, right behind what is written, until it is written too.
PreparedIsNext ==
    wpc = "given" => /\ prepared = <<current_buf, written + 1>>
                     /\ ensure_space_free(1)

\* The assertion of quapi_zerocopy_pipe_read: when it needs another buffer it
\* has used up the last one, so no message lies across two buffers.
BuffersUsedUp == NeedsFlushRead => read_pos = rbuf[0]

Channel == INSTANCE MessageChannel WITH received <- got

\* The pipe is a channel: units arrive once and in order whichever buffer they
\* were in, and everything before a flush arrives.
ImplementsChannel == Channel!Spec
=============================================================================
