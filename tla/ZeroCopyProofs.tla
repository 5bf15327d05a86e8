--------------------------- MODULE ZeroCopyProofs ---------------------------
(***************************************************************************)
(* The zero-copy pipe for every size of pages, buffers and headers and any *)
(* number of units: types, safety, and the steps of MessageChannel.        *)
(***************************************************************************)
EXTENDS ZeroCopyPipe, SequenceTheorems, TLAPS

-----------------------------------------------------------------------------
(***************************************************************************)
(* The inductive invariant.  The pipe never holds a part of a buffer, and  *)
(* every unit is in one place: given to the reader, in its mapping, in the *)
(* pages of the pipe, or in the buffer being filled.                       *)
(***************************************************************************)
Other == 1 - current_buf

\* All pages of buffer b, in order.
WholeBuffer(b) == [i \in 1..BufPages |-> <<b, i - 1>>]

\* Buffer b holds, behind its counter, the units that follow unit n.
HoldsFrom(b, n) == \A c \in 1..b[0] : b[c] = n + c

\* Units in the pipe, and units the reader had when it took its mapping.
InPipe == IF pipe = <<>> THEN 0 ELSE buf[Other][0]
Base == flushed - InPipe - rbuf[0]

\* The buffer being filled continues where the last flush ended.
FillInv ==
    /\ written <= buf_size - 2
    /\ sent = flushed + written
    /\ HoldsFrom(buf[current_buf], flushed)

\* Nothing is in the pipe, or the other buffer as a whole.
PipeInv ==
    /\ pipe # <<>> => /\ pipe = WholeBuffer(Other)
                      /\ buf[Other][0] \in 1 .. buf_size - 2
                      /\ HoldsFrom(buf[Other], flushed - buf[Other][0])

\* The reader has read up to read_pos of what its mapping holds.
ReadInv ==
    /\ rbuf[0] <= buf_size - 2 /\ read_pos <= rbuf[0]
    /\ Base >= 0 /\ HoldsFrom(rbuf, Base)
    /\ Len(got) = Base + read_pos
    /\ \A i \in 1..Len(got) : got[i] = i

\* HEADER is alone in the first buffer, wherever that is.
HeaderInv ==
    /\ sent > 0 => sent >= HeaderCells
    /\ flushed = 0 /\ sent > 0 => /\ sent = HeaderCells
                                  /\ wpc \in {"written", "splice"}
                                  /\ job.then = "idle"
    /\ flushed > 0 /\ InPipe = flushed => InPipe = HeaderCells
    /\ rbuf[0] > 0 /\ Base = 0 => rbuf[0] = HeaderCells
    /\ rpc = "trailing" => Base = 0 /\ read_pos = 1

\* The writer is inside a call that has a unit still to write.
Owing == \/ wpc \in {"prepare", "given"}
         \/ wpc = "splice" /\ job.then = "prepare"

\* What the writer relies on between the steps of one call.
WriterInv ==
    /\ wpc = "splice" => left = BufPages /\ written > 0
    /\ wpc = "prepare" => written = 0
    /\ PreparedIsNext
    /\ Owing => sent > 0 /\ sent < MaxSent

PlaceInv == FillInv /\ PipeInv /\ ReadInv /\ HeaderInv /\ WriterInv

IInv == TypeOK /\ PlaceInv
-----------------------------------------------------------------------------
(***************************************************************************)
(* Sizes.                                                                  *)
(***************************************************************************)

\* A buffer has room for its counter and a HEADER, with a cell to spare.
LEMMA BufferSize ==
    /\ buf_size \in Nat /\ buf_size >= 4
    /\ HeaderCells \in Nat /\ HeaderCells >= 2 /\ HeaderCells <= buf_size - 2
    /\ MaxSent \in Nat /\ MaxSent >= HeaderCells
    /\ BufPages \in Nat /\ BufPages >= 1 /\ PipePages = BufPages
    /\ PageCells \in Nat /\ PageCells >= 1
  <1>1. BufPages * PageCells \in Nat
    BY ZeroCopyAssumption
  <1>2. buf_size \in Nat
    BY <1>1 DEF buf_size
  <1> QED
    BY <1>2, ZeroCopyAssumption

\* Cell c of a buffer is cell c % PageCells of page c \div PageCells.
LEMMA CellOfPage ==
    ASSUME NEW c \in Cells
    PROVE  /\ c \div PageCells \in 0 .. BufPages - 1
           /\ (c \div PageCells) * PageCells + (c % PageCells) = c
  <1> DEFINE q == c \div PageCells
             r == c % PageCells
  <1>1. c \in Nat /\ c < BufPages * PageCells
    BY BufferSize DEF Cells, buf_size
  <1>2. q \in Int /\ r \in 0 .. PageCells - 1 /\ c = PageCells * q + r
    BY <1>1, BufferSize, Z3
  <1> HIDE DEF q, r
  <1>3. q * PageCells = PageCells * q
    BY <1>2, BufferSize
  <1>4. q >= 0
    <2>1. SUFFICES ASSUME q <= -1 PROVE FALSE
      BY <1>2
    <2>2. PageCells * q <= PageCells * (-1)
      BY <2>1, <1>2, BufferSize
    <2> QED
      BY <2>2, <1>1, <1>2, BufferSize
  <1>5. q < BufPages
    <2>1. SUFFICES ASSUME q >= BufPages PROVE FALSE
      BY <1>2, BufferSize
    <2>2. PageCells * q >= PageCells * BufPages
      BY <2>1, <1>2, BufferSize
    <2>3. PageCells * BufPages = BufPages * PageCells
      BY BufferSize
    <2> QED
      BY <2>2, <2>3, <1>1, <1>2, BufferSize
  <1> QED
    BY <1>2, <1>3, <1>4, <1>5, BufferSize DEF q, r

\* What the pipe holds when it holds a buffer, and what splicing it yields.
LEMMA WholeBufferCopied ==
    ASSUME TypeOK, NEW b \in {0, 1}, pipe = WholeBuffer(b)
    PROVE  /\ Len(pipe) = BufPages /\ pipe # <<>>
           /\ \A i \in 1..Len(pipe) : pipe[i] = <<b, i - 1>>
           /\ SpliceSize = BufPages
           /\ Copied(SpliceSize) = buf[b]
           /\ SubSeq(pipe, SpliceSize + 1, Len(pipe)) = <<>>
  <1>1. /\ Len(pipe) = BufPages /\ pipe # <<>>
        /\ \A i \in 1..Len(pipe) : pipe[i] = <<b, i - 1>>
    <2>1. Len(pipe) \in Nat /\ DOMAIN pipe = 1..Len(pipe)
      BY DEF TypeOK
    <2>2. /\ DOMAIN pipe = 1..BufPages
          /\ \A i \in 1..BufPages : pipe[i] = <<b, i - 1>>
      BY DEF WholeBuffer
    <2>3. Len(pipe) = BufPages
      <3>1. BufPages \in 1..Len(pipe)
        BY <2>1, <2>2, BufferSize
      <3>2. Len(pipe) \in 1..BufPages
        BY <2>1, <2>2, <3>1, BufferSize
      <3> QED
        BY <3>1, <3>2, BufferSize
    <2> QED
      BY <2>2, <2>3, BufferSize
  <1>2. SpliceSize = BufPages
    BY <1>1, BufferSize DEF SpliceSize
  <1>3. SubSeq(pipe, SpliceSize + 1, Len(pipe)) = <<>>
    BY <1>1, <1>2, BufferSize DEF TypeOK
  <1>4. ASSUME NEW c \in Cells
        PROVE  Copied(BufPages)[c] = buf[b][c]
    <2> DEFINE p == c \div PageCells
               r == c % PageCells
    <2>1. p \in 0 .. BufPages - 1 /\ p * PageCells + r = c
      BY CellOfPage
    <2>2. Copied(BufPages)[c] =
            IF p < BufPages THEN buf[pipe[p + 1][1]][pipe[p + 1][2] * PageCells + r]
                            ELSE 0
      BY DEF Copied
    <2> HIDE DEF p, r
    <2>3. pipe[p + 1] = <<b, (p + 1) - 1>>
      BY <2>1, <1>1, BufferSize
    <2>4. pipe[p + 1][1] = b /\ pipe[p + 1][2] = p
      BY <2>3, <2>1, BufferSize
    <2> QED
      BY <2>1, <2>2, <2>4, BufferSize
  <1>5. buf[b] \in [Cells -> 0 .. MaxSent]
    BY DEF TypeOK
  <1>6. Copied(BufPages) = [c \in Cells |-> Copied(BufPages)[c]]
    BY DEF Copied
  <1>7. Copied(BufPages) = buf[b]
    BY <1>4, <1>5, <1>6
  <1> QED
    BY <1>1, <1>2, <1>3, <1>7
-----------------------------------------------------------------------------
(***************************************************************************)
(* The invariant holds at the start, and every step keeps it.              *)
(***************************************************************************)
LEMMA InitIInv == Init => IInv
  <1> SUFFICES ASSUME Init PROVE IInv
    OBVIOUS
  <1>0. 0 \in Cells /\ Cells \subseteq Nat
    BY BufferSize DEF Cells
  <1>1. TypeOK
    BY BufferSize, <1>0 DEF Init, TypeOK, Blank, NoJob, PageRefs
  <1>2. /\ written = 0 /\ InPipe = 0 /\ Base = 0 /\ rbuf[0] = 0
        /\ buf[current_buf][0] = 0
    BY <1>0 DEF Init, written, InPipe, Base, Blank
  <1>3. FillInv /\ PipeInv
    BY <1>2, BufferSize DEF Init, FillInv, PipeInv, HoldsFrom
  <1>4. ReadInv
    BY <1>2, BufferSize DEF Init, ReadInv, HoldsFrom
  <1>5. HeaderInv
    BY <1>2, BufferSize DEF Init, HeaderInv
  <1>6. WriterInv
    BY <1>2, BufferSize DEF Init, WriterInv, Owing, PreparedIsNext
  <1> QED
    BY <1>1, <1>3, <1>4, <1>5, <1>6 DEF IInv, PlaceInv

\* Steps of the writer that touch neither buffers nor the pipe.
LEMMA PlacesKept ==
    ASSUME FillInv, PipeInv, ReadInv,
           UNCHANGED <<buf, current_buf, pipe, rvars, sent, flushed>>
    PROVE  /\ FillInv' /\ PipeInv' /\ ReadInv'
           /\ Base' = Base /\ InPipe' = InPipe /\ written' = written
  <1>1. /\ Base' = Base /\ InPipe' = InPipe /\ written' = written
        /\ Other' = Other
    BY DEF Base, InPipe, written, rvars, Other
  <1>2. FillInv'
    BY <1>1 DEF FillInv, HoldsFrom
  <1>3. PipeInv'
    BY <1>1 DEF PipeInv, HoldsFrom
  <1>4. ReadInv'
    BY <1>1 DEF ReadInv, HoldsFrom, rvars
  <1> QED
    BY <1>1, <1>2, <1>3, <1>4

\* The types of the values the other parts of the invariant speak of.
LEMMA Values ==
    ASSUME TypeOK
    PROVE  /\ 0 \in Cells /\ Cells \subseteq Nat
           /\ current_buf \in {0, 1} /\ Other \in {0, 1} /\ Other # current_buf
           /\ written \in 0 .. MaxSent /\ buf[Other][0] \in 0 .. MaxSent
           /\ rbuf[0] \in 0 .. MaxSent /\ InPipe \in 0 .. MaxSent
           /\ Base \in Int
           /\ sent \in Nat /\ flushed \in Nat /\ read_pos \in Nat
  <1>1. 0 \in Cells /\ Cells \subseteq Nat
    BY BufferSize DEF Cells
  <1>2. /\ current_buf \in {0, 1} /\ Other \in {0, 1} /\ Other # current_buf
        /\ sent \in Nat /\ flushed \in Nat /\ read_pos \in Nat
    BY <1>1, BufferSize DEF TypeOK, Other
  <1>3. /\ written \in 0 .. MaxSent /\ buf[Other][0] \in 0 .. MaxSent
        /\ rbuf[0] \in 0 .. MaxSent
    BY <1>1, <1>2 DEF TypeOK, written
  <1>4. InPipe \in 0 .. MaxSent
    BY <1>3, BufferSize DEF InPipe
  <1>5. Base \in Int
    BY <1>2, <1>3, <1>4, BufferSize DEF Base
  <1> QED
    BY <1>1, <1>2, <1>3, <1>4, <1>5

\* A message put behind what is written: the current buffer holds more, and
\* nothing else has changed.
LEMMA Appended ==
    ASSUME TypeOK, FillInv, PipeInv, ReadInv,
           NEW size \in Nat, size >= 1, ensure_space_free(size),
           sent + size <= MaxSent,
           buf' = Filled(current_buf, written + 1, size), sent' = sent + size,
           UNCHANGED <<current_buf, pipe, rvars, flushed>>
    PROVE  /\ buf' \in [{0, 1} -> [Cells -> 0 .. MaxSent]] /\ sent' \in 0 .. MaxSent
           /\ FillInv' /\ PipeInv' /\ ReadInv'
           /\ Base' = Base /\ InPipe' = InPipe /\ written' = written + size
  <1> USE BufferSize
  <1>0. /\ 0 \in Cells /\ Cells \subseteq Nat
        /\ current_buf \in {0, 1} /\ Other \in {0, 1} /\ Other # current_buf
        /\ written \in 0 .. MaxSent /\ sent \in Nat /\ flushed \in Nat
    BY Values
  <1>1. Other' = Other /\ sent' \in 0 .. MaxSent
    BY <1>0 DEF Other
  <1>2. ASSUME NEW i \in {0, 1}, NEW c \in Cells
        PROVE  buf'[i][c] =
                 IF i = current_buf /\ c \in written + 1 .. written + size
                 THEN flushed + c
                 ELSE IF i = current_buf /\ c = 0 THEN written + size
                 ELSE buf[i][c]
    <2>1. buf'[i][c] =
            IF i = current_buf /\ c \in written + 1 .. written + 1 + size - 1
            THEN sent + (c - (written + 1)) + 1
            ELSE IF i = current_buf /\ c = 0 THEN written + size
            ELSE buf[i][c]
      BY DEF Filled
    <2>2. /\ written + 1 + size - 1 = written + size
          /\ c \in Nat => sent + (c - (written + 1)) + 1 = flushed + c
      BY <1>0 DEF FillInv
    <2> QED
      BY <2>1, <2>2, <1>0
  <1>3. buf'[Other] = buf[Other]
    <2>1. buf' = [i \in {0, 1} |-> [c \in Cells |-> buf'[i][c]]]
      BY DEF Filled
    <2>2. buf'[Other] = [c \in Cells |-> buf'[Other][c]]
      BY <2>1, <1>0
    <2>3. buf[Other] = [c \in Cells |-> buf[Other][c]]
      BY <1>0 DEF TypeOK
    <2>4. \A c \in Cells : buf'[Other][c] = buf[Other][c]
      BY <1>2, <1>0
    <2> QED
      BY <2>2, <2>3, <2>4
  <1>4. written' = written + size
    BY <1>0, <1>2 DEF written
  <1>5. /\ written + size <= buf_size - 2
        /\ \A c \in 1 .. written + size : c \in Cells
    BY <1>0 DEF ensure_space_free, Cells
  <1>6. sent' = flushed' + written' /\ written' <= buf_size - 2
    BY <1>4, <1>5, <1>0 DEF FillInv
  <1>7. HoldsFrom(buf'[current_buf], flushed)
    <2>1. ASSUME NEW c \in 1 .. written + size
          PROVE  buf'[current_buf][c] = flushed + c
      <3>1. CASE c \in written + 1 .. written + size
        BY <3>1, <1>2, <1>5, <1>0
      <3>2. CASE c \notin written + 1 .. written + size
        <4>1. c \in 1..written
          BY <3>2, <1>0
        <4>2. buf'[current_buf][c] = buf[current_buf][c]
          BY <1>2, <1>5, <1>0, <3>2, <4>1
        <4> QED
          BY <4>1, <4>2 DEF FillInv, HoldsFrom, written
      <3> QED
        BY <3>1, <3>2
    <2>2. buf'[current_buf][0] = written + size
      BY <1>4 DEF written
    <2> QED
      BY <2>1, <2>2 DEF HoldsFrom
  <1>8. FillInv'
    BY <1>6, <1>7 DEF FillInv
  <1>9. InPipe' = InPipe /\ Base' = Base
    BY <1>1, <1>3 DEF InPipe, Base, rvars
  <1>10. PipeInv'
    BY <1>1, <1>3 DEF PipeInv
  <1>11. ReadInv'
    BY <1>9 DEF ReadInv, rvars
  <1>12. \A i \in {0, 1}, c \in Cells : buf'[i][c] \in 0 .. MaxSent
    <2> TAKE i \in {0, 1}, c \in Cells
    <2>1. buf[i][c] \in 0 .. MaxSent
      BY DEF TypeOK
    <2>2. c \in written + 1 .. written + size => flushed + c \in 0 .. MaxSent
      BY <1>0 DEF FillInv
    <2>3. written + size \in 0 .. MaxSent
      BY <1>0 DEF FillInv
    <2> QED
      BY <1>2, <2>1, <2>2, <2>3
  <1>13. buf' \in [{0, 1} -> [Cells -> 0 .. MaxSent]]
    <2>1. buf' = [i \in {0, 1} |-> [c \in Cells |-> buf'[i][c]]]
      BY DEF Filled
    <2> QED
      BY <2>1, <1>12
  <1> QED
    BY <1>1, <1>4, <1>8, <1>9, <1>10, <1>11, <1>13

\* The reader is given the next `size` units.
LEMMA GivenInOrder ==
    ASSUME got \in Seq(0 .. MaxSent), \A i \in 1..Len(got) : got[i] = i,
           NEW size \in Nat, Len(got) + size <= MaxSent,
           got' = got \o [i \in 1..size |-> Len(got) + i]
    PROVE  /\ got' \in Seq(0 .. MaxSent) /\ Len(got') = Len(got) + size
           /\ \A i \in 1..Len(got') : got'[i] = i
  <1> DEFINE more == [i \in 1..size |-> Len(got) + i]
  <1>2. more \in Seq(0 .. MaxSent) /\ Len(more) = size
    BY BufferSize
  <1>3. got' = got \o more
    OBVIOUS
  <1> HIDE DEF more
  <1>4. got' \in Seq(0 .. MaxSent) /\ Len(got') = Len(got) + size
    BY <1>2, <1>3, ConcatProperties
  <1>5. \A i \in 1..Len(got') : got'[i] = i
    <2> TAKE i \in 1..Len(got')
    <2>1. CASE i <= Len(got)
      BY <1>2, <1>3, <1>4, <2>1
    <2>2. CASE i > Len(got)
      <3>1. got'[i] = more[i - Len(got)] /\ i - Len(got) \in 1..size
        BY <1>2, <1>3, <1>4, <2>2
      <3> QED
        BY <3>1 DEF more
    <2> QED
      BY <2>1, <2>2, <1>4
  <1> QED
    BY <1>4, <1>5

LEMMA PrepareWriteStep ==
    ASSUME IInv, NEW f \in BOOLEAN, quapi_zerocopy_pipe_prepare_write(f)
    PROVE  IInv'
  <1> USE BufferSize
  <1> DEFINE j == [NoJob EXCEPT !.flush = f]
  <1>1. /\ TypeOK /\ FillInv /\ PipeInv /\ ReadInv /\ HeaderInv /\ WriterInv
        /\ wpc = "idle" /\ sent > 0 /\ sent < MaxSent
        /\ UNCHANGED <<buf, current_buf, pipe, rvars, sent, flushed>>
    BY DEF IInv, PlaceInv, quapi_zerocopy_pipe_prepare_write, StartFlush
  <1>2. /\ FillInv' /\ PipeInv' /\ ReadInv'
        /\ Base' = Base /\ InPipe' = InPipe /\ written' = written
    BY <1>1, PlacesKept
  <1>3. /\ current_buf \in {0, 1} /\ written \in 0 .. MaxSent
        /\ sent \in Nat /\ flushed \in Nat
    BY <1>1, Values
  <1>4. flushed > 0
    BY <1>1, <1>3 DEF HeaderInv
  <1>5. j = [flush |-> f, then |-> "idle"]
    BY DEF NoJob
  <1>6. HeaderInv'
    BY <1>1, <1>2, <1>4 DEF HeaderInv, rvars
  <1>7. CASE ensure_space_free(1)
    <2>1. /\ wpc' = "given" /\ job' = j /\ left' = left
          /\ prepared' = <<current_buf, written + 1>>
      BY <1>7 DEF quapi_zerocopy_pipe_prepare_write
    <2>2. written + 1 \in Cells
      BY <1>3, <1>7 DEF ensure_space_free, Cells
    <2>3. TypeOK'
      BY <1>1, <1>3, <1>5, <2>1, <2>2 DEF TypeOK, rvars
    <2>4. WriterInv'
      BY <1>1, <1>2, <1>7, <2>1
      DEF WriterInv, PreparedIsNext, ensure_space_free, Owing
    <2> QED
      BY <1>2, <1>6, <2>3, <2>4 DEF IInv, PlaceInv
  <1>8. CASE ~ensure_space_free(1)
    <2>1. /\ wpc' = "splice" /\ job' = [j EXCEPT !.then = "prepare"]
          /\ left' = BufPages /\ prepared' = prepared
      BY <1>8 DEF quapi_zerocopy_pipe_prepare_write, StartFlush
    <2>2. job' = [flush |-> f, then |-> "prepare"]
      BY <2>1, <1>5
    <2>3. TypeOK'
      <3>1. job' \in [flush : BOOLEAN, then : {"idle", "prepare"}] /\ left' \in 0 .. BufPages
        BY <2>1, <2>2
      <3> QED
        BY <1>1, <2>1, <3>1 DEF TypeOK, rvars
    <2>4. written > 0
      BY <1>3, <1>8 DEF ensure_space_free
    <2>5. WriterInv'
      BY <1>1, <1>2, <2>1, <2>4 DEF WriterInv, PreparedIsNext, Owing
    <2> QED
      BY <1>2, <1>6, <2>3, <2>5 DEF IInv, PlaceInv
  <1> QED
    BY <1>7, <1>8

LEMMA PreparedStep == IInv /\ Prepared => IInv'
  <1> USE BufferSize
  <1> SUFFICES ASSUME IInv, Prepared PROVE IInv'
    OBVIOUS
  <1>1. /\ TypeOK /\ FillInv /\ PipeInv /\ ReadInv /\ HeaderInv /\ WriterInv
        /\ wpc = "prepare" /\ wpc' = "given"
        /\ prepared' = <<current_buf, written + 1>>
        /\ UNCHANGED <<job, left, buf, current_buf, pipe, rvars, sent, flushed>>
    BY DEF IInv, PlaceInv, Prepared
  <1>2. /\ FillInv' /\ PipeInv' /\ ReadInv'
        /\ Base' = Base /\ InPipe' = InPipe /\ written' = written
    BY <1>1, PlacesKept
  <1>3. current_buf \in {0, 1} /\ sent \in Nat /\ flushed \in Nat
    BY <1>1, Values
  <1>4. written = 0 /\ sent > 0 /\ sent < MaxSent
    BY <1>1 DEF WriterInv, Owing
  <1>5. flushed > 0
    BY <1>1, <1>3, <1>4 DEF FillInv
  <1>6. TypeOK'
    <2>1. 1 \in Cells
      BY BufferSize DEF Cells
    <2>2. prepared' \in {0, 1} \X (Cells \cup {buf_size})
      BY <1>1, <1>3, <1>4, <2>1
    <2> QED
      BY <1>1, <2>2 DEF TypeOK, rvars
  <1>7. HeaderInv'
    BY <1>1, <1>2, <1>5 DEF HeaderInv, rvars
  <1>8. WriterInv'
    BY <1>1, <1>2, <1>4
    DEF WriterInv, PreparedIsNext, ensure_space_free, Owing
  <1> QED
    BY <1>2, <1>6, <1>7, <1>8 DEF IInv, PlaceInv

LEMMA WritePreparedStep == IInv /\ WritePrepared => IInv'
  <1> USE BufferSize
  <1> SUFFICES ASSUME IInv, WritePrepared PROVE IInv'
    OBVIOUS
  <1>1. /\ TypeOK /\ FillInv /\ PipeInv /\ ReadInv /\ HeaderInv /\ WriterInv
        /\ wpc = "given" /\ ensure_space_free(1)
        /\ buf' = Filled(prepared[1], prepared[2], 1)
        /\ prepared' = <<prepared[1], prepared[2] + 1>>
        /\ sent' = sent + 1 /\ wpc' \in {"written", "idle"}
        /\ UNCHANGED <<job, left, current_buf, pipe, rvars, flushed>>
    BY DEF IInv, PlaceInv, WritePrepared
  <1>2. /\ current_buf \in {0, 1} /\ written \in 0 .. MaxSent
        /\ sent \in Nat /\ flushed \in Nat
    BY <1>1, Values
  <1>3. /\ prepared = <<current_buf, written + 1>>
        /\ sent > 0 /\ sent < MaxSent
    BY <1>1 DEF WriterInv, PreparedIsNext, Owing
  <1>4. buf' = Filled(current_buf, written + 1, 1)
    BY <1>1, <1>3
  <1>5. /\ buf' \in [{0, 1} -> [Cells -> 0 .. MaxSent]] /\ sent' \in 0 .. MaxSent
        /\ FillInv' /\ PipeInv' /\ ReadInv'
        /\ Base' = Base /\ InPipe' = InPipe /\ written' = written + 1
    BY <1>1, <1>2, <1>3, <1>4, Appended
  <1>6. flushed > 0
    BY <1>1, <1>2, <1>3 DEF HeaderInv
  <1>7. prepared' = <<current_buf, written + 2>> /\ written + 2 \in Cells
    BY <1>1, <1>2, <1>3 DEF ensure_space_free, Cells
  <1>8. TypeOK'
    <2>1. prepared' \in {0, 1} \X (Cells \cup {buf_size})
      BY <1>2, <1>7
    <2>2. wpc' \in {"idle", "prepare", "given", "written", "splice"}
      BY <1>1
    <2> QED
      BY <1>1, <1>5, <2>1, <2>2 DEF TypeOK, rvars
  <1>9. HeaderInv'
    BY <1>1, <1>2, <1>3, <1>5, <1>6 DEF HeaderInv, rvars
  <1>10. WriterInv'
    BY <1>1 DEF WriterInv, PreparedIsNext, Owing
  <1> QED
    BY <1>5, <1>8, <1>9, <1>10 DEF IInv, PlaceInv

LEMMA WriteHeaderStep == IInv /\ WriteHeader => IInv'
  <1> USE BufferSize
  <1> SUFFICES ASSUME IInv, WriteHeader PROVE IInv'
    OBVIOUS
  <1>1. /\ TypeOK /\ FillInv /\ PipeInv /\ ReadInv /\ HeaderInv /\ WriterInv
        /\ wpc = "idle" /\ sent = 0 /\ ensure_space_free(HeaderCells)
        /\ buf' = Filled(current_buf, written + 1, HeaderCells)
        /\ sent' = HeaderCells /\ wpc' = "written"
        /\ job' = [NoJob EXCEPT !.flush = TRUE]
        /\ UNCHANGED <<left, prepared, current_buf, pipe, rvars, flushed>>
    BY DEF IInv, PlaceInv, WriteHeader
  <1>2. /\ current_buf \in {0, 1} /\ written \in 0 .. MaxSent
        /\ sent \in Nat /\ flushed \in Nat
        /\ rbuf[0] \in 0 .. MaxSent /\ InPipe \in 0 .. MaxSent
    BY <1>1, Values
  <1>3. flushed = 0
    BY <1>1, <1>2 DEF FillInv
  <1>4. sent' = sent + HeaderCells /\ sent + HeaderCells <= MaxSent
    BY <1>1, <1>2
  <1>5. /\ buf' \in [{0, 1} -> [Cells -> 0 .. MaxSent]] /\ sent' \in 0 .. MaxSent
        /\ FillInv' /\ PipeInv' /\ ReadInv'
        /\ Base' = Base /\ InPipe' = InPipe /\ written' = written + HeaderCells
    BY <1>1, <1>2, <1>4, Appended
  <1>6. job' = [flush |-> TRUE, then |-> "idle"]
    BY <1>1 DEF NoJob
  <1>7. TypeOK'
    <2>1. job' \in [flush : BOOLEAN, then : {"idle", "prepare"}]
      BY <1>6
    <2> QED
      BY <1>1, <1>5, <2>1 DEF TypeOK, rvars
  <1>8. HeaderInv'
    BY <1>1, <1>2, <1>3, <1>5, <1>6 DEF HeaderInv, rvars
  <1>9. WriterInv'
    BY <1>1 DEF WriterInv, PreparedIsNext, Owing
  <1> QED
    BY <1>5, <1>7, <1>8, <1>9 DEF IInv, PlaceInv

LEMMA FlushStep == IInv /\ quapi_zerocopy_pipe_flush => IInv'
  <1> USE BufferSize
  <1> SUFFICES ASSUME IInv, quapi_zerocopy_pipe_flush PROVE IInv'
    OBVIOUS
  <1>1. /\ TypeOK /\ FillInv /\ PipeInv /\ ReadInv /\ HeaderInv /\ WriterInv
        /\ wpc = "written" /\ prepared' = prepared
        /\ UNCHANGED <<buf, current_buf, pipe, rvars, sent, flushed>>
    BY DEF IInv, PlaceInv, quapi_zerocopy_pipe_flush, StartFlush
  <1>2. /\ FillInv' /\ PipeInv' /\ ReadInv'
        /\ Base' = Base /\ InPipe' = InPipe /\ written' = written
    BY <1>1, PlacesKept
  <1>3. written \in 0 .. MaxSent /\ sent \in Nat /\ flushed \in Nat
    BY <1>1, Values
  <1>4. CASE written > 0
    <2>1. /\ wpc' = "splice" /\ job' = [job EXCEPT !.then = "idle"]
          /\ left' = BufPages
      BY <1>4 DEF quapi_zerocopy_pipe_flush, StartFlush
    <2>2. /\ job' \in [flush : BOOLEAN, then : {"idle", "prepare"}]
          /\ job'.then = "idle"
      BY <1>1, <2>1 DEF TypeOK
    <2>3. left' \in 0 .. BufPages
      BY <2>1
    <2>4. TypeOK'
      BY <1>1, <2>1, <2>2, <2>3 DEF TypeOK, rvars
    <2>5. HeaderInv'
      BY <1>1, <1>2, <2>1, <2>2 DEF HeaderInv, rvars
    <2>6. WriterInv'
      BY <1>2, <1>4, <2>1, <2>2 DEF WriterInv, PreparedIsNext, Owing
    <2> QED
      BY <1>2, <2>4, <2>5, <2>6 DEF IInv, PlaceInv
  <1>5. CASE ~(written > 0)
    <2>1. wpc' = "idle" /\ UNCHANGED <<job, left>>
      BY <1>5 DEF quapi_zerocopy_pipe_flush
    <2>2. flushed = 0 => sent = 0
      BY <1>1, <1>3, <1>5 DEF FillInv
    <2>3. TypeOK'
      BY <1>1, <2>1 DEF TypeOK, rvars
    <2>4. HeaderInv'
      BY <1>1, <1>2, <1>3, <2>2 DEF HeaderInv, rvars
    <2>5. WriterInv'
      BY <2>1 DEF WriterInv, PreparedIsNext, Owing
    <2> QED
      BY <1>2, <2>3, <2>4, <2>5 DEF IInv, PlaceInv
  <1> QED
    BY <1>4, <1>5

\* vmsplice finds room only in an empty pipe, and then room for all.
LEMMA FlushOutWhole ==
    ASSUME IInv, flush_out
    PROVE  /\ pipe = <<>> /\ pipe' = WholeBuffer(current_buf) /\ left' = 0
           /\ Switched /\ flushed' = sent /\ wpc' = job.then
  <1> USE BufferSize
  <1>1. /\ TypeOK /\ PipeInv /\ WriterInv /\ wpc = "splice"
        /\ PipePages - Len(pipe) > 0
    BY DEF IInv, PlaceInv, flush_out
  <1>2. left = BufPages
    BY <1>1 DEF WriterInv
  <1>3. pipe = <<>> /\ Len(pipe) = 0
    <2>1. SUFFICES ASSUME pipe # <<>> PROVE FALSE
      OBVIOUS
    <2>2. Other \in {0, 1} /\ pipe = WholeBuffer(Other)
      BY <1>1, <2>1, Values DEF PipeInv
    <2>3. Len(pipe) = BufPages
      BY <1>1, <2>2, WholeBufferCopied
    <2> QED
      BY <1>1, <2>3
  <1>4. /\ pipe' = pipe \o VmSplice(BufPages) /\ left' = left - BufPages
        /\ left' = 0 => Switched /\ flushed' = sent /\ wpc' = job.then
    BY <1>2, <1>3 DEF flush_out
  <1>5. VmSplice(BufPages) = WholeBuffer(current_buf)
    <2>1. \A i \in 1..BufPages : BufPages - left + i - 1 = i - 1
      BY <1>2
    <2> QED
      BY <2>1 DEF VmSplice, WholeBuffer
  <1>6. pipe' = WholeBuffer(current_buf)
    <2>1. WholeBuffer(current_buf) \in Seq({0, 1} \X (0 .. BufPages - 1))
      BY <1>1 DEF WholeBuffer, TypeOK
    <2> QED
      BY <1>3, <1>4, <1>5, <2>1
  <1> QED
    BY <1>2, <1>3, <1>4, <1>6

LEMMA FlushOutStep == IInv /\ flush_out => IInv'
  <1> USE BufferSize
  <1> SUFFICES ASSUME IInv, flush_out PROVE IInv'
    OBVIOUS
  <1>1. /\ TypeOK /\ FillInv /\ PipeInv /\ ReadInv /\ HeaderInv /\ WriterInv
        /\ wpc = "splice" /\ UNCHANGED <<job, prepared, sent, rvars>>
    BY DEF IInv, PlaceInv, flush_out
  <1>2. /\ pipe = <<>> /\ pipe' = WholeBuffer(current_buf) /\ left' = 0
        /\ flushed' = sent /\ wpc' = job.then
        /\ current_buf' = (current_buf + 1) % 2
        /\ buf' = [buf EXCEPT ![current_buf'][0] = 0]
    BY FlushOutWhole DEF Switched
  <1>3. /\ 0 \in Cells /\ Cells \subseteq Nat
        /\ current_buf \in {0, 1} /\ Other \in {0, 1} /\ Other # current_buf
        /\ written \in 0 .. MaxSent /\ sent \in Nat /\ flushed \in Nat
        /\ rbuf[0] \in 0 .. MaxSent
    BY <1>1, Values
  <1>4. current_buf' = Other /\ Other' = current_buf
    BY <1>2, <1>3 DEF Other
  <1>5. /\ buf' \in [{0, 1} -> [Cells -> 0 .. MaxSent]]
        /\ buf'[current_buf] = buf[current_buf] /\ buf'[Other][0] = 0
    <2>1. buf' = [buf EXCEPT ![Other] = [buf[Other] EXCEPT ![0] = 0]]
      BY <1>2, <1>4
    <2>2. /\ buf \in [{0, 1} -> [Cells -> 0 .. MaxSent]]
          /\ buf[Other] \in [Cells -> 0 .. MaxSent]
      BY <1>1, <1>3 DEF TypeOK
    <2>3. [buf[Other] EXCEPT ![0] = 0] \in [Cells -> 0 .. MaxSent]
      <3>1. 0 \in 0 .. MaxSent
        OBVIOUS
      <3> QED
        BY ONLY <2>2, <3>1, Zenon
    <2> QED
      BY <1>3, <2>1, <2>2, <2>3
  <1>6. written > 0
    BY <1>1 DEF WriterInv
  <1>7. Len(pipe') = BufPages /\ pipe' # <<>> /\ pipe' \in Seq(PageRefs)
    <2>1. pipe' \in Seq(PageRefs) /\ Len(pipe') = BufPages
      <3>1. \A i \in 1..BufPages : <<current_buf, i - 1>> \in PageRefs
        BY <1>3 DEF PageRefs
      <3>2. WholeBuffer(current_buf) \in Seq(PageRefs)
        BY <3>1 DEF WholeBuffer
      <3>3. Len(WholeBuffer(current_buf)) = BufPages
        BY <3>1 DEF WholeBuffer
      <3> QED
        BY <1>2, <3>2, <3>3
    <2> QED
      BY <2>1
  <1>8. /\ written' = 0 /\ InPipe' = written /\ Base' = Base
        /\ Base = flushed - rbuf[0]
    <2>1. written' = 0 /\ InPipe' = written
      BY <1>4, <1>5, <1>7 DEF written, InPipe
    <2>2. Base = flushed - rbuf[0]
      BY <1>2, <1>3 DEF Base, InPipe
    <2>3. Base' = sent - written - rbuf[0]
      BY <1>1, <1>2, <2>1 DEF Base, rvars
    <2> QED
      BY <1>1, <1>3, <2>1, <2>2, <2>3 DEF FillInv
  <1>9. TypeOK'
    <2>1. /\ current_buf' \in {0, 1} /\ left' \in 0 .. BufPages
          /\ flushed' \in 0 .. MaxSent /\ Len(pipe') <= PipePages
          /\ wpc' \in {"idle", "prepare", "given", "written", "splice"}
      BY <1>1, <1>2, <1>3, <1>4, <1>7 DEF TypeOK
    <2> QED
      BY <1>1, <1>5, <1>7, <2>1 DEF TypeOK, rvars
  <1>10. FillInv'
    BY <1>1, <1>2, <1>3, <1>4, <1>5, <1>8 DEF FillInv, HoldsFrom
  <1>11. PipeInv'
    <2>1. buf'[current_buf][0] = written
      BY <1>5 DEF written
    <2>2. written \in 1 .. buf_size - 2
      BY <1>1, <1>3, <1>6 DEF FillInv
    <2>3. sent - written = flushed
      BY <1>1, <1>3 DEF FillInv
    <2>4. HoldsFrom(buf'[current_buf], flushed)
      BY <1>1, <1>5 DEF FillInv
    <2> QED
      BY <1>2, <1>4, <2>1, <2>2, <2>3, <2>4 DEF PipeInv
  <1>12. ReadInv'
    BY <1>1, <1>8 DEF ReadInv, rvars
  <1>13. HeaderInv'
    <2>1. sent > 0 /\ sent = flushed + written
      BY <1>1, <1>3, <1>6 DEF FillInv
    <2>2. written = sent => written = HeaderCells
      BY <1>1, <1>3, <2>1 DEF HeaderInv
    <2> QED
      BY <1>1, <1>2, <1>8, <2>1, <2>2 DEF HeaderInv, rvars
  <1>14. WriterInv'
    BY <1>1, <1>2, <1>8 DEF WriterInv, PreparedIsNext, Owing, TypeOK
  <1> QED
    BY <1>9, <1>10, <1>11, <1>12, <1>13, <1>14 DEF IInv, PlaceInv

\* The reader never runs out of a buffer within a message: the rest of HEADER
\* is in the mapping its first cell came from.
LEMMA NeverMidMessage ==
    ASSUME IInv
    PROVE  /\ NeedsFlushRead => rpc = "message" /\ read_pos = rbuf[0]
           /\ rpc = "trailing" => /\ Base = 0 /\ read_pos = 1
                                  /\ rbuf[0] = HeaderCells
  <1>1. TypeOK /\ ReadInv /\ HeaderInv
    BY DEF IInv, PlaceInv
  <1>2. rbuf[0] \in 0 .. MaxSent /\ read_pos \in Nat
    BY <1>1, Values
  <1>3. rpc = "trailing" => /\ Base = 0 /\ read_pos = 1
                            /\ rbuf[0] = HeaderCells
    BY <1>1, <1>2, BufferSize DEF HeaderInv, ReadInv
  <1>4. rpc = "trailing" => ~NeedsFlushRead
    BY <1>2, <1>3, BufferSize DEF NeedsFlushRead, ReadSize
  <1>5. rpc = "message" /\ NeedsFlushRead => read_pos = rbuf[0]
    BY <1>1, <1>2, BufferSize DEF NeedsFlushRead, ReadSize, ReadInv
  <1> QED
    BY <1>1, <1>3, <1>4, <1>5 DEF TypeOK

\* Giving the next `size` units of those that were flushed.
LEMMA GivenFrom ==
    ASSUME IInv, NEW size \in Nat, size >= 1, Len(got) + size <= flushed,
           got' = got \o [i \in 1..size |-> Len(got) + i],
           UNCHANGED <<sent, flushed>>
    PROVE  /\ got' \in Seq(0 .. MaxSent) /\ Len(got') = Len(got) + size
           /\ \A i \in 1..Len(got') : got'[i] = i
           /\ Channel!Receive
  <1> USE BufferSize
  <1>1. /\ sent \in 0 .. MaxSent /\ flushed \in 0 .. MaxSent
        /\ got \in Seq(0 .. MaxSent) /\ \A i \in 1..Len(got) : got[i] = i
    BY DEF IInv, PlaceInv, ReadInv, TypeOK
  <1>2. Len(got) + size <= MaxSent
    BY <1>1
  <1>3. /\ got' \in Seq(0 .. MaxSent) /\ Len(got') = Len(got) + size
        /\ \A i \in 1..Len(got') : got'[i] = i
    BY <1>1, <1>2, GivenInOrder
  <1>4. Channel!Receive
    <2> DEFINE m == Len(got) + size
    <2>1. m \in Len(got) + 1 .. flushed /\ m - Len(got) = size
      BY <1>1
    <2>2. got' = got \o [i \in 1 .. m - Len(got) |-> Len(got) + i]
      BY <2>1
    <2> QED
      BY <2>1, <2>2 DEF Channel!Receive
  <1> QED
    BY <1>3, <1>4

\* What a mapping yields that holds the units behind n, of which the reader
\* has had `at`.
LEMMA UnitsBehind ==
    ASSUME NEW rb, NEW n \in Nat, NEW at \in Nat, NEW size \in Nat,
           rb[0] \in Nat, HoldsFrom(rb, n), at + size <= rb[0]
    PROVE  [i \in 1..size |-> rb[at + i]] = [i \in 1..size |-> (n + at) + i]
  <1> SUFFICES ASSUME NEW i \in 1..size PROVE rb[at + i] = (n + at) + i
    OBVIOUS
  <1>1. at + i \in 1..rb[0]
    OBVIOUS
  <1>2. rb[at + i] = n + (at + i)
    BY <1>1 DEF HoldsFrom
  <1> QED
    BY <1>2

LEMMA ReadStep ==
    ASSUME IInv, quapi_zerocopy_pipe_read
    PROVE  IInv' /\ Channel!Receive
  <1> USE BufferSize
  <1>1. /\ TypeOK /\ FillInv /\ PipeInv /\ ReadInv /\ HeaderInv /\ WriterInv
        /\ read_pos + ReadSize <= rbuf[0]
        /\ UNCHANGED <<wvars, pipe, rbuf, flushed>>
    <2>1. read_pos \in Nat /\ rbuf[0] \in Nat
      BY Values DEF IInv
    <2> QED
      BY <2>1 DEF IInv, PlaceInv, quapi_zerocopy_pipe_read, NeedsFlushRead, ReadSize
  <1>2. /\ Base \in Int /\ rbuf[0] \in 0 .. MaxSent /\ read_pos \in Nat
        /\ InPipe \in 0 .. MaxSent /\ flushed \in Nat
    BY <1>1, Values
  <1>3. /\ Base \in Nat /\ HoldsFrom(rbuf, Base) /\ Len(got) = Base + read_pos
        /\ Base + rbuf[0] <= flushed
    BY <1>1, <1>2 DEF ReadInv, Base
  <1>4. /\ ReadSize \in Nat /\ ReadSize >= 1
        /\ got' = got \o [i \in 1..ReadSize |-> rbuf[read_pos + i]]
        /\ read_pos' = read_pos + ReadSize
        /\ rpc' \in {"message", "trailing"}
        /\ rpc' = "trailing" => rpc = "message" /\ rbuf[read_pos + 1] = 1
    <2>1. CASE rpc = "message"
      BY <2>1 DEF quapi_zerocopy_pipe_read, MessageRead, Give, ReadSize
    <2>2. CASE rpc = "trailing"
      <3>1. ReadSize \in Nat /\ ReadSize >= 1
        BY <2>2 DEF ReadSize
      <3>2. rpc # "message"
        BY <2>2
      <3>3. Give(rbuf, read_pos, ReadSize, "message")
        BY <3>2 DEF quapi_zerocopy_pipe_read
      <3> QED
        BY <3>1, <3>3 DEF Give
    <2> QED
      BY <1>1, <2>1, <2>2 DEF TypeOK
  <1>5. /\ got' \in Seq(0 .. MaxSent)
        /\ Len(got') = Base + (read_pos + ReadSize)
        /\ \A i \in 1..Len(got') : got'[i] = i
        /\ Channel!Receive
    <2>1. rbuf[0] \in Nat /\ UNCHANGED <<sent, flushed>>
      BY <1>1, <1>2 DEF wvars
    <2>2. [i \in 1..ReadSize |-> rbuf[read_pos + i]]
            = [i \in 1..ReadSize |-> (Base + read_pos) + i]
      <3>1. /\ Base \in Nat /\ read_pos \in Nat /\ ReadSize \in Nat
            /\ HoldsFrom(rbuf, Base) /\ read_pos + ReadSize <= rbuf[0]
        BY <1>1, <1>2, <1>3, <1>4
      <3> QED
        BY <2>1, <3>1, UnitsBehind
    <2>3. got' = got \o [i \in 1..ReadSize |-> Len(got) + i]
      BY <1>3, <1>4, <2>2
    <2>4. Len(got) + ReadSize <= flushed
      BY <1>1, <1>2, <1>3, <1>4
    <2>5. /\ got' \in Seq(0 .. MaxSent) /\ Len(got') = Len(got) + ReadSize
          /\ \A i \in 1..Len(got') : got'[i] = i
          /\ Channel!Receive
      BY <1>4, <2>1, <2>3, <2>4, GivenFrom
    <2> QED
      BY <1>2, <1>3, <1>4, <2>5
  <1>6. InPipe' = InPipe /\ Base' = Base /\ written' = written /\ Other' = Other
    BY <1>1 DEF InPipe, Base, written, Other, wvars
  <1>7. read_pos' \in Cells
    BY <1>1, <1>2, <1>4 DEF ReadInv, Cells
  <1>8. TypeOK'
    BY <1>1, <1>4, <1>5, <1>7 DEF TypeOK, wvars
  <1>9. FillInv' /\ PipeInv'
    BY <1>1, <1>6 DEF FillInv, PipeInv, HoldsFrom, wvars
  <1>10. ReadInv'
    BY <1>1, <1>3, <1>4, <1>5, <1>6 DEF ReadInv
  <1>11. rpc' = "trailing" => Base' = 0 /\ read_pos' = 1
    <2> HAVE rpc' = "trailing"
    <2>1. ReadSize = 1 /\ rbuf[read_pos + 1] = 1
      BY <1>4 DEF ReadSize
    <2>2. rbuf[read_pos + 1] = Base + (read_pos + 1)
      BY <1>1, <1>2, <1>3, <2>1 DEF HoldsFrom
    <2> QED
      BY <1>2, <1>3, <1>4, <1>6, <2>1, <2>2
  <1>12. HeaderInv'
    BY <1>1, <1>6, <1>11 DEF HeaderInv, wvars
  <1>13. WriterInv'
    BY <1>1, <1>6 DEF WriterInv, PreparedIsNext, ensure_space_free, Owing, wvars
  <1> QED
    BY <1>5, <1>8, <1>9, <1>10, <1>12, <1>13 DEF IInv, PlaceInv

LEMMA FlushReadStep ==
    ASSUME IInv, flush_read
    PROVE  IInv' /\ Channel!Receive
  <1> USE BufferSize
  <1>1. /\ TypeOK /\ FillInv /\ PipeInv /\ ReadInv /\ HeaderInv /\ WriterInv
        /\ NeedsFlushRead /\ pipe # <<>>
        /\ UNCHANGED <<wvars, flushed>>
    BY DEF IInv, PlaceInv, flush_read
  <1>2. /\ Base \in Int /\ rbuf[0] \in 0 .. MaxSent /\ read_pos \in Nat
        /\ InPipe \in 0 .. MaxSent /\ flushed \in Nat
        /\ current_buf \in {0, 1} /\ Other \in {0, 1}
    BY <1>1, Values
  <1>3. rpc = "message" /\ read_pos = rbuf[0]
    BY <1>1, NeverMidMessage
  <1>4. /\ pipe = WholeBuffer(Other) /\ InPipe = buf[Other][0]
        /\ InPipe \in 1 .. buf_size - 2
        /\ HoldsFrom(buf[Other], flushed - InPipe)
    BY <1>1 DEF PipeInv, InPipe
  <1>5. rbuf' = buf[Other] /\ pipe' = <<>>
    BY <1>1, <1>2, <1>4, WholeBufferCopied DEF flush_read
  <1>6. /\ flushed - InPipe \in Nat /\ Len(got) = (flushed - InPipe) + 0
        /\ rbuf'[0] = InPipe
    <2>1. Base >= 0 /\ Len(got) = Base + rbuf[0]
      BY <1>1, <1>3 DEF ReadInv
    <2>2. Base + rbuf[0] = flushed - InPipe
      BY <1>2 DEF Base
    <2> QED
      BY <1>2, <1>4, <1>5, <2>1, <2>2
  <1>7. /\ got' = got \o [i \in 1..1 |-> rbuf'[0 + i]]
        /\ read_pos' = 1
        /\ rpc' = IF rbuf'[1] = 1 THEN "trailing" ELSE "message"
    BY <1>3 DEF flush_read, MessageRead, Give
  <1>8. /\ got' \in Seq(0 .. MaxSent)
        /\ Len(got') = (flushed - InPipe) + (0 + 1)
        /\ \A i \in 1..Len(got') : got'[i] = i
        /\ Channel!Receive
    <2>1. /\ rbuf'[0] \in Nat /\ HoldsFrom(rbuf', flushed - InPipe)
          /\ 0 + 1 <= rbuf'[0] /\ Len(got) + 1 <= flushed
      BY <1>2, <1>4, <1>5, <1>6
    <2>2. [i \in 1..1 |-> rbuf'[0 + i]]
            = [i \in 1..1 |-> ((flushed - InPipe) + 0) + i]
      BY <1>6, <2>1, UnitsBehind
    <2>3. got' = got \o [i \in 1..1 |-> Len(got) + i]
      BY <1>6, <1>7, <2>2
    <2>4. /\ got' \in Seq(0 .. MaxSent) /\ Len(got') = Len(got) + 1
          /\ \A i \in 1..Len(got') : got'[i] = i
          /\ Channel!Receive
      BY <1>1, <2>1, <2>3, GivenFrom DEF wvars
    <2> QED
      BY <1>2, <1>6, <2>4
  <1>9. /\ InPipe' = 0 /\ Base' = flushed - InPipe
        /\ written' = written /\ Other' = Other
    BY <1>1, <1>2, <1>5, <1>6 DEF InPipe, Base, written, Other, wvars
  <1>10. TypeOK'
    <2>1. rbuf' \in [Cells -> 0 .. MaxSent]
      BY <1>1, <1>2, <1>5 DEF TypeOK
    <2>2. /\ pipe' \in Seq(PageRefs) /\ Len(pipe') <= PipePages
          /\ read_pos' \in Cells /\ rpc' \in {"message", "trailing"}
      BY <1>5, <1>7 DEF Cells
    <2> QED
      BY <1>1, <1>8, <2>1, <2>2 DEF TypeOK, wvars
  <1>11. FillInv' /\ PipeInv'
    BY <1>1, <1>5, <1>9 DEF FillInv, PipeInv, HoldsFrom, wvars
  <1>12. ReadInv'
    <2>1. /\ rbuf'[0] <= buf_size - 2 /\ read_pos' <= rbuf'[0]
          /\ Base' >= 0 /\ HoldsFrom(rbuf', Base')
      BY <1>4, <1>5, <1>6, <1>7, <1>9
    <2>2. Len(got') = Base' + read_pos'
      BY <1>6, <1>7, <1>8, <1>9
    <2> QED
      BY <1>8, <2>1, <2>2 DEF ReadInv
  <1>13. HeaderInv'
    <2>1. rbuf'[1] = (flushed - InPipe) + 1
      BY <1>4, <1>5 DEF HoldsFrom
    <2>2. rpc' = "trailing" => Base' = 0 /\ read_pos' = 1
      BY <1>2, <1>7, <1>9, <2>1
    <2>3. Base' = 0 => rbuf'[0] = HeaderCells
      <3>1. flushed > 0 /\ InPipe = flushed => InPipe = HeaderCells
        BY <1>1 DEF HeaderInv
      <3>2. flushed - InPipe = 0 => flushed > 0 /\ InPipe = flushed
        BY <1>2, <1>4
      <3> QED
        BY <1>6, <1>9, <3>1, <3>2
    <2> QED
      BY <1>1, <1>2, <1>9, <2>2, <2>3 DEF HeaderInv, wvars
  <1>14. WriterInv'
    BY <1>1, <1>9 DEF WriterInv, PreparedIsNext, ensure_space_free, Owing, wvars
  <1> QED
    BY <1>8, <1>10, <1>11, <1>12, <1>13, <1>14 DEF IInv, PlaceInv

LEMMA NextIInv == IInv /\ [Next]_vars => IInv'
  <1> SUFFICES ASSUME IInv, [Next]_vars PROVE IInv'
    OBVIOUS
  <1>1. CASE Prepared
    BY <1>1, PreparedStep
  <1>2. CASE WritePrepared
    BY <1>2, WritePreparedStep
  <1>3. CASE quapi_zerocopy_pipe_flush
    BY <1>3, FlushStep
  <1>4. CASE flush_out
    BY <1>4, FlushOutStep
  <1>5. CASE WriteHeader
    BY <1>5, WriteHeaderStep
  <1>6. CASE \E f \in BOOLEAN : quapi_zerocopy_pipe_prepare_write(f)
    BY <1>6, PrepareWriteStep
  <1>7. CASE quapi_zerocopy_pipe_read
    BY <1>7, ReadStep
  <1>8. CASE flush_read
    BY <1>8, FlushReadStep
  <1>9. CASE UNCHANGED vars
    <2>1. /\ UNCHANGED <<buf, current_buf, pipe, rvars, sent, flushed>>
          /\ UNCHANGED <<wpc, job, prepared, left>>
          /\ TypeOK /\ FillInv /\ PipeInv /\ ReadInv /\ HeaderInv /\ WriterInv
      BY <1>9 DEF vars, rvars, IInv, PlaceInv
    <2>2. /\ FillInv' /\ PipeInv' /\ ReadInv'
          /\ Base' = Base /\ InPipe' = InPipe /\ written' = written
      BY <2>1, PlacesKept
    <2>3. TypeOK'
      BY <2>1 DEF TypeOK, rvars
    <2>4. HeaderInv'
      BY <2>1, <2>2 DEF HeaderInv, rvars
    <2>5. WriterInv'
      BY <2>1, <2>2
      DEF WriterInv, PreparedIsNext, ensure_space_free, Owing
    <2> QED
      BY <2>2, <2>3, <2>4, <2>5 DEF IInv, PlaceInv
  <1> QED
    BY <1>1, <1>2, <1>3, <1>4, <1>5, <1>6, <1>7, <1>8, <1>9
    DEF Next, WriterStep, ClientStep, ReaderStep, Quiet

LEMMA Inductive == Spec => []IInv
  BY InitIInv, NextIInv, PTL DEF Spec
-----------------------------------------------------------------------------
(***************************************************************************)
(* Theorems.                                                               *)
(***************************************************************************)

\* Every address, position and counter stays inside its buffer, whatever the
\* sizes are.
THEOREM TypesKept == Spec => []TypeOK
  <1>1. IInv => TypeOK
    BY DEF IInv
  <1> QED
    BY Inductive, <1>1, PTL

\* flush_out: vmsplice never leaves a page of the buffer being filled in the
\* pipe, as long as the pipe holds exactly one buffer.
THEOREM SpliceBlocksReuse == Spec => []PagesSettled
  <1>1. IInv => PagesSettled
    <2> SUFFICES ASSUME IInv, NEW i \in 1..Len(pipe)
                 PROVE  pipe[i][1] # current_buf
      BY DEF PagesSettled
    <2>1. TypeOK /\ PipeInv
      BY DEF IInv, PlaceInv
    <2>2. Other \in {0, 1} /\ Other # current_buf
      BY <2>1, Values
    <2>3. pipe # <<>>
      BY <2>1 DEF TypeOK
    <2>4. pipe = WholeBuffer(Other)
      BY <2>1, <2>3 DEF PipeInv
    <2>5. pipe[i] = <<Other, i - 1>>
      BY <2>1, <2>2, <2>4, WholeBufferCopied
    <2> QED
      BY <2>2, <2>5
  <1> QED
    BY Inductive, <1>1, PTL

\* prepare_write: the memory a caller holds is the next free cell of the
\* current buffer, also when handing it out had to flush first.
THEOREM PreparedStaysNext == Spec => []PreparedIsNext
  <1>1. IInv => PreparedIsNext
    BY DEF IInv, PlaceInv, WriterInv
  <1> QED
    BY Inductive, <1>1, PTL

\* quapi_zerocopy_pipe_read: its assertion holds; no message, HEADER with its
\* trailing data included, lies across two buffers.
THEOREM ReadAssertionHolds == Spec => []BuffersUsedUp
  <1>1. IInv => BuffersUsedUp
    BY NeverMidMessage DEF BuffersUsedUp
  <1> QED
    BY Inductive, <1>1, PTL

\* The safety half of ImplementsChannel: what the two ends see is a channel.
ChannelSteps == Channel!Init /\ [][Channel!Next]_(Channel!chan_vars)

\* Every write is a Send, every vmsplice of a buffer a Flush, every read a
\* Receive of the next units, and nothing else is seen by the two ends.
THEOREM StepsOfTheChannel == Spec => ChannelSteps
  <1>1. Init => Channel!Init
    BY DEF Init, Channel!Init
  <1>2. IInv /\ [Next]_vars => [Channel!Next]_(Channel!chan_vars)
    <2> SUFFICES ASSUME IInv, [Next]_vars
                 PROVE  Channel!Next \/ UNCHANGED <<sent, flushed, got>>
      BY DEF Channel!chan_vars
    <2>0. TypeOK /\ FillInv /\ sent \in Nat /\ flushed \in Nat /\ written \in Nat
      BY Values DEF IInv, PlaceInv
    <2>1. CASE WritePrepared
      BY <2>0, <2>1 DEF WritePrepared, rvars, Channel!Next, Channel!Send
    <2>2. CASE WriteHeader
      BY <2>0, <2>2, BufferSize DEF WriteHeader, rvars, Channel!Next, Channel!Send
    <2>3. CASE flush_out
      <3>1. /\ flushed' = sent /\ sent' = sent /\ got' = got
            /\ written > 0 /\ sent = flushed + written
        BY <2>3, FlushOutWhole DEF flush_out, rvars, IInv, PlaceInv, WriterInv, FillInv
      <3> QED
        BY <2>0, <3>1 DEF Channel!Next, Channel!Flush
    <2>4. CASE quapi_zerocopy_pipe_read
      BY <2>4, ReadStep DEF Channel!Next
    <2>5. CASE flush_read
      BY <2>5, FlushReadStep DEF Channel!Next
    <2>6. CASE Prepared
      BY <2>6 DEF Prepared, rvars
    <2>7. CASE quapi_zerocopy_pipe_flush
      BY <2>7 DEF quapi_zerocopy_pipe_flush, StartFlush, rvars
    <2>8. CASE \E f \in BOOLEAN : quapi_zerocopy_pipe_prepare_write(f)
      BY <2>8 DEF quapi_zerocopy_pipe_prepare_write, StartFlush, rvars
    <2>9. CASE UNCHANGED vars
      BY <2>9 DEF vars
    <2> QED
      BY <2>1, <2>2, <2>3, <2>4, <2>5, <2>6, <2>7, <2>8, <2>9
      DEF Next, WriterStep, ClientStep, ReaderStep, Quiet
  <1> QED
    BY Inductive, <1>1, <1>2, PTL DEF Spec, ChannelSteps
=============================================================================
