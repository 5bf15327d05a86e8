--------------------------- MODULE MessageChannel ---------------------------
(***************************************************************************)
(* What either build of quapi_write_msg_to_file promises the two ends of a *)
(* pipe, over stdio or over zero-copy buffers: every unit arrives once and *)
(* in order, and what was written before a flush does arrive.              *)
(***************************************************************************)
EXTENDS Naturals, Sequences

VARIABLES
    sent,       \* units written so far; they are numbered as they are sent
    flushed,    \* how many of them a flush has let go
    received    \* the units the reader was given

chan_vars == <<sent, flushed, received>>

Init == sent = 0 /\ flushed = 0 /\ received = <<>>

\* One write carries the units of one message.
Send ==
    /\ sent' > sent
    /\ UNCHANGED <<flushed, received>>

\* A buffer that is full is passed on unasked.
Flush ==
    /\ flushed' \in flushed + 1 .. sent
    /\ UNCHANGED <<sent, received>>

\* The reader gets the next units, up to unit n, and only flushed ones.
Receive ==
    \E n \in Len(received) + 1 .. flushed :
        /\ received' = received \o [i \in 1 .. n - Len(received) |->
                                       Len(received) + i]
        /\ UNCHANGED <<sent, flushed>>

Next == Send \/ Flush \/ Receive

Spec == Init /\ [][Next]_chan_vars /\ WF_chan_vars(Receive)
=============================================================================
