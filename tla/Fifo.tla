-------------------------------- MODULE Fifo --------------------------------
(***************************************************************************)
(* What message_pipe.go promises: a lossless queue.  What is put before    *)
(* the producer side is shut comes out in the order it was put, and the    *)
(* end is seen after the last of it.                                       *)
(***************************************************************************)
EXTENDS Sequences

CONSTANT Message

VARIABLES
  queue,   \* put and not yet got
  shut,    \* the producers have ended
  got,     \* everything the reader has got
  over     \* the reader can see the end

vars == <<queue, shut, got, over>>

Init == queue = <<>> /\ shut = FALSE /\ got = <<>> /\ over = FALSE

Put ==
  /\ ~shut
  /\ \E m \in Message : queue' = Append(queue, m)
  /\ UNCHANGED <<shut, got, over>>

Shut ==
  /\ ~shut
  /\ shut' = TRUE
  /\ UNCHANGED <<queue, got, over>>

Get ==
  /\ queue # <<>>
  /\ got' = Append(got, Head(queue))
  /\ queue' = Tail(queue)
  /\ UNCHANGED <<shut, over>>

End ==
  /\ shut /\ queue = <<>> /\ ~over
  /\ over' = TRUE
  /\ UNCHANGED <<queue, shut, got>>

Next == Put \/ Shut \/ Get \/ End

Safety == Init /\ [][Next]_vars

\* A reader that keeps reading gets everything and sees the end.
Spec == Safety /\ WF_vars(Get) /\ WF_vars(End)
=============================================================================
