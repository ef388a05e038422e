---------------------------- MODULE MessagePipe ----------------------------
(***************************************************************************)
(* agent.messagePipe: producers append to a queue under a mutex and kick a *)
(* one-place wake channel; a relay goroutine moves the queue, message by   *)
(* message, to an unbuffered channel.  One critical section of the mutex   *)
(* is one step.  A kick is merged with the append it follows: a relay that *)
(* runs between the two finds the queue non-empty and does not wait, and   *)
(* the late kick leaves at most one wake too many.                         *)
(***************************************************************************)
EXTENDS Naturals, Sequences

CONSTANTS
  Producers,   \* goroutines that call Send
  MaxSends     \* bound: messages each of them sends

ASSUME PipeAssumption == MaxSends \in Nat

VARIABLES
  calls,        \* Send calls each producer has made
  queued,       \* messagePipe.q
  pipeClosed,   \* messagePipe.closed
  wake,         \* a token is in messagePipe.wake
  relay,        \* the relay goroutine: "check", "wait", "offer" or "ended"
  hand,         \* what it offers: <<>> or <<message>>
  taken         \* what the reader of the channel has received

pipeVars == <<calls, queued, pipeClosed, wake, relay, hand, taken>>

PipeInit ==
  /\ calls = [p \in Producers |-> 0]
  /\ queued = <<>> /\ pipeClosed = FALSE /\ wake = FALSE
  /\ relay = "check" /\ hand = <<>> /\ taken = <<>>

\* Fault: the wake channel has no place for a token, so that a kick is lost
\* unless the relay is already receiving.
KickUnbuffered == wake' \in {wake, TRUE}

kick == wake' = TRUE

\* A Send after Close is dropped.
PipeSend(p) ==
  /\ calls[p] < MaxSends
  /\ calls' = [calls EXCEPT ![p] = @ + 1]
  /\ IF pipeClosed THEN UNCHANGED <<queued, wake>> ELSE queued' = Append(queued, <<p, calls'[p]>>) /\ kick
  /\ UNCHANGED <<pipeClosed, relay, hand, taken>>

Close ==
  /\ ~pipeClosed
  /\ pipeClosed' = TRUE
  /\ kick
  /\ UNCHANGED <<calls, queued, relay, hand, taken>>

\* The relay looks at the queue under the mutex ...
RelayCheck ==
  /\ relay = "check"
  /\ \/ /\ queued # <<>>
        /\ hand' = <<Head(queued)>> /\ queued' = Tail(queued)
        /\ relay' = "offer"
     \/ /\ queued = <<>>
        /\ relay' = IF pipeClosed THEN "ended" ELSE "wait"
        /\ UNCHANGED <<queued, hand>>
  /\ UNCHANGED <<calls, pipeClosed, wake, taken>>

\* ... and sleeps on wake if there is nothing to do.
RelayWake ==
  /\ relay = "wait" /\ wake
  /\ wake' = FALSE
  /\ relay' = "check"
  /\ UNCHANGED <<calls, queued, pipeClosed, hand, taken>>

\* The rendezvous with the reader of Messages, the exec pump.
Take ==
  /\ relay = "offer"
  /\ taken' = taken \o hand
  /\ hand' = <<>>
  /\ relay' = "check"
  /\ UNCHANGED <<calls, queued, pipeClosed, wake>>

PipeNext ==
  \/ \E p \in Producers : PipeSend(p)
  \/ Close
  \/ RelayCheck \/ RelayWake \/ Take

\* The relay goroutine runs, and the pump keeps reading.
PipeSpec == PipeInit /\ [][PipeNext]_pipeVars /\ WF_pipeVars(RelayCheck \/ RelayWake) /\ WF_pipeVars(Take)

-----------------------------------------------------------------------------

Queue == INSTANCE Fifo WITH
  Message <- Producers \X (1..MaxSends),
  queue <- hand \o queued, shut <- pipeClosed, got <- taken, over <- relay = "ended"

\* The queue, its lock and its wake channel are a lossless FIFO with an end
\* that a reader is sure to see: no kick is lost, no message is dropped or
\* overtaken, and nothing is offered after the end (message_pipe.go).
PipeIsFifo == Queue!Spec
=============================================================================
