--------------------------- MODULE MCMessagePipe ---------------------------
(* A scanner goroutine and a late sender on one pipe.                      *)
EXTENDS MessagePipe

TwoProducers == {"scanner", "late"}
=============================================================================
