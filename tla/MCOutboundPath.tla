--------------------------- MODULE MCOutboundPath ---------------------------
(***************************************************************************)
(* OutboundPath for TLC.  The runs give the constants small values; this   *)
(* module adds what the documents and comments of the repository say of    *)
(* the shutdown, each claim a property of its own.                         *)
(***************************************************************************)
EXTENDS OutboundPath

\* pkg/channels/README.md:1007-1008 and the comments in StopAll: the worker
\* queues are closed and drained before the channels are stopped.
QueuesDrainOnStop ==
    main \in {"stopped", "exited"} => \A w \in Workers : queue[w] = <<>>

\* pkg/channels/README.md:1165: a worker's queue is a Go channel, inherently
\* safe for concurrent use; dispatchers and StopAll may use it as they like.
ConcurrentUseIsSafe == main # "crashed"
=============================================================================
