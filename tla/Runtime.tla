------------------------------ MODULE Runtime ------------------------------
(***************************************************************************)
(* What cmd/arbiter/main.go gives every goroutine: the process (its        *)
(* context and its end), and the bounded event channel between the pollers *)
(* and the one event processor.                                            *)
(***************************************************************************)
EXTENDS Base, Sequences

CONSTANT QueueCap     \* capacity of the event channel (5000 in the code)

ASSUME RuntimeAssumption == QueueCap \in Nat \ {0}

VARIABLES run,        \* "down", "running", or "stopping": the context is cancelled
          queue       \* the event channel

runtimeVars == <<now, run, queue>>

\* A threat event is its identifier and its time stamp (Never: it has none, as
\* every event of the KEV source).
Item == [id : Event, ts : Stamp]

RuntimeTypeOK == /\ now \in Time
                 /\ run \in {"down", "running", "stopping"}
                 /\ queue \in Seq(Item)
                 /\ Len(queue) <= QueueCap

RuntimeInit == now = 0 /\ run = "down" /\ queue = <<>>

\* Faulty variant: the newest item is taken first.
SendFirst(item) == /\ Len(queue) < QueueCap
                   /\ queue' = <<item>> \o queue

\* ch <- item blocks while the channel is full.
Send(item) == /\ Len(queue) < QueueCap
              /\ queue' = Append(queue, item)

\* Faulty variant: the capacity is off by one.
TrySendOneMore(item) == queue' = IF Len(queue) <= QueueCap THEN Append(queue, item)
                                                           ELSE queue

\* select { case ch <- item: default: } drops the item when the channel is full.
TrySend(item) == queue' = IF Len(queue) < QueueCap THEN Append(queue, item)
                                                   ELSE queue

Receive == queue # <<>> /\ queue' = Tail(queue)

Start  == run = "down" /\ run' = "running"
\* SIGINT or SIGTERM: the context is cancelled, goroutines notice it at their
\* next select.
Cancel == run = "running" /\ run' = "stopping"
\* The process ends: a crash at any point, or main returning once the context is
\* cancelled, which waits for no goroutine. The channel was its memory.
Die    == run # "down" /\ run' = "down" /\ queue' = <<>>
=============================================================================
