------------------------------ MODULE StreamFlow ------------------------------
(***************************************************************************)
(* One remote view of a terminal session (crates/remote/src/stream.rs):    *)
(* the session's PTY loop hands every chunk of output to the view's        *)
(* StreamFlow, which queues it on the channel (SendQueue, link.rs), whose  *)
(* pump sends it and reports back what left.  A view that falls behind has *)
(* output dropped until the backlog drains, and is then given a checkpoint *)
(* of the whole screen.                                                    *)
(*                                                                         *)
(* Two threads meet here: the PTY loop (`loop`) and the pump (`sending`).  *)
(* They share the atomic byte counts, read and changed one at a time, and  *)
(* the mutex around `state`, held across the load of the backlog and the   *)
(* decision taken on it.  Output is counted in bytes from the start of the *)
(* session: a frame carries the bytes (from, to], a checkpoint everything  *)
(* up to `to`.                                                             *)
(***************************************************************************)
EXTENDS Integers, Sequences

CONSTANTS HighWater, LowWater, \* the marks of the backlog
          MaxQueued,           \* a channel further behind is closed
          ChunkSizes,          \* what one read of the PTY may return
          CheckpointSizes,     \* what a formatted screen may take
          MaxOutput,           \* bound on the output of the session
          MaxOther,            \* bound on messages of the channel's other users
          Faults               \* "checkpoint", "channel", "detach", "exit"

\* READ_BUFFER_SIZE (64 KiB) is below HIGH_WATER (1 MiB).
ASSUME ChunksFit == ChunkSizes \subseteq 1..HighWater
ASSUME Marks ==
    /\ HighWater \in Nat /\ LowWater \in 1..HighWater
    /\ CheckpointSizes \subseteq Nat \ {0} /\ CheckpointSizes # {}

VARIABLES
    produced,    \* bytes the engine has parsed
    running,     \* the PTY loop runs
    subscribed,  \* the loop holds the view's sink
    messages,    \* Msgs waiting for the loop
    failed,      \* the engine could not produce some checkpoint
    loop,        \* where the loop is in a callback of the view
    state,       \* FlowState
    locked,      \* the loop holds the mutex of `state`
    pending,     \* bytes of this view queued and not reported sent
    closed,      \* the client detached
    queue,       \* the channel's messages
    queued,      \* their bytes
    channel,     \* the pump runs
    sending,     \* where the pump is
    other,       \* messages sent by others
    view,        \* bytes the view has been shown, in order, without a gap
    torn         \* it was shown output that does not continue what it had

vars == <<produced, running, subscribed, messages, failed, loop, state, locked, pending,
          closed, queue, queued, channel, sending, other, view, torn>>

flowVars == <<state, locked, pending, closed>>
channelVars == <<queue, queued, channel, sending, other, view, torn>>
loopVars == <<produced, running, subscribed, messages, failed>>

Idle == [at |-> "idle"]

Frame(kind, from, to, size) == [kind |-> kind, from |-> from, to |-> to, size |-> size]

Exit == Frame("exit", 0, 0, 1)

Hooked(f) == f.kind \in {"output", "checkpoint"}

\* SendQueue::send: nothing reaches a channel that is gone.
Queued(frames) == IF channel THEN queue \o frames ELSE queue

\* Drop for ExitNotice, when the loop lets go of the sink.
ExitNotice ==
    /\ queue' = IF closed THEN queue ELSE Queued(<<Exit>>)
    /\ queued' = IF closed \/ ~channel THEN queued ELSE queued + Exit.size

-------------------------------------------------------------------------------
(* The PTY loop: output. *)

\* A chunk is parsed and handed to the subscribers.
Parse(n) ==
    /\ running /\ loop = Idle /\ produced + n <= MaxOutput
    /\ produced' = produced + n
    /\ loop' = IF subscribed THEN [at |-> "look", size |-> n] ELSE Idle
    /\ UNCHANGED <<running, subscribed, messages, failed, flowVars, channelVars>>

\* on_output: a view that is gone unsubscribes by returning false.
LookGone ==
    /\ loop.at = "look" /\ (closed \/ ~channel)
    /\ subscribed' = FALSE
    /\ loop' = Idle
    /\ ExitNotice
    /\ UNCHANGED <<produced, failed, running, messages, flowVars, channel, sending, other, view, torn>>

\* on_output takes the mutex; unless Live, the chunk is discarded.
Look ==
    /\ loop.at = "look" /\ ~closed /\ channel
    /\ \/ /\ state # "Live"
          /\ loop' = Idle /\ UNCHANGED locked
       \/ /\ state = "Live"
          /\ loop' = [at |-> "decide", size |-> loop.size, seen |-> pending]
          /\ locked' = TRUE
    /\ UNCHANGED <<loopVars, state, pending, closed, channelVars>>

\* Mutant of Decide: the chunk itself is not counted.
DecideWithoutSize ==
    /\ loop.at = "decide"
    /\ \/ /\ loop.seen > HighWater
          /\ state' = "Dropping" /\ loop' = Idle
       \/ /\ loop.seen <= HighWater
          /\ loop' = [at |-> "count", frame |-> Frame("output", produced - loop.size, produced, loop.size)]
          /\ UNCHANGED state
    /\ locked' = FALSE
    /\ UNCHANGED <<loopVars, pending, closed, channelVars>>

Decide ==
    /\ loop.at = "decide"
    /\ \/ /\ loop.seen + loop.size > HighWater
          /\ state' = "Dropping" /\ loop' = Idle
       \/ /\ loop.seen + loop.size <= HighWater
          /\ loop' = [at |-> "count", frame |-> Frame("output", produced - loop.size, produced, loop.size)]
          /\ UNCHANGED state
    /\ locked' = FALSE
    /\ UNCHANGED <<loopVars, pending, closed, channelVars>>

\* enqueue: both counts go up before the frame can be seen by the pump.
Count ==
    /\ loop.at = "count"
    /\ pending' = pending + loop.frame.size
    /\ queued' = queued + loop.frame.size
    /\ loop' = [loop EXCEPT !.at = "put"]
    /\ UNCHANGED <<loopVars, state, locked, closed, queue, channel, sending, other, view, torn>>

\* The send itself: on a closed channel the sink unsubscribes, and a checkpoint
\* is lost with it.
Put ==
    /\ loop.at = "put"
    /\ queue' = Queued(<<loop.frame>>)
    /\ queued' = IF channel THEN queued ELSE queued - loop.frame.size
    /\ loop' = IF loop.frame.kind = "checkpoint" THEN [at |-> "live"] ELSE Idle
    /\ subscribed' = (subscribed /\ (channel \/ loop.frame.kind = "checkpoint"))
    /\ UNCHANGED <<produced, failed, running, messages, flowVars, channel, sending, other, view, torn>>

-------------------------------------------------------------------------------
(* The PTY loop: checkpoints. *)

\* Msg::Subscribe and Msg::Checkpoint run in order with the output, and
\* Subscribe registers the sink in the same step.
Checkpoint(size) ==
    /\ running /\ loop = Idle /\ messages # <<>>
    /\ loop' = [at |-> "count", frame |-> Frame("checkpoint", 0, produced, size)]
    /\ subscribed' = (subscribed \/ Head(messages) = "Subscribe")
    /\ messages' = Tail(messages)
    /\ UNCHANGED <<produced, failed, running, flowVars, channelVars>>

\* The engine could not format its state.  A sink that was to be registered is
\* dropped with its notice.
CheckpointFails ==
    /\ "checkpoint" \in Faults
    /\ running /\ loop = Idle /\ messages # <<>>
    /\ loop' = [at |-> "live"]
    /\ IF Head(messages) = "Subscribe" THEN ExitNotice ELSE UNCHANGED <<queue, queued>>
    /\ messages' = Tail(messages) /\ failed' = TRUE
    /\ UNCHANGED <<produced, running, subscribed, flowVars, channel, sending, other, view, torn>>

\* Mutant of GoLive: a checkpoint does not end the resync.
GoLiveNever ==
    /\ loop.at = "live"
    /\ loop' = Idle
    /\ UNCHANGED <<loopVars, flowVars, channelVars>>

\* The callback ends by making the view Live, whatever became of the checkpoint.
GoLive ==
    /\ loop.at = "live"
    /\ state' = "Live"
    /\ loop' = Idle
    /\ UNCHANGED <<loopVars, locked, pending, closed, channelVars>>

\* The shell ends: the loop drops its subscribers, and its messages with the
\* sink one of them may hold.
ShellExits ==
    /\ "exit" \in Faults /\ running /\ loop = Idle
    /\ running' = FALSE
    /\ IF subscribed \/ \E k \in DOMAIN messages : messages[k] = "Subscribe"
       THEN ExitNotice
       ELSE UNCHANGED <<queue, queued>>
    /\ subscribed' = FALSE /\ messages' = <<>>
    /\ UNCHANGED <<produced, failed, loop, flowVars, channel, sending, other, view, torn>>

-------------------------------------------------------------------------------
(* The pump of the channel. *)

CloseChannel ==
    /\ channel' = FALSE
    /\ queue' = <<>> /\ sending' = Idle

Receive ==
    /\ channel /\ sending = Idle /\ queue # <<>>
    /\ \/ queued > MaxQueued /\ CloseChannel
       \/ /\ queued <= MaxQueued
          /\ sending' = [at |-> "send", frame |-> Head(queue)]
          /\ queue' = Tail(queue)
          /\ UNCHANGED channel
    /\ UNCHANGED <<loopVars, loop, flowVars, queued, other, view, torn>>

\* The socket took the frame, and the view applies it.
Sent ==
    /\ sending.at = "send"
    /\ LET f == sending.frame
       IN  /\ \/ /\ f.kind = "checkpoint"
                 /\ view' = f.to /\ torn' = FALSE
              \/ /\ f.kind = "output"
                 /\ view' = f.to /\ torn' = (torn \/ f.from # view)
              \/ /\ f.kind \notin {"checkpoint", "output"}
                 /\ UNCHANGED <<view, torn>>
           /\ queued' = queued - f.size
           /\ sending' = IF Hooked(f) THEN [at |-> "hook", frame |-> f] ELSE Idle
    /\ UNCHANGED <<loopVars, loop, flowVars, queue, channel, other>>

\* SentHook::sent: the count first, then the mutex and the state.
HookCount ==
    /\ sending.at = "hook"
    /\ pending' = pending - sending.frame.size
    /\ sending' = [at |-> "check", left |-> pending']
    /\ UNCHANGED <<loopVars, loop, state, locked, closed, queue, queued, channel, other, view, torn>>

\* Mutant of HookCheck: a view that drained resumes without a checkpoint.
HookCheckResumes ==
    /\ sending.at = "check" /\ ~locked
    /\ state' = IF state = "Dropping" /\ sending.left < LowWater THEN "Live" ELSE state
    /\ sending' = Idle
    /\ UNCHANGED <<loopVars, loop, locked, pending, closed, queue, queued, channel, other, view, torn>>

HookCheck ==
    /\ sending.at = "check" /\ ~locked
    /\ \/ /\ state = "Dropping" /\ sending.left < LowWater
          /\ state' = "Resyncing"
          /\ messages' = IF running THEN Append(messages, "Checkpoint") ELSE messages
       \/ /\ ~(state = "Dropping" /\ sending.left < LowWater)
          /\ UNCHANGED <<state, messages>>
    /\ sending' = Idle
    /\ UNCHANGED <<produced, failed, running, subscribed, loop, locked, pending, closed,
                   queue, queued, channel, other, view, torn>>

\* The socket fails while the pump awaits a message or a send.
ChannelFails ==
    /\ "channel" \in Faults /\ channel /\ sending.at \in {"idle", "send"}
    /\ CloseChannel
    /\ UNCHANGED <<loopVars, loop, flowVars, queued, other, view, torn>>

\* The channel's other users: responses, sizes, other views.
SendOther ==
    /\ other < MaxOther /\ channel
    /\ other' = other + 1
    /\ queue' = Queued(<<Frame("other", 0, 0, 1)>>)
    /\ queued' = queued + 1
    /\ UNCHANGED <<loopVars, loop, flowVars, channel, sending, view, torn>>

\* The client detaches.
Detach ==
    /\ "detach" \in Faults /\ ~closed
    /\ closed' = TRUE
    /\ UNCHANGED <<loopVars, loop, state, locked, pending, channelVars>>

-------------------------------------------------------------------------------
\* attach: nothing is shown until the subscription's checkpoint.
Init ==
    /\ produced = 0 /\ running = TRUE /\ subscribed = FALSE
    /\ messages = <<"Subscribe">> /\ failed = FALSE /\ loop = Idle
    /\ state = "Resyncing" /\ locked = FALSE /\ pending = 0 /\ closed = FALSE
    /\ queue = <<>> /\ queued = 0 /\ channel = TRUE /\ sending = Idle /\ other = 0
    /\ view = -1 /\ torn = FALSE

LoopStep ==
    \/ \E n \in ChunkSizes : Parse(n)
    \/ LookGone \/ Look \/ Decide \/ Count \/ Put
    \/ \E size \in CheckpointSizes : Checkpoint(size)
    \/ CheckpointFails \/ GoLive

PumpStep == Receive \/ Sent \/ HookCount \/ HookCheck

Next == LoopStep \/ PumpStep \/ ShellExits \/ ChannelFails \/ SendOther \/ Detach

Spec == Init /\ [][Next]_vars

\* Both threads run on; what the shell writes, and when, is not promised.
FairSpec ==
    /\ Spec
    /\ WF_vars(PumpStep)
    /\ WF_vars(LookGone \/ Look \/ Decide \/ Count \/ Put \/ GoLive)
    /\ WF_vars(\E size \in CheckpointSizes : Checkpoint(size))

-------------------------------------------------------------------------------
(* Properties. *)

\* Every count is a count, and the state one of its three.
TypeOK ==
    /\ state \in {"Live", "Dropping", "Resyncing"}
    /\ pending \in Nat /\ queued \in Nat
    /\ produced \in 0..MaxOutput /\ view \in -1..MaxOutput
    /\ loop.at \in {"idle", "look", "decide", "count", "put", "live"}
    /\ sending.at \in {"idle", "send", "hook", "check"}

\* Bytes of the view, the ones its hooks report: in a frame, and in a queue.
Size(f) == IF Hooked(f) THEN f.size ELSE 0

Bytes(frames) ==
    LET upTo[n \in 0..Len(frames)] == IF n = 0 THEN 0 ELSE upTo[n - 1] + Size(frames[n])
    IN  upTo[Len(frames)]

\* What the pump has yet to report: queued, on the socket, and about to be put.
OnSocket == IF sending.at \in {"send", "hook"} THEN Size(sending.frame) ELSE 0

ToPut == IF loop.at = "put" THEN Size(loop.frame) ELSE 0

Outstanding == Bytes(queue) + OnSocket + ToPut

\* "past a backlog of 1 MiB the stream drops output" (stream.rs:5): with the
\* pump draining and the loop filling at once, what waits for one view stays
\* within the high-water mark and one checkpoint, or below the low-water mark
\* and two.  The low-water mark and one is not the bound: `sent` compares a
\* backlog it read before it took the mutex, and by then the loop may have filled
\* up, or put a checkpoint in, and begun to drop.
BacklogCapped ==
    \E size \in CheckpointSizes :
        pending <= HighWater + size \/ pending < LowWater + 2 * size

\* And the backlog the marks are compared with is the backlog there is: no frame
\* is counted twice, missed, or reported before it was counted.
BacklogBounded ==
    /\ BacklogCapped
    /\ channel => pending = Outstanding

\* "the checkpoint and the output after it line up exactly" (stream.rs:160):
\* output the view is shown continues what it was shown before, as long as the
\* engine produces the checkpoints it is asked for.  After one that failed the
\* view goes Live all the same, over a hole that lasts until the next resync.
ViewExact == torn => failed

\* A view that falls behind catches up once the output pauses: dropped output
\* is made good by a checkpoint.
CatchesUp ==
    (running /\ produced = MaxOutput) ~> (view = produced \/ ~channel \/ closed \/ ~running \/ failed)

===============================================================================
