----------------------------- MODULE SendQueue ------------------------------
(***************************************************************************)
(* The outbound queue of a remote channel: plain senders, senders that wait*)
(* for room, control responses sent in chunks, the pump that drains it and *)
(* the peer that puts the chunks together again.                           *)
(*                                                                         *)
(* Source: crates/remote/src/link.rs                                       *)
(*                                                                         *)
(* Every atomic access is a step.  Lengths are small numbers that stand for*)
(* byte counts.                                                            *)
(***************************************************************************)
EXTENDS Naturals, Sequences, FiniteSets, FiniteSetsExt, SequencesExt

CONSTANTS
    Plain,       \* senders that use send
    Bounded,     \* senders that use send_bounded
    Transfer,    \* senders that use send_chunked_control
    Size,        \* [Sender -> bytes of one message or chunk]
    Parts,       \* [Transfer -> number of chunks]
    MaxQueued,   \* MAX_QUEUED
    BoundedQueued, \* BOUNDED_QUEUED
    Aborts,      \* whether the task of a transfer may be dropped
    NoSender

Sender == Plain \cup Bounded \cup Transfer

ASSUME QueueAssumption ==
    /\ Size \in [Sender -> Nat \ {0}]
    /\ Parts \in [Transfer -> Nat \ {0}]
    /\ MaxQueued \in Nat /\ BoundedQueued \in Nat
    /\ NoSender \notin Sender /\ Aborts \in BOOLEAN
    /\ Plain \cap (Bounded \cup Transfer) = {} /\ Bounded \cap Transfer = {}

VARIABLES
    queue,     \* the mpsc channel
    queued,    \* the byte counter
    pc,        \* per sender
    part,      \* per transfer: the next chunk
    ident,     \* per transfer: the id it drew, 0 before
    notified,  \* waiting senders a drain has woken
    lock,      \* the holder of control_send
    nextId,    \* next_transfer
    pump,      \* "recv", "sending" or "ended"
    sending,   \* the message being sent
    reason,    \* why the pump ended
    chunks,    \* the peer's ControlChunks: the transfer in progress
    arrived    \* the ids of the transfers the peer completed, in order

senderVars == <<pc, part, ident, notified, lock, nextId>>
pumpVars == <<pump, sending, reason>>
peerVars == <<chunks, arrived>>
vars == <<queue, queued, senderVars, pumpVars, peerVars>>

NoTransfer == [id |-> 0, got |-> 0]
Nothing == [from |-> NoSender, id |-> 0, part |-> 0]
Message(s) == [from |-> s, id |-> IF s \in Transfer THEN ident[s] ELSE 0,
               part |-> IF s \in Transfer THEN part[s] ELSE 0]
Bytes(m) == Size[m.from]
Closed == pump = "ended"
Done == {"sent", "refused", "aborted"}

TypeOK ==
    /\ \A k \in DOMAIN queue : queue[k].from \in Sender
    /\ queued \in Nat
    /\ pc \in [Sender -> {"start", "lock", "push", "register", "check", "wait"} \cup Done]
    /\ part \in [Transfer -> Nat] /\ ident \in [Transfer -> Nat]
    /\ notified \subseteq Sender /\ lock \in Transfer \cup {NoSender}
    /\ nextId \in Nat
    /\ pump \in {"recv", "sending", "ended"}
    /\ reason \in {"none", "behind", "network", "protocol"}
    /\ chunks \in [id : Nat, got : Nat] /\ arrived \in Seq(Nat)

Init ==
    /\ queue = <<>> /\ queued = 0
    /\ pc = [s \in Sender |-> "start"]
    /\ part = [s \in Transfer |-> 1] /\ ident = [s \in Transfer |-> 0]
    /\ notified = {} /\ lock = NoSender /\ nextId = 1
    /\ pump = "recv" /\ sending = Nothing /\ reason = "none"
    /\ chunks = NoTransfer /\ arrived = <<>>

(* notify_waiters wakes those registered at this moment, and nobody later.  *)
Registered == {s \in Sender : pc[s] \in {"check", "wait"}}
NotifyWaiters == notified' = notified \cup Registered

-----------------------------------------------------------------------------
(* send.                                                                    *)

CountPlain(s) ==
    /\ s \in Plain /\ pc[s] = "start"
    /\ queued' = queued + Size[s]
    /\ pc' = [pc EXCEPT ![s] = "push"]
    /\ UNCHANGED <<queue, part, ident, notified, lock, nextId, pumpVars, peerVars>>

(* tx.send, with the counter taken back when the channel is gone.           *)
PutBack(s) == queued' = queued - Size[s] /\ NotifyWaiters

PushPlain(s) ==
    /\ s \in Plain /\ pc[s] = "push"
    /\ IF Closed
          THEN PutBack(s) /\ pc' = [pc EXCEPT ![s] = "refused"] /\ queue' = queue
          ELSE /\ queue' = Append(queue, Message(s))
               /\ pc' = [pc EXCEPT ![s] = "sent"]
               /\ UNCHANGED <<queued, notified>>
    /\ UNCHANGED <<part, ident, lock, nextId, pumpVars, peerVars>>

-----------------------------------------------------------------------------
(* send_bounded, and send_chunked_control around it.                        *)

Begin(s) ==
    /\ pc[s] = "start" /\ s \in Bounded \cup Transfer
    /\ pc' = [pc EXCEPT ![s] = IF s \in Transfer THEN "lock"
                               ELSE IF Size[s] > BoundedQueued THEN "refused"
                               ELSE "register"]
    /\ UNCHANGED <<queue, queued, part, ident, notified, lock, nextId, pumpVars,
                   peerVars>>

MutMayLock(s) == TRUE
MayLock(s) == lock = NoSender

(* control_send is held for the whole transfer; the id is drawn inside.     *)
Lock(s) ==
    /\ pc[s] = "lock" /\ MayLock(s)
    /\ lock' = s
    /\ ident' = [ident EXCEPT ![s] = nextId] /\ nextId' = nextId + 1
    /\ pc' = [pc EXCEPT ![s] = "register"]
    /\ UNCHANGED <<queue, queued, part, notified, pumpVars, peerVars>>

Unlock(s) == lock' = IF lock = s THEN NoSender ELSE lock

(* "Register before checking capacity" (link.rs:250): enable() on a fresh   *)
(* Notified, and the closed check.                                          *)
Register(s) ==
    /\ pc[s] = "register"
    /\ notified' = notified \ {s}
    /\ IF Closed THEN pc' = [pc EXCEPT ![s] = "refused"] /\ Unlock(s)
                 ELSE pc' = [pc EXCEPT ![s] = "check"] /\ lock' = lock
    /\ UNCHANGED <<queue, queued, part, ident, nextId, pumpVars, peerVars>>

MutFits(s) == queued <= BoundedQueued
Fits(s) == queued + Size[s] <= BoundedQueued

(* try_update.                                                              *)
Check(s) ==
    /\ pc[s] = "check"
    /\ IF Fits(s) THEN queued' = queued + Size[s] /\ pc' = [pc EXCEPT ![s] = "push"]
                  ELSE pc' = [pc EXCEPT ![s] = "wait"] /\ queued' = queued
    /\ UNCHANGED <<queue, part, ident, notified, lock, nextId, pumpVars, peerVars>>

(* The select: a drain, or the end of the channel.                          *)
Wake(s) ==
    /\ pc[s] = "wait"
    /\ \/ s \in notified /\ pc' = [pc EXCEPT ![s] = "register"] /\ lock' = lock
       \/ Closed /\ pc' = [pc EXCEPT ![s] = "refused"] /\ Unlock(s)
    /\ UNCHANGED <<queue, queued, part, ident, notified, nextId, pumpVars, peerVars>>

LastPart(s) == s \in Bounded \/ part[s] = Parts[s]

PushBounded(s) ==
    /\ pc[s] = "push" /\ s \in Bounded \cup Transfer
    /\ IF Closed
          THEN /\ PutBack(s) /\ pc' = [pc EXCEPT ![s] = "refused"] /\ Unlock(s)
               /\ UNCHANGED <<queue, part>>
          ELSE /\ queue' = Append(queue, Message(s))
               /\ pc' = [pc EXCEPT ![s] = IF LastPart(s) THEN "sent" ELSE "register"]
               /\ IF LastPart(s) THEN Unlock(s) /\ part' = part
                  ELSE part' = [part EXCEPT ![s] = @ + 1] /\ lock' = lock
               /\ UNCHANGED <<queued, notified>>
    /\ UNCHANGED <<ident, nextId, pumpVars, peerVars>>

(* The task of a transfer is dropped where it awaits.                       *)
Abort(s) ==
    /\ Aborts /\ s \in Transfer /\ pc[s] \in {"lock", "wait"}
    /\ pc' = [pc EXCEPT ![s] = "aborted"] /\ Unlock(s)
    /\ UNCHANGED <<queue, queued, part, ident, notified, nextId, pumpVars, peerVars>>

-----------------------------------------------------------------------------
(* The pump's outbound branch.                                              *)

TooFarBehind == queued > MaxQueued

Take ==
    /\ pump = "recv" /\ queue # <<>>
    /\ queue' = Tail(queue)
    /\ IF TooFarBehind
          THEN pump' = "ended" /\ reason' = "behind" /\ sending' = Head(queue)
          ELSE pump' = "sending" /\ sending' = Head(queue) /\ reason' = reason
    /\ UNCHANGED <<queued, senderVars, peerVars>>

(* ControlChunks::push, at the peer: a first chunk replaces an interrupted  *)
(* transfer, a later one must continue the one in progress.                 *)
InSequence(m) ==
    IF m.part = 1 THEN chunks.id # m.id
                  ELSE chunks.id = m.id /\ chunks.got = m.part - 1

Assemble(m) ==
    IF m.part = Parts[m.from]
       THEN chunks' = NoTransfer /\ arrived' = Append(arrived, m.id)
       ELSE chunks' = [id |-> m.id, got |-> m.part] /\ arrived' = arrived

MutReleasedQuietly == queued' = queued - Bytes(sending) /\ notified' = notified

(* fetch_sub and notify_waiters, once the message is on the socket.         *)
Released == queued' = queued - Bytes(sending) /\ NotifyWaiters

Sent ==
    /\ pump = "sending"
    /\ Released
    /\ IF sending.from \notin Transfer \/ InSequence(sending)
          THEN pump' = "recv" /\ reason' = reason
          ELSE pump' = "ended" /\ reason' = "protocol"
    /\ IF sending.from \in Transfer /\ InSequence(sending) THEN Assemble(sending)
       ELSE UNCHANGED peerVars
    /\ sending' = Nothing
    /\ UNCHANGED <<queue, pc, part, ident, lock, nextId>>

(* The socket fails, or the heartbeat ends the channel.                     *)
NetworkEnds ==
    /\ pump # "ended" /\ pump' = "ended" /\ reason' = "network"
    /\ UNCHANGED <<queue, queued, senderVars, sending, peerVars>>

Next ==
    \/ \E s \in Plain : CountPlain(s) \/ PushPlain(s)
    \/ \E s \in Bounded \cup Transfer :
          Begin(s) \/ Register(s) \/ Check(s) \/ Wake(s) \/ PushBounded(s)
    \/ \E s \in Transfer : Lock(s) \/ Abort(s)
    \/ Take \/ Sent \/ NetworkEnds

Spec == Init /\ [][Next]_vars

(* Tasks are polled, the mutex is fair, and a peer that is there reads.     *)
Fairness ==
    /\ \A s \in Sender : WF_vars(PushPlain(s)) /\ WF_vars(Begin(s))
                         /\ WF_vars(Register(s)) /\ WF_vars(Check(s))
                         /\ WF_vars(Wake(s)) /\ WF_vars(PushBounded(s))
    /\ \A s \in Transfer : SF_vars(Lock(s))
    /\ WF_vars(Take) /\ WF_vars(Sent)

FairSpec == Spec /\ Fairness

-----------------------------------------------------------------------------
(* Properties.                                                              *)

Reserved == {s \in Sender : pc[s] = "push"}
SumBytes(seq) == FoldSeq(LAMBDA m, n : Bytes(m) + n, 0, seq)
Unsent(from) ==
    SumBytes(SelectSeq(queue, LAMBDA m : m.from \in from))
    + (IF sending.from \in from THEN Bytes(sending) ELSE 0)
    + MapThenSumSet(LAMBDA s : Size[s], Reserved \cap from)

(* The limit is on all users of a channel together, and closing it drops    *)
(* all of them.  Those that wait for room never cause that: a channel closed*)
(* as too far behind has more than MAX_QUEUED - BOUNDED_QUEUED of plain     *)
(* messages waiting.                                                        *)
BoundedNeverCloses ==
    [][reason' = "behind" /\ reason # "behind"
         => Unsent(Plain) > MaxQueued - BoundedQueued]_vars

(* Responses are sent concurrently and a task may be dropped in the middle  *)
(* of a transfer, yet the peer never sees a chunk out of sequence, and what *)
(* it assembles is complete and in the order of the responses: ids only     *)
(* grow, and each is one whose sender queued every chunk.                   *)
TransfersWhole ==
    /\ reason # "protocol"
    /\ \A j, k \in DOMAIN arrived : j < k => arrived[j] < arrived[k]
    /\ \A k \in DOMAIN arrived :
          \E s \in Transfer : ident[s] = arrived[k] /\ pc[s] = "sent"

(* A sender that waits for room is served or told that the channel is gone: *)
(* no drain is missed between its check and its wait, and no transfer keeps *)
(* the others from their turn.                                              *)
Finishes == \A s \in Sender : pc[s] # "start" ~> pc[s] \in Done
====
