---------------------------- MODULE ChannelPump -----------------------------
(***************************************************************************)
(* The task that runs an established remote channel, at both of its ends:  *)
(* one loop that receives, sends and watches whether the peer still        *)
(* answers.                                                                *)
(*                                                                         *)
(* Source: crates/remote/src/link.rs (pump, send_frames), and the frames   *)
(* of crates/remote_core/src/frame.rs                                      *)
(*                                                                         *)
(* The loop selects among its branches at random when several are ready,   *)
(* and a branch runs to its end before the next is selected: while it waits*)
(* for the socket to take a frame the pump neither receives nor looks at   *)
(* its timer.  A frame is a record without payload; a message is its stream*)
(* and its number of frames.                                               *)
(***************************************************************************)
EXTENDS Naturals, Sequences, SequencesExt

CONSTANTS
    Left, Right,   \* the two ends
    Outbox,        \* [End -> Seq(message)]: what the users of an end send
    Cap,           \* data frames the sockets hold per direction; pings are small
    MaxMissed,     \* MAX_MISSED_PINGS
    MaxProbes,     \* bound: network changes the client notices
    MaxIdle,       \* bound: deadlines per end that pass while the network works
    MayFallSilent, \* whether the network may begin to drop packets
    MayLeave       \* the ends whose user may close the channel

End == {Left, Right}
Other(e) == IF e = Left THEN Right ELSE Left
Control == 0

ASSUME PumpAssumption ==
    /\ Left # Right /\ MayLeave \subseteq End
    /\ \A e \in End : \A k \in DOMAIN Outbox[e] :
          Outbox[e][k].stream \in Nat \ {Control} /\ Outbox[e][k].size \in Nat \ {0}
    /\ Cap \in Nat \ {0} /\ MaxMissed \in Nat \ {0} /\ MaxProbes \in Nat
    /\ MaxIdle \in Nat
    /\ MayFallSilent \in BOOLEAN

VARIABLES
    pc,       \* per end: "select", "sending" or "closed"
    rest,     \* per end: the frames send_frames still has to send
    sent,     \* per end: messages taken from the outbound queue
    missed, probing,
    expired,  \* per end: deadline has passed
    probes,   \* per end: network changes so far
    asked,    \* per end: the stored permit of probe
    link,     \* per end: the frames on their way from it
    partial,  \* per end: Reassembler.partial
    got,      \* per end: the messages handed to its user
    reason,   \* per end: why it closed
    silent,   \* the network drops packets
    idle      \* per end: deadlines passed while it did not

timerVars == <<missed, probing, expired, probes, asked>>
vars == <<pc, rest, sent, timerVars, link, partial, got, reason, silent, idle>>

Ping == [stream |-> Control, kind |-> "ping", more |-> FALSE]
Pong == [stream |-> Control, kind |-> "pong", more |-> FALSE]

MutFrames(m) == [k \in 1..m.size |-> [stream |-> m.stream, kind |-> "data",
                                      more |-> k <= m.size]]

(* encode_message.                                                          *)
Frames(m) == [k \in 1..m.size |-> [stream |-> m.stream, kind |-> "data",
                                   more |-> k < m.size]]
Streams == {Outbox[e][k].stream : <<e, k>> \in
              {<<f, j>> \in End \X (1..9) : j \in DOMAIN Outbox[f]}}

TypeOK ==
    /\ pc \in [End -> {"select", "sending", "closed"}]
    /\ \A e \in End : sent[e] \in 0..Len(Outbox[e])
    /\ \A e \in End : pc[e] = "sending" <=> rest[e] # <<>>
    /\ missed \in [End -> 0..MaxMissed] /\ probing \in [End -> BOOLEAN]
    /\ expired \in [End -> BOOLEAN] /\ asked \in [End -> BOOLEAN]
    /\ probes \in [End -> 0..MaxProbes]
    /\ partial \in [End -> [Streams -> Nat]]
    /\ reason \in [End -> {"none", "heartbeat", "local", "peer"}]
    /\ silent \in BOOLEAN
    /\ idle \in [End -> 0..MaxIdle]

Init ==
    /\ pc = [e \in End |-> "select"] /\ rest = [e \in End |-> <<>>]
    /\ sent = [e \in End |-> 0]
    /\ missed = [e \in End |-> 0] /\ probing = [e \in End |-> FALSE]
    /\ expired = [e \in End |-> FALSE] /\ probes = [e \in End |-> 0]
    /\ asked = [e \in End |-> FALSE]
    /\ link = [e \in End |-> <<>>]
    /\ partial = [e \in End |-> [s \in Streams |-> 0]] /\ got = [e \in End |-> <<>>]
    /\ reason = [e \in End |-> "none"] /\ silent = FALSE
    /\ idle = [e \in End |-> 0]

-----------------------------------------------------------------------------
(* send_frames, one frame at a time; the branch ends with the last.         *)

StartSending(e, frames) ==
    pc' = [pc EXCEPT ![e] = "sending"] /\ rest' = [rest EXCEPT ![e] = frames]

Room(e) == Len(SelectSeq(link[e], LAMBDA f : f.kind = "data")) < Cap

SendFrame(e) ==
    /\ pc[e] = "sending" /\ Room(e)
    /\ link' = [link EXCEPT ![e] = Append(@, Head(rest[e]))]
    /\ rest' = [rest EXCEPT ![e] = Tail(@)]
    /\ pc' = [pc EXCEPT ![e] = IF Len(rest[e]) = 1 THEN "select" ELSE "sending"]
    /\ UNCHANGED <<sent, timerVars, partial, got, reason, silent, idle>>

Close(e, why) ==
    /\ pc' = [pc EXCEPT ![e] = "closed"] /\ rest' = [rest EXCEPT ![e] = <<>>]
    /\ reason' = [reason EXCEPT ![e] = why]

(* The peer is gone: the stream ends once it is read, a send fails at once. *)
SeePeerGone(e) ==
    /\ pc[e] # "closed" /\ pc[Other(e)] = "closed" /\ ~silent
    /\ pc[e] = "sending" \/ link[Other(e)] = <<>>
    /\ Close(e, "peer")
    /\ UNCHANGED <<sent, timerVars, link, partial, got, silent, idle>>

-----------------------------------------------------------------------------
(* The branches of the select.                                              *)

(* Any frame shows that the peer is there.                                  *)
Heard(e) ==
    /\ expired' = [expired EXCEPT ![e] = FALSE]
    /\ probing' = [probing EXCEPT ![e] = FALSE]
    /\ missed' = [missed EXCEPT ![e] = 0]

MutPush(e, f) ==
    LET size == partial[e][f.stream] + 1
    IN  IF f.more
           THEN partial' = [partial EXCEPT ![e][f.stream] = size] /\ got' = got
           ELSE /\ partial' = partial
                /\ got' = [got EXCEPT ![e] = Append(@, [stream |-> f.stream, size |-> size])]

(* Reassembler::push.                                                       *)
Push(e, f) ==
    LET size == partial[e][f.stream] + 1
    IN  IF f.more
           THEN partial' = [partial EXCEPT ![e][f.stream] = size] /\ got' = got
           ELSE /\ partial' = [partial EXCEPT ![e][f.stream] = 0]
                /\ got' = [got EXCEPT ![e] = Append(@, [stream |-> f.stream, size |-> size])]

Receive(e) ==
    /\ pc[e] = "select" /\ link[Other(e)] # <<>> /\ ~silent
    /\ link' = [link EXCEPT ![Other(e)] = Tail(@)]
    /\ Heard(e)
    /\ LET f == Head(link[Other(e)]) IN
        \/ f = Ping /\ StartSending(e, <<Pong>>) /\ UNCHANGED <<partial, got>>
        \/ f = Pong /\ UNCHANGED <<pc, rest, partial, got>>
        \/ f.kind = "data" /\ Push(e, f) /\ UNCHANGED <<pc, rest>>
    /\ UNCHANGED <<sent, probes, asked, reason, silent, idle>>

SendNext(e) ==
    /\ pc[e] = "select" /\ sent[e] < Len(Outbox[e])
    /\ sent' = [sent EXCEPT ![e] = @ + 1]
    /\ StartSending(e, Frames(Outbox[e][sent[e] + 1]))
    /\ UNCHANGED <<timerVars, link, partial, got, reason, silent, idle>>

(* Every handle of the outbound queue is dropped.                           *)
Leave(e) ==
    /\ e \in MayLeave /\ pc[e] = "select" /\ sent[e] = Len(Outbox[e])
    /\ Close(e, "local")
    /\ UNCHANGED <<sent, timerVars, link, partial, got, silent, idle>>

SendPing(e) ==
    /\ StartSending(e, <<Ping>>)
    /\ expired' = [expired EXCEPT ![e] = FALSE]
    /\ probing' = [probing EXCEPT ![e] = TRUE]

(* probe.notified().                                                        *)
Probe(e) ==
    /\ pc[e] = "select" /\ asked[e]
    /\ asked' = [asked EXCEPT ![e] = FALSE]
    /\ missed' = [missed EXCEPT ![e] = MaxMissed - 1]
    /\ SendPing(e)
    /\ UNCHANGED <<sent, probes, link, partial, got, reason, silent, idle>>

Missed(e) == IF probing[e] THEN missed[e] + 1 ELSE missed[e]

GivesUp(e) == probing[e] /\ Missed(e) >= MaxMissed

MutDeadline(e) ==
    /\ pc[e] = "select" /\ expired[e] /\ ~probing[e]
    /\ SendPing(e)
    /\ UNCHANGED <<sent, missed, probes, asked, link, partial, got, reason, silent,
                   idle>>

(* sleep_until(deadline).                                                   *)
Deadline(e) ==
    /\ pc[e] = "select" /\ expired[e]
    /\ missed' = [missed EXCEPT ![e] = Missed(e)]
    /\ \/ /\ GivesUp(e)
          /\ Close(e, "heartbeat")
          /\ UNCHANGED <<probing, expired>>
       \/ ~GivesUp(e) /\ SendPing(e) /\ reason' = reason
    /\ UNCHANGED <<sent, probes, asked, link, partial, got, silent, idle>>

-----------------------------------------------------------------------------
(* Time and the network.                                                    *)

TimePasses(e) ==
    /\ pc[e] # "closed" /\ ~expired[e] /\ (silent \/ idle[e] < MaxIdle)
    /\ expired' = [expired EXCEPT ![e] = TRUE]
    /\ idle' = [idle EXCEPT ![e] = IF silent THEN @ ELSE @ + 1]
    /\ UNCHANGED <<pc, rest, sent, missed, probing, probes, asked, link, partial,
                   got, reason, silent>>

(* Only the client watches the machine's network (connection.rs:1359); the  *)
(* host waits out quiet links (host.rs:1965).                               *)
NetworkChanges(e) ==
    /\ e = Left /\ pc[e] # "closed" /\ probes[e] < MaxProbes
    /\ probes' = [probes EXCEPT ![e] = @ + 1] /\ asked' = [asked EXCEPT ![e] = TRUE]
    /\ UNCHANGED <<pc, rest, sent, missed, probing, expired, link, partial, got,
                   reason, silent, idle>>

FallSilent ==
    /\ MayFallSilent /\ ~silent /\ silent' = TRUE
    /\ UNCHANGED <<pc, rest, sent, timerVars, link, partial, got, reason, idle>>

Next ==
    \/ \E e \in End :
          \/ SendFrame(e) \/ SeePeerGone(e) \/ Receive(e) \/ SendNext(e) \/ Leave(e)
          \/ Probe(e) \/ Deadline(e) \/ TimePasses(e) \/ NetworkChanges(e)
    \/ FallSilent

Spec == Init /\ [][Next]_vars

(* The runtime polls the task, and a branch that stays ready is taken at    *)
(* some time: the others run out of work.  Nothing else ends a socket on a  *)
(* silent network.                                                          *)
Fairness ==
    \A e \in End :
        /\ WF_vars(SendFrame(e)) /\ WF_vars(SeePeerGone(e)) /\ WF_vars(TimePasses(e))
        /\ WF_vars(Receive(e)) /\ WF_vars(SendNext(e)) /\ WF_vars(Deadline(e))

FairSpec == Spec /\ Fairness

-----------------------------------------------------------------------------
(* Properties.                                                              *)

(* Messages arrive whole and in order, with pings and answers between their *)
(* fragments.                                                               *)
WholeAndInOrder == \A e \in End : IsPrefix(got[e], Outbox[Other(e)])

(* "A network that drops packets without closing the socket ... would       *)
(* otherwise leave both sides waiting forever" (link.rs:406): both ends     *)
(* notice - except an end that waits in send_frames for room in its socket, *)
(* where it neither receives nor looks at the deadline (link.rs:466).       *)
Blocked(e) == pc[e] = "sending" /\ ~Room(e)
IdleNoticesSilence == silent ~> \A e \in End : pc[e] = "closed" \/ Blocked(e)

(* What is queued is delivered unless the channel ends.                     *)
Delivered ==
    <>(\/ \A e \in End : Len(got[e]) = Len(Outbox[Other(e)])
       \/ \E e \in End : pc[e] = "closed")
====
