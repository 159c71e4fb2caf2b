---------------------- MODULE OrchestrationRuntimeProofs ----------------------
(***************************************************************************)
(* The runtime keeps what it is waiting for in its record.                 *)
(*                                                                         *)
(* LiveIsRecorded relates a slot's live task to the installed record, and  *)
(* is not inductive: a queued send could begin the node a second time, a   *)
(* queued finish or failure could end it, and the operation at work has    *)
(* copies of the record that are older or newer than the installed one.    *)
(* RuntimeInv says why none of them does:                                  *)
(*   QueueOrder   a look is queued once and last; nothing queued behind a  *)
(*                send sends or ends the same node;                        *)
(*   BusyWork     what the operation at work has still to write is its own *)
(*                commit, or the failures and names a look found;          *)
(*   LiveTurns    the live node is in flight under its epoch in the        *)
(*                installed record and in the store's value, and neither   *)
(*                the queue nor the operation at work will send it or end  *)
(*                it again.  The one time value and record disagree about  *)
(*                it is StopSaved: stop has been saved and the hosts are   *)
(*                about to be told;                                        *)
(*   Begun        the send that has been saved is in flight in the value;  *)
(*   Epochs, Closed, Installed, QuietRecord, DiskMatchesStore              *)
(*                what the other steps find of hosts, a closed run and the *)
(*                three copies of the record.                              *)
(*                                                                         *)
(* CompletedShowsItsTurn relates the files to the record: whatever is      *)
(* still to be written must be of its node's last attempt.  FilesInv adds: *)
(*   Fresh        every queued finish, every turn a stop captured and every*)
(*                write still to come carries its node's last attempt;     *)
(*   StopOrder    no stop that captured a node waits behind a send of it,  *)
(*                so none is out of date when the node is started again;   *)
(*   FilesFirst   a finish saves transcript, output and completion in this *)
(*                order, and when it is down to the completion both files  *)
(*                are of its attempt;                                      *)
(*   Shows        CompletedShowsItsTurn, for the disk and for the copy the *)
(*                store works on.                                          *)
(*                                                                         *)
(* ImplementsRun says that the saved record changes as OrchestrationRun    *)
(* allows.  A commit is made without looking at the graph again, so what   *)
(* the look saw must still hold then.  SchedInv says that it does:         *)
(*   Paid         the nodes a queued send needs, or the node a look found  *)
(*                unable to run needs, are completed, and every other      *)
(*                operation carries the numbers its step is for (Owed);    *)
(*   Room         the nodes in flight, with those whose send is queued, at *)
(*                work or decided, are at most max_parallel;               *)
(*   Numbered, Timed                                                       *)
(*                turns are counted from 1, and a node in flight has an    *)
(*                epoch, so a failure without one is of a waiting node;    *)
(*   Founded      the ancestors of a node in flight or completed are       *)
(*                completed, so no two nodes of a slot are in flight.      *)
(*                                                                         *)
(* NoOrphanNode asks of every node in flight that something still ends it. *)
(* OrphanInv follows the node through its turn (CaredFor): its send has    *)
(* just been saved, its session works on it or died on it, or the operation*)
(* that ends it is queued or at work, under the epoch the node is in flight*)
(* under.  A finish ends a node only if the record knows the turn it names,*)
(* so TurnKnown adds that the accept of that turn comes first; and         *)
(*   AcceptOrder  no accept of an earlier turn is behind a send;           *)
(*   HostsLive    a host waits for a turn that is sent, that its session   *)
(*                works on, that went with its session, or that may have   *)
(*                been refused or ended without a word (MayGoSilent);      *)
(*   StopQuiet    what a stop lets go of is in flight no more;             *)
(*   StoreWorks, CommitLast, StartsAbsent                                  *)
(*                a commit that is due is made unless an error shows, it is*)
(*                the last of its operation, and a slot a look starts has  *)
(*                no session to lose.                                      *)
(*                                                                         *)
(* RoleDelivered relates a session to what was said in its conversation,   *)
(* while the record remembers only that the slot was opened, and which     *)
(* conversation it had.  RoleInv says why that is enough:                  *)
(*   OpenedGiven  a slot that is recorded as opened, in memory or on the   *)
(*                disk, was given its role, in the conversation the record *)
(*                names unless it runs Claude;                             *)
(*   QueueTold    so was the slot of a queued send that leaves it out and  *)
(*                of a queued accept, and a session that a send is queued  *)
(*                for shows the conversation that is saved;                *)
(*   HostTold     a session with a turn sent or at work was given the role,*)
(*                a session that resumed does so with the saved            *)
(*                conversation, and a slot of Claude's that nothing can    *)
(*                interrupt keeps its one conversation;                    *)
(*   SavesFirst, LookSaves                                                 *)
(*                a look saves a conversation once, in a slot that had     *)
(*                none, and before the sends it found are queued.          *)
(*                                                                         *)
(* Types leaves out the bounds TypeOK puts on ids and counters: they bound *)
(* the checking, and no step relies on them.                               *)
(***************************************************************************)
EXTENDS OrchestrationRuntime, FiniteSetTheorems, SequenceTheorems, TLAPS

-------------------------------------------------------------------------------
(* Shapes, without the bounds TypeOK puts on ids and counters.              *)

AnyTurn == Nat \cup {NoTurn}
AnyConversation == Nat \cup {NoConversation}

Records ==
    [state : RunStates,
     nodes : [Node -> [state : NodeStates, epoch : Nat, turn : AnyTurn]],
     slots : [Slot -> [conversation : AnyConversation, opened : BOOLEAN]]]

Hosts ==
    [status : {"none", "starting", "idle", "working", "exited"},
     epoch : Nat, turns : Nat, begun : Nat,
     conv : AnyConversation, known : BOOLEAN, resumed : AnyConversation,
     live : Node \cup {NoNode}, liveEpoch : Nat]

PositiveEpoch == Nat \ {NoEpoch}

Sends == [op : {"send"}, node : Node, epoch : PositiveEpoch, opened : BOOLEAN]
Accepts == [op : {"accept"}, node : Node, epoch : PositiveEpoch, turn : Nat]
Finishes == [op : {"finish"}, node : Node, epoch : PositiveEpoch, turn : Nat, ok : BOOLEAN, attempt : Nat]
Fails == [op : {"fail"}, node : Node, epoch : Nat]
Stops == [op : {"stop"}, captured : Seq([node : Node, attempt : Nat])]
Resumes == [op : {"resume"}]
Saved == [op : {"conversation"}, slot : Slot, conv : AnyConversation]
Looks == [op : {"pump"}, starts : SUBSET Slot, sends : SUBSET Node]

Waiting == Sends \cup Accepts \cup Finishes \cup Fails \cup Stops \cup Resumes \cup {PumpOp}
Changes == Sends \cup Accepts \cup Finishes \cup Fails \cup Stops \cup Resumes \cup Saved

Writes == [write : {"commit"}, do : Changes]
            \cup [write : {"transcript", "output"}, node : Node, attempt : Nat]
            \cup [write : {"prompt"}]

Types ==
    /\ disk \in Records /\ value \in Records /\ run \in Records
    /\ host \in [Slot -> Hosts]
    /\ attempt \in [Node -> Nat] /\ made \in [Slot -> Nat]
    /\ pending \in Seq(Waiting)
    /\ busy \in [op : (Waiting \ {PumpOp}) \cup Looks \cup {Idle.op}, todo : Seq(Writes),
                 ok : BOOLEAN, began : BOOLEAN]
    /\ open \in BOOLEAN /\ latched \in BOOLEAN /\ scheduled \in BOOLEAN /\ again \in BOOLEAN

-------------------------------------------------------------------------------
(* What the queue holds for a node. *)

IsSend(o, n) == o.op = "send" /\ o.node = n

IsEnd(o, n) == o.op \in {"finish", "fail"} /\ o.node = n /\ o.epoch # NoEpoch

NoSend(n) ==
    /\ \A i \in DOMAIN pending : ~IsSend(pending[i], n)
    /\ ~IsSend(busy.op, n)
    /\ busy.op.op = "pump" => n \notin busy.op.sends

NoEnd(n) ==
    /\ \A i \in DOMAIN pending : ~IsEnd(pending[i], n)
    /\ ~IsEnd(busy.op, n)
    /\ \A i \in DOMAIN busy.todo :
          busy.todo[i].write = "commit" => ~IsEnd(busy.todo[i].do, n)

InFlightUnder(r, n, e) == IsInFlight(r, n) /\ r.nodes[n].epoch = e

\* The stop is in the store, and installed with the hosts' release.
StopSaved == busy.op.op = "stop" /\ busy.todo = <<>> /\ busy.ok

-------------------------------------------------------------------------------
(* The invariant. *)

QueueOrder ==
    /\ \A i, j \in DOMAIN pending : i < j /\ pending[i].op = "pump" =>
          pending[j].op \notin {"pump", "send"}
    /\ \A i, j \in DOMAIN pending : i < j /\ pending[i].op = "send" =>
          ~IsSend(pending[j], pending[i].node) /\ ~IsEnd(pending[j], pending[i].node)
    /\ busy.op.op = "pump" => \A i \in DOMAIN pending : pending[i].op \notin {"pump", "send"}
    /\ busy.op.op = "send" => \A i \in DOMAIN pending :
          ~IsSend(pending[i], busy.op.node) /\ ~IsEnd(pending[i], busy.op.node)
    /\ (busy.op.op = "pump" \/ \E i \in DOMAIN pending : pending[i].op = "pump") => scheduled

BusyWork ==
    /\ busy.op.op = "none" => busy = Idle
    /\ \A i \in DOMAIN busy.todo : busy.todo[i].write = "commit" =>
          IF busy.op.op = "pump" THEN busy.todo[i].do.op \in {"conversation", "fail"}
                                 ELSE i = Len(busy.todo) /\ busy.todo[i].do = busy.op
    /\ busy.todo # <<>> => busy.ok
    /\ busy.began => busy.op.op = "send" /\ busy.todo = <<>>

LiveTurn(s, n, e) ==
    /\ SlotOf[n] = s /\ e # NoEpoch
    /\ InFlightUnder(run, n, e)
    /\ InFlightUnder(value, n, e) \/ StopSaved
    /\ NoSend(n) /\ NoEnd(n)

LiveTurns ==
    \A s \in Slot, n \in Node, e \in Nat :
        host[s].live = n /\ host[s].liveEpoch = e => LiveTurn(s, n, e)

\* start_turn submits only what begin_send has saved.
Begun == busy.began => InFlightUnder(value, busy.op.node, busy.op.epoch)

\* A run that is over has nothing in flight.
QuietRecord(r) == IsLive(r) \/ \A n \in Node : ~IsInFlight(r, n)

\* A host counts its epochs from 1; a failure of no turn carries NoEpoch.
Epochs == \A s \in Slot : host[s].status # "none" => host[s].epoch # NoEpoch

\* A closed run has no hosts, and its queue went with the window.
Closed ==
    ~open =>
      /\ busy = Idle /\ pending = <<>> /\ ~again /\ ~scheduled /\ ~latched
      /\ host = [s \in Slot |-> NoHost]

\* Between operations the record on view is the store's.
Installed == busy = Idle => run = value

RuntimeInv ==
    /\ Types /\ QueueOrder /\ BusyWork /\ LiveTurns /\ Begun
    /\ QuietRecord(value) /\ QuietRecord(disk) /\ Epochs /\ Closed /\ Installed
    /\ DiskMatchesStore

-------------------------------------------------------------------------------
(* The record. *)

(* A node that ended leaves everything else in flight where it was, and the *)
(* state of the run live as long as something is.                           *)
LEMMA Refreshed ==
    ASSUME NEW r \in Records, IsLive(r)
    PROVE  /\ RefreshState(r) \in Records
           /\ QuietRecord(RefreshState(r))
           /\ \A n \in Node : IsInFlight(r, n) => RefreshState(r).nodes[n] = r.nodes[n]
<1>1. CASE \E n \in Node : StateOf(r, n) = "Failed"
  <2>1. CASE \E n \in Node : IsInFlight(r, n)
    BY <1>1, <2>1 DEF RefreshState, Records, QuietRecord, IsLive, RunStates
  <2>2. CASE ~\E n \in Node : IsInFlight(r, n)
    <3> DEFINE nodes == [n \in Node |-> IF StateOf(r, n) = "Waiting" THEN NodeIn("NotRun") ELSE r.nodes[n]]
    <3>1. RefreshState(r) = [r EXCEPT !.state = "Failed", !.nodes = nodes]
      BY <1>1, <2>2 DEF RefreshState
    <3>2. nodes \in [Node -> [state : NodeStates, epoch : Nat, turn : AnyTurn]]
      BY DEF Records, NodeIn, NoEpoch, AnyTurn, NodeStates
    <3>3. \A n \in Node : nodes[n].state \notin {"Sending", "Accepted"}
      BY <2>2 DEF IsInFlight, StateOf, NodeIn
    <3> HIDE DEF nodes
    <3> QED
      BY <2>2, <3>1, <3>2, <3>3 DEF Records, QuietRecord, IsInFlight, StateOf, RunStates
  <2> QED
    BY <2>1, <2>2
<1>2. CASE ~\E n \in Node : StateOf(r, n) = "Failed"
  <2>1. RefreshState(r) \in {r, [r EXCEPT !.state = "Completed"]}
    BY <1>2 DEF RefreshState
  <2>2. RefreshState(r) # r => \A n \in Node : IsCompleted(r, n)
    BY <1>2 DEF RefreshState
  <2> QED
    BY <2>1, <2>2 DEF Records, QuietRecord, IsInFlight, IsCompleted, StateOf, RunStates
<1> QED
  BY <1>1, <1>2

(* What a record operation does to the nodes in flight: one that is not the *)
(* user's stop, and does not end n, leaves n in flight under its epoch.      *)
Keeps(r, q, o) ==
    /\ q \in Records
    /\ QuietRecord(q)
    /\ \A n \in Node, e \in PositiveEpoch :
          InFlightUnder(r, n, e) /\ o.op # "stop" /\ ~IsEnd(o, n) => InFlightUnder(q, n, e)

(* begin_send puts a node in flight under the epoch it was sent with and    *)
(* leaves the other nodes alone.                                            *)
LEMMA SendKeeps ==
    ASSUME NEW r \in Records, QuietRecord(r), NEW o \in Sends
    PROVE  /\ Keeps(r, Changed(r, o), o)
           /\ CanBeginSend(r, o.node) => InFlightUnder(Changed(r, o), o.node, o.epoch)
<1> DEFINE sent == [state |-> "Sending", epoch |-> o.epoch, turn |-> NoTurn]
<1>1. Changed(r, o) = IF CanBeginSend(r, o.node) THEN [r EXCEPT !.nodes[o.node] = sent] ELSE r
  BY DEF Changed, Sends, BeginSend
<1>2. o.node \in Node /\ sent \in [state : NodeStates, epoch : Nat, turn : AnyTurn]
  BY DEF Sends, PositiveEpoch, NodeStates, AnyTurn
<1>3. sent.state = "Sending" /\ sent.epoch = o.epoch
  OBVIOUS
<1> HIDE DEF sent
<1>4. CASE ~CanBeginSend(r, o.node)
  BY <1>1, <1>4 DEF Keeps
<1>5. CASE CanBeginSend(r, o.node)
  <2>1. /\ Changed(r, o) \in Records /\ Changed(r, o).state = r.state
        /\ \A n \in Node : Changed(r, o).nodes[n] = IF n = o.node THEN sent ELSE r.nodes[n]
    BY <1>1, <1>2, <1>5 DEF Records
  <2>2. IsLive(r) /\ ~IsInFlight(r, o.node)
    BY <1>5 DEF CanBeginSend, IsLive, IsInFlight, StateOf
  <2> QED
    BY <1>2, <1>3, <2>1, <2>2 DEF Keeps, QuietRecord, IsLive, InFlightUnder, IsInFlight, StateOf
<1> QED
  BY <1>4, <1>5

(* accept leaves every node in flight that was, under its epoch.            *)
LEMMA AcceptKeeps ==
    ASSUME NEW r \in Records, QuietRecord(r), NEW o \in Accepts
    PROVE  Keeps(r, Changed(r, o), o)
<1> DEFINE node == [state |-> "Accepted", epoch |-> o.epoch, turn |-> o.turn]
<1>1. Changed(r, o) = IF CanAccept(r, o.node, o.epoch)
                      THEN [r EXCEPT !.nodes[o.node] = node, !.slots[SlotOf[o.node]].opened = TRUE]
                      ELSE r
  BY DEF Changed, Accepts, Accept
<1>2. o.node \in Node /\ node \in [state : NodeStates, epoch : Nat, turn : AnyTurn]
  BY DEF Accepts, PositiveEpoch, NodeStates, AnyTurn
<1>3. node.state = "Accepted" /\ node.epoch = o.epoch
  OBVIOUS
<1> HIDE DEF node
<1>4. SlotOf[o.node] \in Slot
  BY <1>2, GraphTyped
<1> DEFINE slot == [r.slots[SlotOf[o.node]] EXCEPT !.opened = TRUE]
<1>5. slot \in [conversation : AnyConversation, opened : BOOLEAN]
  BY <1>4 DEF Records
<1> DEFINE nodes == [r.nodes EXCEPT ![o.node] = node]
           slots == [r.slots EXCEPT ![SlotOf[o.node]] = slot]
<1>6. Changed(r, o) \in {r, [r EXCEPT !.nodes = nodes, !.slots = slots]}
  BY <1>1
<1>7. Changed(r, o) \in Records
  <2>1. nodes \in [Node -> [state : NodeStates, epoch : Nat, turn : AnyTurn]]
    BY <1>2 DEF Records
  <2> HIDE DEF slot
  <2>2. slots \in [Slot -> [conversation : AnyConversation, opened : BOOLEAN]]
    BY <1>4, <1>5 DEF Records
  <2> HIDE DEF nodes, slots
  <2> QED
    BY <1>6, <2>1, <2>2 DEF Records
<1>8. CASE Changed(r, o) = r
  BY <1>8 DEF Keeps
<1>9. CASE Changed(r, o) # r
  <2>1. IsLive(r) /\ r.nodes[o.node].epoch = o.epoch
    BY <1>1, <1>2, <1>9 DEF CanAccept, QuietRecord, IsInFlight, StateOf
  <2>2. /\ Changed(r, o).state = r.state
        /\ \A n \in Node : Changed(r, o).nodes[n] = IF n = o.node THEN node ELSE r.nodes[n]
    BY <1>1, <1>2, <1>9 DEF Records
  <2> QED
    BY <1>3, <1>7, <2>1, <2>2 DEF Keeps, QuietRecord, IsLive, InFlightUnder, IsInFlight, StateOf
<1> QED
  BY <1>8, <1>9

(* A node that completes or fails was in flight, or waited in a live run.   *)
LEMMA EndKeeps ==
    ASSUME NEW r \in Records, QuietRecord(r), NEW o \in Finishes \cup Fails
    PROVE  Keeps(r, Changed(r, o), o)
<1> o.node \in Node /\ o.epoch \in Nat
  BY DEF Finishes, Fails, PositiveEpoch
<1>1. ASSUME NEW node \in [state : NodeStates, epoch : Nat, turn : AnyTurn],
             node.state \in {"Completed", "Failed"}, IsLive(r),
             ~IsInFlight(r, o.node) \/ IsEnd(o, o.node) \/ r.nodes[o.node].epoch = NoEpoch,
             Changed(r, o) = RefreshState([r EXCEPT !.nodes[o.node] = node])
      PROVE  Keeps(r, Changed(r, o), o)
  <2> DEFINE q == [r EXCEPT !.nodes[o.node] = node]
  <2>1. q \in Records /\ IsLive(q)
    BY <1>1 DEF Records, IsLive
  <2>2. \A n \in Node : IF n = o.node THEN q.nodes[n] = node ELSE q.nodes[n] = r.nodes[n]
    BY DEF Records
  <2>3. Changed(r, o) = RefreshState(q)
    BY <1>1
  <2> HIDE DEF q
  <2>4. /\ Changed(r, o) \in Records /\ QuietRecord(Changed(r, o))
        /\ \A n \in Node : IsInFlight(q, n) => Changed(r, o).nodes[n] = q.nodes[n]
    BY <2>1, <2>3, Refreshed, Zenon
  <2>5. ASSUME NEW n \in Node, NEW e \in PositiveEpoch, InFlightUnder(r, n, e), ~IsEnd(o, n)
        PROVE  InFlightUnder(Changed(r, o), n, e)
    <3>1. n # o.node
      BY <1>1, <2>5 DEF InFlightUnder, PositiveEpoch
    <3> QED
      BY <2>2, <2>4, <2>5, <3>1 DEF InFlightUnder, IsInFlight, StateOf
  <2> QED
    BY <2>4, <2>5 DEF Keeps
<1>2. CASE Changed(r, o) = r
  BY <1>2 DEF Keeps
<1>3. CASE Changed(r, o) # r /\ o \in Finishes /\ o.ok
  <2>1. /\ CanComplete(r, o.node, o.epoch, o.turn)
        /\ Changed(r, o) = RefreshState([r EXCEPT !.nodes[o.node] =
                               [state |-> "Completed", epoch |-> NoEpoch, turn |-> o.turn]])
    BY <1>3 DEF Changed, Finishes, Complete
  <2>2. IsInFlight(r, o.node) /\ IsEnd(o, o.node)
    BY <1>3, <2>1 DEF CanComplete, IsInFlight, StateOf, IsEnd, Finishes, PositiveEpoch
  <2>3. IsLive(r)
    BY <2>2 DEF QuietRecord
  <2>4. [state |-> "Completed", epoch |-> NoEpoch, turn |-> o.turn]
            \in [state : NodeStates, epoch : Nat, turn : AnyTurn]
    BY <1>3 DEF Finishes, NoEpoch, NodeStates, AnyTurn
  <2> QED
    BY <1>1, <2>1, <2>2, <2>3, <2>4
<1>4. CASE Changed(r, o) # r /\ ~(o \in Finishes /\ o.ok)
  <2>1. o.op \in {"finish", "fail"}
    BY DEF Finishes, Fails
  <2>2. Changed(r, o) = Fail(r, o.node, o.epoch)
    BY <1>4 DEF Changed, Finishes, Fails
  <2>3. /\ CanFail(r, o.node, o.epoch)
        /\ Changed(r, o) = RefreshState([r EXCEPT !.nodes[o.node] = NodeIn("Failed")])
    BY <1>4, <2>2 DEF Fail
  <2>4. NodeIn("Failed") \in [state : NodeStates, epoch : Nat, turn : AnyTurn] /\ NodeIn("Failed").state = "Failed"
    BY DEF NodeIn, NodeStates, NoEpoch, AnyTurn
  <2>5. IsLive(r) /\ (~IsInFlight(r, o.node) \/ IsEnd(o, o.node) \/ r.nodes[o.node].epoch = NoEpoch)
    BY <2>1, <2>3 DEF CanFail, IsEnd, IsInFlight, StateOf
  <2> QED
    BY <1>1, <2>3, <2>4, <2>5
<1> QED
  BY <1>2, <1>3, <1>4

(* A stop, an interruption and a resume leave nothing in flight.            *)
LEMMA SweepKeeps ==
    ASSUME NEW r \in Records, QuietRecord(r)
    PROVE  /\ \A q \in {Stop(r), Interrupt(r), Resume(r)} : q \in Records /\ QuietRecord(q)
           /\ \A n \in Node, e \in PositiveEpoch : InFlightUnder(r, n, e) => InFlightUnder(Resume(r), n, e)
<1> DEFINE Swept(nodes) ==
             /\ nodes \in [Node -> [state : NodeStates, epoch : Nat, turn : AnyTurn]]
             /\ \A n \in Node : nodes[n].state \notin {"Sending", "Accepted"}
<1>1. ASSUME NEW nodes, Swept(nodes), NEW s \in RunStates
      PROVE  [r EXCEPT !.state = s, !.nodes = nodes] \in Records
             /\ QuietRecord([r EXCEPT !.state = s, !.nodes = nodes])
  BY <1>1 DEF Records, QuietRecord, IsInFlight, StateOf
<1>2. \A s \in NodeStates : NodeIn(s) \in [state : NodeStates, epoch : Nat, turn : AnyTurn] /\ NodeIn(s).state = s
  BY DEF NodeIn, NoEpoch, AnyTurn
<1>3. {"Waiting", "Stopped", "NotRun", "Interrupted"} \subseteq NodeStates
      /\ {"Stopped", "Interrupted", "Running"} \subseteq RunStates
  BY DEF NodeStates, RunStates
<1>4. Stop(r) \in Records /\ QuietRecord(Stop(r))
  <2> DEFINE nodes == [n \in Node |-> IF IsInFlight(r, n) THEN NodeIn("Stopped")
                                      ELSE IF StateOf(r, n) = "Waiting" THEN NodeIn("NotRun") ELSE r.nodes[n]]
  <2>1. Swept(nodes)
    BY <1>2, <1>3 DEF Records, IsInFlight, StateOf
  <2>2. Stop(r) \in {r, [r EXCEPT !.state = "Stopped", !.nodes = nodes]}
    BY DEF Stop
  <2> HIDE DEF nodes, Swept
  <2> QED
    BY <1>1, <1>3, <2>1, <2>2
<1>5. Interrupt(r) \in Records /\ QuietRecord(Interrupt(r))
  <2> DEFINE nodes == [n \in Node |-> IF IsInFlight(r, n) THEN NodeIn("Interrupted") ELSE r.nodes[n]]
  <2>1. Swept(nodes)
    BY <1>2, <1>3 DEF Records, IsInFlight, StateOf
  <2>2. Interrupt(r) \in {r, [r EXCEPT !.state = "Interrupted", !.nodes = nodes]}
    BY DEF Interrupt
  <2> HIDE DEF nodes, Swept
  <2> QED
    BY <1>1, <1>3, <2>1, <2>2
<1>6. Resume(r) \in Records /\ QuietRecord(Resume(r))
  <2> DEFINE nodes == [n \in Node |-> IF IsCompleted(r, n) THEN r.nodes[n] ELSE NodeIn("Waiting")]
  <2>1. Swept(nodes)
    BY <1>2, <1>3 DEF Records, IsCompleted, StateOf
  <2>2. Resume(r) \in {r, [r EXCEPT !.state = "Running", !.nodes = nodes]}
    BY DEF Resume
  <2> HIDE DEF nodes, Swept
  <2> QED
    BY <1>1, <1>3, <2>1, <2>2
<1>7. (\E n \in Node : IsInFlight(r, n)) => Resume(r) = r
  BY DEF QuietRecord, IsLive, Resume, IsResumable
<1> QED
  BY <1>4, <1>5, <1>6, <1>7 DEF InFlightUnder

(* Saving an identity leaves the nodes alone.                               *)
LEMMA ConversationKeeps ==
    ASSUME NEW r \in Records, QuietRecord(r), NEW o \in Saved
    PROVE  Keeps(r, Changed(r, o), o)
<1> DEFINE slots == [r.slots EXCEPT ![o.slot] = [r.slots[o.slot] EXCEPT !.conversation = o.conv]]
<1>1. Changed(r, o) = [r EXCEPT !.slots = slots]
  BY DEF Changed, Saved, RecordConversation
<1>2. slots \in [Slot -> [conversation : AnyConversation, opened : BOOLEAN]]
  BY DEF Records, Saved
<1> HIDE DEF slots
<1> QED
  BY <1>1, <1>2 DEF Keeps, Records, QuietRecord, IsLive, InFlightUnder, IsInFlight, StateOf

(* A change of the record takes from flight only the node it ends, or all   *)
(* of them when it is the user's stop.                                      *)
LEMMA ChangeKeeps ==
    ASSUME NEW r \in Records, QuietRecord(r), NEW o \in Changes
    PROVE  Keeps(r, Changed(r, o), o)
<1>1. CASE o \in Stops \cup Resumes
  <2>1. o.op \in {"stop", "resume"}
    BY <1>1 DEF Stops, Resumes
  <2>2. Changed(r, o) = IF o.op = "stop" THEN Stop(r) ELSE Resume(r)
    BY <2>1 DEF Changed
  <2> QED
    BY <2>1, <2>2, SweepKeeps DEF Keeps
<1> QED
  BY <1>1, SendKeeps, AcceptKeeps, EndKeeps, ConversationKeeps DEF Changes

-------------------------------------------------------------------------------
(* The queue. *)

(* What is in the queue is what its tag says.                               *)
LEMMA TagTypes ==
    ASSUME NEW o \in Waiting \cup Looks \cup {Idle.op}
    PROVE  /\ o.op = "send" => o \in Sends
           /\ o.op = "accept" => o \in Accepts
           /\ o.op = "finish" => o \in Finishes
           /\ o.op = "fail" => o \in Fails
           /\ o.op = "stop" => o \in Stops
           /\ o.op = "resume" => o \in Resumes
           /\ o.op = "pump" => o \in Looks \/ o = PumpOp
           /\ o.op \in {"none", "send", "accept", "finish", "fail", "stop", "resume", "pump"}
<1>1. CASE o \in Sends \cup Accepts \cup Finishes
  BY <1>1 DEF Sends, Accepts, Finishes
<1>2. CASE o \in Fails \cup Stops \cup Resumes
  BY <1>2 DEF Fails, Stops, Resumes
<1>3. CASE o \in Looks
  BY <1>3 DEF Looks
<1>4. CASE o = PumpOp \/ o = Idle.op
  BY <1>4 DEF PumpOp, Idle
<1> QED
  BY <1>1, <1>2, <1>3, <1>4 DEF Waiting

(* There is one pump operation.                                             *)
LEMMA PumpIsPump == \A o \in Waiting : o.op = "pump" => o = PumpOp
  BY DEF Waiting, Sends, Accepts, Finishes, Fails, Stops, Resumes

(* A function on 1..k is a sequence.                                        *)
LEMMA ListIsSeq ==
    ASSUME NEW S, NEW k \in Nat, NEW q \in [1..k -> S]
    PROVE  q \in Seq(S) /\ Len(q) = k /\ DOMAIN q = 1..k
  BY SeqDef

(* The queue grew by operations of `new`, and a pump unless one was out.    *)
Grown(new) ==
    /\ pending' \in Seq(Waiting) /\ scheduled' \in BOOLEAN /\ again' \in BOOLEAN
    /\ Len(pending) <= Len(pending')
    /\ \A i \in DOMAIN pending : pending'[i] = pending[i]
    /\ \A i \in DOMAIN pending' \ DOMAIN pending :
          pending'[i] \in new \/ (pending'[i] = PumpOp /\ i = Len(pending') /\ ~scheduled /\ scheduled')
    /\ scheduled => scheduled'

(* schedule adds what its caller queued and a pump unless one is out.       *)
LEMMA ScheduleGrows ==
    ASSUME Types, NEW ops \in Seq(Waiting), ScheduleAfter(ops)
    PROVE  Grown({ops[i] : i \in DOMAIN ops})
<1> DEFINE pump == IF scheduled THEN <<>> ELSE <<PumpOp>>
           all  == pending \o ops
<1>1. all \in Seq(Waiting) /\ Len(all) = Len(pending) + Len(ops)
      /\ \A i \in 1..Len(all) : all[i] = IF i <= Len(pending) THEN pending[i] ELSE ops[i - Len(pending)]
  BY ConcatProperties DEF Types
<1>2. pump \in Seq(Waiting) /\ pending' = all \o pump
      /\ (pump # <<>> => ~scheduled /\ Len(pump) = 1 /\ pump[1] = PumpOp) /\ (pump = <<>> => Len(pump) = 0)
  <2>1. pending' = all \o pump
    BY DEF ScheduleAfter
  <2>2. PumpOp \in Waiting
    BY DEF Waiting
  <2> HIDE DEF all
  <2>3. CASE scheduled
    BY <2>1, <2>3
  <2>4. CASE ~scheduled
    BY <2>1, <2>2, <2>4
  <2> QED
    BY <2>3, <2>4
<1> HIDE DEF all, pump
<1>3. pending' \in Seq(Waiting) /\ Len(pending') = Len(all) + Len(pump)
      /\ \A i \in 1..Len(pending') : pending'[i] = IF i <= Len(all) THEN all[i] ELSE pump[i - Len(all)]
  <2>1. all \in Seq(Waiting) /\ pump \in Seq(Waiting)
    BY <1>1, <1>2
  <2>2. /\ all \o pump \in Seq(Waiting) /\ Len(all \o pump) = Len(all) + Len(pump)
        /\ \A i \in 1..(Len(all) + Len(pump)) :
              (all \o pump)[i] = IF i <= Len(all) THEN all[i] ELSE pump[i - Len(all)]
    BY <2>1, ConcatProperties, Zenon
  <2> QED
    BY <1>2, <2>2, Zenon
<1>4. Len(pending) \in Nat /\ Len(ops) \in Nat /\ Len(pump) \in Nat
      /\ DOMAIN pending = 1..Len(pending) /\ DOMAIN pending' = 1..Len(pending') /\ DOMAIN ops = 1..Len(ops)
  BY <1>2, <1>3 DEF Types
<1>5. ASSUME NEW i \in DOMAIN pending' \ DOMAIN pending
      PROVE  \/ \E k \in DOMAIN ops : pending'[i] = ops[k]
             \/ pending'[i] = PumpOp /\ i = Len(pending') /\ ~scheduled
  <2>1. CASE i <= Len(all)
    <3>1. i - Len(pending) \in DOMAIN ops /\ pending'[i] = ops[i - Len(pending)]
      BY <1>1, <1>3, <1>4, <2>1
    <3> QED
      BY <3>1
  <2>2. CASE i > Len(all)
    <3>1. i \in 1..Len(pending') /\ Len(pending') = Len(all) + Len(pump) /\ Len(all) \in Nat
      BY <1>1, <1>3, <1>4
    <3>2. Len(pump) # 0
      BY <1>4, <2>2, <3>1
    <3>3. ~scheduled /\ Len(pump) = 1 /\ pump[1] = PumpOp
      BY <1>2, <3>2
    <3>4. i - Len(all) = 1 /\ i = Len(pending')
      BY <2>2, <3>1, <3>3
    <3>5. pending'[i] = pump[i - Len(all)]
      BY <1>3, <2>2, <3>1
    <3> QED
      BY <3>3, <3>4, <3>5
  <2> QED
    BY <1>1, <1>4, <2>1, <2>2
<1>6. ASSUME NEW i \in DOMAIN pending
      PROVE  pending'[i] = pending[i]
  BY <1>1, <1>3, <1>4
<1>7. Len(pending) <= Len(pending')
  BY <1>1, <1>3, <1>4
<1> QED
  BY <1>3, <1>5, <1>6, <1>7 DEF Grown, ScheduleAfter, Types

LEMMA LookGrows == ASSUME Types, ScheduleAfter(<<>>) PROVE Grown({})
<1>1. <<>> \in Seq(Waiting) /\ {<<>>[i] : i \in DOMAIN <<>>} = {}
  OBVIOUS
<1> QED
  BY <1>1, ScheduleGrows

LEMMA OpGrows == ASSUME Types, NEW o \in Waiting, ScheduleAfter(<<o>>) PROVE Grown({o})
<1>1. <<o>> \in Seq(Waiting) /\ {<<o>>[i] : i \in DOMAIN <<o>>} = {o}
  OBVIOUS
<1> QED
  BY <1>1, ScheduleGrows

(* queue adds one operation.                                                *)
LEMMA EnqueueGrows ==
    ASSUME Types, NEW o \in Waiting, Enqueue(o)
    PROVE  Grown({o}) /\ scheduled' = scheduled
<1>1. pending' \in Seq(Waiting) /\ Len(pending') = Len(pending) + 1
      /\ (\A i \in 1..Len(pending) : pending'[i] = pending[i]) /\ pending'[Len(pending) + 1] = o
  BY AppendProperties DEF Types, Enqueue
<1>2. Len(pending) \in Nat /\ DOMAIN pending = 1..Len(pending) /\ DOMAIN pending' = 1..Len(pending')
  BY <1>1 DEF Types
<1> QED
  BY <1>1, <1>2 DEF Grown, Enqueue, Types

(* The order of the queue survives what the handlers add to it.             *)
LEMMA GrownOrder ==
    ASSUME Types, QueueOrder, NEW new, Grown(new), busy' \in {busy, Idle},
           \A o \in new : o.op \notin {"pump", "send"},
           \A o \in new, n \in Node : IsEnd(o, n) =>
              (\A i \in DOMAIN pending : ~IsSend(pending[i], n)) /\ ~IsSend(busy'.op, n)
    PROVE  QueueOrder'
<1>1. /\ Len(pending) \in Nat /\ DOMAIN pending = 1..Len(pending)
      /\ Len(pending') \in Nat /\ DOMAIN pending' = 1..Len(pending')
      /\ DOMAIN pending \subseteq DOMAIN pending'
  BY DEF Types, Grown
<1>2. Idle.op.op = "none" /\ PumpOp.op = "pump"
  BY DEF Idle, PumpOp
<1>3. \A i \in DOMAIN pending : pending[i] \in Waiting /\ (pending[i].op = "send" => pending[i].node \in Node)
  <2> TAKE i \in DOMAIN pending
  <2>1. pending[i] \in Waiting
    BY DEF Types
  <2> QED
    BY <2>1, TagTypes DEF Sends
<1>4. ASSUME NEW i \in DOMAIN pending', NEW j \in DOMAIN pending', i < j, pending'[i].op = "pump"
      PROVE  pending'[j].op \notin {"pump", "send"}
  <2>1. pending'[i] \notin new
    BY <1>4
  <2>2. i \in DOMAIN pending
    BY <1>1, <1>4, <2>1 DEF Grown
  <2>3. scheduled
    BY <1>4, <2>2 DEF QueueOrder, Grown
  <2> QED
    BY <1>4, <2>2, <2>3 DEF QueueOrder, Grown
<1>5. ASSUME NEW i \in DOMAIN pending', NEW j \in DOMAIN pending', i < j, pending'[i].op = "send"
      PROVE  ~IsSend(pending'[j], pending'[i].node) /\ ~IsEnd(pending'[j], pending'[i].node)
  <2>1. i \in DOMAIN pending /\ pending'[i] = pending[i]
    BY <1>2, <1>5 DEF Grown
  <2>2. CASE j \in DOMAIN pending
    BY <1>5, <2>1, <2>2 DEF QueueOrder, Grown
  <2>3. CASE j \notin DOMAIN pending
    <3>1. pending'[j] \in new \/ pending'[j] = PumpOp
      BY <2>3 DEF Grown
    <3>2. pending[i].node \in Node /\ IsSend(pending[i], pending[i].node)
      BY <1>3, <1>5, <2>1 DEF IsSend
    <3> QED
      BY <1>2, <2>1, <3>1, <3>2 DEF IsSend, IsEnd
  <2> QED
    BY <2>2, <2>3
<1>6. ASSUME busy'.op.op = "pump"
      PROVE  \A i \in DOMAIN pending' : pending'[i].op \notin {"pump", "send"}
  <2>1. busy' = busy /\ scheduled
    BY <1>2, <1>6 DEF QueueOrder
  <2> QED
    BY <1>6, <2>1 DEF QueueOrder, Grown
<1>7. ASSUME busy'.op.op = "send", NEW i \in DOMAIN pending'
      PROVE  ~IsSend(pending'[i], busy'.op.node) /\ ~IsEnd(pending'[i], busy'.op.node)
  <2>1. busy' = busy
    BY <1>2, <1>7
  <2>2. busy.op.node \in Node /\ IsSend(busy.op, busy.op.node)
    <3>1. busy.op \in (Waiting \ {PumpOp}) \cup Looks \cup {Idle.op}
      BY DEF Types
    <3> QED
      BY <1>7, <2>1, <3>1, TagTypes DEF IsSend, Sends
  <2>3. CASE i \in DOMAIN pending
    BY <1>7, <2>1, <2>3 DEF QueueOrder, Grown
  <2>4. CASE i \notin DOMAIN pending
    <3>1. pending'[i] \in new \/ pending'[i] = PumpOp
      BY <2>4 DEF Grown
    <3> QED
      BY <1>2, <2>1, <2>2, <3>1 DEF IsSend, IsEnd
  <2> QED
    BY <2>3, <2>4
<1>8. ASSUME busy'.op.op = "pump" \/ \E i \in DOMAIN pending' : pending'[i].op = "pump"
      PROVE  scheduled'
  <2>1. CASE busy'.op.op = "pump"
    BY <1>2, <2>1 DEF QueueOrder, Grown
  <2>2. CASE \E i \in DOMAIN pending' : pending'[i].op = "pump"
    <3>1. PICK i \in DOMAIN pending' : pending'[i].op = "pump"
      BY <2>2
    <3>2. CASE i \in DOMAIN pending
      BY <3>1, <3>2 DEF QueueOrder, Grown
    <3>3. CASE i \notin DOMAIN pending
      BY <3>1, <3>3 DEF Grown
    <3> QED
      BY <3>2, <3>3
  <2> QED
    BY <1>8, <2>1, <2>2
<1> QED
  BY <1>4, <1>5, <1>6, <1>7, <1>8 DEF QueueOrder

-------------------------------------------------------------------------------
(* The handlers. *)

(* What the handlers of the main thread have in common: they let go of live *)
(* turns at most, and queue an end only for a turn that is let go of.       *)
LEMMA Handled ==
    ASSUME RuntimeInv, open, UNCHANGED <<disk, value, latched, open, run, busy>>,
           NEW new, Grown(new),
           host' \in [Slot -> Hosts], attempt' \in [Node -> Nat], made' \in [Slot -> Nat],
           \A s \in Slot : host'[s].status # "none" => host'[s].epoch # NoEpoch,
           \A s \in Slot : \/ host'[s].live = NoNode
                           \/ host'[s].live = host[s].live /\ host'[s].liveEpoch = host[s].liveEpoch,
           \A o \in new : o.op \notin {"pump", "send"},
           \A o \in new, n \in Node : IsEnd(o, n) => NoSend(n) /\ \A s \in Slot : host'[s].live # n
    PROVE  RuntimeInv'
<1>1. Types'
  BY DEF RuntimeInv, Types, Grown
<1>2. QueueOrder'
  BY GrownOrder DEF RuntimeInv, NoSend
<1>3. LiveTurns'
  <2> SUFFICES ASSUME NEW s \in Slot, NEW n \in Node, NEW e \in Nat,
                      host'[s].live = n, host'[s].liveEpoch = e
               PROVE  LiveTurn(s, n, e)'
    BY DEF LiveTurns
  <2>1. LiveTurn(s, n, e)
    BY NoNodeIsNone DEF RuntimeInv, LiveTurns
  <2>2. \A o \in new : ~IsSend(o, n) /\ ~IsEnd(o, n)
    BY DEF IsSend
  <2>3. ~IsSend(PumpOp, n) /\ ~IsEnd(PumpOp, n)
    BY DEF IsSend, IsEnd, PumpOp
  <2>4. \A i \in DOMAIN pending' : ~IsSend(pending'[i], n) /\ ~IsEnd(pending'[i], n)
    BY <2>1, <2>2, <2>3 DEF Grown, LiveTurn, NoSend, NoEnd
  <2> QED
    BY <2>1, <2>4 DEF LiveTurn, NoSend, NoEnd, InFlightUnder, IsInFlight, StateOf, StopSaved
<1>4. (BusyWork /\ Begun /\ QuietRecord(value) /\ QuietRecord(disk) /\ Installed /\ DiskMatchesStore)'
  BY DEF RuntimeInv, BusyWork, Begun, QuietRecord, IsLive, IsInFlight, StateOf, InFlightUnder,
         Installed, DiskMatchesStore
<1>5. (Epochs /\ Closed)'
  BY DEF Epochs, Closed
<1> QED
  BY <1>1, <1>2, <1>3, <1>4, <1>5 DEF RuntimeInv

(* What a session signals about no turn only asks for another look.         *)
LEMMA SessionSteps ==
    ASSUME RuntimeInv, NEW s \in Slot,
           SessionReady(s) \/ SessionExits(s) \/ SessionRestarts(s) \/ IdentityReported(s) \/ NeverBegins(s)
    PROVE  RuntimeInv'
<1>1. open /\ UNCHANGED <<disk, value, latched, open, run, busy, attempt>> /\ ScheduleAfter(<<>>)
  BY DEF SessionReady, SessionExits, SessionRestarts, IdentityReported, NeverBegins,
         SessionEvent, store, Settled
<1>2. Types
  BY DEF RuntimeInv
<1>3. Grown({})
  BY <1>1, <1>2, LookGrows
<1>4. host[s] \in Hosts /\ made[s] \in Nat
  BY <1>2 DEF Types
<1> DEFINE Edited(h) == /\ h \in Hosts /\ host[s].status # "none"
                        /\ h.live = host[s].live /\ h.liveEpoch = host[s].liveEpoch
                        /\ (h.epoch = host[s].epoch \/ h.epoch = host[s].epoch + 1)
<1>5. \E h : host' = [host EXCEPT ![s] = h] /\ Edited(h)
  <2>1. CASE SessionReady(s)
    <3> DEFINE knows == host[s].known \/ s \notin left.claude \/ host[s].resumed # NoConversation
               ready == [host[s] EXCEPT !.status = "idle", !.known = knows]
               other == [host[s] EXCEPT !.status = "idle", !.known = TRUE, !.conv = made[s] + 1]
    <3>1. host' = [host EXCEPT ![s] = ready] \/ host' = [host EXCEPT ![s] = other]
      BY <1>2, <2>1 DEF SessionReady, Types
    <3>2. knows \in BOOLEAN /\ host[s].status = "starting" /\ made[s] + 1 \in AnyConversation
      BY <1>4, <2>1 DEF AnyConversation, SessionReady
    <3> HIDE DEF knows
    <3>3. Edited(ready)
      BY <1>4, <3>2 DEF Hosts
    <3>4. Edited(other)
      BY <1>4, <3>2 DEF Hosts
    <3> HIDE DEF ready, other, Edited
    <3> QED
      BY <3>1, <3>3, <3>4
  <2>2. CASE SessionExits(s) \/ SessionRestarts(s)
    <3> DEFINE exited == [host[s] EXCEPT !.status = "exited"]
               turns == host[s].turns
               restarted == [host[s] EXCEPT !.status = "starting", !.epoch = @ + 1, !.begun = turns]
    <3>1. host' = [host EXCEPT ![s] = exited] \/ host' = [host EXCEPT ![s] = restarted]
      BY <1>2, <2>2 DEF SessionExits, SessionRestarts, Types
    <3>2. host[s].status # "none" /\ host[s].epoch + 1 \in Nat
      BY <1>4, <2>2 DEF Hosts, SessionExits, SessionRestarts
    <3>3. Edited(exited)
      BY <1>4, <3>2 DEF Hosts
    <3>4. Edited(restarted)
      BY <1>4, <3>2 DEF Hosts
    <3> HIDE DEF exited, restarted, Edited
    <3> QED
      BY <3>1, <3>3, <3>4
  <2>3. CASE IdentityReported(s) \/ NeverBegins(s)
    <3> DEFINE more == host[s].begun + 1
               known == [host[s] EXCEPT !.known = TRUE]
               failed == [host[s] EXCEPT !.begun = more]
    <3>1. host' = [host EXCEPT ![s] = known] \/ host' = [host EXCEPT ![s] = failed]
      BY <1>2, <2>3 DEF IdentityReported, NeverBegins, Types
    <3>3. more \in Nat
      BY <1>4 DEF Hosts
    <3> HIDE DEF more
    <3>2. Edited(known) /\ Edited(failed)
      BY <1>4, <2>3, <3>3 DEF Hosts, IdentityReported, NeverBegins
    <3> HIDE DEF known, failed, Edited
    <3> QED
      BY <3>1, <3>2
  <2> HIDE DEF Edited
  <2> QED
    BY <2>1, <2>2, <2>3
<1>6. made' = made \/ made' = [made EXCEPT ![s] = @ + 1]
  <2>1. CASE SessionReady(s)
    BY <2>1 DEF SessionReady
  <2>2. CASE ~SessionReady(s)
    BY <2>2 DEF SessionExits, SessionRestarts, IdentityReported, NeverBegins
  <2> QED
    BY <2>1, <2>2
<1>7. made' \in [Slot -> Nat] /\ attempt' \in [Node -> Nat]
  <2>1. made \in [Slot -> Nat] /\ attempt \in [Node -> Nat]
    BY <1>2 DEF Types
  <2>2. CASE made' = [made EXCEPT ![s] = @ + 1]
    BY <1>1, <1>4, <2>1, <2>2
  <2> QED
    BY <1>1, <1>6, <2>1, <2>2
<1>8. PICK h : host' = [host EXCEPT ![s] = h] /\ Edited(h)
  BY <1>5
<1>10. h.epoch # NoEpoch
  BY <1>4, <1>8 DEF RuntimeInv, Epochs, NoEpoch, Hosts
<1>9. /\ host' \in [Slot -> Hosts]
      /\ \A t \in Slot : host'[t].status # "none" => host'[t].epoch # NoEpoch
      /\ \A t \in Slot : host'[t].live = host[t].live /\ host'[t].liveEpoch = host[t].liveEpoch
  BY <1>2, <1>8, <1>10 DEF Types, RuntimeInv, Epochs
<1> QED
  BY <1>1, <1>3, <1>7, <1>9, Handled

(* The accepted turn is the live one's; the finished one is let go of.      *)
LEMMA TurnSteps ==
    ASSUME RuntimeInv, NEW s \in Slot, TurnAccepted(s) \/ \E ok \in BOOLEAN : TurnFinished(s, ok)
    PROVE  RuntimeInv'
<1>1. open /\ UNCHANGED <<disk, value, latched, open, run, busy, attempt, made>>
  BY DEF TurnAccepted, TurnFinished, SessionEvent, store, Settled
<1>2. Types
  BY DEF RuntimeInv
<1>3. host[s] \in Hosts /\ host[s].status # "none" /\ host[s].epoch # NoEpoch /\ host[s].epoch \in PositiveEpoch
  BY <1>2 DEF Types, RuntimeInv, Epochs, TurnAccepted, TurnFinished, Hosts, PositiveEpoch
<1>4. \E h \in Hosts :
         /\ host' = [host EXCEPT ![s] = h]
         /\ h.epoch = host[s].epoch
         /\ \/ h.live = host[s].live /\ h.liveEpoch = host[s].liveEpoch /\ (TurnAccepted(s) \/ ~Heard(s))
            \/ h.live = NoNode
  <2>1. CASE TurnAccepted(s)
    <3> DEFINE more == host[s].begun + 1
               begun == [host[s] EXCEPT !.status = "working", !.begun = more]
    <3>1. host' = [host EXCEPT ![s] = begun]
      BY <1>2, <2>1 DEF TurnAccepted, Types
    <3>3. more \in Nat
      BY <1>3 DEF Hosts
    <3> HIDE DEF more
    <3>2. /\ begun \in Hosts /\ begun.epoch = host[s].epoch
          /\ begun.live = host[s].live /\ begun.liveEpoch = host[s].liveEpoch
      BY <1>3, <3>3 DEF Hosts
    <3> HIDE DEF begun
    <3> QED
      BY <2>1, <3>1, <3>2
  <2>2. CASE \E ok \in BOOLEAN : TurnFinished(s, ok)
    <3> DEFINE done == [host[s] EXCEPT !.status = "idle"]
    <3>1. host' = [host EXCEPT ![s] = IF Heard(s) THEN Released(done) ELSE done]
      BY <2>2 DEF TurnFinished
    <3>2. /\ done \in Hosts /\ done.epoch = host[s].epoch
          /\ done.live = host[s].live /\ done.liveEpoch = host[s].liveEpoch
      BY <1>3 DEF Hosts
    <3> HIDE DEF done
    <3>3. Released(done) \in Hosts /\ Released(done).epoch = host[s].epoch /\ Released(done).live = NoNode
      BY <3>2 DEF Released, Hosts, NoEpoch
    <3> QED
      BY <3>1, <3>2, <3>3
  <2> QED
    BY <2>1, <2>2
<1>5. PICK h \in Hosts :
         /\ host' = [host EXCEPT ![s] = h]
         /\ h.epoch = host[s].epoch
         /\ \/ h.live = host[s].live /\ h.liveEpoch = host[s].liveEpoch /\ (TurnAccepted(s) \/ ~Heard(s))
            \/ h.live = NoNode
  BY <1>4
<1>6. /\ host' \in [Slot -> Hosts]
      /\ \A t \in Slot : host'[t].status # "none" => host'[t].epoch # NoEpoch
      /\ \A t \in Slot : \/ host'[t].live = NoNode
                         \/ host'[t].live = host[t].live /\ host'[t].liveEpoch = host[t].liveEpoch
  BY <1>2, <1>3, <1>5 DEF Types, RuntimeInv, Epochs
<1>7. CASE ScheduleAfter(<<>>)
  <2>2. Grown({})
    BY <1>2, <1>7, LookGrows
  <2> QED
    BY <1>1, <1>2, <1>6, <2>2, Handled DEF Types
<1>8. CASE ~ScheduleAfter(<<>>)
  <2>1. PICK n : n = host[s].live
    OBVIOUS
  <2>2. Heard(s) /\ n \in Node
    BY <1>3, <1>8, <2>1 DEF TurnAccepted, TurnFinished, Heard, Hosts
  <2>3. LiveTurn(s, n, host[s].epoch)
    BY <1>3, <2>1, <2>2 DEF RuntimeInv, LiveTurns, Heard, Hosts
  <2>4. PICK o \in Accepts \cup Finishes : ScheduleAfter(<<o>>) /\ o.node = n /\ (o \in Finishes => h.live = NoNode)
    <3>1. CASE TurnAccepted(s)
      <4>1. ScheduleAfter(<<[op |-> "accept", node |-> n, epoch |-> host[s].epoch, turn |-> host[s].begun + 1]>>)
        BY <2>1, <2>2, <3>1 DEF TurnAccepted
      <4>2. [op |-> "accept", node |-> n, epoch |-> host[s].epoch, turn |-> host[s].begun + 1] \in Accepts
        BY <1>3, <2>2 DEF Accepts, Hosts
      <4>3. \A o \in Accepts : o \notin Finishes
        BY DEF Accepts, Finishes
      <4> QED
        BY <4>1, <4>2, <4>3
    <3>2. CASE \E ok \in BOOLEAN : TurnFinished(s, ok)
      <4>1. PICK ok \in BOOLEAN : TurnFinished(s, ok)
        BY <3>2
      <4> DEFINE o == [op |-> "finish", node |-> n, epoch |-> host[s].epoch, turn |-> host[s].begun,
                       ok |-> ok, attempt |-> attempt[n]]
      <4>2. ScheduleAfter(<<o>>)
        BY <2>1, <2>2, <4>1 DEF TurnFinished
      <4>3. o \in Finishes /\ o.node = n
        BY <1>2, <1>3, <2>2 DEF Finishes, Hosts, Types
      <4>4. h.live = NoNode
        <5>1. host'[s] = Released([host[s] EXCEPT !.status = "idle"])
          BY <1>2, <2>2, <4>1 DEF TurnFinished, Types
        <5>2. host'[s] = h
          BY <1>2, <1>5 DEF Types
        <5> QED
          BY <1>3, <5>1, <5>2 DEF Released, Hosts
      <4> HIDE DEF o
      <4> QED
        BY <4>2, <4>3, <4>4
    <3> QED
      BY <3>1, <3>2
  <2>5. o \in Waiting /\ o.op \in {"accept", "finish"} /\ (o.op = "finish" => o \in Finishes)
    BY DEF Waiting, Accepts, Finishes
  <2>6. Grown({o})
    BY <1>2, <2>4, <2>5, OpGrows
  <2>7. ASSUME NEW m \in Node, IsEnd(o, m)
        PROVE  NoSend(m) /\ \A t \in Slot : host'[t].live # m
    <3>1. m = n /\ h.live = NoNode
      BY <2>4, <2>5, <2>7 DEF IsEnd
    <3>2. ASSUME NEW t \in Slot, host'[t].live = n PROVE FALSE
      <4>1. t # s
        BY <1>2, <1>5, <2>2, <3>1, <3>2, NoNodeIsNone DEF Types
      <4>2. host[t].live = n /\ host[t].liveEpoch \in Nat
        BY <1>2, <1>5, <3>2, <4>1 DEF Types, Hosts
      <4>3. SlotOf[n] = t
        BY <2>2, <4>2 DEF RuntimeInv, LiveTurns, LiveTurn
      <4> QED
        BY <2>3, <4>1, <4>3 DEF LiveTurn
    <3> QED
      BY <2>3, <3>1, <3>2 DEF LiveTurn
  <2> QED
    BY <1>1, <1>2, <1>6, <2>5, <2>6, <2>7, Handled DEF Types
<1> QED
  BY <1>7, <1>8

(* Stop queues the turns it captured, and resume its change of the record.  *)
LEMMA UserQueues ==
    ASSUME Types, UserStop \/ UserResume
    PROVE  \E o \in Stops \cup Resumes : Enqueue(o)
<1>1. CASE UserStop
  <2>1. PICK running \in ListedSlots({s \in Slot : host[s].live # NoNode}) :
           Enqueue([op |-> "stop",
                    captured |-> [i \in DOMAIN running |->
                        [node |-> host[running[i]].live, attempt |-> attempt[host[running[i]].live]]]])
    BY <1>1 DEF UserStop
  <2> DEFINE S == {s \in Slot : host[s].live # NoNode}
             captured == [i \in DOMAIN running |->
                             [node |-> host[running[i]].live, attempt |-> attempt[host[running[i]].live]]]
  <2>2. IsFiniteSet(S) /\ Cardinality(S) \in Nat
    BY SlotsFinite, FS_Subset, FS_CardinalityType
  <2>3. running \in [1..Cardinality(S) -> S]
    BY DEF ListedSlots
  <2>4. \A i \in 1..Cardinality(S) :
           /\ host[running[i]].live \in Node
           /\ attempt[host[running[i]].live] \in Nat
    BY <2>3 DEF Types, Hosts
  <2>5. captured \in [1..Cardinality(S) -> [node : Node, attempt : Nat]]
    BY <2>3, <2>4
  <2>6. captured \in Seq([node : Node, attempt : Nat])
    BY <2>2, <2>5, ListIsSeq, Zenon
  <2> HIDE DEF captured
  <2>7. [op |-> "stop", captured |-> captured] \in Stops
    BY <2>6 DEF Stops
  <2> QED
    BY <2>1, <2>7 DEF captured
<1>2. CASE UserResume
  BY <1>2 DEF UserResume, Resumes
<1> QED
  BY <1>1, <1>2

(* Stop and resume.                                                         *)
LEMMA UserSteps ==
    ASSUME RuntimeInv, UserStop \/ UserResume
    PROVE  RuntimeInv'
<1>1. open /\ UNCHANGED <<disk, value, latched, open, run, busy, attempt, made>>
  BY DEF UserStop, UserResume, store, history, Settled
<1>2. Types
  BY DEF RuntimeInv
<1>3. /\ host' \in [Slot -> Hosts]
      /\ \A t \in Slot : host'[t].status # "none" => host'[t].epoch # NoEpoch
      /\ \A t \in Slot : \/ host'[t].live = NoNode
                         \/ host'[t].live = host[t].live /\ host'[t].liveEpoch = host[t].liveEpoch
  <2>1. CASE host' = host
    BY <1>2, <2>1 DEF Types, RuntimeInv, Epochs
  <2>2. CASE UserResume
    <3>1. NoHost \in Hosts /\ NoHost.live = NoNode /\ NoHost.status = "none"
      BY DEF NoHost, Hosts, NoEpoch, AnyConversation
    <3>2. \A t \in Slot : host'[t] = IF host[t].status = "exited" THEN NoHost ELSE host[t]
      BY <2>2 DEF UserResume
    <3>3. DOMAIN host' = Slot /\ host' = [t \in Slot |-> host'[t]]
      BY <2>2 DEF UserResume
    <3> QED
      BY <1>2, <3>1, <3>2, <3>3 DEF Types, RuntimeInv, Epochs
  <2> QED
    BY <2>1, <2>2 DEF UserStop
<1>5. PICK o \in Stops \cup Resumes : Enqueue(o)
  BY <1>2, UserQueues
<1>6. o \in Waiting /\ o.op \in {"stop", "resume"}
  BY DEF Waiting, Stops, Resumes
<1>7. Grown({o})
  BY <1>2, <1>5, <1>6, EnqueueGrows
<1>8. \A n \in Node : ~IsEnd(o, n)
  BY <1>6 DEF IsEnd
<1> QED
  BY <1>1, <1>2, <1>3, <1>6, <1>7, <1>8, Handled DEF Types

-------------------------------------------------------------------------------
(* The background task. *)

(* Taking the next operation from the queue: what it will write is typed,   *)
(* and its change to the record comes last.                                 *)
LEMMA WorkTyped ==
    ASSUME NEW o \in Waiting \ {PumpOp}
    PROVE  /\ Work(o) \in Seq(Writes)
           /\ \A i \in DOMAIN Work(o) : Work(o)[i].write = "commit" =>
                 i = Len(Work(o)) /\ Work(o)[i].do = o
<1> DEFINE Last == [write |-> "commit", do |-> o]
           Good(w) == /\ w \in Seq(Writes)
                      /\ \A i \in DOMAIN w : w[i].write = "commit" => i = Len(w) /\ w[i].do = o
<1>1. o \in Changes /\ o.op \in {"send", "accept", "finish", "fail", "stop", "resume"}
  BY DEF Waiting, Changes, Sends, Accepts, Finishes, Fails, Stops, Resumes
<1>2. Last \in Writes /\ Last.write = "commit" /\ Last.do = o
  BY <1>1 DEF Writes
<1>3. WritePrompt \in Writes /\ WritePrompt.write = "prompt"
  BY DEF Writes, WritePrompt
<1>4. \A n \in Node, a \in Nat : /\ WriteTranscript(n, a) \in Writes /\ WriteOutput(n, a) \in Writes
                                 /\ WriteTranscript(n, a).write = "transcript" /\ WriteOutput(n, a).write = "output"
  BY DEF Writes, WriteTranscript, WriteOutput
<1>5. Commit(o) = Last
  BY DEF Commit
<1> HIDE DEF Last
<1>6. ASSUME NEW u \in Seq(Writes), \A i \in DOMAIN u : u[i].write # "commit"
      PROVE  Good(u \o <<Last>>)
  <2>1. u \o <<Last>> \in Seq(Writes) /\ Len(u \o <<Last>>) = Len(u) + 1
        /\ \A i \in 1..(Len(u) + 1) : (u \o <<Last>>)[i] = IF i <= Len(u) THEN u[i] ELSE Last
    BY <1>2
  <2> QED
    BY <1>2, <1>6, <2>1
<1>7. CASE o.op = "send"
  <2>1. Work(o) = IF CanCompose(o.node) THEN <<WritePrompt, Last>> ELSE <<>>
    BY <1>5, <1>7 DEF Work
  <2> QED
    BY <1>2, <1>3, <2>1
<1>8. CASE o.op = "finish"
  <2>1. o.node \in Node /\ o.attempt \in Nat
    BY <1>8, TagTypes DEF Finishes
  <2>2. Work(o) \in {<<WriteTranscript(o.node, o.attempt), WriteOutput(o.node, o.attempt), Last>>,
                     <<WriteTranscript(o.node, o.attempt), Last>>}
    BY <1>5, <1>8 DEF Work
  <2>3. PICK t \in Writes, p \in Writes : /\ t = WriteTranscript(o.node, o.attempt) /\ p = WriteOutput(o.node, o.attempt)
                                         /\ t.write # "commit" /\ p.write # "commit"
    BY <1>4, <2>1
  <2>4. Work(o) = <<t, p, Last>> \/ Work(o) = <<t, Last>>
    BY <2>2, <2>3
  <2>5. ASSUME NEW x \in Writes, NEW y \in Writes, x.write # "commit", y.write # "commit"
        PROVE  Good(<<x, y, Last>>) /\ Good(<<x, Last>>)
    BY <1>2, <2>5
  <2> HIDE DEF Good
  <2>6. Good(Work(o))
    BY <2>3, <2>4, <2>5
  <2> QED
    BY <2>6 DEF Good
<1>9. CASE o.op = "stop"
  <2> DEFINE u == [i \in DOMAIN o.captured |-> WriteTranscript(o.captured[i].node, o.captured[i].attempt)]
  <2>1. o.captured \in Seq([node : Node, attempt : Nat])
    BY <1>9, TagTypes DEF Stops
  <2>2. \A i \in 1..Len(o.captured) : o.captured[i].node \in Node /\ o.captured[i].attempt \in Nat
    <3>1. \A i \in 1..Len(o.captured) : o.captured[i] \in [node : Node, attempt : Nat]
      BY <2>1, ElementOfSeq, Zenon
    <3> QED
      BY <3>1
  <2>3. u \in [1..Len(o.captured) -> Writes] /\ Len(o.captured) \in Nat
    BY <1>4, <2>1, <2>2
  <2>4. u \in Seq(Writes) /\ \A i \in DOMAIN u : u[i].write # "commit"
    <3>1. u \in Seq(Writes) /\ DOMAIN u = 1..Len(o.captured)
      BY <2>3, ListIsSeq, Zenon
    <3>2. \A i \in 1..Len(o.captured) : u[i].write = "transcript"
      BY <1>4, <2>1, <2>2
    <3> QED
      BY <3>1, <3>2
  <2>5. Work(o) = u \o <<Last>>
    BY <1>5, <1>9 DEF Work
  <2> HIDE DEF u, Good
  <2>6. Good(Work(o))
    BY <1>6, <2>4, <2>5
  <2> QED
    BY <2>6 DEF Good
<1>10. CASE o.op \in {"accept", "fail", "resume"}
  <2>1. Work(o) = <<Last>>
    BY <1>5, <1>10 DEF Work
  <2> QED
    BY <1>2, <2>1
<1> QED
  BY <1>1, <1>7, <1>8, <1>9, <1>10

(* The files an operation writes are those of the turn it ends, or of the   *)
(* turns it captured, whose outputs it leaves alone.                        *)
LEMMA WorkNames ==
    ASSUME NEW o \in Waiting \ {PumpOp}, NEW i \in DOMAIN Work(o),
           Work(o)[i].write \in {"transcript", "output"}
    PROVE  \/ o.op = "finish" /\ Work(o)[i].node = o.node /\ Work(o)[i].attempt = o.attempt
           \/ /\ o.op = "stop" /\ Work(o)[i].write = "transcript"
              /\ \E k \in DOMAIN o.captured :
                    Work(o)[i].node = o.captured[k].node /\ Work(o)[i].attempt = o.captured[k].attempt
<1>1. CASE o.op = "finish"
  <2>1. PICK t, p, c : /\ t = WriteTranscript(o.node, o.attempt) /\ p = WriteOutput(o.node, o.attempt)
                       /\ c = Commit(o)
    OBVIOUS
  <2>2. /\ t.node = o.node /\ t.attempt = o.attempt /\ p.node = o.node /\ p.attempt = o.attempt
        /\ c.write = "commit"
    BY <2>1 DEF WriteTranscript, WriteOutput, Commit
  <2>3. Work(o) = <<t, p, c>> \/ Work(o) = <<t, c>>
    BY <1>1, <2>1 DEF Work
  <2>4. Work(o)[i] \in {t, p}
    BY <2>2, <2>3
  <2> QED
    BY <1>1, <2>2, <2>4
<1>2. CASE o.op = "stop"
  <2> DEFINE u == [k \in DOMAIN o.captured |-> WriteTranscript(o.captured[k].node, o.captured[k].attempt)]
  <2>1. PICK c : c = Commit(o)
    OBVIOUS
  <2>2. o.captured \in Seq([node : Node, attempt : Nat])
    BY <1>2, TagTypes DEF Stops
  <2>3. DOMAIN u = 1..Len(o.captured) /\ Len(o.captured) \in Nat /\ DOMAIN u = DOMAIN o.captured
    BY <2>2
  <2>4. Work(o) = u \o <<c>> /\ c.write = "commit"
    BY <1>2, <2>1 DEF Work, Commit
  <2>5. \A k \in DOMAIN u : /\ u[k].write = "transcript" /\ u[k].node = o.captured[k].node
                            /\ u[k].attempt = o.captured[k].attempt
    BY DEF WriteTranscript
  <2>6. u \in Seq(Writes)
    <3>1. \A k \in 1..Len(o.captured) : o.captured[k] \in [node : Node, attempt : Nat]
      BY <2>2, ElementOfSeq, Zenon
    <3>2. \A k \in 1..Len(o.captured) : o.captured[k].node \in Node /\ o.captured[k].attempt \in Nat
      BY <3>1
    <3>3. u \in [1..Len(o.captured) -> Writes]
      BY <2>3, <3>2 DEF WriteTranscript, Writes
    <3> QED
      BY <2>3, <3>3, ListIsSeq, Zenon
  <2> HIDE DEF u
  <2>7. DOMAIN Work(o) = 1..(Len(u) + 1) /\ Len(u) \in Nat /\ DOMAIN u = 1..Len(u)
        /\ \A k \in 1..(Len(u) + 1) : Work(o)[k] = IF k <= Len(u) THEN u[k] ELSE c
    BY <2>4, <2>6
  <2>8. i \in DOMAIN u /\ Work(o)[i] = u[i]
    BY <2>4, <2>7
  <2> QED
    BY <1>2, <2>3, <2>5, <2>8
<1>3. CASE o.op = "send"
  <2>1. PICK p, c : p = WritePrompt /\ c = Commit(o)
    OBVIOUS
  <2>2. p.write = "prompt" /\ c.write = "commit"
    BY <2>1 DEF WritePrompt, Commit
  <2>3. Work(o) \in {<<p, c>>, <<>>}
    BY <1>3, <2>1 DEF Work
  <2> QED
    BY <2>2, <2>3
<1>4. CASE o.op \notin {"finish", "stop", "send"}
  <2>1. Work(o) = <<Commit(o)>> /\ Commit(o).write = "commit"
    BY <1>4 DEF Work, Commit
  <2> QED
    BY <2>1
<1> QED
  BY <1>1, <1>2, <1>3, <1>4

(* start_next gives the store to the next operation.                        *)
LEMMA StartOperationStep ==
    ASSUME RuntimeInv, StartOperation
    PROVE  RuntimeInv'
<1> DEFINE o == Head(pending)
<1>1. /\ open /\ busy = Idle /\ pending # <<>> /\ o # PumpOp
      /\ busy' = [op |-> o, todo |-> Work(o), ok |-> TRUE, began |-> FALSE]
      /\ pending' = Tail(pending)
      /\ UNCHANGED <<disk, value, latched, open, run, scheduled, again, host, attempt, made>>
  BY DEF StartOperation, store, history
<1>2. Types
  BY DEF RuntimeInv
<1>3. /\ Len(pending) \in Nat \ {0} /\ DOMAIN pending = 1..Len(pending) /\ 1 \in DOMAIN pending
      /\ o = pending[1] /\ o \in Waiting
      /\ pending' \in Seq(Waiting) /\ DOMAIN pending' = 1..(Len(pending) - 1)
      /\ \A i \in DOMAIN pending' : i + 1 \in DOMAIN pending /\ pending'[i] = pending[i + 1]
  BY <1>1, <1>2 DEF Types
<1> HIDE DEF o
<1>4. /\ Work(o) \in Seq(Writes)
      /\ \A i \in DOMAIN Work(o) : Work(o)[i].write = "commit" => i = Len(Work(o)) /\ Work(o)[i].do = o
  BY <1>1, <1>3, WorkTyped
<1>5. o.op \in {"send", "accept", "finish", "fail", "stop", "resume"} /\ (o.op = "send" => o.node \in Node)
  <2>1. o.op # "pump" /\ (o.op = "send" => o.node \in Node)
    BY <1>1, <1>3, TagTypes, PumpIsPump DEF Sends
  <2>2. o.op # "none"
    BY <1>3 DEF Waiting, Sends, Accepts, Finishes, Fails, Stops, Resumes, PumpOp
  <2> QED
    BY <1>3, <2>1, <2>2, TagTypes
<1>6. busy'.op = o /\ busy'.todo = Work(o) /\ busy'.ok = TRUE /\ busy'.began = FALSE
  BY <1>1
<1>7. Types'
  <2>1. busy' \in [op : (Waiting \ {PumpOp}) \cup Looks \cup {Idle.op}, todo : Seq(Writes),
                   ok : BOOLEAN, began : BOOLEAN]
    BY <1>1, <1>3, <1>4
  <2> QED
    BY <1>1, <1>2, <1>3, <2>1 DEF Types
<1>8. QueueOrder'
  <2>1. ASSUME NEW i \in DOMAIN pending', NEW j \in DOMAIN pending', i < j
        PROVE  /\ pending'[i].op = "pump" => pending'[j].op \notin {"pump", "send"}
               /\ pending'[i].op = "send" =>
                     ~IsSend(pending'[j], pending'[i].node) /\ ~IsEnd(pending'[j], pending'[i].node)
    <3>1. i + 1 \in DOMAIN pending /\ j + 1 \in DOMAIN pending /\ i + 1 < j + 1
      BY <1>3, <2>1
    <3> QED
      BY <1>3, <3>1 DEF RuntimeInv, QueueOrder
  <2>2. ASSUME o.op = "send", NEW i \in DOMAIN pending'
        PROVE  ~IsSend(pending'[i], o.node) /\ ~IsEnd(pending'[i], o.node)
    <3>1. i + 1 \in DOMAIN pending /\ 1 < i + 1
      BY <1>3, <2>2
    <3> QED
      BY <1>3, <2>2, <3>1 DEF RuntimeInv, QueueOrder
  <2>3. (\E i \in DOMAIN pending' : pending'[i].op = "pump") => scheduled'
    BY <1>1, <1>3 DEF RuntimeInv, QueueOrder
  <2> QED
    BY <1>5, <1>6, <2>1, <2>2, <2>3 DEF QueueOrder
<1>9. BusyWork'
  BY <1>4, <1>5, <1>6 DEF BusyWork
<1>10. LiveTurns'
  <2> SUFFICES ASSUME NEW s \in Slot, NEW n \in Node, NEW e \in Nat,
                      host'[s].live = n, host'[s].liveEpoch = e
               PROVE  LiveTurn(s, n, e)'
    BY DEF LiveTurns
  <2>1. LiveTurn(s, n, e)
    BY <1>1 DEF RuntimeInv, LiveTurns
  <2>2. InFlightUnder(value, n, e)
    BY <1>1, <2>1 DEF LiveTurn, StopSaved, Idle
  <2>3. ~IsSend(o, n) /\ ~IsEnd(o, n)
    BY <1>3, <2>1 DEF LiveTurn, NoSend, NoEnd
  <2>4. NoSend(n)' /\ NoEnd(n)'
    BY <1>3, <1>4, <1>5, <1>6, <2>1, <2>3 DEF LiveTurn, NoSend, NoEnd
  <2> QED
    BY <1>1, <2>1, <2>2, <2>4 DEF LiveTurn, InFlightUnder, IsInFlight, StateOf
<1>11. (Begun /\ Installed)'
  BY <1>5, <1>6 DEF Begun, Installed, Idle
<1>12. (QuietRecord(value) /\ QuietRecord(disk) /\ Epochs /\ Closed /\ DiskMatchesStore)'
  BY <1>1 DEF RuntimeInv, QuietRecord, IsLive, IsInFlight, StateOf, Epochs, Closed, DiskMatchesStore
<1> QED
  BY <1>7, <1>8, <1>9, <1>10, <1>11, <1>12 DEF RuntimeInv

(* One write of the task, or its end when a write fails: what is left to do *)
(* shrinks, and the record changes by what the operation says at most.      *)
LEMMA TaskStep ==
    ASSUME RuntimeInv, open, busy.todo # <<>>,
           UNCHANGED <<open, run, pending, scheduled, again, host, attempt, made>>,
           NEW rest \in {<<>>, Tail(busy.todo)}, NEW done \in BOOLEAN, NEW b \in BOOLEAN,
           busy' = [busy EXCEPT !.todo = rest, !.ok = done, !.began = b],
           rest # <<>> => done,
           b => busy.op.op = "send" /\ rest = <<>>,
           value' \in Records, QuietRecord(value)', disk' \in Records, QuietRecord(disk)',
           latched' \in BOOLEAN, ~latched' => disk' = value',
           b => InFlightUnder(value, busy.op.node, busy.op.epoch)',
           \A n \in Node, e \in PositiveEpoch : InFlightUnder(value, n, e) /\ NoEnd(n) =>
              InFlightUnder(value, n, e)' \/ (busy.op.op = "stop" /\ rest = <<>> /\ done)
    PROVE  RuntimeInv'
<1>1. Types
  BY DEF RuntimeInv
<1>2. busy.todo \in Seq(Writes) /\ busy.op # Idle.op
  <2>1. busy.op.op # "none"
    BY DEF RuntimeInv, BusyWork, Idle
  <2> QED
    BY <1>1, <2>1 DEF Types, Idle
<1>3. rest \in Seq(Writes) /\ DOMAIN rest = 1..Len(rest) /\ Len(rest) \in Nat
      /\ \A i \in DOMAIN rest : /\ i + 1 \in DOMAIN busy.todo /\ rest[i] = busy.todo[i + 1]
                                /\ (i + 1 = Len(busy.todo) => i = Len(rest))
  <2> DEFINE todo == busy.todo
  <2>1. todo \in Seq(Writes) /\ todo # <<>>
    BY <1>2
  <2>2. CASE rest = <<>>
    BY <2>2
  <2>3. CASE rest = Tail(todo)
    <3> HIDE DEF todo
    <3>1. rest \in Seq(Writes) /\ Len(rest) = Len(todo) - 1 /\ Len(todo) \in Nat \ {0}
          /\ \A i \in 1..Len(rest) : rest[i] = todo[i + 1]
      BY <2>1, <2>3
    <3>2. DOMAIN rest = 1..Len(rest) /\ DOMAIN todo = 1..Len(todo)
      BY <2>1, <3>1
    <3>3. Len(rest) \in Nat
      BY <3>1
    <3>4. \A i \in 1..Len(rest) : i + 1 \in 1..Len(todo) /\ (i + 1 = Len(todo) => i = Len(rest))
      BY <3>1
    <3>5. \A i \in DOMAIN rest : /\ i + 1 \in DOMAIN todo /\ rest[i] = todo[i + 1]
                                /\ (i + 1 = Len(todo) => i = Len(rest))
      BY <3>1, <3>2, <3>4, Zenon
    <3> QED
      BY <3>1, <3>2, <3>3, <3>5, Zenon DEF todo
  <2> QED
    BY <2>2, <2>3
<1>4. busy'.op = busy.op /\ busy'.todo = rest /\ busy'.ok = done /\ busy'.began = b /\ busy' # Idle
      /\ busy' \in [op : (Waiting \ {PumpOp}) \cup Looks \cup {Idle.op}, todo : Seq(Writes),
                    ok : BOOLEAN, began : BOOLEAN]
  <2>1. busy \in [op : (Waiting \ {PumpOp}) \cup Looks \cup {Idle.op}, todo : Seq(Writes),
                  ok : BOOLEAN, began : BOOLEAN]
    BY <1>1 DEF Types
  <2>2. busy'.op = busy.op /\ busy'.todo = rest /\ busy'.ok = done /\ busy'.began = b
    BY <2>1
  <2>3. busy' \in [op : (Waiting \ {PumpOp}) \cup Looks \cup {Idle.op}, todo : Seq(Writes),
                   ok : BOOLEAN, began : BOOLEAN]
    BY <1>3, <2>1
  <2> QED
    BY <1>2, <2>2, <2>3 DEF Idle
<1>5. Types'
  BY <1>1, <1>4 DEF Types
<1>6. QueueOrder'
  BY <1>4 DEF RuntimeInv, QueueOrder
<1>7. BusyWork'
  <2>1. busy.op.op # "none"
    BY DEF RuntimeInv, BusyWork, Idle
  <2>2. ASSUME NEW i \in DOMAIN rest, rest[i].write = "commit"
        PROVE  IF busy.op.op = "pump" THEN rest[i].do.op \in {"conversation", "fail"}
                                      ELSE i = Len(rest) /\ rest[i].do = busy.op
    <3>1. i + 1 \in DOMAIN busy.todo /\ busy.todo[i + 1].write = "commit"
      BY <1>3, <2>2
    <3> QED
      BY <1>3, <3>1 DEF RuntimeInv, BusyWork
  <2> QED
    BY <1>4, <2>1, <2>2 DEF BusyWork
<1>8. LiveTurns'
  <2> SUFFICES ASSUME NEW s \in Slot, NEW n \in Node, NEW e \in Nat,
                      host'[s].live = n, host'[s].liveEpoch = e
               PROVE  LiveTurn(s, n, e)'
    BY DEF LiveTurns
  <2>1. LiveTurn(s, n, e)
    BY DEF RuntimeInv, LiveTurns
  <2>2. InFlightUnder(value, n, e) /\ e \in PositiveEpoch
    BY <2>1 DEF LiveTurn, StopSaved, PositiveEpoch
  <2>3. InFlightUnder(value, n, e)' \/ StopSaved'
    BY <1>4, <2>1, <2>2 DEF LiveTurn, StopSaved
  <2>4. NoSend(n)'
    BY <1>4, <2>1 DEF LiveTurn, NoSend
  <2>5. NoEnd(n)'
    BY <1>3, <1>4, <2>1 DEF LiveTurn, NoEnd
  <2> QED
    BY <2>1, <2>3, <2>4, <2>5 DEF LiveTurn, InFlightUnder, IsInFlight, StateOf
<1>9. Begun'
  BY <1>4 DEF Begun, InFlightUnder, IsInFlight, StateOf
<1>10. (Epochs /\ Closed /\ Installed /\ DiskMatchesStore)'
  BY <1>4 DEF RuntimeInv, Epochs, Closed, Installed, DiskMatchesStore
<1> QED
  BY <1>5, <1>6, <1>7, <1>8, <1>9, <1>10 DEF RuntimeInv

(* One write of the background task, or its failure.                        *)
LEMMA StoreSteps ==
    ASSUME RuntimeInv, StoreStep \/ WriteFails
    PROVE  RuntimeInv'
<1> DEFINE w == Head(busy.todo)
<1>1. /\ open /\ busy.todo # <<>> /\ busy.ok = TRUE /\ busy.began = FALSE
      /\ UNCHANGED <<open, run, pending, scheduled, again, host, attempt, made>>
  BY DEF StoreStep, WriteFails, RuntimeInv, BusyWork, Types, queue, history
<1>2. Types /\ QuietRecord(value) /\ QuietRecord(disk) /\ value \in Records /\ disk \in Records
      /\ latched \in BOOLEAN /\ (~latched => disk = value)
  BY <1>1 DEF RuntimeInv, DiskMatchesStore, Types
<1>3. /\ busy \in [op : (Waiting \ {PumpOp}) \cup Looks \cup {Idle.op}, todo : Seq(Writes),
                   ok : BOOLEAN, began : BOOLEAN]
      /\ busy.todo \in Seq(Writes) /\ w \in Writes /\ 1 \in DOMAIN busy.todo /\ w = busy.todo[1]
      /\ Len(busy.todo) \in Nat /\ Len(busy.todo) = 1 => Tail(busy.todo) = <<>>
  <2>1. /\ busy \in [op : (Waiting \ {PumpOp}) \cup Looks \cup {Idle.op}, todo : Seq(Writes),
                     ok : BOOLEAN, began : BOOLEAN]
        /\ busy.todo \in Seq(Writes)
    BY <1>2 DEF Types
  <2>2. ASSUME NEW q \in Seq(Writes), q # <<>>
        PROVE  /\ Head(q) \in Writes /\ 1 \in DOMAIN q /\ Head(q) = q[1]
               /\ Len(q) \in Nat /\ (Len(q) = 1 => Tail(q) = <<>>)
    BY <2>2
  <2> QED
    BY <1>1, <2>1, <2>2
<1>4. w.write = "commit" => w.do \in Changes
  BY <1>3 DEF Writes, WritePrompt
<1>5. CASE StoreStep /\ w.write = "commit" /\ ~latched
  <2> DEFINE next == Changed(value, w.do)
             b == w.do.op = "send" /\ CanBeginSend(value, w.do.node)
  <2>1. /\ disk' = next /\ value' = next /\ latched' = latched
        /\ busy' = [busy EXCEPT !.todo = Tail(busy.todo), !.began = b]
    BY <1>3, <1>5 DEF StoreStep, CommitStep, Writes, WritePrompt
  <2>2. Keeps(value, next, w.do)
    BY <1>2, <1>4, <1>5, ChangeKeeps
  <2>3. next \in Records /\ QuietRecord(next)
    BY <2>2 DEF Keeps
  <2>4. busy.op.op # "pump" => w.do = busy.op /\ Tail(busy.todo) = <<>>
    BY <1>3, <1>5 DEF RuntimeInv, BusyWork
  <2>5. busy.op.op = "pump" => w.do.op \in {"conversation", "fail"}
    BY <1>3, <1>5 DEF RuntimeInv, BusyWork
  <2>6. b => busy.op.op = "send" /\ w.do = busy.op /\ Tail(busy.todo) = <<>>
    BY <2>4, <2>5
  <2>7. b => InFlightUnder(next, busy.op.node, busy.op.epoch)
    <3>1. w.do.op = "send" => w.do \in Sends
      BY <1>4, <1>5 DEF Changes, Sends, Accepts, Finishes, Fails, Stops, Resumes, Saved
    <3> QED
      BY <1>2, <2>6, <3>1, SendKeeps
  <2>8. ASSUME NEW n \in Node, NEW e \in PositiveEpoch, InFlightUnder(value, n, e), NoEnd(n)
        PROVE  InFlightUnder(next, n, e) \/ (busy.op.op = "stop" /\ Tail(busy.todo) = <<>>)
    <3>1. ~IsEnd(w.do, n)
      BY <1>3, <1>5, <2>8 DEF NoEnd
    <3>2. w.do.op # "stop" => InFlightUnder(next, n, e)
      BY <2>2, <2>8, <3>1 DEF Keeps
    <3> QED
      BY <2>4, <2>5, <3>2
  <2>9. b \in BOOLEAN /\ TRUE \in BOOLEAN
    OBVIOUS
  <2> HIDE DEF next, b
  <2>10. busy' = [busy EXCEPT !.todo = Tail(busy.todo), !.ok = TRUE, !.began = b]
    BY <1>1, <1>3, <2>1
  <2>11. /\ value' \in Records /\ QuietRecord(value)' /\ disk' \in Records /\ QuietRecord(disk)'
         /\ latched' \in BOOLEAN /\ (~latched' => disk' = value')
    BY <1>2, <2>1, <2>3 DEF QuietRecord, IsLive, IsInFlight, StateOf
  <2>12. b => InFlightUnder(value, busy.op.node, busy.op.epoch)'
    <3>1. busy'.op = busy.op
      BY <1>3, <2>10
    <3> QED
      BY <2>1, <2>7, <3>1 DEF InFlightUnder, IsInFlight, StateOf
  <2>13. \A n \in Node, e \in PositiveEpoch : InFlightUnder(value, n, e) /\ NoEnd(n) =>
            InFlightUnder(value, n, e)' \/ (busy.op.op = "stop" /\ Tail(busy.todo) = <<>> /\ TRUE)
    BY <2>1, <2>8 DEF InFlightUnder, IsInFlight, StateOf
  <2> QED
    BY <1>1, <2>6, <2>9, <2>10, <2>11, <2>12, <2>13, TaskStep
<1>6. CASE ~(StoreStep /\ w.write = "commit" /\ ~latched)
  <2>1. /\ \E rest \in {<<>>, Tail(busy.todo)}, done \in BOOLEAN :
              /\ busy' = [busy EXCEPT !.todo = rest, !.ok = done]
              /\ rest # <<>> => done
        /\ value' = value /\ latched' \in BOOLEAN /\ (~latched' => disk' = value')
        /\ disk' = disk \/ (w.write = "commit" /\ disk' = Changed(value, w.do))
    <3>1. CASE StoreStep /\ w.write = "commit" /\ latched
      BY <1>2, <1>3, <3>1 DEF StoreStep, CommitStep, store, Writes, WritePrompt
    <3>2. CASE StoreStep /\ w.write # "commit"
      <4>1. busy' = [busy EXCEPT !.todo = Tail(busy.todo)] /\ UNCHANGED <<value, disk, latched>>
        BY <3>2 DEF StoreStep, store
      <4>2. busy' = [busy EXCEPT !.todo = Tail(busy.todo), !.ok = TRUE]
        BY <1>1, <1>3, <4>1
      <4> QED
        BY <1>2, <4>1, <4>2
    <3>3. CASE WriteFails
      <4>1. busy' = [busy EXCEPT !.todo = <<>>, !.ok = FALSE] /\ value' = value
        BY <3>3 DEF WriteFails
      <4>2. \/ w.write # "commit" /\ UNCHANGED <<disk, latched>>
            \/ w.write = "commit" /\ latched' = TRUE /\ disk' \in {disk, Changed(value, w.do)}
        BY <3>3 DEF WriteFails
      <4> QED
        BY <1>2, <4>1, <4>2
    <3> QED
      BY <1>6, <3>1, <3>2, <3>3
  <2>2. PICK rest \in {<<>>, Tail(busy.todo)}, done \in BOOLEAN :
              /\ busy' = [busy EXCEPT !.todo = rest, !.ok = done]
              /\ rest # <<>> => done
    BY <2>1
  <2>3. busy' = [busy EXCEPT !.todo = rest, !.ok = done, !.began = FALSE]
    BY <1>1, <1>3, <2>2
  <2>4. w.write = "commit" => Changed(value, w.do) \in Records /\ QuietRecord(Changed(value, w.do))
    BY <1>2, <1>4, ChangeKeeps DEF Keeps
  <2>5. value' \in Records /\ QuietRecord(value)' /\ disk' \in Records /\ QuietRecord(disk)'
    BY <1>2, <2>1, <2>4 DEF QuietRecord, IsLive, IsInFlight, StateOf
  <2>6. \A n \in Node, e \in PositiveEpoch : InFlightUnder(value, n, e) => InFlightUnder(value, n, e)'
    BY <2>1 DEF InFlightUnder, IsInFlight, StateOf
  <2> QED
    BY <1>1, <2>1, <2>2, <2>3, <2>5, <2>6, TaskStep
<1> QED
  BY <1>5, <1>6

(* The operation is over and its store installed: what is live afterwards   *)
(* was live before, or is the turn of the send that was just saved.         *)
LEMMA Done ==
    ASSUME RuntimeInv, open, busy.todo = <<>>, run' = value, busy' = Idle,
           UNCHANGED <<disk, value, latched, open>>, NEW new, Grown(new),
           host' \in [Slot -> Hosts], attempt' \in [Node -> Nat], made' \in [Slot -> Nat],
           \A s \in Slot : host'[s].status # "none" => host'[s].epoch # NoEpoch,
           \A s \in Slot, n \in Node, e \in Nat : host'[s].live = n /\ host'[s].liveEpoch = e =>
              \/ host[s].live = n /\ host[s].liveEpoch = e /\ ~StopSaved
              \/ /\ SlotOf[n] = s /\ e # NoEpoch /\ InFlightUnder(value, n, e)
                 /\ \A i \in DOMAIN pending : ~IsSend(pending[i], n) /\ ~IsEnd(pending[i], n),
           \A o \in new : o.op \notin {"pump", "send"},
           \A o \in new, n \in Node : IsEnd(o, n) =>
              (\A i \in DOMAIN pending : ~IsSend(pending[i], n)) /\ \A s \in Slot : host'[s].live # n
    PROVE  RuntimeInv'
<1>1. Idle.op.op = "none" /\ Idle.todo = <<>> /\ Idle.began = FALSE
  BY DEF Idle
<1>2. Types'
  <2>1. Idle \in [op : (Waiting \ {PumpOp}) \cup Looks \cup {Idle.op}, todo : Seq(Writes),
                  ok : BOOLEAN, began : BOOLEAN]
    BY DEF Idle
  <2> QED
    BY <2>1 DEF RuntimeInv, Types, Grown
<1>3. QueueOrder'
  BY <1>1, GrownOrder DEF RuntimeInv, IsSend
<1>4. LiveTurns'
  <2> SUFFICES ASSUME NEW s \in Slot, NEW n \in Node, NEW e \in Nat,
                      host'[s].live = n, host'[s].liveEpoch = e
               PROVE  LiveTurn(s, n, e)'
    BY DEF LiveTurns
  <2>1. /\ SlotOf[n] = s /\ e # NoEpoch /\ InFlightUnder(value, n, e)
        /\ \A i \in DOMAIN pending : ~IsSend(pending[i], n) /\ ~IsEnd(pending[i], n)
    <3>1. CASE host[s].live = n /\ host[s].liveEpoch = e /\ ~StopSaved
      BY <3>1 DEF RuntimeInv, LiveTurns, LiveTurn, NoSend, NoEnd
    <3> QED
      BY <3>1
  <2>2. \A o \in new : ~IsSend(o, n) /\ ~IsEnd(o, n)
    BY DEF IsSend
  <2>3. ~IsSend(PumpOp, n) /\ ~IsEnd(PumpOp, n) /\ ~IsSend(Idle.op, n) /\ ~IsEnd(Idle.op, n)
    BY <1>1 DEF IsSend, IsEnd, PumpOp
  <2>4. \A i \in DOMAIN pending' : ~IsSend(pending'[i], n) /\ ~IsEnd(pending'[i], n)
    BY <2>1, <2>2, <2>3 DEF Grown
  <2> QED
    BY <1>1, <2>1, <2>3, <2>4 DEF LiveTurn, NoSend, NoEnd, InFlightUnder, IsInFlight, StateOf
<1>5. (BusyWork /\ Begun /\ QuietRecord(value) /\ QuietRecord(disk) /\ Installed /\ DiskMatchesStore)'
  BY <1>1 DEF RuntimeInv, BusyWork, Begun, QuietRecord, IsLive, IsInFlight, StateOf, InFlightUnder,
              Installed, DiskMatchesStore
<1>6. (Epochs /\ Closed)'
  BY DEF Epochs, Closed
<1> QED
  BY <1>2, <1>3, <1>4, <1>5, <1>6 DEF RuntimeInv

(* The continuation of a send: the prompt is submitted and the runtime      *)
(* waits for the turn.                                                      *)
LEMMA SendDoneStep ==
    ASSUME RuntimeInv, StoreDone, busy.op.op = "send"
    PROVE  RuntimeInv'
<1> DEFINE o == busy.op
<1>1. /\ open /\ busy.todo = <<>> /\ run' = value /\ busy' = Idle
      /\ UNCHANGED <<disk, value, latched, open>>
      /\ SendDone(o)
  BY DEF StoreDone, store
<1>2. Types /\ o \in Sends
  BY TagTypes DEF RuntimeInv, Types
<1>3. o.node \in Node /\ o.epoch \in Nat /\ o.epoch # NoEpoch /\ SlotOf[o.node] \in Slot
  BY <1>2, GraphTyped DEF Sends, PositiveEpoch
<1>4. ~StopSaved /\ \A i \in DOMAIN pending : ~IsSend(pending[i], o.node) /\ ~IsEnd(pending[i], o.node)
  BY DEF RuntimeInv, QueueOrder, StopSaved
<1>5. \A s \in Slot : host[s].live # o.node
  <2> SUFFICES ASSUME NEW s \in Slot, host[s].live = o.node PROVE FALSE
    OBVIOUS
  <2>1. LiveTurn(s, o.node, host[s].liveEpoch)
    BY <1>2, <1>3 DEF RuntimeInv, LiveTurns, Types, Hosts
  <2> QED
    BY <2>1 DEF LiveTurn, NoSend, IsSend
<1>7. CASE busy.began /\ SubmitStarts(o) /\ StartTurn(o)
  <2> DEFINE s == SlotOf[o.node]
             h == [host[s] EXCEPT !.turns = @ + 1, !.live = o.node, !.liveEpoch = o.epoch]
  <2>1. host' = [host EXCEPT ![s] = h] /\ attempt' = [attempt EXCEPT ![o.node] = @ + 1] /\ made' = made
        /\ ScheduleAfter(<<>>)
    BY <1>2, <1>3, <1>7 DEF StartTurn, Types
  <2>2. host[s] \in Hosts /\ host[s].status = "idle" /\ host[s].epoch = o.epoch
    BY <1>2, <1>3, <1>7 DEF Types, SubmitStarts
  <2>3. h \in Hosts /\ h.live = o.node /\ h.liveEpoch = o.epoch /\ h.epoch = o.epoch
    <3> DEFINE turns == host[s].turns + 1
               node == o.node
               epoch == o.epoch
    <3>1. turns \in Nat /\ node \in Node /\ epoch \in Nat
      BY <1>3, <2>2 DEF Hosts
    <3>2. h = [host[s] EXCEPT !.turns = turns, !.live = node, !.liveEpoch = epoch]
      OBVIOUS
    <3> HIDE DEF turns, h
    <3>3. h \in Hosts /\ h.live = node /\ h.liveEpoch = epoch /\ h.epoch = host[s].epoch
      <4> HIDE DEF node, epoch
      <4> QED
        BY <2>2, <3>1, <3>2 DEF Hosts
    <3> QED
      BY <2>2, <3>3
  <2>4. Grown({})
    BY <1>2, <2>1, LookGrows
  <2>5. InFlightUnder(value, o.node, o.epoch)
    BY <1>7 DEF RuntimeInv, Begun
  <2> HIDE DEF h
  <2>6. host' \in [Slot -> Hosts] /\ \A t \in Slot : host'[t] = IF t = s THEN h ELSE host[t]
    BY <1>2, <2>1, <2>3 DEF Types
  <2>7. attempt' \in [Node -> Nat] /\ made' \in [Slot -> Nat]
    <3>1. attempt \in [Node -> Nat] /\ made \in [Slot -> Nat]
      BY <1>2 DEF Types
    <3>2. attempt[o.node] + 1 \in Nat
      BY <1>3, <3>1
    <3> QED
      BY <2>1, <3>1, <3>2
  <2>8. \A t \in Slot : host'[t].status # "none" => host'[t].epoch # NoEpoch
    BY <1>3, <2>3, <2>6 DEF RuntimeInv, Epochs
  <2>9. \A t \in Slot, n \in Node, e \in Nat : host'[t].live = n /\ host'[t].liveEpoch = e =>
           \/ host[t].live = n /\ host[t].liveEpoch = e /\ ~StopSaved
           \/ /\ SlotOf[n] = t /\ e # NoEpoch /\ InFlightUnder(value, n, e)
              /\ \A i \in DOMAIN pending : ~IsSend(pending[i], n) /\ ~IsEnd(pending[i], n)
    BY <1>3, <1>4, <2>3, <2>5, <2>6
  <2> QED
    BY <1>1, <2>4, <2>6, <2>7, <2>8, <2>9, Done
<1>8. CASE FailSubmit(o)
  <2> DEFINE f == [op |-> "fail", node |-> o.node, epoch |-> o.epoch]
  <2>1. Enqueue(f) /\ UNCHANGED <<host, attempt, made>>
    BY <1>8 DEF FailSubmit
  <2>2. f \in Waiting /\ f.op = "fail" /\ \A n \in Node : IsEnd(f, n) => n = o.node
    BY <1>3 DEF Waiting, Fails, IsEnd
  <2> HIDE DEF f
  <2>3. Grown({f})
    BY <1>2, <2>1, <2>2, EnqueueGrows
  <2> QED
    BY <1>1, <1>2, <1>4, <1>5, <2>1, <2>2, <2>3, Done DEF Types, RuntimeInv, Epochs
<1>9. CASE ScheduleAfter(<<>>) /\ UNCHANGED <<host, history>>
  <2>1. Grown({})
    BY <1>2, <1>9, LookGrows
  <2> QED
    BY <1>1, <1>2, <1>4, <1>9, <2>1, Done DEF Types, RuntimeInv, Epochs, history
<1> QED
  BY <1>1, <1>7, <1>8, <1>9 DEF SendDone

(* The continuations of all other operations but a pump.                    *)
LEMMA OtherDoneSteps ==
    ASSUME RuntimeInv, StoreDone, busy.op.op \notin {"send", "pump"}
    PROVE  RuntimeInv'
<1>1. /\ open /\ busy.todo = <<>> /\ run' = value /\ busy' = Idle
      /\ UNCHANGED <<disk, value, latched, open>>
      /\ ScheduleAfter(<<>>) /\ UNCHANGED <<attempt, made>>
      /\ busy.op.op # "stop" => host' = host
      /\ busy.op.op = "stop" => StopDone
  BY DEF StoreDone, StopDone, ResumeDone, store, history
<1>2. Types
  BY DEF RuntimeInv
<1>3. Grown({})
  BY <1>1, <1>2, LookGrows
<1>4. CASE ~StopSaved
  <2>1. host' = host
    BY <1>1, <1>4 DEF StopSaved, StopDone
  <2> QED
    BY <1>1, <1>2, <1>3, <1>4, <2>1, Done DEF Types, RuntimeInv, Epochs
<1>5. CASE StopSaved
  <2>1. host' = [s \in Slot |-> Released(host[s])]
    BY <1>1, <1>5 DEF StopSaved, StopDone
  <2>2. ASSUME NEW h \in Hosts
        PROVE  /\ Released(h) \in Hosts /\ Released(h).live = NoNode
               /\ Released(h).status = h.status /\ Released(h).epoch = h.epoch
    BY DEF Released, Hosts, NoEpoch
  <2>3. /\ host' \in [Slot -> Hosts]
        /\ \A s \in Slot : host'[s].live = NoNode
        /\ \A s \in Slot : host'[s].status # "none" => host'[s].epoch # NoEpoch
    BY <1>2, <2>1, <2>2 DEF Types, RuntimeInv, Epochs
  <2> QED
    BY <1>1, <1>2, <1>3, <2>3, NoNodeIsNone, Done DEF Types
<1> QED
  BY <1>4, <1>5

-------------------------------------------------------------------------------
(* The pump. *)

(* The queue after a look: what waited, the sends, one each, and the pump   *)
(* that was asked for meanwhile.                                            *)
QueueAfter(q, k, list) ==
    /\ \A i, j \in 1..k : i < j => list[i] # list[j]
    /\ pending' \in Seq(Waiting) /\ Len(pending') \in Nat
    /\ DOMAIN pending' = 1..Len(pending') /\ Len(q) + k <= Len(pending')
    /\ \A i \in DOMAIN q : pending'[i] = q[i]
    /\ \A i \in DOMAIN pending' :
          \/ i \in DOMAIN q /\ pending'[i] = q[i]
          \/ /\ i - Len(q) \in 1..k
             /\ pending'[i].op = "send" /\ pending'[i].node = list[i - Len(q)]
          \/ pending'[i] = PumpOp /\ i = Len(pending') /\ again

\* The sends in the queue are those that waited, and what the slots say now of
\* nodes whose slots have a session.
SendsAfter(q, h, r, sends) ==
    \A i \in DOMAIN pending' : pending'[i].op = "send" =>
        \/ i \in DOMAIN q /\ pending'[i] = q[i]
        \/ \E n \in sends : h[SlotOf[n]].status # "none" /\ pending'[i] = SendOp(n, r)

(* `after` a pump adds a list of sends, then perhaps a pump, to the queue.  *)
LEMMA AfterQueue ==
    ASSUME Types, NEW q \in Seq(Waiting), NEW h \in [Slot -> Hosts], NEW r \in Records,
           NEW starts \in SUBSET Slot, NEW sends \in SUBSET Node, After(q, h, r, starts, sends),
           \A s \in Slot : h[s].status # "none" => host[s].epoch # NoEpoch
    PROVE  /\ \E k \in Nat : \E list \in [1..k -> sends] : QueueAfter(q, k, list)
           /\ SendsAfter(q, h, r, sends)
<1> DEFINE S == {n \in sends : h[SlotOf[n]].status # "none"}
           k == Cardinality(S)
           pump == IF again THEN <<PumpOp>> ELSE <<>>
<1>1. PICK list \in ListedNodes(S) :
         pending' = q \o [i \in DOMAIN list |-> SendOp(list[i], r)] \o pump
  BY DEF After
<1>2. k \in Nat
  <2>1. IsFiniteSet(S)
    BY NodesFinite, FS_Subset
  <2> QED
    BY <2>1, FS_CardinalityType
<1>3. list \in [1..k -> S] /\ \A i, j \in 1..k : i < j => Position[list[i]] < Position[list[j]]
  BY <1>1 DEF ListedNodes
<1> DEFINE ops == [i \in DOMAIN list |-> SendOp(list[i], r)]
<1>4. \A i \in 1..k : /\ SendOp(list[i], r) \in Waiting
                      /\ SendOp(list[i], r).op = "send" /\ SendOp(list[i], r).node = list[i]
  <2> TAKE i \in 1..k
  <2>1. PICK n : n = list[i]
    OBVIOUS
  <2>2. n \in Node /\ SlotOf[n] \in Slot /\ h[SlotOf[n]].status # "none"
    BY <1>3, <2>1, GraphTyped
  <2>3. host[SlotOf[n]].epoch \in PositiveEpoch
    BY <2>2 DEF Types, Hosts, PositiveEpoch
  <2>4. r.slots[SlotOf[n]].opened \in BOOLEAN
    BY <2>2 DEF Records
  <2>5. SendOp(n, r) \in Sends /\ SendOp(n, r).op = "send" /\ SendOp(n, r).node = n
    BY <2>2, <2>3, <2>4 DEF SendOp, Sends
  <2> QED
    BY <2>1, <2>5 DEF Waiting
<1>5. ops \in [1..k -> Waiting] /\ \A i \in 1..k : ops[i].op = "send" /\ ops[i].node = list[i]
  BY <1>3, <1>4
<1>6. \A i \in 1..k : \E n \in sends : h[SlotOf[n]].status # "none" /\ ops[i] = SendOp(n, r)
  BY <1>3
<1>7. ops \in Seq(Waiting) /\ Len(ops) = k /\ DOMAIN ops = 1..k
  BY <1>2, <1>5, ListIsSeq, Zenon
<1>8. pump \in Seq(Waiting) /\ (Len(pump) = 0 \/ (Len(pump) = 1 /\ pump[1] = PumpOp /\ again))
  <2>1. PumpOp \in Waiting
    BY DEF Waiting
  <2>2. CASE again
    BY <2>1, <2>2
  <2>3. CASE ~again
    BY <2>3
  <2> QED
    BY <2>2, <2>3
<1> DEFINE front == q \o ops
<1>9. /\ front \in Seq(Waiting) /\ Len(front) = Len(q) + Len(ops)
      /\ \A i \in 1..(Len(q) + Len(ops)) : front[i] = IF i <= Len(q) THEN q[i] ELSE ops[i - Len(q)]
  <2> HIDE DEF ops
  <2> QED
    BY <1>7, ConcatProperties, Zenon
<1>10. pending' = front \o pump
  BY <1>1
<1> HIDE DEF front, pump, ops, k
<1>11. /\ front \o pump \in Seq(Waiting) /\ Len(front \o pump) = Len(front) + Len(pump)
       /\ \A i \in 1..(Len(front) + Len(pump)) :
             (front \o pump)[i] = IF i <= Len(front) THEN front[i] ELSE pump[i - Len(front)]
  <2>1. front \in Seq(Waiting) /\ pump \in Seq(Waiting)
    BY <1>8, <1>9
  <2> QED
    BY <2>1, ConcatProperties, Zenon
<1>12. /\ pending' \in Seq(Waiting) /\ Len(pending') = Len(front) + Len(pump)
       /\ \A i \in 1..(Len(front) + Len(pump)) :
             pending'[i] = IF i <= Len(front) THEN front[i] ELSE pump[i - Len(front)]
  BY <1>10, <1>11, Zenon
<1>13. Len(q) \in Nat /\ Len(front) \in Nat /\ Len(pump) \in Nat /\ DOMAIN q = 1..Len(q)
       /\ Len(front) = Len(q) + k /\ DOMAIN pending' = 1..Len(pending') /\ Len(pending') \in Nat
  BY <1>7, <1>8, <1>9, <1>12
<1>14. ASSUME NEW i \in DOMAIN pending'
       PROVE  \/ i \in DOMAIN q /\ pending'[i] = q[i]
              \/ /\ i - Len(q) \in 1..k
                 /\ pending'[i].op = "send" /\ pending'[i].node = list[i - Len(q)]
                 /\ pending'[i] = ops[i - Len(q)]
              \/ pending'[i] = PumpOp /\ i = Len(pending') /\ again
  <2>1. i \in 1..(Len(front) + Len(pump))
    BY <1>12, <1>13
  <2>2. CASE i <= Len(q)
    BY <1>2, <1>7, <1>9, <1>12, <1>13, <2>1, <2>2
  <2>3. CASE i > Len(q) /\ i <= Len(front)
    <3>1. i - Len(q) \in 1..k
      BY <1>2, <1>13, <2>1, <2>3
    <3>2. pending'[i] = ops[i - Len(q)]
      BY <1>2, <1>7, <1>9, <1>12, <1>13, <2>1, <2>3
    <3> QED
      BY <1>5, <3>1, <3>2
  <2>4. CASE i > Len(front)
    <3>1. Len(pump) = 1 /\ pump[1] = PumpOp /\ again
      BY <1>8, <1>13, <2>1, <2>4
    <3>2. i - Len(front) = 1 /\ i = Len(pending')
      BY <1>12, <1>13, <2>1, <2>4, <3>1
    <3> QED
      BY <1>12, <1>13, <2>1, <2>4, <3>1, <3>2
  <2> QED
    BY <1>13, <2>1, <2>2, <2>3, <2>4
<1>15. \A i, j \in 1..k : i < j => list[i] # list[j]
  BY <1>2, <1>3, GraphTyped
<1>16. list \in [1..k -> sends] /\ Len(q) + k <= Len(pending')
  BY <1>3, <1>12, <1>13
<1>17. \A i \in DOMAIN q : pending'[i] = q[i]
  <2> TAKE i \in DOMAIN q
  <2>1. i \in 1..(Len(front) + Len(pump)) /\ i <= Len(q) /\ i <= Len(front) /\ i \in 1..(Len(q) + Len(ops))
    BY <1>2, <1>7, <1>13
  <2> QED
    BY <1>9, <1>12, <2>1
<1>18. QueueAfter(q, k, list)
  BY <1>12, <1>13, <1>14, <1>15, <1>16, <1>17 DEF QueueAfter
<1>19. SendsAfter(q, h, r, sends)
  <2>1. PumpOp.op # "send"
    BY DEF PumpOp
  <2> QED
    BY <1>14, <1>6, <2>1 DEF SendsAfter
<1> QED
  BY <1>2, <1>16, <1>18, <1>19

(* A slot's new session has an epoch and waits for no turn.                 *)
LEMMA StartedTyped ==
    ASSUME Types, NEW r \in Records, NEW s \in Slot
    PROVE  /\ StartedHost(s, r) \in Hosts /\ StartedHost(s, r).live = NoNode
           /\ StartedHost(s, r).epoch # NoEpoch
<1> DEFINE saved == r.slots[s].conversation
           conv == IF saved = NoConversation THEN made[s] + 1 ELSE saved
<1>1. saved \in AnyConversation
  BY DEF Records
<1>2. conv \in AnyConversation
  BY <1>1 DEF Types, AnyConversation
<1>3. StartedHost(s, r) =
         [NoHost EXCEPT !.status = "starting", !.epoch = 1, !.resumed = saved, !.conv = conv]
  BY DEF StartedHost
<1> HIDE DEF saved, conv
<1>4. NoHost \in Hosts /\ NoHost.live = NoNode
  BY DEF NoHost, Hosts, NoEpoch, AnyConversation
<1> DEFINE g == [NoHost EXCEPT !.status = "starting", !.epoch = 1, !.resumed = saved, !.conv = conv]
<1>5. g \in Hosts
  BY <1>1, <1>2, <1>4 DEF Hosts
<1>6. g.live = NoNode /\ g.epoch = 1
  BY <1>4 DEF Hosts
<1> QED
  BY <1>3, <1>5, <1>6 DEF NoEpoch

(* The end of a look.  `h` are the hosts after the look let go of the turns *)
(* that went with their sessions.                                           *)
LEMMA AfterStep ==
    ASSUME RuntimeInv, open, busy' = Idle, run' = value, UNCHANGED <<disk, value, latched, open, attempt>>,
           NEW q \in Seq(Waiting), NEW h \in [Slot -> Hosts], NEW r \in Records,
           NEW starts \in SUBSET Slot, NEW sends \in SUBSET Node, After(q, h, r, starts, sends),
           \A s \in Slot : h[s].status # "none" => host[s].epoch # NoEpoch /\ h[s].epoch # NoEpoch,
           \A i \in DOMAIN q : q[i].op \notin {"pump", "send"},
           \A s \in Slot, n \in Node, e \in Nat : h[s].live = n /\ h[s].liveEpoch = e =>
              /\ SlotOf[n] = s /\ e # NoEpoch /\ InFlightUnder(value, n, e) /\ n \notin sends
              /\ \A i \in DOMAIN q : ~IsEnd(q[i], n)
    PROVE  RuntimeInv'
<1>1. Types
  BY DEF RuntimeInv, Types
<1>2. PICK k \in Nat : \E list \in [1..k -> sends] : QueueAfter(q, k, list)
  <2>1. \A s \in Slot : h[s].status # "none" => host[s].epoch # NoEpoch
    OBVIOUS
  <2> QED
    BY <1>1, <2>1, AfterQueue
<1>11. PICK list \in [1..k -> sends] :
          /\ \A i, j \in 1..k : i < j => list[i] # list[j]
          /\ pending' \in Seq(Waiting) /\ Len(pending') \in Nat
          /\ DOMAIN pending' = 1..Len(pending') /\ Len(q) + k <= Len(pending')
          /\ \A i \in DOMAIN pending' :
                \/ i \in DOMAIN q /\ pending'[i] = q[i]
                \/ /\ i - Len(q) \in 1..k
                   /\ pending'[i].op = "send" /\ pending'[i].node = list[i - Len(q)]
                \/ pending'[i] = PumpOp /\ i = Len(pending') /\ again
  BY <1>2 DEF QueueAfter
<1>3. Len(q) \in Nat /\ DOMAIN q = 1..Len(q) /\ PumpOp.op = "pump" /\ Idle.op.op = "none"
      /\ Idle.todo = <<>> /\ Idle.began = FALSE
  BY DEF PumpOp, Idle
<1>4. host' \in [Slot -> Hosts]
      /\ \A s \in Slot : host'[s] = IF s \in starts THEN StartedHost(s, r) ELSE h[s]
  BY <1>1, StartedTyped DEF After
<1>5. made' \in [Slot -> Nat]
  BY <1>1 DEF After, Types
<1>6. Types'
  <2>1. Idle \in [op : (Waiting \ {PumpOp}) \cup Looks \cup {Idle.op}, todo : Seq(Writes),
                  ok : BOOLEAN, began : BOOLEAN]
    BY DEF Idle
  <2>2. scheduled' \in BOOLEAN /\ again' \in BOOLEAN
    BY <1>1 DEF After, Types
  <2> QED
    BY <1>1, <1>11, <1>4, <1>5, <2>1, <2>2 DEF Types
<1>7. QueueOrder'
  <2>1. ASSUME NEW i \in DOMAIN pending', NEW j \in DOMAIN pending', i < j, pending'[i].op = "pump"
        PROVE  FALSE
    BY <1>11, <1>3, <2>1
  <2>2. ASSUME NEW i \in DOMAIN pending', NEW j \in DOMAIN pending', i < j, pending'[i].op = "send"
        PROVE  ~IsSend(pending'[j], pending'[i].node) /\ ~IsEnd(pending'[j], pending'[i].node)
    <3>1. i - Len(q) \in 1..k /\ pending'[i].node = list[i - Len(q)]
      BY <1>11, <1>3, <2>2
    <3>2. j \notin DOMAIN q
      BY <1>11, <1>3, <2>2, <3>1
    <3>3. CASE pending'[j] = PumpOp
      BY <1>3, <3>3 DEF IsSend, IsEnd
    <3>4. CASE j - Len(q) \in 1..k /\ pending'[j].op = "send" /\ pending'[j].node = list[j - Len(q)]
      <4>1. i - Len(q) < j - Len(q)
        BY <1>11, <1>3, <2>2
      <4> QED
        BY <1>11, <3>1, <3>4, <4>1 DEF IsSend, IsEnd
    <3> QED
      BY <1>11, <3>2, <3>3, <3>4
  <2>3. (\E i \in DOMAIN pending' : pending'[i].op = "pump") => scheduled'
    BY <1>11 DEF After
  <2> QED
    BY <1>3, <2>1, <2>2, <2>3 DEF QueueOrder
<1>8. LiveTurns'
  <2> SUFFICES ASSUME NEW s \in Slot, NEW n \in Node, NEW e \in Nat,
                      host'[s].live = n, host'[s].liveEpoch = e
               PROVE  LiveTurn(s, n, e)'
    BY DEF LiveTurns
  <2>1. h[s].live = n /\ h[s].liveEpoch = e
    <3>1. s \in starts => host'[s].live = NoNode
      BY <1>1, <1>4, StartedTyped
    <3> QED
      BY <1>4, <3>1, NoNodeIsNone
  <2>2. \A i \in DOMAIN pending' : ~IsSend(pending'[i], n) /\ ~IsEnd(pending'[i], n)
    <3> TAKE i \in DOMAIN pending'
    <3>1. CASE i \in DOMAIN q /\ pending'[i] = q[i]
      BY <2>1, <3>1 DEF IsSend
    <3>2. CASE pending'[i] = PumpOp
      BY <1>3, <3>2 DEF IsSend, IsEnd
    <3>3. CASE i - Len(q) \in 1..k /\ pending'[i].op = "send" /\ pending'[i].node = list[i - Len(q)]
      <4>1. list[i - Len(q)] \in sends /\ n \notin sends
        BY <2>1, <3>3
      <4> QED
        BY <3>3, <4>1 DEF IsSend, IsEnd
    <3> QED
      BY <1>11, <3>1, <3>2, <3>3
  <2> QED
    BY <1>3, <2>1, <2>2 DEF LiveTurn, NoSend, NoEnd, IsSend, IsEnd, InFlightUnder, IsInFlight, StateOf
<1>9. Epochs'
  BY <1>1, <1>4, StartedTyped DEF Epochs
<1>10. (BusyWork /\ Begun /\ QuietRecord(value) /\ QuietRecord(disk) /\ Installed /\ DiskMatchesStore /\ Closed)'
  BY <1>3 DEF RuntimeInv, BusyWork, Begun, QuietRecord, IsLive, IsInFlight, StateOf, InFlightUnder,
              Installed, DiskMatchesStore, Closed
<1> QED
  BY <1>6, <1>7, <1>8, <1>9, <1>10 DEF RuntimeInv

(* The continuation of a pump: sessions are started and sends queued.       *)
LEMMA PumpDoneStep ==
    ASSUME RuntimeInv, StoreDone, busy.op.op = "pump"
    PROVE  RuntimeInv'
<1> DEFINE o == busy.op
<1>1. /\ open /\ busy.todo = <<>> /\ run' = value /\ busy' = Idle
      /\ UNCHANGED <<disk, value, latched, open, attempt>>
      /\ After(pending, host, value, o.starts, o.sends) \/ After(pending, host, value, {}, {})
  BY DEF StoreDone, PumpDone, store
<1>2. Types /\ o \in Looks
  <2>1. o \in (Waiting \ {PumpOp}) \cup Looks \cup {Idle.op}
    BY DEF RuntimeInv, Types
  <2>2. Idle.op.op = "none"
    BY DEF Idle
  <2> QED
    BY <2>1, <2>2, PumpIsPump DEF RuntimeInv
<1>3. pending \in Seq(Waiting) /\ host \in [Slot -> Hosts] /\ value \in Records
      /\ o.starts \in SUBSET Slot /\ o.sends \in SUBSET Node
  BY <1>2 DEF Types, Looks
<1>4. \A i \in DOMAIN pending : pending[i].op \notin {"pump", "send"}
  BY DEF RuntimeInv, QueueOrder
<1>5. ASSUME NEW s \in Slot, NEW n \in Node, NEW e \in Nat, host[s].live = n, host[s].liveEpoch = e
      PROVE  /\ SlotOf[n] = s /\ e # NoEpoch /\ InFlightUnder(value, n, e) /\ n \notin o.sends
             /\ \A i \in DOMAIN pending : ~IsEnd(pending[i], n)
  <2>1. LiveTurn(s, n, e)
    BY <1>5 DEF RuntimeInv, LiveTurns
  <2> QED
    BY <2>1 DEF LiveTurn, StopSaved, NoSend, NoEnd
<1>6. \A s \in Slot : host[s].status # "none" => host[s].epoch # NoEpoch
  BY DEF RuntimeInv, Epochs
<1>7. CASE After(pending, host, value, o.starts, o.sends)
  BY <1>1, <1>3, <1>4, <1>5, <1>6, <1>7, AfterStep
<1>8. CASE After(pending, host, value, {}, {})
  BY <1>1, <1>3, <1>4, <1>5, <1>6, <1>8, AfterStep
<1> QED
  BY <1>1, <1>7, <1>8

Cleared == [s \in Slot |-> IF ExitedUnder(s) THEN Released(host[s]) ELSE host[s]]

LookSends == DispatchSend(run, {s \in Slot : SlotReady(s)})

ReadyNodes == {n \in Node : IsReady(run, n)}

\* A look goes straight on to its end, or has something to save first.
LookDoes(starts, todo) ==
    \/ todo = <<>> /\ After(Tail(pending), Cleared, run, starts, LookSends) /\ UNCHANGED busy
    \/ /\ busy' = [op |-> [op |-> "pump", starts |-> starts, sends |-> LookSends],
                   todo |-> todo, ok |-> TRUE, began |-> FALSE]
       /\ host' = Cleared /\ pending' = Tail(pending)
       /\ UNCHANGED <<scheduled, again, made>>

(* What a look does: it starts slots that have no session, and saves what   *)
(* it finds of conversations, ended sessions and nodes that cannot run.     *)
LEMMA Look ==
    ASSUME Pump
    PROVE  \E starts \in SUBSET {s \in Slot : host[s].status = "none"}, S \in SUBSET ReadyNodes,
              convs \in ListedSlots({s \in Slot : NewConversation(s)}),
              exits \in ListedSlots({s \in Slot : ExitedUnder(s)}) :
              \E fails \in ListedNodes(S) :
                 LookDoes(starts, Saves(convs) \o ExitFails(exits) \o NextFails(fails))
<1> DEFINE prepare == DispatchPrepare(run, {s \in Slot : SlotReady(s)})
           absent == {s \in prepare : host[s].status = "none"}
           failing(missing) ==
             {n \in Node : /\ SlotOf[n] \in missing \cup {s \in prepare \ absent : CannotRun(s)}
                           /\ IsNextNode(run, SlotOf[n], n)}
<1>1. absent \subseteq Slot
  BY GraphTyped DEF DispatchPrepare, Taken
<1>2. PICK missing \in SUBSET absent :
         \E convs \in ListedSlots({s \in Slot : NewConversation(s)}),
            exits \in ListedSlots({s \in Slot : ExitedUnder(s)}),
            fails \in ListedNodes(failing(missing)) :
            LookDoes(absent \ missing, Saves(convs) \o ExitFails(exits) \o NextFails(fails))
  BY DEF Pump, Cleared, LookSends, LookDoes
<1> DEFINE starts == absent \ missing
           S == failing(missing)
<1>3. starts \in SUBSET {s \in Slot : host[s].status = "none"} /\ S \in SUBSET ReadyNodes
  BY <1>1 DEF ReadyNodes, IsNextNode
<1> HIDE DEF prepare, absent, failing
<1> QED
  BY <1>2, <1>3

NeedsMet(r, n) == \A d \in Needs[n] : IsCompleted(r, d)

\* What an operation owes the rules of the run when its change is made: a node
\* is sent, or fails without a turn, after the nodes it needs; a turn is
\* accepted and finished under a number, and a saved conversation has a name.
Owed(r, o) ==
    /\ o.op = "send" => NeedsMet(r, o.node)
    /\ o.op = "fail" /\ o.epoch = NoEpoch => NeedsMet(r, o.node)
    /\ o.op \in {"accept", "finish"} => o.turn # 0
    /\ o.op = "finish" => o.attempt # 0
    /\ o.op = "conversation" => o.conv # NoConversation

(* What a look saves: conversations, the ends of the turns that went with   *)
(* their sessions, and nodes that never ran.                                *)
FoundWork(todo) ==
    /\ todo \in Seq(Writes)
    /\ \A i \in DOMAIN todo :
          /\ todo[i].write = "commit" /\ todo[i].do.op \in {"conversation", "fail"}
          /\ Owed(run, todo[i].do)
          /\ \A n \in Node : IsEnd(todo[i].do, n) => \E s \in Slot : ExitedUnder(s) /\ host[s].live = n

(* What a pump's look finds to save are changes of the record, in the order *)
(* of the walk.                                                             *)
LEMMA LookWork ==
    ASSUME Types, LiveTurns, NEW S \in SUBSET ReadyNodes,
           NEW convs \in ListedSlots({s \in Slot : NewConversation(s)}),
           NEW exits \in ListedSlots({s \in Slot : ExitedUnder(s)}),
           NEW fails \in ListedNodes(S),
           NEW todo, todo = Saves(convs) \o ExitFails(exits) \o NextFails(fails)
    PROVE  FoundWork(todo)
<1> DEFINE Good(w) ==
              /\ w \in Writes
              /\ w.write = "commit" /\ w.do.op \in {"conversation", "fail"}
              /\ Owed(run, w.do)
              /\ \A n \in Node : IsEnd(w.do, n) => \E s \in Slot : ExitedUnder(s) /\ host[s].live = n
           G == {w \in Writes : Good(w)}
<1>1. ASSUME NEW o \in Changes, o.op \in {"conversation", "fail"}, Owed(run, o),
             \A n \in Node : IsEnd(o, n) => \E s \in Slot : ExitedUnder(s) /\ host[s].live = n
      PROVE  Commit(o) \in G
  <2>1. Commit(o) \in Writes /\ Commit(o).write = "commit" /\ Commit(o).do = o
    BY DEF Commit, Writes
  <2> QED
    BY <1>1, <2>1
<1>2. ASSUME NEW T \in SUBSET Slot
      PROVE  Cardinality(T) \in Nat
  BY SlotsFinite, FS_Subset, FS_CardinalityType
<1>3. Cardinality(S) \in Nat
  <2>1. S \subseteq Node
    BY DEF ReadyNodes
  <2> QED
    BY <2>1, NodesFinite, FS_Subset, FS_CardinalityType
<1> HIDE DEF G
<1>4. Saves(convs) \in Seq(G)
  <2> DEFINE T == {s \in Slot : NewConversation(s)}
             k == Cardinality(T)
  <2>1. k \in Nat /\ convs \in [1..k -> T]
    BY <1>2 DEF ListedSlots
  <2>2. ASSUME NEW i \in 1..k
        PROVE  Commit([op |-> "conversation", slot |-> convs[i], conv |-> Reported(convs[i])]) \in G
    <3>1. PICK s : s = convs[i]
      OBVIOUS
    <3>2. s \in Slot
      BY <2>1, <3>1
    <3>3. Reported(s) \in AnyConversation /\ Reported(s) # NoConversation
      BY <2>1, <3>1, <3>2 DEF Reported, NewConversation, Types, Hosts, AnyConversation
    <3> DEFINE o == [op |-> "conversation", slot |-> s, conv |-> Reported(s)]
    <3>4. o \in Changes /\ o.op = "conversation"
      BY <3>2, <3>3 DEF Changes, Saved
    <3>5. Owed(run, o) /\ \A n \in Node : ~IsEnd(o, n)
      BY <3>3, <3>4 DEF Owed, IsEnd
    <3> HIDE DEF o
    <3>6. Commit(o) \in G
      BY <1>1, <3>4, <3>5
    <3> QED
      BY <3>1, <3>6 DEF o
  <2>3. Saves(convs) \in [1..k -> G]
    BY <2>1, <2>2 DEF Saves
  <2> HIDE DEF k
  <2> QED
    BY <2>1, <2>3, ListIsSeq, Zenon
<1>5. ExitFails(exits) \in Seq(G)
  <2> DEFINE T == {s \in Slot : ExitedUnder(s)}
             k == Cardinality(T)
  <2>1. k \in Nat /\ exits \in [1..k -> T]
    BY <1>2 DEF ListedSlots
  <2>2. ASSUME NEW i \in 1..k
        PROVE  Commit([op |-> "fail", node |-> host[exits[i]].live, epoch |-> host[exits[i]].liveEpoch]) \in G
    <3>1. PICK s : s = exits[i]
      OBVIOUS
    <3>2. s \in Slot /\ ExitedUnder(s)
      BY <2>1, <3>1
    <3>3. host[s].live \in Node /\ host[s].liveEpoch \in Nat /\ host[s].liveEpoch # NoEpoch
      BY <3>2 DEF Types, Hosts, ExitedUnder, LiveTurns, LiveTurn
    <3> DEFINE o == [op |-> "fail", node |-> host[s].live, epoch |-> host[s].liveEpoch]
    <3>4. o \in Changes /\ o.op = "fail" /\ o.node = host[s].live
      BY <3>3 DEF Changes, Fails
    <3>5. Owed(run, o) /\ \A n \in Node : IsEnd(o, n) => host[s].live = n
      BY <3>3, <3>4 DEF Owed, IsEnd
    <3> HIDE DEF o
    <3>6. Commit(o) \in G
      BY <1>1, <3>2, <3>4, <3>5
    <3> QED
      BY <3>1, <3>6 DEF o
  <2>3. ExitFails(exits) \in [1..k -> G]
    BY <2>1, <2>2 DEF ExitFails
  <2> HIDE DEF k
  <2> QED
    BY <2>1, <2>3, ListIsSeq, Zenon
<1>6. NextFails(fails) \in Seq(G)
  <2> DEFINE k == Cardinality(S)
  <2>1. k \in Nat /\ fails \in [1..k -> S]
    BY <1>3 DEF ListedNodes
  <2>2. ASSUME NEW i \in 1..k
        PROVE  Commit([op |-> "fail", node |-> fails[i], epoch |-> NoEpoch]) \in G
    <3>1. PICK n : n = fails[i]
      OBVIOUS
    <3>2. n \in Node /\ NeedsMet(run, n)
      BY <2>1, <3>1 DEF ReadyNodes, IsReady, NeedsMet
    <3> DEFINE o == [op |-> "fail", node |-> n, epoch |-> NoEpoch]
    <3>3. o \in Changes /\ o.op = "fail" /\ o.epoch = NoEpoch
      BY <3>2 DEF Changes, Fails, NoEpoch
    <3>4. Owed(run, o) /\ \A m \in Node : ~IsEnd(o, m)
      BY <3>2, <3>3 DEF Owed, IsEnd
    <3> HIDE DEF o
    <3>5. Commit(o) \in G
      BY <1>1, <3>3, <3>4
    <3> QED
      BY <3>1, <3>5 DEF o
  <2>3. NextFails(fails) \in [1..k -> G]
    BY <2>1, <2>2 DEF NextFails
  <2> HIDE DEF k
  <2> QED
    BY <2>1, <2>3, ListIsSeq, Zenon
<1>7. todo \in Seq(G)
  <2>1. Saves(convs) \o ExitFails(exits) \in Seq(G)
    BY <1>4, <1>5, ConcatProperties, Zenon
  <2>2. (Saves(convs) \o ExitFails(exits)) \o NextFails(fails) \in Seq(G)
    BY <1>6, <2>1, ConcatProperties, Zenon
  <2> QED
    BY <2>2
<1>8. \A i \in DOMAIN todo : todo[i] \in G
  BY <1>7
<1>9. todo \in Seq(Writes)
  <2>1. G \subseteq Writes
    BY DEF G
  <2> QED
    BY <1>7, <2>1, SeqDef
<1> QED
  BY <1>8, <1>9 DEF G, FoundWork

(* The look of a pump.                                                      *)
LEMMA PumpStep ==
    ASSUME RuntimeInv, Pump
    PROVE  RuntimeInv'
<1>1. PICK starts \in SUBSET {s \in Slot : host[s].status = "none"}, S \in SUBSET ReadyNodes,
           convs \in ListedSlots({s \in Slot : NewConversation(s)}),
           exits \in ListedSlots({s \in Slot : ExitedUnder(s)}) :
           \E fails \in ListedNodes(S) :
              LookDoes(starts, Saves(convs) \o ExitFails(exits) \o NextFails(fails))
  BY Look
<1>2. /\ open /\ busy = Idle /\ pending # <<>> /\ Head(pending) = PumpOp
      /\ UNCHANGED <<disk, value, latched, open, run, attempt>>
  BY DEF Pump, store
<1>3. Types /\ LiveTurns /\ run = value /\ run \in Records /\ ~StopSaved
  BY <1>2 DEF RuntimeInv, Types, Installed, StopSaved, Idle
<1> DEFINE q == Tail(pending)
<1>4. /\ Len(pending) \in Nat \ {0} /\ DOMAIN pending = 1..Len(pending) /\ 1 \in DOMAIN pending
      /\ pending[1].op = "pump"
      /\ q \in Seq(Waiting) /\ DOMAIN q = 1..(Len(pending) - 1)
      /\ \A i \in DOMAIN q : i + 1 \in DOMAIN pending /\ q[i] = pending[i + 1]
  BY <1>2, <1>3 DEF Types, PumpOp
<1>5. \A i \in DOMAIN q : q[i].op \notin {"pump", "send"}
  <2> TAKE i \in DOMAIN q
  <2>1. i + 1 \in DOMAIN pending /\ 1 < i + 1
    BY <1>4
  <2> QED
    BY <1>4, <2>1 DEF RuntimeInv, QueueOrder
<1>6. scheduled
  BY <1>4 DEF RuntimeInv, QueueOrder
<1>7. /\ Cleared \in [Slot -> Hosts]
      /\ \A s \in Slot : /\ Cleared[s].status = host[s].status /\ Cleared[s].epoch = host[s].epoch
                         /\ ExitedUnder(s) => Cleared[s].live = NoNode
                         /\ ~ExitedUnder(s) => Cleared[s] = host[s]
  <2>1. ASSUME NEW h \in Hosts
        PROVE  /\ Released(h) \in Hosts /\ Released(h).live = NoNode
               /\ Released(h).status = h.status /\ Released(h).epoch = h.epoch
    BY DEF Released, Hosts, NoEpoch
  <2> QED
    BY <1>3, <2>1 DEF Cleared, Types
<1>8. \A s \in Slot : Cleared[s].status # "none" => host[s].epoch # NoEpoch /\ Cleared[s].epoch # NoEpoch
  BY <1>7 DEF RuntimeInv, Epochs
<1>9. LookSends \in SUBSET Node
  BY DEF LookSends, DispatchSend, Taken
<1>10. ASSUME NEW s \in Slot, NEW n \in Node, NEW e \in Nat, Cleared[s].live = n, Cleared[s].liveEpoch = e
       PROVE  /\ ~ExitedUnder(s) /\ LiveTurn(s, n, e) /\ InFlightUnder(value, n, e) /\ n \notin LookSends
              /\ \A i \in DOMAIN q : ~IsEnd(q[i], n) /\ ~IsSend(q[i], n)
  <2>1. ~ExitedUnder(s) /\ LiveTurn(s, n, e)
    BY <1>7, <1>10, NoNodeIsNone DEF RuntimeInv, LiveTurns
  <2>2. InFlightUnder(value, n, e)
    BY <1>3, <2>1 DEF LiveTurn
  <2>3. n \notin LookSends
    BY <2>1 DEF LiveTurn, InFlightUnder, IsInFlight, LookSends, DispatchSend, Taken, IsReady
  <2> QED
    BY <1>4, <2>1, <2>2, <2>3 DEF LiveTurn, NoEnd, NoSend
<1> HIDE DEF q
<1>11. CASE After(q, Cleared, run, starts, LookSends) /\ UNCHANGED busy
  <2>1. busy' = Idle /\ run' = value
    BY <1>2, <1>3, <1>11
  <2>2. \A s \in Slot, n \in Node, e \in Nat : Cleared[s].live = n /\ Cleared[s].liveEpoch = e =>
           /\ SlotOf[n] = s /\ e # NoEpoch /\ InFlightUnder(value, n, e) /\ n \notin LookSends
           /\ \A i \in DOMAIN q : ~IsEnd(q[i], n)
    BY <1>10 DEF LiveTurn
  <2> QED
    <3>1. open /\ UNCHANGED <<disk, value, latched, open, attempt>>
      BY <1>2
    <3>2. q \in Seq(Waiting) /\ Cleared \in [Slot -> Hosts] /\ run \in Records
      BY <1>3, <1>4, <1>7
    <3>3. After(q, Cleared, run, starts, LookSends)
      BY <1>11
    <3> QED
      BY <1>5, <1>8, <1>9, <2>1, <2>2, <3>1, <3>2, <3>3, AfterStep
<1>12. ASSUME NEW fails \in ListedNodes(S),
              busy' = [op |-> [op |-> "pump", starts |-> starts, sends |-> LookSends],
                       todo |-> Saves(convs) \o ExitFails(exits) \o NextFails(fails),
                       ok |-> TRUE, began |-> FALSE],
              host' = Cleared, pending' = q, UNCHANGED <<scheduled, again, made>>
       PROVE  RuntimeInv'
  <2>1. PICK todo : todo = Saves(convs) \o ExitFails(exits) \o NextFails(fails)
    OBVIOUS
  <2>2. /\ todo \in Seq(Writes)
        /\ \A i \in DOMAIN todo :
              /\ todo[i].do.op \in {"conversation", "fail"}
              /\ \A n \in Node : IsEnd(todo[i].do, n) => \E s \in Slot : ExitedUnder(s) /\ host[s].live = n
    <3>1. FoundWork(todo)
      BY <1>3, <2>1, LookWork, Zenon
    <3> QED
      BY <3>1, Zenon DEF FoundWork
  <2> DEFINE look == [op |-> "pump", starts |-> starts, sends |-> LookSends]
  <2>3. look \in Looks /\ look.op = "pump" /\ look.sends = LookSends
    BY <1>9 DEF Looks
  <2>4. busy' = [op |-> look, todo |-> todo, ok |-> TRUE, began |-> FALSE]
    BY <1>12, <2>1
  <2> HIDE DEF look
  <2>5. busy'.op = look /\ busy'.todo = todo /\ busy'.ok = TRUE /\ busy'.began = FALSE
    BY <2>4
  <2>6. Types'
    <3>1. busy' \in [op : (Waiting \ {PumpOp}) \cup Looks \cup {Idle.op}, todo : Seq(Writes),
                     ok : BOOLEAN, began : BOOLEAN]
      BY <2>2, <2>3, <2>4
    <3> QED
      BY <1>2, <1>3, <1>4, <1>7, <1>12, <3>1 DEF Types
  <2>7. QueueOrder'
    BY <1>5, <1>6, <1>12, <2>3, <2>5 DEF QueueOrder
  <2>8. BusyWork'
    BY <2>2, <2>3, <2>5 DEF BusyWork
  <2>9. LiveTurns'
    <3> SUFFICES ASSUME NEW s \in Slot, NEW n \in Node, NEW e \in Nat,
                        host'[s].live = n, host'[s].liveEpoch = e
                 PROVE  LiveTurn(s, n, e)'
      BY DEF LiveTurns
    <3>1. /\ ~ExitedUnder(s) /\ LiveTurn(s, n, e) /\ InFlightUnder(value, n, e) /\ n \notin LookSends
          /\ \A i \in DOMAIN q : ~IsEnd(q[i], n) /\ ~IsSend(q[i], n)
      BY <1>10, <1>12
    <3>2. \A i \in DOMAIN todo : ~IsEnd(todo[i].do, n)
      <4> SUFFICES ASSUME NEW i \in DOMAIN todo, IsEnd(todo[i].do, n) PROVE FALSE
        OBVIOUS
      <4>1. PICK t \in Slot : ExitedUnder(t) /\ host[t].live = n
        BY <2>2
      <4>2. host[t].liveEpoch \in Nat
        BY <1>3 DEF Types, Hosts
      <4>3. SlotOf[n] = t
        BY <4>1, <4>2 DEF RuntimeInv, LiveTurns, LiveTurn
      <4> QED
        BY <3>1, <4>1, <4>3 DEF LiveTurn
    <3>3. NoSend(n)' /\ NoEnd(n)'
      BY <1>12, <2>3, <2>5, <3>1, <3>2 DEF NoSend, NoEnd, IsSend, IsEnd
    <3> QED
      BY <1>2, <3>1, <3>3 DEF LiveTurn, InFlightUnder, IsInFlight, StateOf
  <2>10. Epochs'
    BY <1>7, <1>8, <1>12 DEF Epochs
  <2>11. (Begun /\ QuietRecord(value) /\ QuietRecord(disk) /\ Installed /\ DiskMatchesStore /\ Closed)'
    BY <1>2, <1>3, <2>5 DEF RuntimeInv, Begun, QuietRecord, IsLive, IsInFlight, StateOf,
                            Installed, DiskMatchesStore, Closed
  <2> QED
    BY <2>6, <2>7, <2>8, <2>9, <2>10, <2>11 DEF RuntimeInv
<1> QED
  BY <1>1, <1>11, <1>12 DEF q, LookDoes

-------------------------------------------------------------------------------
(* The end of the program and the next start. *)

(* A slot without a session.                                                *)
LEMMA NoHostTyped ==
    NoHost \in Hosts /\ NoHost.live = NoNode /\ NoHost.status = "none"
  BY DEF NoHost, Hosts, NoEpoch, AnyConversation

(* A run that was just created waits for nothing.                           *)
LEMMA InitHolds == Init => RuntimeInv
<1> SUFFICES ASSUME Init PROVE RuntimeInv
  OBVIOUS
<1>1. NewRecord \in Records /\ QuietRecord(NewRecord)
  <2> DEFINE nodes == [n \in Node |-> NodeIn("Waiting")]
             slots == [s \in Slot |-> [conversation |-> NoConversation, opened |-> FALSE]]
  <2>1. nodes \in [Node -> [state : NodeStates, epoch : Nat, turn : AnyTurn]]
    BY DEF NodeIn, NodeStates, NoEpoch, AnyTurn
  <2>2. slots \in [Slot -> [conversation : AnyConversation, opened : BOOLEAN]]
    BY DEF AnyConversation
  <2>3. NewRecord = [state |-> "Running", nodes |-> nodes, slots |-> slots]
    BY DEF NewRecord
  <2> HIDE DEF nodes, slots
  <2> QED
    BY <2>1, <2>2, <2>3 DEF Records, RunStates, QuietRecord, IsLive
<1>2. pending = <<PumpOp>> /\ PumpOp \in Waiting /\ PumpOp.op = "pump" /\ scheduled
  BY DEF Init, Waiting, PumpOp
<1>3. busy = Idle /\ Idle.op.op = "none" /\ Idle.todo = <<>> /\ Idle.began = FALSE
      /\ Idle \in [op : (Waiting \ {PumpOp}) \cup Looks \cup {Idle.op}, todo : Seq(Writes),
                   ok : BOOLEAN, began : BOOLEAN]
  BY DEF Init, Idle
<1>4. Types
  <2>1. pending \in Seq(Waiting)
    BY <1>2
  <2>2. host \in [Slot -> Hosts]
    BY NoHostTyped DEF Init
  <2> QED
    BY <1>1, <1>3, <2>1, <2>2 DEF Init, Types
<1>5. QueueOrder
  BY <1>2, <1>3 DEF QueueOrder
<1>6. BusyWork /\ Begun
  BY <1>3 DEF BusyWork, Begun
<1>7. LiveTurns /\ Epochs
  BY NoHostTyped, NoNodeIsNone DEF Init, LiveTurns, Epochs
<1>8. QuietRecord(value) /\ QuietRecord(disk) /\ Closed /\ Installed /\ DiskMatchesStore
  BY <1>1 DEF Init, Closed, Installed, DiskMatchesStore
<1> QED
  BY <1>4, <1>5, <1>6, <1>7, <1>8 DEF RuntimeInv

(* The end of the program, and its next start.                              *)
LEMMA OpeningSteps ==
    ASSUME RuntimeInv, Close \/ Open \/ OpenFails
    PROVE  RuntimeInv'
<1>1. Types /\ disk \in Records /\ QuietRecord(disk)
      /\ Interrupt(disk) \in Records /\ QuietRecord(Interrupt(disk))
  BY SweepKeeps DEF RuntimeInv, Types
<1>2. Idle.op.op = "none" /\ Idle.todo = <<>> /\ Idle.began = FALSE
      /\ Idle \in [op : (Waiting \ {PumpOp}) \cup Looks \cup {Idle.op}, todo : Seq(Writes),
                   ok : BOOLEAN, began : BOOLEAN]
  BY DEF Idle
<1>3. ~open => busy = Idle /\ pending = <<>> /\ host = [s \in Slot |-> NoHost]
              /\ ~again /\ ~scheduled /\ ~latched
  BY DEF RuntimeInv, Closed
<1>4. /\ disk' \in {disk, Interrupt(disk)} /\ value' = disk' /\ run' = disk'
      /\ busy' = Idle /\ host' = [s \in Slot |-> NoHost] /\ latched' = FALSE
      /\ UNCHANGED <<attempt, made>>
  BY <1>3 DEF Close, Open, OpenFails, history
<1>5. host' \in [Slot -> Hosts] /\ \A s \in Slot : host'[s].live = NoNode /\ host'[s].status = "none"
  BY <1>4, NoHostTyped
<1>6. value' \in Records /\ disk' \in Records /\ QuietRecord(value)' /\ QuietRecord(disk)'
  BY <1>1, <1>4 DEF QuietRecord, IsLive, IsInFlight, StateOf
<1>7. /\ pending' \in Seq(Waiting) /\ scheduled' \in BOOLEAN /\ again' \in BOOLEAN /\ open' \in BOOLEAN
      /\ QueueOrder'
      /\ ~open' => pending' = <<>> /\ ~again' /\ ~scheduled'
  <2>1. CASE Open
    <3>2. Grown({})
      BY <1>1, <2>1, LookGrows DEF Open
    <3>3. QueueOrder'
      BY <1>1, <1>4, <3>2, GrownOrder DEF RuntimeInv
    <3> QED
      BY <2>1, <3>2, <3>3 DEF Open, Grown
  <2>2. CASE Close \/ OpenFails
    <3>1. /\ pending' = <<>> /\ ~scheduled' /\ ~again' /\ ~open'
          /\ pending' \in Seq(Waiting)
          /\ scheduled' \in BOOLEAN /\ again' \in BOOLEAN /\ open' \in BOOLEAN
      <4>1. CASE Close
        <5>1. pending' = <<>> /\ scheduled' = FALSE /\ again' = FALSE /\ open' = FALSE
          BY <4>1 DEF Close
        <5>2. <<>> \in Seq(Waiting)
          OBVIOUS
        <5> QED
          BY <5>1, <5>2, Zenon
      <4>2. CASE OpenFails
        <5>1. UNCHANGED <<pending, scheduled, again, open>> /\ ~open
          BY <4>2 DEF OpenFails, queue
        <5>2. pending = <<>> /\ ~scheduled /\ ~again
          BY <1>3, <5>1
        <5>3. /\ pending \in Seq(Waiting)
              /\ scheduled \in BOOLEAN /\ again \in BOOLEAN /\ open \in BOOLEAN
          BY <1>1 DEF Types
        <5> QED
          BY <5>1, <5>2, <5>3, Zenon
      <4> QED
        BY <2>2, <4>1, <4>2
    <3> QED
      BY <1>2, <1>4, <3>1 DEF QueueOrder
  <2> QED
    BY <2>1, <2>2
<1>8. Types'
  BY <1>1, <1>2, <1>4, <1>5, <1>6, <1>7 DEF Types
<1>9. (BusyWork /\ Begun)'
  BY <1>2, <1>4 DEF BusyWork, Begun
<1>10. (LiveTurns /\ Epochs)'
  BY <1>5, NoNodeIsNone DEF LiveTurns, Epochs
<1>11. (Closed /\ Installed /\ DiskMatchesStore)'
  BY <1>4, <1>7 DEF Closed, Installed, DiskMatchesStore
<1> QED
  BY <1>6, <1>7, <1>8, <1>9, <1>10, <1>11 DEF RuntimeInv

(* A step that changes nothing.                                             *)
LEMMA StutterStep ==
    ASSUME RuntimeInv, UNCHANGED vars
    PROVE  RuntimeInv'
<1>1. UNCHANGED <<disk, value, run, latched, open, pending, scheduled, again, busy, host, attempt, made>>
  BY DEF vars, store, queue, history
<1>2. (Types /\ QueueOrder /\ BusyWork)'
  BY <1>1 DEF RuntimeInv, Types, QueueOrder, BusyWork
<1>3. LiveTurns'
  BY <1>1 DEF RuntimeInv, LiveTurns, LiveTurn, NoSend, NoEnd, StopSaved, InFlightUnder, IsInFlight, StateOf
<1>4. (Begun /\ QuietRecord(value) /\ QuietRecord(disk) /\ Epochs /\ Closed /\ Installed /\ DiskMatchesStore)'
  BY <1>1 DEF RuntimeInv, Begun, InFlightUnder, QuietRecord, IsLive, IsInFlight, StateOf, Epochs, Closed,
              Installed, DiskMatchesStore
<1> QED
  BY <1>2, <1>3, <1>4 DEF RuntimeInv

(* Every step preserves RuntimeInv.                                         *)
LEMMA StepHolds == RuntimeInv /\ [Next]_vars => RuntimeInv'
<1> SUFFICES ASSUME RuntimeInv, [Next]_vars PROVE RuntimeInv'
  OBVIOUS
<1>1. CASE Pump
  BY <1>1, PumpStep
<1>2. CASE StartOperation
  BY <1>2, StartOperationStep
<1>3. CASE StoreStep \/ WriteFails
  BY <1>3, StoreSteps
<1>4. CASE StoreDone
  BY <1>4, SendDoneStep, PumpDoneStep, OtherDoneSteps
<1>5. ASSUME NEW s \in Slot,
             SessionReady(s) \/ SessionExits(s) \/ SessionRestarts(s) \/ IdentityReported(s) \/ NeverBegins(s)
      PROVE  RuntimeInv'
  BY <1>5, SessionSteps
<1>6. ASSUME NEW s \in Slot, TurnAccepted(s) \/ \E ok \in BOOLEAN : TurnFinished(s, ok)
      PROVE  RuntimeInv'
  BY <1>6, TurnSteps
<1>7. CASE UserStop \/ UserResume
  BY <1>7, UserSteps
<1>8. CASE Close \/ Open \/ OpenFails
  BY <1>8, OpeningSteps
<1>9. CASE UNCHANGED vars
  BY <1>9, StutterStep
<1> QED
  BY <1>1, <1>2, <1>3, <1>4, <1>5, <1>6, <1>7, <1>8, <1>9 DEF Next, TurnFailsUnnamed, TurnRefused

-------------------------------------------------------------------------------
(* The queue, the operation at work, the three copies of the record and the *)
(* hosts agree in every state of the runtime: pump, every queued operation  *)
(* at each of its writes, every session event, stop, resume, close and      *)
(* reopening keep RuntimeInv.                                               *)
THEOREM RuntimeInvHolds == Spec => []RuntimeInv
  BY InitHolds, StepHolds, PTL DEF Spec

(* The turn a host waits for is in flight in the installed record, under    *)
(* the epoch it was sent with and on its own slot: begin_send is saved      *)
(* before submit() (run.rs:83), and no other operation of the queue, in     *)
(* whatever order, takes it away.                                           *)
THEOREM TurnsAreRecorded == Spec => []LiveIsRecorded
<1>1. RuntimeInv => LiveIsRecorded
  <2> SUFFICES ASSUME RuntimeInv, NEW s \in Slot, host[s].live # NoNode
               PROVE  /\ IsInFlight(run, host[s].live)
                      /\ run.nodes[host[s].live].epoch = host[s].liveEpoch
                      /\ SlotOf[host[s].live] = s
    BY DEF LiveIsRecorded
  <2>1. host[s].live \in Node /\ host[s].liveEpoch \in Nat
    BY DEF RuntimeInv, Types, Hosts
  <2>2. LiveTurn(s, host[s].live, host[s].liveEpoch)
    BY <2>1 DEF RuntimeInv, LiveTurns
  <2> QED
    BY <2>2 DEF LiveTurn, InFlightUnder
<1> QED
  BY <1>1, RuntimeInvHolds, PTL

(* While the store works, what it holds is what a later open() reads        *)
(* (snapshot_store.rs:65), and a run that is over has nothing in flight in  *)
(* either copy, so that nothing it holds is ever sent on or waited for.     *)
THEOREM DiskIsTheStore == Spec => [](DiskMatchesStore /\ QuietRecord(disk) /\ QuietRecord(value))
<1>1. RuntimeInv => DiskMatchesStore /\ QuietRecord(disk) /\ QuietRecord(value)
  BY DEF RuntimeInv
<1> QED
  BY <1>1, RuntimeInvHolds, PTL

-------------------------------------------------------------------------------
(* What the files of a completed node hold.                                 *)

Captures(o, n) == o.op = "stop" /\ \E k \in DOMAIN o.captured : o.captured[k].node = n

\* The attempt an operation will write is the last one of its node.
Current(o, last) ==
    /\ o.op = "finish" => o.attempt = last[o.node]
    /\ o.op = "stop" => \A k \in DOMAIN o.captured : o.captured[k].attempt = last[o.captured[k].node]

Fresh ==
    /\ \A i \in DOMAIN pending : Current(pending[i], attempt)
    /\ Current(busy.op, attempt)
    /\ \A i \in DOMAIN busy.todo : busy.todo[i].write \in {"transcript", "output"} =>
          busy.todo[i].attempt = attempt[busy.todo[i].node]

\* Nothing that captured a turn of n waits behind a send of n.
StopOrder ==
    /\ \A i, j \in DOMAIN pending : i < j /\ pending[i].op = "send" => ~Captures(pending[j], pending[i].node)
    /\ busy.op.op = "send" => \A i \in DOMAIN pending : ~Captures(pending[i], busy.op.node)

Written(o) == outputs[o.node] = o.attempt /\ transcripts[o.node] = o.attempt

\* The completion is the last thing a finish saves.
FilesFirst ==
    busy.op.op = "finish" /\ busy.op.ok /\ busy.todo # <<>> =>
        \/ busy.todo = Work(busy.op)
        \/ /\ busy.todo = <<WriteOutput(busy.op.node, busy.op.attempt), Commit(busy.op)>>
           /\ transcripts[busy.op.node] = busy.op.attempt
        \/ busy.todo = <<Commit(busy.op)>> /\ Written(busy.op)

Shows(r) == \A n \in Node : IsCompleted(r, n) => outputs[n] = attempt[n] /\ transcripts[n] = attempt[n]

FilesInv ==
    /\ outputs \in [Node -> Nat] /\ transcripts \in [Node -> Nat]
    /\ Fresh /\ StopOrder /\ FilesFirst
    /\ busy.began => ~latched
    /\ Shows(disk) /\ Shows(value)

-------------------------------------------------------------------------------
(* Only a turn that ended well completes a node, and nothing else is        *)
(* completed by it.                                                         *)
LEMMA RefreshedCompletes ==
    ASSUME NEW r \in Records, NEW n \in Node, IsCompleted(RefreshState(r), n)
    PROVE  IsCompleted(r, n)
<1> DEFINE nodes == [m \in Node |-> IF StateOf(r, m) = "Waiting" THEN NodeIn("NotRun") ELSE r.nodes[m]]
<1>1. nodes[n].state = "Completed" => r.nodes[n].state = "Completed"
  BY DEF NodeIn, StateOf
<1>2. RefreshState(r) \in {r, [r EXCEPT !.state = "Failing"], [r EXCEPT !.state = "Failed", !.nodes = nodes],
                           [r EXCEPT !.state = "Completed"]}
  BY DEF RefreshState
<1> HIDE DEF nodes
<1>3. RefreshState(r).nodes \in {r.nodes, nodes}
  BY <1>2 DEF Records
<1> QED
  BY <1>1, <1>3 DEF IsCompleted, StateOf

(* Only complete completes a node.                                          *)
LEMMA ChangeCompletes ==
    ASSUME NEW r \in Records, NEW o \in Changes, NEW n \in Node, IsCompleted(Changed(r, o), n)
    PROVE  IsCompleted(r, n) \/ (o \in Finishes /\ o.ok /\ o.node = n)
<1>1. ASSUME NEW m \in Node, NEW node \in [state : NodeStates, epoch : Nat, turn : AnyTurn],
             IsCompleted([r EXCEPT !.nodes[m] = node], n)
      PROVE  IsCompleted(r, n) \/ (m = n /\ node.state = "Completed")
  BY <1>1 DEF IsCompleted, StateOf, Records
<1>2. CASE Changed(r, o) = r
  BY <1>2
<1>3. CASE o \in Sends /\ Changed(r, o) # r
  <2> DEFINE node == [state |-> "Sending", epoch |-> o.epoch, turn |-> NoTurn]
  <2>1. Changed(r, o) = [r EXCEPT !.nodes[o.node] = node]
    BY <1>3 DEF Changed, Sends, BeginSend
  <2>2. o.node \in Node /\ node \in [state : NodeStates, epoch : Nat, turn : AnyTurn] /\ node.state # "Completed"
    BY <1>3 DEF Sends, PositiveEpoch, NodeStates, AnyTurn
  <2> HIDE DEF node
  <2> QED
    BY <1>1, <2>1, <2>2
<1>4. CASE o \in Accepts /\ Changed(r, o) # r
  <2> DEFINE node == [state |-> "Accepted", epoch |-> o.epoch, turn |-> o.turn]
             nodes == [r.nodes EXCEPT ![o.node] = node]
             slots == [r.slots EXCEPT ![SlotOf[o.node]].opened = TRUE]
  <2>1. Changed(r, o) = [r EXCEPT !.nodes = nodes, !.slots = slots]
    BY <1>4 DEF Changed, Accepts, Accept
  <2>2. nodes[n].state = "Completed" => r.nodes[n].state = "Completed"
    BY DEF Records
  <2> HIDE DEF nodes, slots
  <2>3. Changed(r, o).nodes = nodes
    BY <2>1 DEF Records
  <2> QED
    BY <2>2, <2>3 DEF IsCompleted, StateOf
<1>5. CASE o \in Finishes \cup Fails /\ Changed(r, o) # r
  <2>1. PICK node \in [state : NodeStates, epoch : Nat, turn : AnyTurn] :
           /\ Changed(r, o) = RefreshState([r EXCEPT !.nodes[o.node] = node])
           /\ node.state = "Completed" => o \in Finishes /\ o.ok
    <3>1. CASE o \in Finishes /\ o.ok
      <4> DEFINE node == [state |-> "Completed", epoch |-> NoEpoch, turn |-> o.turn]
      <4>1. Changed(r, o) = RefreshState([r EXCEPT !.nodes[o.node] = node])
        BY <1>5, <3>1 DEF Changed, Finishes, Complete
      <4>2. node \in [state : NodeStates, epoch : Nat, turn : AnyTurn]
        BY <3>1 DEF Finishes, NoEpoch, NodeStates, AnyTurn
      <4> HIDE DEF node
      <4> QED
        BY <3>1, <4>1, <4>2
    <3>2. CASE ~(o \in Finishes /\ o.ok)
      <4>1. Changed(r, o) = Fail(r, o.node, o.epoch)
        BY <1>5, <3>2 DEF Changed, Finishes, Fails
      <4>2. Changed(r, o) = RefreshState([r EXCEPT !.nodes[o.node] = NodeIn("Failed")])
        BY <1>5, <4>1 DEF Fail
      <4>3. NodeIn("Failed") \in [state : NodeStates, epoch : Nat, turn : AnyTurn] /\ NodeIn("Failed").state # "Completed"
        BY DEF NodeIn, NodeStates, NoEpoch, AnyTurn
      <4> QED
        BY <4>2, <4>3
    <3> QED
      BY <3>1, <3>2
  <2>2. o.node \in Node
    BY <1>5 DEF Finishes, Fails
  <2> DEFINE q == [r EXCEPT !.nodes[o.node] = node]
  <2>3. q \in Records
    BY <2>2 DEF Records
  <2>4. IsCompleted(q, n) => IsCompleted(r, n) \/ (o.node = n /\ node.state = "Completed")
    BY <1>1, <2>2
  <2>5. IsCompleted(RefreshState(q), n)
    BY <2>1
  <2> HIDE DEF q
  <2>6. IsCompleted(q, n)
    BY <2>3, <2>5, RefreshedCompletes
  <2> QED
    BY <2>1, <2>4, <2>6
<1>6. CASE o \in Stops \cup Resumes /\ Changed(r, o) # r
  <2> DEFINE stopped == [m \in Node |-> IF IsInFlight(r, m) THEN NodeIn("Stopped")
                                        ELSE IF StateOf(r, m) = "Waiting" THEN NodeIn("NotRun") ELSE r.nodes[m]]
             waiting == [m \in Node |-> IF IsCompleted(r, m) THEN r.nodes[m] ELSE NodeIn("Waiting")]
  <2>1. Changed(r, o) \in {[r EXCEPT !.state = "Stopped", !.nodes = stopped],
                           [r EXCEPT !.state = "Running", !.nodes = waiting]}
    BY <1>6 DEF Changed, Stops, Resumes, Stop, Resume
  <2>2. /\ stopped[n].state = "Completed" => r.nodes[n].state = "Completed"
        /\ waiting[n].state = "Completed" => r.nodes[n].state = "Completed"
    BY DEF NodeIn, IsCompleted, StateOf
  <2> HIDE DEF stopped, waiting
  <2>3. Changed(r, o).nodes \in {stopped, waiting}
    BY <2>1 DEF Records
  <2> QED
    BY <2>2, <2>3 DEF IsCompleted, StateOf
<1>7. CASE o \in Saved
  <2> DEFINE slots == [r.slots EXCEPT ![o.slot].conversation = o.conv]
  <2>1. Changed(r, o) = [r EXCEPT !.slots = slots]
    BY <1>7 DEF Changed, Saved, RecordConversation
  <2> HIDE DEF slots
  <2>2. Changed(r, o).nodes = r.nodes
    BY <2>1 DEF Records
  <2> QED
    BY <2>2 DEF IsCompleted, StateOf
<1> QED
  BY <1>2, <1>3, <1>4, <1>5, <1>6, <1>7 DEF Changes

(* interrupt completes no node.                                             *)
LEMMA InterruptCompletes ==
    ASSUME NEW r \in Records, NEW n \in Node, IsCompleted(Interrupt(r), n)
    PROVE  IsCompleted(r, n)
<1> DEFINE nodes == [m \in Node |-> IF IsInFlight(r, m) THEN NodeIn("Interrupted") ELSE r.nodes[m]]
<1>1. nodes[n].state = "Completed" => r.nodes[n].state = "Completed"
  BY DEF NodeIn
<1>2. Interrupt(r) \in {r, [r EXCEPT !.state = "Interrupted", !.nodes = nodes]}
  BY DEF Interrupt
<1> HIDE DEF nodes
<1>3. Interrupt(r).nodes \in {r.nodes, nodes}
  BY <1>2 DEF Records
<1> QED
  BY <1>1, <1>3 DEF IsCompleted, StateOf

(* A pump and an idle store name no turn and no files.                      *)
LEMMA PumpIsCurrent ==
    /\ \A a, n : Current(PumpOp, a) /\ ~Captures(PumpOp, n)
    /\ \A a, n : Current(Idle.op, a) /\ ~Captures(Idle.op, n)
    /\ Idle.op.op = "none" /\ Idle.todo = <<>> /\ ~Idle.began
  BY DEF Current, Captures, PumpOp, Idle

(* What the handlers add to the queue leaves the files in order.            *)
LEMMA GrownFiles ==
    ASSUME Types, FilesInv, NEW new, Grown(new), busy' \in {busy, Idle},
           attempt' = attempt \/ busy' = Idle,
           \A i \in DOMAIN pending : Current(pending[i], attempt'),
           \A o \in new : o.op # "send" /\ Current(o, attempt'),
           \A o \in new, n \in Node : Captures(o, n) =>
              (\A i \in DOMAIN pending : ~IsSend(pending[i], n)) /\ ~IsSend(busy'.op, n)
    PROVE  Fresh' /\ StopOrder'
<1>1. DOMAIN pending = 1..Len(pending) /\ DOMAIN pending' = 1..Len(pending')
      /\ Len(pending) \in Nat /\ Len(pending') \in Nat
  BY DEF Types, Grown
<1>2. ASSUME NEW i \in DOMAIN pending'
      PROVE  \/ i \in DOMAIN pending /\ pending'[i] = pending[i]
             \/ i > Len(pending) /\ pending'[i] \in new
             \/ i > Len(pending) /\ pending'[i] = PumpOp
  BY <1>1 DEF Grown
<1>3. \A i \in DOMAIN pending' : Current(pending'[i], attempt')
  BY <1>2, PumpIsCurrent
<1>4. Fresh'
  <2>1. CASE busy' = Idle
    BY <1>3, <2>1, PumpIsCurrent DEF Fresh
  <2>2. CASE busy' = busy /\ attempt' = attempt
    BY <1>3, <2>2 DEF FilesInv, Fresh
  <2> QED
    BY <2>1, <2>2
<1>5. ASSUME NEW i \in DOMAIN pending', pending'[i].op = "send"
      PROVE  i \in DOMAIN pending /\ pending'[i] = pending[i] /\ pending[i].node \in Node
  <2>1. i \in DOMAIN pending /\ pending'[i] = pending[i]
    BY <1>2, <1>5 DEF PumpOp
  <2>2. pending[i] \in Waiting
    BY <2>1 DEF Types
  <2> QED
    BY <1>5, <2>1, <2>2, TagTypes DEF Sends
<1>6. ASSUME NEW i \in DOMAIN pending', NEW j \in DOMAIN pending', i < j, pending'[i].op = "send"
      PROVE  ~Captures(pending'[j], pending'[i].node)
  <2>1. i \in DOMAIN pending /\ pending'[i] = pending[i] /\ pending[i].node \in Node
    BY <1>5, <1>6
  <2>2. CASE j \in DOMAIN pending /\ pending'[j] = pending[j]
    BY <1>6, <2>1, <2>2 DEF FilesInv, StopOrder
  <2>3. CASE pending'[j] \in new
    BY <1>6, <2>1, <2>3 DEF IsSend
  <2> QED
    BY <1>2, <2>2, <2>3, PumpIsCurrent
<1>7. ASSUME busy'.op.op = "send", NEW i \in DOMAIN pending'
      PROVE  ~Captures(pending'[i], busy'.op.node)
  <2>1. busy' = busy
    BY <1>7, PumpIsCurrent
  <2>2. busy.op.node \in Node
    <3>1. busy.op \in (Waiting \ {PumpOp}) \cup Looks \cup {Idle.op}
      BY DEF Types
    <3> QED
      BY <1>7, <2>1, <3>1, TagTypes DEF Sends
  <2>3. CASE i \in DOMAIN pending /\ pending'[i] = pending[i]
    BY <1>7, <2>1, <2>3 DEF FilesInv, StopOrder
  <2>4. CASE pending'[i] \in new
    BY <1>7, <2>1, <2>2, <2>4 DEF IsSend
  <2> QED
    BY <1>2, <2>3, <2>4, PumpIsCurrent
<1> QED
  BY <1>4, <1>6, <1>7 DEF StopOrder

(* A handler that queues operations and writes nothing leaves the files in  *)
(* order.                                                                   *)
LEMMA HandledFiles ==
    ASSUME Types, FilesInv, NEW new, Grown(new),
           UNCHANGED <<disk, value, latched, outputs, transcripts, attempt>>,
           busy' = busy \/ busy' = Idle,
           \A o \in new : o.op # "send" /\ Current(o, attempt),
           \A o \in new, n \in Node : Captures(o, n) =>
              (\A i \in DOMAIN pending : ~IsSend(pending[i], n)) /\ ~IsSend(busy'.op, n)
    PROVE  FilesInv'
<1>1. Fresh' /\ StopOrder'
  <2>1. \A i \in DOMAIN pending : Current(pending[i], attempt')
    BY DEF FilesInv, Fresh
  <2> QED
    BY <2>1, GrownFiles
<1>2. FilesFirst'
  <2>1. CASE busy' = Idle
    BY <2>1, PumpIsCurrent DEF FilesFirst
  <2>2. CASE busy' = busy
    <3>1. Work(busy.op)' = Work(busy.op)
      BY <2>2 DEF Work, CanCompose, IsCompleted, StateOf
    <3> QED
      BY <2>2, <3>1 DEF FilesInv, FilesFirst, Written
  <2> QED
    BY <2>1, <2>2
<1>3. (Shows(disk) /\ Shows(value))'
  BY DEF FilesInv, Shows, IsCompleted, StateOf
<1>4. (busy.began => ~latched)'
  BY PumpIsCurrent DEF FilesInv
<1> QED
  BY <1>1, <1>2, <1>3, <1>4 DEF FilesInv

(* What a session does leaves the files in order.                           *)
LEMMA SessionFiles ==
    ASSUME RuntimeInv, FilesInv, NEW s \in Slot,
           \/ SessionReady(s) \/ SessionExits(s) \/ SessionRestarts(s) \/ IdentityReported(s)
           \/ NeverBegins(s) \/ TurnAccepted(s) \/ \E ok \in BOOLEAN : TurnFinished(s, ok)
    PROVE  FilesInv'
<1>1. UNCHANGED <<disk, value, latched, outputs, transcripts, attempt, busy>>
  BY DEF SessionReady, SessionExits, SessionRestarts, IdentityReported, NeverBegins, TurnAccepted,
         TurnFinished, SessionEvent, store
<1>2. Types
  BY DEF RuntimeInv
<1>3. CASE ScheduleAfter(<<>>)
  <2>2. Grown({})
    BY <1>2, <1>3, LookGrows
  <2> QED
    BY <1>1, <1>2, <2>2, HandledFiles
<1>4. CASE ~ScheduleAfter(<<>>)
  <2>1. PICK n : n = host[s].live
    OBVIOUS
  <2>2. host[s] \in Hosts /\ host[s].epoch \in PositiveEpoch
    BY <1>2, <1>4 DEF Types, RuntimeInv, Epochs, TurnAccepted, TurnFinished, Hosts, PositiveEpoch,
         SessionReady, SessionExits, SessionRestarts, IdentityReported, NeverBegins
  <2>3. Heard(s) /\ n \in Node
    BY <1>4, <2>1, <2>2 DEF TurnAccepted, TurnFinished, Heard, Hosts, SessionReady, SessionExits,
         SessionRestarts, IdentityReported, NeverBegins
  <2>4. \E o \in Accepts \cup Finishes : ScheduleAfter(<<o>>) /\ (o \in Finishes => o.attempt = attempt[o.node])
    <3>1. CASE TurnAccepted(s)
      <4> DEFINE o == [op |-> "accept", node |-> n, epoch |-> host[s].epoch, turn |-> host[s].begun + 1]
      <4>1. ScheduleAfter(<<o>>)
        BY <2>1, <2>3, <3>1 DEF TurnAccepted
      <4>2. o \in Accepts /\ o \notin Finishes
        BY <2>2, <2>3 DEF Accepts, Finishes, Hosts
      <4> QED
        BY <4>1, <4>2
    <3>2. ASSUME NEW ok \in BOOLEAN, TurnFinished(s, ok)
          PROVE  \E o \in Accepts \cup Finishes :
                    ScheduleAfter(<<o>>) /\ (o \in Finishes => o.attempt = attempt[o.node])
      <4> DEFINE o == [op |-> "finish", node |-> n, epoch |-> host[s].epoch, turn |-> host[s].begun,
                       ok |-> ok, attempt |-> attempt[n]]
      <4>1. ScheduleAfter(<<o>>)
        BY <2>1, <2>3, <3>2 DEF TurnFinished
      <4>2. o \in Finishes /\ o.attempt = attempt[o.node]
        BY <1>2, <2>2, <2>3 DEF Finishes, Hosts, Types
      <4> HIDE DEF o
      <4> QED
        BY <4>1, <4>2
    <3> QED
      BY <1>4, <3>1, <3>2 DEF SessionReady, SessionExits, SessionRestarts, IdentityReported, NeverBegins
  <2>5. PICK o \in Accepts \cup Finishes :
           ScheduleAfter(<<o>>) /\ (o \in Finishes => o.attempt = attempt[o.node])
    BY <2>4
  <2>6. o \in Waiting /\ o.op \in {"accept", "finish"} /\ (o.op = "finish" => o \in Finishes)
    BY DEF Waiting, Accepts, Finishes
  <2>7. Grown({o})
    BY <1>2, <2>5, <2>6, OpGrows
  <2>8. o.op # "send" /\ Current(o, attempt) /\ \A m \in Node : ~Captures(o, m)
    BY <2>5, <2>6 DEF Current, Captures
  <2> QED
    BY <1>1, <1>2, <2>7, <2>8, HandledFiles
<1> QED
  BY <1>3, <1>4

(* Stop and resume leave the files in order: a stop takes effect before any *)
(* later send.                                                              *)
LEMMA UserFiles ==
    ASSUME RuntimeInv, FilesInv, UserStop \/ UserResume
    PROVE  FilesInv'
<1>1. UNCHANGED <<disk, value, latched, outputs, transcripts, attempt, busy>>
  BY DEF UserStop, UserResume, store, history
<1>2. Types
  BY DEF RuntimeInv
<1>3. CASE UserResume
  <2> DEFINE o == [op |-> "resume"]
  <2>1. o \in Waiting /\ o.op = "resume"
    BY DEF Waiting, Resumes
  <2>2. Enqueue(o)
    BY <1>3 DEF UserResume
  <2> HIDE DEF o
  <2>3. Grown({o})
    BY <1>2, <2>1, <2>2, EnqueueGrows
  <2>4. Current(o, attempt) /\ \A n \in Node : ~Captures(o, n)
    BY <2>1 DEF Current, Captures
  <2> QED
    BY <1>1, <1>2, <2>1, <2>3, <2>4, HandledFiles
<1>4. CASE UserStop
  <2> DEFINE S == {s \in Slot : host[s].live # NoNode}
  <2>1. PICK running \in ListedSlots(S) :
           Enqueue([op |-> "stop",
                    captured |-> [i \in DOMAIN running |->
                        [node |-> host[running[i]].live, attempt |-> attempt[host[running[i]].live]]]])
    BY <1>4 DEF UserStop
  <2> DEFINE captured == [i \in DOMAIN running |->
                             [node |-> host[running[i]].live, attempt |-> attempt[host[running[i]].live]]]
  <2>2. Cardinality(S) \in Nat
    BY SlotsFinite, FS_Subset, FS_CardinalityType
  <2>3. running \in [1..Cardinality(S) -> S]
    BY DEF ListedSlots
  <2>4. \A i \in 1..Cardinality(S) : host[running[i]].live \in Node /\ attempt[host[running[i]].live] \in Nat
    BY <1>2, <2>3 DEF Types, Hosts
  <2>5. captured \in [1..Cardinality(S) -> [node : Node, attempt : Nat]]
    BY <2>3, <2>4
  <2>6. captured \in Seq([node : Node, attempt : Nat]) /\ DOMAIN captured = 1..Cardinality(S)
    BY <2>2, <2>5, ListIsSeq, Zenon
  <2>7. ASSUME NEW k \in DOMAIN captured
        PROVE  /\ captured[k].attempt = attempt[captured[k].node]
               /\ \E s \in Slot : host[s].live = captured[k].node /\ captured[k].node \in Node
    BY <2>3, <2>4, <2>6
  <2> DEFINE o == [op |-> "stop", captured |-> captured]
  <2>8. Enqueue(o)
    BY <2>1
  <2> HIDE DEF captured
  <2>9. o \in Stops /\ o.op = "stop" /\ o.captured = captured
    BY <2>6 DEF Stops
  <2> HIDE DEF o
  <2>10. o \in Waiting
    BY <2>9 DEF Waiting
  <2>11. Grown({o})
    BY <1>2, <2>8, <2>10, EnqueueGrows
  <2>12. o.op # "send" /\ Current(o, attempt)
    BY <2>7, <2>9 DEF Current
  <2>13. ASSUME NEW n \in Node, Captures(o, n)
         PROVE  (\A i \in DOMAIN pending : ~IsSend(pending[i], n)) /\ ~IsSend(busy'.op, n)
    <3>1. PICK s \in Slot : host[s].live = n
      BY <2>7, <2>9, <2>13 DEF Captures
    <3>2. host[s].liveEpoch \in Nat
      BY <1>2 DEF Types, Hosts
    <3>3. NoSend(n)
      BY <3>1, <3>2 DEF RuntimeInv, LiveTurns, LiveTurn
    <3> QED
      BY <1>1, <3>3 DEF NoSend
  <2> QED
    BY <1>1, <1>2, <2>11, <2>12, <2>13, HandledFiles
<1> QED
  BY <1>3, <1>4

(* The continuations of all operations but sends and pumps leave the files  *)
(* in order.                                                                *)
LEMMA OtherDoneFiles ==
    ASSUME RuntimeInv, FilesInv, StoreDone, busy.op.op \notin {"send", "pump"}
    PROVE  FilesInv'
<1>1. UNCHANGED <<disk, value, latched, outputs, transcripts, attempt>> /\ busy' = Idle /\ ScheduleAfter(<<>>)
  BY DEF StoreDone, StopDone, ResumeDone, history, store
<1>3. Grown({})
  BY <1>1, LookGrows DEF RuntimeInv
<1> QED
  BY <1>1, <1>3, HandledFiles DEF RuntimeInv

(* A turn is only started for a node whose earlier ends are all recorded.   *)
LEMMA SendDoneFiles ==
    ASSUME RuntimeInv, FilesInv, StoreDone, busy.op.op = "send"
    PROVE  FilesInv'
<1> DEFINE o == busy.op
<1>1. /\ open /\ busy' = Idle /\ UNCHANGED <<disk, value, latched, outputs, transcripts>> /\ SendDone(o)
  BY DEF StoreDone, store
<1>2. Types /\ o \in Sends
  BY TagTypes DEF RuntimeInv, Types
<1>3. o.node \in Node /\ o.epoch \in Nat
  BY <1>2 DEF Sends, PositiveEpoch
<1>5. ScheduleAfter(<<>>) => Grown({})
  BY <1>2, LookGrows
<1>6. CASE ScheduleAfter(<<>>) /\ attempt' = attempt
  BY <1>1, <1>2, <1>5, <1>6, HandledFiles
<1>7. CASE FailSubmit(o)
  <2> DEFINE f == [op |-> "fail", node |-> o.node, epoch |-> o.epoch]
  <2>1. f \in Waiting /\ f.op = "fail"
    BY <1>3 DEF Waiting, Fails
  <2>2. Enqueue(f) /\ attempt' = attempt
    BY <1>7 DEF FailSubmit
  <2> HIDE DEF f
  <2>3. Grown({f})
    BY <1>2, <2>1, <2>2, EnqueueGrows
  <2>4. Current(f, attempt) /\ \A n \in Node : ~Captures(f, n)
    BY <2>1 DEF Current, Captures
  <2> QED
    BY <1>1, <1>2, <2>1, <2>2, <2>3, <2>4, HandledFiles
<1>8. CASE busy.began /\ StartTurn(o)
  <2>1. attempt' = [attempt EXCEPT ![o.node] = @ + 1] /\ ScheduleAfter(<<>>)
    BY <1>8 DEF StartTurn
  <2>2. /\ DOMAIN attempt' = Node
        /\ \A n \in Node \ {o.node} : attempt'[n] = attempt[n]
    BY <1>2, <2>1 DEF Types
  <2>3. ASSUME NEW i \in DOMAIN pending
        PROVE  Current(pending[i], attempt')
    <3>1. pending[i] \in Waiting
      BY <1>2 DEF Types
    <3>2. Current(pending[i], attempt) /\ ~Captures(pending[i], o.node) /\ ~IsEnd(pending[i], o.node)
      BY DEF RuntimeInv, QueueOrder, FilesInv, Fresh, StopOrder
    <3>3. CASE pending[i].op = "finish"
      <4>1. pending[i] \in Finishes
        BY <3>1, <3>3, TagTypes
      <4>2. pending[i].node \in Node \ {o.node}
        BY <3>2, <3>3, <4>1 DEF IsEnd, Finishes, PositiveEpoch
      <4> QED
        BY <2>2, <3>2, <3>3, <4>2 DEF Current
    <3>4. CASE pending[i].op = "stop"
      <4>1. pending[i] \in Stops
        BY <3>1, <3>4, TagTypes
      <4>2. \A k \in DOMAIN pending[i].captured : pending[i].captured[k].node \in Node
        <5>1. PICK c : c = pending[i].captured
          OBVIOUS
        <5>2. c \in Seq([node : Node, attempt : Nat])
          BY <4>1, <5>1 DEF Stops
        <5>3. \A k \in 1..Len(c) : c[k] \in [node : Node, attempt : Nat]
          BY <5>2, ElementOfSeq, Zenon
        <5> QED
          BY <5>1, <5>2, <5>3
      <4>3. \A k \in DOMAIN pending[i].captured : pending[i].captured[k].node # o.node
        BY <3>2, <3>4 DEF Captures
      <4> QED
        BY <2>2, <3>2, <3>4, <4>2, <4>3 DEF Current
    <3> QED
      BY <3>3, <3>4 DEF Current
  <2>4. Fresh' /\ StopOrder'
    BY <1>1, <1>2, <1>5, <2>1, <2>3, GrownFiles
  <2>5. ~IsCompleted(value, o.node) /\ disk = value
    <3>1. InFlightUnder(value, o.node, o.epoch) /\ ~latched /\ DiskMatchesStore
      BY <1>8 DEF RuntimeInv, Begun, FilesInv
    <3> QED
      BY <1>1, <3>1 DEF InFlightUnder, IsInFlight, IsCompleted, StateOf, DiskMatchesStore
  <2>6. (Shows(disk) /\ Shows(value))'
    BY <1>1, <2>2, <2>5 DEF FilesInv, Shows, IsCompleted, StateOf
  <2>7. (busy.began => ~latched)' /\ FilesFirst'
    BY <1>1, PumpIsCurrent DEF FilesFirst
  <2> QED
    BY <1>1, <2>4, <2>6, <2>7 DEF FilesInv
<1> QED
  BY <1>1, <1>6, <1>7, <1>8 DEF SendDone, history

(* Without the head of the queue, and with sends and a look behind it.      *)
LEMMA StartFiles ==
    ASSUME RuntimeInv, FilesInv, StartOperation
    PROVE  FilesInv'
<1> DEFINE o == Head(pending)
<1>1. /\ pending # <<>> /\ o # PumpOp
      /\ busy' = [op |-> o, todo |-> Work(o), ok |-> TRUE, began |-> FALSE]
      /\ pending' = Tail(pending)
      /\ UNCHANGED <<disk, value, latched, outputs, transcripts, attempt>>
  BY DEF StartOperation, store, history
<1>2. Types
  BY DEF RuntimeInv
<1>3. /\ Len(pending) \in Nat \ {0} /\ DOMAIN pending = 1..Len(pending) /\ 1 \in DOMAIN pending
      /\ o = pending[1] /\ o \in Waiting
      /\ DOMAIN pending' = 1..(Len(pending) - 1)
      /\ \A i \in DOMAIN pending' : i + 1 \in DOMAIN pending /\ pending'[i] = pending[i + 1]
  BY <1>1, <1>2 DEF Types
<1> HIDE DEF o
<1>4. busy'.op = o /\ busy'.todo = Work(o) /\ busy'.began = FALSE
  BY <1>1
<1>5. Current(o, attempt) /\ \A i \in DOMAIN pending' : Current(pending'[i], attempt)
  BY <1>3 DEF FilesInv, Fresh
<1>6. ASSUME NEW i \in DOMAIN Work(o), Work(o)[i].write \in {"transcript", "output"}
      PROVE  Work(o)[i].attempt = attempt[Work(o)[i].node]
  BY <1>1, <1>3, <1>5, <1>6, WorkNames DEF Current
<1>7. Fresh'
  BY <1>1, <1>4, <1>5, <1>6 DEF Fresh
<1>8. StopOrder'
  <2>1. ASSUME NEW i \in DOMAIN pending', NEW j \in DOMAIN pending', i < j, pending'[i].op = "send"
        PROVE  ~Captures(pending'[j], pending'[i].node)
    <3>1. i + 1 \in DOMAIN pending /\ j + 1 \in DOMAIN pending /\ i + 1 < j + 1
      BY <1>3, <2>1
    <3> QED
      BY <1>3, <2>1, <3>1 DEF FilesInv, StopOrder
  <2>2. ASSUME o.op = "send", NEW i \in DOMAIN pending'
        PROVE  ~Captures(pending'[i], o.node)
    <3>1. i + 1 \in DOMAIN pending /\ 1 < i + 1
      BY <1>3, <2>2
    <3> QED
      BY <1>3, <2>2, <3>1 DEF FilesInv, StopOrder
  <2> QED
    BY <1>4, <2>1, <2>2 DEF StopOrder
<1>9. FilesFirst'
  BY <1>1, <1>4 DEF FilesFirst, Work, CanCompose, IsCompleted, StateOf
<1>10. (Shows(disk) /\ Shows(value))'
  BY <1>1 DEF FilesInv, Shows, IsCompleted, StateOf
<1> QED
  BY <1>1, <1>4, <1>7, <1>8, <1>9, <1>10 DEF FilesInv

(* The end of a look: sends and another look behind what was queued.        *)
LEMMA AfterFiles ==
    ASSUME RuntimeInv, FilesInv, busy' = Idle,
           UNCHANGED <<disk, value, latched, outputs, transcripts, attempt>>,
           NEW q \in Seq(Waiting), NEW k \in Nat, NEW sends \in SUBSET Node, NEW list \in [1..k -> sends],
           QueueAfter(q, k, list),
           \A i \in DOMAIN q : q[i].op # "send" /\ Current(q[i], attempt)
    PROVE  FilesInv'
<1>1. Len(q) \in Nat /\ DOMAIN q = 1..Len(q) /\ Len(pending') \in Nat /\ DOMAIN pending' = 1..Len(pending')
  BY DEF QueueAfter
<1>2. ASSUME NEW i \in DOMAIN pending'
      PROVE  \/ i \in DOMAIN q /\ pending'[i] = q[i]
             \/ i > Len(q) /\ pending'[i].op = "send"
             \/ pending'[i].op = "pump"
  BY <1>1 DEF QueueAfter, PumpOp
<1>3. Fresh'
  <2>1. \A i \in DOMAIN pending' : Current(pending'[i], attempt)
    BY <1>2 DEF Current
  <2> QED
    BY <2>1, PumpIsCurrent DEF Fresh
<1>4. StopOrder'
  <2>1. ASSUME NEW i \in DOMAIN pending', NEW j \in DOMAIN pending', i < j, pending'[i].op = "send"
        PROVE  ~Captures(pending'[j], pending'[i].node)
    <3>1. i > Len(q)
      BY <1>2, <2>1
    <3>2. pending'[j].op \in {"send", "pump"}
      BY <1>1, <1>2, <2>1, <3>1
    <3> QED
      BY <3>2 DEF Captures
  <2> QED
    BY <2>1, PumpIsCurrent DEF StopOrder
<1>5. FilesFirst' /\ (busy.began => ~latched)'
  BY PumpIsCurrent DEF FilesFirst
<1>6. (Shows(disk) /\ Shows(value))'
  BY DEF FilesInv, Shows, IsCompleted, StateOf
<1> QED
  BY <1>3, <1>4, <1>5, <1>6 DEF FilesInv

(* The sends a pump queues are of nodes whose files nobody writes.          *)
LEMMA PumpDoneFiles ==
    ASSUME RuntimeInv, FilesInv, StoreDone, busy.op.op = "pump"
    PROVE  FilesInv'
<1> DEFINE o == busy.op
<1>1. /\ busy' = Idle /\ UNCHANGED <<disk, value, latched, outputs, transcripts, attempt>>
      /\ After(pending, host, value, o.starts, o.sends) \/ After(pending, host, value, {}, {})
  BY DEF StoreDone, PumpDone, store
<1>2. Types /\ o \in Looks
  <2>1. o \in (Waiting \ {PumpOp}) \cup Looks \cup {Idle.op}
    BY DEF RuntimeInv, Types
  <2> QED
    BY <2>1, PumpIsPump, PumpIsCurrent DEF RuntimeInv
<1>3. PICK starts \in SUBSET Slot, sends \in SUBSET Node : After(pending, host, value, starts, sends)
  <2>1. o.starts \in SUBSET Slot /\ o.sends \in SUBSET Node
    BY <1>2 DEF Looks
  <2> QED
    BY <1>1, <2>1
<1>4. pending \in Seq(Waiting) /\ host \in [Slot -> Hosts] /\ value \in Records
      /\ \A s \in Slot : host[s].status # "none" => host[s].epoch # NoEpoch
  BY <1>2 DEF Types, RuntimeInv, Epochs
<1>5. PICK k \in Nat : \E list \in [1..k -> sends] : QueueAfter(pending, k, list)
  BY <1>2, <1>3, <1>4, AfterQueue
<1>6. PICK list \in [1..k -> sends] : QueueAfter(pending, k, list)
  BY <1>5
<1>7. \A i \in DOMAIN pending : pending[i].op # "send" /\ Current(pending[i], attempt)
  BY DEF RuntimeInv, QueueOrder, FilesInv, Fresh
<1> QED
  BY <1>1, <1>4, <1>6, <1>7, AfterFiles

(* A pump's look leaves the files in order.                                 *)
LEMMA PumpFiles ==
    ASSUME RuntimeInv, FilesInv, Pump
    PROVE  FilesInv'
<1>1. PICK starts \in SUBSET {s \in Slot : host[s].status = "none"}, S \in SUBSET ReadyNodes,
           convs \in ListedSlots({s \in Slot : NewConversation(s)}),
           exits \in ListedSlots({s \in Slot : ExitedUnder(s)}) :
           \E fails \in ListedNodes(S) :
              LookDoes(starts, Saves(convs) \o ExitFails(exits) \o NextFails(fails))
  BY Look
<1>2. /\ busy = Idle /\ pending # <<>> /\ Head(pending) = PumpOp
      /\ UNCHANGED <<disk, value, latched, outputs, transcripts, attempt>>
  BY DEF Pump, store
<1>3. Types /\ LiveTurns /\ run \in Records
  BY DEF RuntimeInv, Types
<1> DEFINE q == Tail(pending)
<1>4. /\ Len(pending) \in Nat \ {0} /\ DOMAIN pending = 1..Len(pending) /\ 1 \in DOMAIN pending
      /\ pending[1].op = "pump"
      /\ q \in Seq(Waiting) /\ DOMAIN q = 1..(Len(pending) - 1)
      /\ \A i \in DOMAIN q : i + 1 \in DOMAIN pending /\ q[i] = pending[i + 1]
  BY <1>2, <1>3 DEF Types, PumpOp
<1>5. \A i \in DOMAIN q : q[i].op # "send" /\ Current(q[i], attempt)
  <2> TAKE i \in DOMAIN q
  <2>1. i + 1 \in DOMAIN pending /\ 1 < i + 1
    BY <1>4
  <2> QED
    BY <1>4, <2>1 DEF RuntimeInv, QueueOrder, FilesInv, Fresh
<1>6. /\ Cleared \in [Slot -> Hosts]
      /\ \A s \in Slot : Cleared[s].status # "none" => host[s].epoch # NoEpoch
  <2>1. ASSUME NEW h \in Hosts
        PROVE  Released(h) \in Hosts /\ Released(h).status = h.status
    BY DEF Released, Hosts, NoEpoch
  <2> QED
    BY <1>3, <2>1 DEF Cleared, Types, RuntimeInv, Epochs
<1>7. LookSends \in SUBSET Node
  BY DEF LookSends, DispatchSend, Taken
<1> HIDE DEF q
<1>8. CASE After(q, Cleared, run, starts, LookSends) /\ UNCHANGED busy
  <2>1. PICK k \in Nat : \E list \in [1..k -> LookSends] : QueueAfter(q, k, list)
    BY <1>3, <1>4, <1>6, <1>7, <1>8, AfterQueue
  <2>2. PICK list \in [1..k -> LookSends] : QueueAfter(q, k, list)
    BY <2>1
  <2>3. busy' = Idle /\ q \in Seq(Waiting)
    BY <1>2, <1>4, <1>8
  <2> QED
    BY <1>2, <1>5, <1>7, <2>2, <2>3, AfterFiles
<1>9. ASSUME NEW fails \in ListedNodes(S),
             busy' = [op |-> [op |-> "pump", starts |-> starts, sends |-> LookSends],
                      todo |-> Saves(convs) \o ExitFails(exits) \o NextFails(fails),
                      ok |-> TRUE, began |-> FALSE],
             pending' = q
      PROVE  FilesInv'
  <2>1. PICK todo : todo = Saves(convs) \o ExitFails(exits) \o NextFails(fails)
    OBVIOUS
  <2>2. \A i \in DOMAIN todo : todo[i].write = "commit"
    <3>1. FoundWork(todo)
      BY <1>3, <2>1, LookWork, Zenon
    <3> QED
      BY <3>1, Zenon DEF FoundWork
  <2>3. busy'.op.op = "pump" /\ busy'.todo = todo /\ busy'.began = FALSE
    BY <1>9, <2>1
  <2>4. Fresh'
    <3>1. Current(busy'.op, attempt')
      BY <2>3 DEF Current
    <3>2. \A i \in DOMAIN pending' : Current(pending'[i], attempt')
      BY <1>2, <1>5, <1>9
    <3> QED
      BY <2>2, <2>3, <3>1, <3>2 DEF Fresh
  <2>5. StopOrder' /\ FilesFirst'
    BY <1>5, <1>9, <2>3 DEF StopOrder, FilesFirst
  <2>6. (Shows(disk) /\ Shows(value))'
    BY <1>2 DEF FilesInv, Shows, IsCompleted, StateOf
  <2> QED
    BY <1>2, <2>3, <2>4, <2>5, <2>6 DEF FilesInv
<1> QED
  BY <1>1, <1>8, <1>9 DEF q, LookDoes

(* A crash between the files of a completion and its commit leaves the      *)
(* files of an unfinished turn, never of a completed one.                   *)
LEMMA OpeningFiles ==
    ASSUME RuntimeInv, FilesInv, Close \/ Open \/ OpenFails
    PROVE  FilesInv'
<1>1. Types /\ disk \in Records
  BY DEF RuntimeInv, Types
<1>2. ~open => busy = Idle /\ pending = <<>> /\ ~scheduled
  BY DEF RuntimeInv, Closed
<1>3. /\ disk' \in {disk, Interrupt(disk)} /\ value' = disk' /\ busy' = Idle
      /\ UNCHANGED <<attempt, outputs, transcripts>>
  BY <1>2 DEF Close, Open, OpenFails, history
<1>4. (Shows(disk) /\ Shows(value))'
  <2>1. \A n \in Node : IsCompleted(disk', n) => IsCompleted(disk, n)
    BY <1>1, <1>3, InterruptCompletes
  <2> QED
    BY <1>3, <2>1 DEF FilesInv, Shows, IsCompleted, StateOf
<1>5. \A i \in DOMAIN pending' : pending'[i] = PumpOp
  <2>1. CASE Open
    <3>1. pending' = <<>> \o <<>> \o (IF scheduled THEN <<>> ELSE <<PumpOp>>)
      BY <1>2, <2>1 DEF Open, ScheduleAfter
    <3> QED
      BY <1>2, <2>1, <3>1 DEF Open
  <2>2. CASE Close \/ OpenFails
    BY <1>2, <2>2 DEF Close, OpenFails, queue
  <2> QED
    BY <2>1, <2>2
<1>6. Fresh' /\ StopOrder'
  BY <1>3, <1>5, PumpIsCurrent DEF Fresh, StopOrder
<1> QED
  BY <1>3, <1>4, <1>6, PumpIsCurrent DEF FilesInv, FilesFirst

(* A write of the operation at work: the output and transcript it saves are *)
(* of its node's last attempt, and are there when it completes the node.    *)
LEMMA StoreFiles ==
    ASSUME RuntimeInv, FilesInv, StoreStep \/ WriteFails
    PROVE  FilesInv'
<1> DEFINE o == busy.op
           w == Head(busy.todo)
           rest == Tail(busy.todo)
<1>1. /\ open /\ busy.todo # <<>> /\ busy.began = FALSE
      /\ UNCHANGED <<pending, attempt>>
  BY DEF StoreStep, WriteFails, RuntimeInv, BusyWork, Types, queue, history
<1>2. /\ Types /\ value \in Records /\ latched \in BOOLEAN /\ (~latched => disk = value)
      /\ outputs \in [Node -> Nat] /\ transcripts \in [Node -> Nat] /\ attempt \in [Node -> Nat]
      /\ busy \in [op : (Waiting \ {PumpOp}) \cup Looks \cup {Idle.op}, todo : Seq(Writes),
                   ok : BOOLEAN, began : BOOLEAN]
  BY <1>1 DEF RuntimeInv, FilesInv, DiskMatchesStore, Types
<1>3. /\ w \in Writes /\ 1 \in DOMAIN busy.todo /\ w = busy.todo[1] /\ Len(busy.todo) \in Nat
      /\ \A i \in DOMAIN rest : i + 1 \in DOMAIN busy.todo /\ rest[i] = busy.todo[i + 1]
  <2>1. ASSUME NEW q \in Seq(Writes), q # <<>>
        PROVE  /\ Head(q) \in Writes /\ 1 \in DOMAIN q /\ Head(q) = q[1] /\ Len(q) \in Nat
               /\ \A i \in DOMAIN Tail(q) : i + 1 \in DOMAIN q /\ Tail(q)[i] = q[i + 1]
    BY <2>1
  <2> QED
    BY <1>1, <1>2, <2>1
<1>4. w.write = "commit" => w.do \in Changes
  BY <1>3 DEF Writes, WritePrompt
<1>5. w.write \in {"transcript", "output"} => w.node \in Node /\ w.attempt \in Nat /\ w.attempt = attempt[w.node]
  BY <1>3 DEF Writes, WritePrompt, FilesInv, Fresh
<1>6. (o.op = "finish" => o \in Finishes /\ o.attempt = attempt[o.node]) /\ o.op # "none"
  <2>1. o \in Waiting \cup Looks \cup {Idle.op}
    BY <1>2
  <2>2. o.op # "none"
    BY <1>1, PumpIsCurrent DEF RuntimeInv, BusyWork
  <2> QED
    BY <2>1, <2>2, TagTypes DEF FilesInv, Fresh, Current
<1>7. ASSUME o.op = "finish", o.ok
      PROVE  LET t == WriteTranscript(o.node, o.attempt)
                 p == WriteOutput(o.node, o.attempt)
                 c == Commit(o)
             IN  \/ w = t /\ rest = <<p, c>>
                 \/ w = p /\ rest = <<c>> /\ transcripts[o.node] = o.attempt
                 \/ w = c /\ rest = <<>> /\ Written(o)
  <2>1. PICK t, p, c : /\ t = WriteTranscript(o.node, o.attempt) /\ p = WriteOutput(o.node, o.attempt)
                       /\ c = Commit(o)
    OBVIOUS
  <2>2. Work(o) = <<t, p, c>>
    BY <1>7, <2>1 DEF Work
  <2>3. \/ busy.todo = <<t, p, c>>
        \/ busy.todo = <<p, c>> /\ transcripts[o.node] = o.attempt
        \/ busy.todo = <<c>> /\ Written(o)
    BY <1>1, <1>7, <2>1, <2>2 DEF FilesInv, FilesFirst
  <2>4. /\ Head(<<t, p, c>>) = t /\ Tail(<<t, p, c>>) = <<p, c>>
        /\ Head(<<p, c>>) = p /\ Tail(<<p, c>>) = <<c>>
        /\ Head(<<c>>) = c /\ Tail(<<c>>) = <<>>
    OBVIOUS
  <2>5. \/ w = t /\ rest = <<p, c>>
        \/ w = p /\ rest = <<c>> /\ transcripts[o.node] = o.attempt
        \/ w = c /\ rest = <<>> /\ Written(o)
    BY <2>3, <2>4, Zenon
  <2> QED
    BY <2>1, <2>5, Zenon
<1>8. \/ /\ StoreStep /\ w.write = "commit" /\ ~latched
         /\ disk' = Changed(value, w.do) /\ value' = disk' /\ UNCHANGED <<latched, outputs, transcripts>>
         /\ busy'.op = o /\ busy'.todo = rest
      \/ /\ StoreStep /\ w.write \in {"transcript", "output"}
         /\ UNCHANGED <<disk, value, latched>>
         /\ busy'.op = o /\ busy'.todo = rest /\ ~busy'.began
         /\ transcripts' = IF w.write = "transcript" THEN [transcripts EXCEPT ![w.node] = w.attempt] ELSE transcripts
         /\ outputs' = IF w.write = "output" THEN [outputs EXCEPT ![w.node] = w.attempt] ELSE outputs
      \/ /\ StoreStep /\ w.write = "prompt" /\ UNCHANGED <<disk, value, latched, outputs, transcripts>>
         /\ busy'.op = o /\ busy'.todo = rest /\ ~busy'.began
      \/ /\ UNCHANGED <<value, outputs, transcripts>>
         /\ disk' = disk \/ (w.write = "commit" /\ ~latched /\ disk' = Changed(value, w.do))
         /\ busy'.op = o /\ busy'.todo = <<>> /\ ~busy'.began
  <2>1. CASE StoreStep /\ w.write = "commit"
    <3>1. CommitStep(w.do)
      BY <2>1 DEF StoreStep
    <3> QED
      BY <1>1, <1>2, <2>1, <3>1 DEF CommitStep, store
  <2>2. CASE StoreStep /\ w.write # "commit"
    <3>1. busy' = [busy EXCEPT !.todo = rest]
      BY <2>2 DEF StoreStep
    <3>2. busy'.op = o /\ busy'.todo = rest /\ ~busy'.began
      BY <1>1, <1>2, <3>1
    <3> QED
      BY <2>2, <3>2 DEF StoreStep, store
  <2>3. CASE WriteFails
    <3>1. busy' = [busy EXCEPT !.todo = <<>>, !.ok = FALSE]
      BY <2>3 DEF WriteFails
    <3>2. busy'.op = o /\ busy'.todo = <<>> /\ ~busy'.began
      BY <1>1, <1>2, <3>1
    <3> QED
      BY <2>3, <3>2 DEF WriteFails
  <2> QED
    BY <2>1, <2>2, <2>3
<1>9. ASSUME NEW n \in Node, w.write = "commit", IsCompleted(Changed(value, w.do), n)
      PROVE  outputs[n] = attempt[n] /\ transcripts[n] = attempt[n]
  <2>1. CASE IsCompleted(value, n)
    BY <2>1 DEF FilesInv, Shows
  <2>2. CASE w.do \in Finishes /\ w.do.ok /\ w.do.node = n
    <3>1. w.do.op = "finish"
      BY <2>2 DEF Finishes
    <3>2. w.do = o
      BY <1>3, <1>9, <3>1 DEF RuntimeInv, BusyWork
    <3>3. Written(o)
      BY <1>7, <1>9, <2>2, <3>1, <3>2 DEF WriteTranscript, WriteOutput
    <3> QED
      BY <1>6, <2>2, <3>1, <3>2, <3>3 DEF Written
  <2> QED
    BY <1>2, <1>4, <1>9, <2>1, <2>2, ChangeCompletes
<1>10. (Shows(disk) /\ Shows(value))'
  <2>1. CASE w.write \in {"transcript", "output"} /\ UNCHANGED <<disk, value>>
             /\ transcripts' = (IF w.write = "transcript" THEN [transcripts EXCEPT ![w.node] = w.attempt] ELSE transcripts)
             /\ outputs' = (IF w.write = "output" THEN [outputs EXCEPT ![w.node] = w.attempt] ELSE outputs)
    <3>1. ASSUME NEW n \in Node, outputs[n] = attempt[n], transcripts[n] = attempt[n]
          PROVE  outputs'[n] = attempt[n] /\ transcripts'[n] = attempt[n]
      BY <1>2, <1>5, <2>1, <3>1
    <3> QED
      BY <1>1, <2>1, <3>1 DEF FilesInv, Shows, IsCompleted, StateOf
  <2>2. CASE UNCHANGED <<outputs, transcripts>>
    <3>1. \A n \in Node : IsCompleted(disk, n) \/ IsCompleted(value, n) =>
             outputs[n] = attempt[n] /\ transcripts[n] = attempt[n]
      BY DEF FilesInv, Shows
    <3>2. \A r \in {disk', value'} : r \in {disk, value} \/ (w.write = "commit" /\ r = Changed(value, w.do))
      BY <1>8
    <3>3. ASSUME NEW r \in {disk', value'}, NEW n \in Node, IsCompleted(r, n)
          PROVE  outputs[n] = attempt[n] /\ transcripts[n] = attempt[n]
      BY <1>9, <3>1, <3>2, <3>3
    <3> QED
      BY <1>1, <2>2, <3>3 DEF Shows, IsCompleted, StateOf
  <2> QED
    BY <1>8, <2>1, <2>2
<1>11. FilesFirst'
  <2> SUFFICES ASSUME busy'.op.op = "finish", busy'.op.ok, busy'.todo # <<>>
               PROVE  \/ /\ busy'.todo = <<WriteOutput(o.node, o.attempt), Commit(o)>>
                         /\ transcripts'[o.node] = o.attempt
                      \/ /\ busy'.todo = <<Commit(o)>>
                         /\ outputs'[o.node] = o.attempt /\ transcripts'[o.node] = o.attempt
    <3>1. busy'.op = o
      BY <1>8
    <3> QED
      BY <3>1 DEF FilesFirst, Written
  <2>1. o.op = "finish" /\ o.ok /\ busy'.todo = rest /\ rest # <<>> /\ o.node \in Node
    BY <1>6, <1>8 DEF Finishes
  <2>2. CASE w = WriteTranscript(o.node, o.attempt) /\ rest = <<WriteOutput(o.node, o.attempt), Commit(o)>>
    <3>1. w.write = "transcript" /\ w.node = o.node /\ w.attempt = o.attempt
      BY <2>2 DEF WriteTranscript
    <3>2. transcripts' = [transcripts EXCEPT ![w.node] = w.attempt]
      BY <1>8, <2>1, <3>1
    <3> QED
      BY <1>2, <2>1, <2>2, <3>1, <3>2
  <2>3. CASE w = WriteOutput(o.node, o.attempt) /\ rest = <<Commit(o)>> /\ transcripts[o.node] = o.attempt
    <3>1. w.write = "output" /\ w.node = o.node /\ w.attempt = o.attempt
      BY <2>3 DEF WriteOutput
    <3>2. outputs' = [outputs EXCEPT ![w.node] = w.attempt] /\ transcripts' = transcripts
      BY <1>8, <2>1, <3>1
    <3> QED
      BY <1>2, <2>1, <2>3, <3>1, <3>2
  <2> QED
    BY <1>7, <2>1, <2>2, <2>3
<1>12. busy'.op = o /\ \A i \in DOMAIN busy'.todo : \E j \in DOMAIN busy.todo : busy'.todo[i] = busy.todo[j]
  <2>1. busy'.op = o /\ (busy'.todo = rest \/ busy'.todo = <<>>)
    BY <1>8
  <2>2. \A i \in DOMAIN rest : \E j \in DOMAIN busy.todo : rest[i] = busy.todo[j]
    BY <1>3
  <2>3. DOMAIN <<>> = {}
    OBVIOUS
  <2> HIDE DEF rest
  <2> QED
    BY <2>1, <2>2, <2>3, Zenon
<1>13. Fresh' /\ StopOrder'
  BY <1>1, <1>12 DEF FilesInv, Fresh, StopOrder
<1>14. (busy.began => ~latched)' /\ outputs' \in [Node -> Nat] /\ transcripts' \in [Node -> Nat]
  <2>1. (busy.began => ~latched)'
    BY <1>8
  <2>2. ASSUME w.write \in {"transcript", "output"}
        PROVE  [outputs EXCEPT ![w.node] = w.attempt] \in [Node -> Nat]
               /\ [transcripts EXCEPT ![w.node] = w.attempt] \in [Node -> Nat]
    BY <1>2, <1>5, <2>2
  <2>3. outputs' \in [Node -> Nat] /\ transcripts' \in [Node -> Nat]
    BY <1>2, <1>8, <2>2
  <2> QED
    BY <2>1, <2>3
<1> QED
  BY <1>10, <1>11, <1>13, <1>14 DEF FilesInv

(* A run that was just created has no files.                                *)
LEMMA InitFiles == Init => FilesInv
<1> SUFFICES ASSUME Init PROVE FilesInv
  OBVIOUS
<1>1. \A i \in DOMAIN pending : pending[i] = PumpOp
  BY DEF Init
<1>2. \A n \in Node : ~IsCompleted(NewRecord, n)
  BY DEF NewRecord, IsCompleted, StateOf, NodeIn
<1>3. busy = Idle /\ disk = NewRecord /\ value = NewRecord
  BY DEF Init
<1>4. outputs \in [Node -> Nat] /\ transcripts \in [Node -> Nat]
  BY DEF Init
<1>5. Fresh /\ StopOrder /\ FilesFirst
  BY <1>1, <1>3, PumpIsCurrent DEF Fresh, StopOrder, FilesFirst
<1> QED
  BY <1>2, <1>3, <1>4, <1>5, PumpIsCurrent DEF FilesInv, Shows

(* A step that changes nothing.                                             *)
LEMMA StutterFiles ==
    ASSUME FilesInv, UNCHANGED vars
    PROVE  FilesInv'
<1>1. UNCHANGED <<disk, value, latched, outputs, transcripts, pending, busy, attempt>>
  BY DEF vars, store, queue, history
<1> QED
  BY <1>1 DEF FilesInv, Fresh, StopOrder, FilesFirst, Written, Shows, Work, CanCompose, IsCompleted, StateOf

(* Files and record agree in every state of the runtime.                    *)
LEMMA FilesInvHolds == Spec => []FilesInv
<1>1. RuntimeInv /\ FilesInv /\ [Next]_vars => FilesInv'
  <2> SUFFICES ASSUME RuntimeInv, FilesInv, [Next]_vars PROVE FilesInv'
    OBVIOUS
  <2>1. CASE Pump
    BY <2>1, PumpFiles
  <2>2. CASE StartOperation
    BY <2>2, StartFiles
  <2>3. CASE StoreStep \/ WriteFails
    BY <2>3, StoreFiles
  <2>4. CASE StoreDone
    BY <2>4, SendDoneFiles, PumpDoneFiles, OtherDoneFiles
  <2>5. ASSUME NEW s \in Slot,
               \/ SessionReady(s) \/ SessionExits(s) \/ SessionRestarts(s) \/ IdentityReported(s)
               \/ NeverBegins(s) \/ TurnAccepted(s) \/ \E ok \in BOOLEAN : TurnFinished(s, ok)
        PROVE  FilesInv'
    BY <2>5, SessionFiles
  <2>6. CASE UserStop \/ UserResume
    BY <2>6, UserFiles
  <2>7. CASE Close \/ Open \/ OpenFails
    BY <2>7, OpeningFiles
  <2>8. CASE UNCHANGED vars
    BY <2>8, StutterFiles
  <2> QED
    BY <2>1, <2>2, <2>3, <2>4, <2>5, <2>6, <2>7, <2>8 DEF Next, TurnFailsUnnamed, TurnRefused
<1> QED
  BY <1>1, InitFiles, RuntimeInvHolds, PTL DEF Spec

(* The files of a completed node are those of the last turn started for it, *)
(* which completed it: save_transcript and save_output come before          *)
(* complete() in one operation, and neither a stop that captured an earlier *)
(* turn nor a late finish is written once the node is sent again.           *)
THEOREM FilesAreOfTheTurn == Spec => []CompletedShowsItsTurn
<1>1. FilesInv => CompletedShowsItsTurn
  BY DEF FilesInv, Shows, CompletedShowsItsTurn
<1> QED
  BY <1>1, FilesInvHolds, PTL

-------------------------------------------------------------------------------
(* What the saved record owes the rules of the run.                         *)

Paid ==
    /\ \A i \in DOMAIN pending : Owed(value, pending[i])
    /\ Owed(value, busy.op)
    /\ busy.op.op = "pump" => \A n \in busy.op.sends : NeedsMet(value, n)
    /\ \A i \in DOMAIN busy.todo :
          /\ busy.todo[i].write = "commit" => Owed(value, busy.todo[i].do)
          /\ busy.todo[i].write = "output" => busy.todo[i].attempt # 0

\* The nodes whose send is queued, at work, or decided by the look at work.
SendOut == {n \in Node : ~NoSend(n)}

\* A look counts what is in flight; nothing is sent that it did not count.
Room == open => Cardinality(InFlight(value) \cup SendOut) <= MaxParallel

\* A turn that runs has a number, and the node that waits for it an attempt.
Numbered ==
    \A s \in Slot :
        /\ host[s].status = "working" => host[s].begun # 0
        /\ host[s].live # NoNode => attempt[host[s].live] # 0

Timed(r) == \A n \in Node : IsInFlight(r, n) => r.nodes[n].epoch # NoEpoch

\* Nothing is sent before all it rests on is completed, and completions last.
Founded(r) ==
    \A n \in Node : IsInFlight(r, n) \/ IsCompleted(r, n) => \A d \in Ancestors[n] : IsCompleted(r, d)

Dated == Timed(value) /\ Timed(disk) /\ Founded(value) /\ Founded(disk)

SchedInv == Paid /\ Room /\ Numbered /\ Dated

(* The walk over the ready nodes stops when the capacity is used up: each   *)
(* node it takes has fewer ready nodes before it than there is room for,    *)
(* and no two of them have the same number.                                 *)
LEMMA TakenFits ==
    ASSUME NEW r
    PROVE  Cardinality(Taken(r)) <= Capacity(r)
<1> DEFINE Before(n) == {m \in Node : IsReady(r, m) /\ Position[m] < Position[n]}
           T == Taken(r)
           C == Capacity(r)
           f == [n \in T |-> Cardinality(Before(n))]
<1>1. IsFiniteSet(T) /\ Cardinality(T) \in Nat /\ T \subseteq Node
  <2>1. T \subseteq Node
    BY DEF Taken
  <2> QED
    BY <2>1, NodesFinite, FS_Subset, FS_CardinalityType
<1>2. C \in Nat
  <2>1. Cardinality(InFlight(r)) \in Nat
    <3>1. InFlight(r) \subseteq Node
      BY DEF InFlight
    <3> QED
      BY <3>1, NodesFinite, FS_Subset, FS_CardinalityType
  <2> QED
    BY <2>1, MaxParallelPositive DEF Capacity
<1>3. \A n \in Node : IsFiniteSet(Before(n)) /\ Cardinality(Before(n)) \in Nat
  BY NodesFinite, FS_Subset, FS_CardinalityType
<1>4. \A n \in T : Cardinality(Before(n)) < C /\ IsReady(r, n)
  BY DEF Taken
<1>5. ASSUME NEW m \in T, NEW n \in T, Position[m] < Position[n]
      PROVE  Cardinality(Before(m)) < Cardinality(Before(n))
  <2>1. m \in Node /\ n \in Node /\ Position[m] \in Nat /\ Position[n] \in Nat /\ \A l \in Node : Position[l] \in Nat
    BY <1>1, GraphTyped
  <2>2. Before(m) \subseteq Before(n) /\ m \in Before(n) /\ m \notin Before(m)
    <3>1. \A l \in Node : Position[l] < Position[m] => Position[l] < Position[n]
      BY <1>5, <2>1
    <3>2. ~(Position[m] < Position[m])
      BY <2>1
    <3>3. IsReady(r, m)
      BY <1>4, Zenon
    <3>4. Before(m) \subseteq Before(n)
      BY <3>1, Zenon
    <3>5. m \in Before(n)
      BY <1>5, <2>1, <3>3, Zenon
    <3>6. m \notin Before(m)
      BY <3>2, Zenon
    <3> QED
      BY <3>4, <3>5, <3>6, Zenon
  <2> HIDE DEF Before
  <2>3. /\ Cardinality(Before(m)) <= Cardinality(Before(n))
        /\ Cardinality(Before(n)) = Cardinality(Before(m)) => Before(n) = Before(m)
    BY <1>3, <2>1, <2>2, FS_Subset
  <2> QED
    BY <1>3, <2>1, <2>2, <2>3
<1>6. \A m, n \in T : m # n => f[m] # f[n]
  <2> TAKE m, n \in T
  <2>1. m \in Node /\ n \in Node /\ Position[m] \in Nat /\ Position[n] \in Nat
    BY <1>1, GraphTyped
  <2>2. m # n => Position[m] < Position[n] \/ Position[n] < Position[m]
    BY <2>1, OrderTopological
  <2>3. Cardinality(Before(m)) \in Nat /\ Cardinality(Before(n)) \in Nat
    BY <1>3, <2>1
  <2>4. f[m] = Cardinality(Before(m)) /\ f[n] = Cardinality(Before(n))
    OBVIOUS
  <2> HIDE DEF f, Before, T
  <2> QED
    BY <1>5, <2>2, <2>3, <2>4
<1>7. CASE C = 0
  <2>1. T = {}
    <3> SUFFICES ASSUME NEW n \in T PROVE FALSE
      OBVIOUS
    <3>1. PICK k : k = Cardinality(Before(n))
      OBVIOUS
    <3>2. n \in Node
      BY <1>1, Zenon
    <3> HIDE DEF Before, T, f
    <3>3. k \in Nat /\ k < C
      BY <1>3, <1>4, <3>1, <3>2, Zenon
    <3> QED
      BY <1>7, <3>3
  <2> QED
    BY <1>7, <2>1, FS_EmptySet
<1>8. CASE C # 0
  <2>1. IsFiniteSet(0..(C - 1)) /\ Cardinality(0..(C - 1)) = C
    <3>1. PICK c : c = C - 1
      OBVIOUS
    <3> HIDE DEF C
    <3>2. c \in Int /\ 0 <= c /\ C = c + 1
      BY <1>2, <1>8, <3>1
    <3>3. IsFiniteSet(0..c) /\ Cardinality(0..c) = c - 0 + 1
      BY <3>2, FS_Interval
    <3> QED
      BY <3>1, <3>2, <3>3
  <2>2. f \in [T -> 0..(C - 1)]
    <3>1. \A n \in T : Cardinality(Before(n)) \in 0..(C - 1)
      <4> TAKE n \in T
      <4>1. Cardinality(Before(n)) \in Nat /\ Cardinality(Before(n)) < C
        BY <1>1, <1>3, <1>4
      <4> QED
        BY <1>2, <4>1
    <3> QED
      BY <3>1
  <2> HIDE DEF f, T, C
  <2>3. ~(Cardinality(0..(C - 1)) < Cardinality(T))
    BY <1>1, <1>6, <2>1, <2>2, FS_PigeonHole, Zenon
  <2>4. ~(C < Cardinality(T))
    BY <2>1, <2>3
  <2>5. Cardinality(T) <= C
    BY <1>1, <1>2, <2>4
  <2> QED
    BY <2>5 DEF T, C
<1> QED
  BY <1>7, <1>8

(* What a look dispatches fits, with what is in flight, within              *)
(* max_parallel.                                                            *)
LEMMA TakenHasRoom ==
    ASSUME NEW r, Cardinality(InFlight(r)) <= MaxParallel
    PROVE  Cardinality(InFlight(r) \cup Taken(r)) <= MaxParallel
<1> DEFINE F == InFlight(r)
           T == Taken(r)
<1>1. F \subseteq Node /\ T \subseteq Node
  BY DEF InFlight, Taken
<1>2. IsFiniteSet(F) /\ IsFiniteSet(T) /\ Cardinality(F) \in Nat /\ Cardinality(T) \in Nat
  BY <1>1, NodesFinite, FS_Subset, FS_CardinalityType
<1>3. Cardinality(T) <= Capacity(r)
  BY TakenFits
<1>4. Cardinality(F) + Capacity(r) <= MaxParallel
  BY <1>2, MaxParallelPositive DEF Capacity
<1> HIDE DEF F, T
<1>5. IsFiniteSet(F \cap T) /\ Cardinality(F \cap T) \in Nat
  <2>1. F \cap T \subseteq F
    OBVIOUS
  <2> QED
    BY <1>2, <2>1, FS_Subset, FS_CardinalityType
<1>6. Cardinality(F \cup T) = Cardinality(F) + Cardinality(T) - Cardinality(F \cap T)
  BY <1>2, FS_Union
<1>7. Capacity(r) \in Nat
  BY <1>2, MaxParallelPositive DEF Capacity, F
<1>8. Cardinality(F \cup T) <= MaxParallel
  BY <1>2, <1>3, <1>4, <1>5, <1>6, <1>7, MaxParallelPositive
<1> QED
  BY <1>8 DEF F, T

(* What a change leaves of a node. *)
Settles(r, q, o) ==
    \A n \in Node :
        /\ IsCompleted(r, n) => IsCompleted(q, n)
        /\ IsCompleted(q, n) => IsCompleted(r, n) \/ IsInFlight(r, n)
        /\ IsInFlight(q, n) =>
              \/ q.nodes[n] = r.nodes[n]
              \/ o.op = "send" /\ o.node = n /\ q.nodes[n].epoch = o.epoch
              \/ o.op = "accept" /\ IsInFlight(r, n) /\ q.nodes[n].epoch = o.epoch

(* The end of a node completes no other and undoes no completion.           *)
LEMMA RefreshSettles ==
    ASSUME NEW r \in Records, NEW n \in Node
    PROVE  /\ IsCompleted(r, n) <=> IsCompleted(RefreshState(r), n)
           /\ IsInFlight(RefreshState(r), n) => RefreshState(r).nodes[n] = r.nodes[n]
<1> DEFINE nodes == [m \in Node |-> IF StateOf(r, m) = "Waiting" THEN NodeIn("NotRun") ELSE r.nodes[m]]
<1>1. nodes[n] = r.nodes[n] \/ (r.nodes[n].state = "Waiting" /\ nodes[n].state = "NotRun")
  BY DEF NodeIn, StateOf
<1>2. RefreshState(r) \in {r, [r EXCEPT !.state = "Failing"], [r EXCEPT !.state = "Failed", !.nodes = nodes],
                           [r EXCEPT !.state = "Completed"]}
  BY DEF RefreshState
<1> HIDE DEF nodes
<1>3. RefreshState(r).nodes \in {r.nodes, nodes}
  BY <1>2 DEF Records
<1> QED
  BY <1>1, <1>3 DEF IsCompleted, IsInFlight, StateOf

(* A completed node stays completed through every change of the record, and *)
(* only a send or an accept writes the epoch of a node in flight.           *)
LEMMA ChangeSettles ==
    ASSUME NEW r \in Records, NEW o \in Changes
    PROVE  Settles(r, Changed(r, o), o)
<1>1. CASE Changed(r, o) = r
  BY <1>1 DEF Settles
<1>2. CASE o \in Sends /\ Changed(r, o) # r
  <2> DEFINE node == [state |-> "Sending", epoch |-> o.epoch, turn |-> NoTurn]
  <2>1. o.op = "send" /\ o.node \in Node /\ CanBeginSend(r, o.node) /\ Changed(r, o) = [r EXCEPT !.nodes[o.node] = node]
    BY <1>2 DEF Changed, Sends, BeginSend
  <2>2. node.epoch = o.epoch /\ node.state = "Sending" /\ ~IsCompleted(r, o.node)
    BY <2>1 DEF CanBeginSend, IsCompleted, StateOf
  <2> HIDE DEF node
  <2>3. \A n \in Node : Changed(r, o).nodes[n] = IF n = o.node THEN node ELSE r.nodes[n]
    BY <2>1 DEF Records
  <2> QED
    BY <2>1, <2>2, <2>3 DEF Settles, IsCompleted, IsInFlight, StateOf
<1>3. CASE o \in Accepts /\ Changed(r, o) # r
  <2> DEFINE node == [state |-> "Accepted", epoch |-> o.epoch, turn |-> o.turn]
             slots == [r.slots EXCEPT ![SlotOf[o.node]].opened = TRUE]
             nodes == [r.nodes EXCEPT ![o.node] = node]
  <2>1. o.op = "accept" /\ o.node \in Node /\ StateOf(r, o.node) = "Sending"
    BY <1>3 DEF Changed, Accepts, Accept, CanAccept
  <2>2. Changed(r, o) = [r EXCEPT !.nodes = nodes, !.slots = slots]
    BY <1>3 DEF Changed, Accepts, Accept
  <2>3. node.epoch = o.epoch
    OBVIOUS
  <2> HIDE DEF node, slots
  <2>4. \A n \in Node : Changed(r, o).nodes[n] = IF n = o.node THEN node ELSE r.nodes[n]
    BY <2>2 DEF Records
  <2> QED
    BY <2>1, <2>3, <2>4 DEF Settles, IsCompleted, IsInFlight, StateOf
<1>4. CASE o \in Finishes \cup Fails /\ Changed(r, o) # r
  <2>1. o.node \in Node /\ o.op \in {"finish", "fail"}
    BY <1>4 DEF Finishes, Fails
  <2>2. PICK node \in [state : NodeStates, epoch : Nat, turn : AnyTurn] :
           /\ Changed(r, o) = RefreshState([r EXCEPT !.nodes[o.node] = node])
           /\ node.state = "Failed" \/ (node.state = "Completed" /\ IsInFlight(r, o.node))
           /\ ~IsCompleted(r, o.node)
    <3>1. CASE o \in Finishes /\ o.ok
      <4> DEFINE node == [state |-> "Completed", epoch |-> NoEpoch, turn |-> o.turn]
      <4>1. CanComplete(r, o.node, o.epoch, o.turn) /\ Changed(r, o) = RefreshState([r EXCEPT !.nodes[o.node] = node])
        BY <1>4, <3>1 DEF Changed, Finishes, Complete
      <4>2. node \in [state : NodeStates, epoch : Nat, turn : AnyTurn]
        BY <3>1 DEF Finishes, NoEpoch, NodeStates, AnyTurn
      <4>3. node.state = "Completed" /\ ~IsCompleted(r, o.node) /\ IsInFlight(r, o.node)
        BY <4>1 DEF CanComplete, IsCompleted, IsInFlight, StateOf
      <4> HIDE DEF node
      <4> QED
        BY <4>1, <4>2, <4>3
    <3>2. CASE ~(o \in Finishes /\ o.ok)
      <4>1. Changed(r, o) = Fail(r, o.node, o.epoch)
        BY <1>4, <3>2 DEF Changed, Finishes, Fails
      <4>2. CanFail(r, o.node, o.epoch) /\ Changed(r, o) = RefreshState([r EXCEPT !.nodes[o.node] = NodeIn("Failed")])
        BY <1>4, <4>1 DEF Fail
      <4>3. NodeIn("Failed") \in [state : NodeStates, epoch : Nat, turn : AnyTurn] /\ NodeIn("Failed").state = "Failed"
        BY DEF NodeIn, NodeStates, NoEpoch, AnyTurn
      <4>4. ~IsCompleted(r, o.node)
        BY <4>2 DEF CanFail, IsCompleted, IsInFlight, StateOf
      <4> QED
        BY <4>2, <4>3, <4>4
    <3> QED
      BY <3>1, <3>2
  <2> DEFINE q == [r EXCEPT !.nodes[o.node] = node]
  <2>3. q \in Records /\ \A n \in Node : q.nodes[n] = IF n = o.node THEN node ELSE r.nodes[n]
    BY <2>1 DEF Records
  <2>4. Changed(r, o) = RefreshState(q)
    BY <2>2
  <2> HIDE DEF q
  <2>5. \A n \in Node : /\ IsCompleted(q, n) <=> IsCompleted(Changed(r, o), n)
                        /\ IsInFlight(Changed(r, o), n) => Changed(r, o).nodes[n] = q.nodes[n]
    BY <2>3, <2>4, RefreshSettles
  <2> QED
    BY <2>2, <2>3, <2>5 DEF Settles, IsCompleted, IsInFlight, StateOf
<1>5. CASE o \in Stops \cup Resumes /\ Changed(r, o) # r
  <2> DEFINE stopped == [m \in Node |-> IF IsInFlight(r, m) THEN NodeIn("Stopped")
                                        ELSE IF StateOf(r, m) = "Waiting" THEN NodeIn("NotRun") ELSE r.nodes[m]]
             waiting == [m \in Node |-> IF IsCompleted(r, m) THEN r.nodes[m] ELSE NodeIn("Waiting")]
  <2>1. Changed(r, o) \in {[r EXCEPT !.state = "Stopped", !.nodes = stopped],
                           [r EXCEPT !.state = "Running", !.nodes = waiting]}
    BY <1>5 DEF Changed, Stops, Resumes, Stop, Resume
  <2>2. ASSUME NEW n \in Node, NEW m \in {stopped[n], waiting[n]}
        PROVE  /\ r.nodes[n].state = "Completed" <=> m.state = "Completed"
               /\ m.state \notin {"Sending", "Accepted"}
    BY <2>2 DEF NodeIn, IsCompleted, IsInFlight, StateOf
  <2> HIDE DEF stopped, waiting
  <2>3. Changed(r, o).nodes \in {stopped, waiting}
    BY <2>1 DEF Records
  <2> QED
    BY <2>2, <2>3 DEF Settles, IsCompleted, IsInFlight, StateOf
<1>6. CASE o \in Saved
  <2> DEFINE slots == [r.slots EXCEPT ![o.slot].conversation = o.conv]
  <2>1. Changed(r, o) = [r EXCEPT !.slots = slots]
    BY <1>6 DEF Changed, Saved, RecordConversation
  <2> HIDE DEF slots
  <2>2. Changed(r, o).nodes = r.nodes
    BY <2>1 DEF Records
  <2> QED
    BY <2>2 DEF Settles, IsCompleted, StateOf
<1> QED
  BY <1>1, <1>2, <1>3, <1>4, <1>5, <1>6 DEF Changes

(* open() leaves nothing in flight and every completion as it was.          *)
LEMMA InterruptSettles ==
    ASSUME NEW r \in Records, QuietRecord(r)
    PROVE  \A n \in Node : /\ ~IsInFlight(Interrupt(r), n)
                           /\ IsCompleted(r, n) <=> IsCompleted(Interrupt(r), n)
<1> DEFINE nodes == [m \in Node |-> IF IsInFlight(r, m) THEN NodeIn("Interrupted") ELSE r.nodes[m]]
<1>1. CASE IsLive(r)
  <2>1. \A n \in Node : /\ nodes[n].state \notin {"Sending", "Accepted"}
                        /\ r.nodes[n].state = "Completed" <=> nodes[n].state = "Completed"
    BY DEF NodeIn, IsInFlight, StateOf
  <2>2. Interrupt(r) = [r EXCEPT !.state = "Interrupted", !.nodes = nodes]
    BY <1>1 DEF Interrupt
  <2> HIDE DEF nodes
  <2>3. Interrupt(r).nodes = nodes
    BY <2>2 DEF Records
  <2> QED
    BY <2>1, <2>3 DEF IsInFlight, IsCompleted, StateOf
<1>2. CASE ~IsLive(r)
  BY <1>2 DEF Interrupt, QuietRecord
<1> QED
  BY <1>1, <1>2

LEMMA DatedStays == Dated /\ UNCHANGED <<disk, value>> => Dated'
  BY DEF Dated, Timed, Founded, IsInFlight, IsCompleted, StateOf

(* A send and a failure name a node.                                        *)
LEMMA OpNodes ==
    ASSUME NEW o \in Waiting \cup Looks \cup {Idle.op} \cup Changes, o.op \in {"send", "fail"}
    PROVE  o.node \in Node
<1>1. CASE o \in Sends \cup Fails
  BY <1>1 DEF Sends, Fails
<1>2. CASE o \notin Sends \cup Fails
  BY <1>2 DEF Waiting, Changes, Accepts, Finishes, Stops, Resumes, Saved, Looks, PumpOp, Idle
<1> QED
  BY <1>1, <1>2

(* What was owed and met stays met, as completions are not undone.          *)
LEMMA OwedStays ==
    ASSUME NEW r, NEW q, \A n \in Node : IsCompleted(r, n) => IsCompleted(q, n),
           NEW o, o.op \in {"send", "fail"} => o.node \in Node, Owed(r, o)
    PROVE  Owed(q, o)
<1>1. o.op \in {"send", "fail"} /\ NeedsMet(r, o.node) => NeedsMet(q, o.node)
  BY GraphTyped DEF NeedsMet
<1> QED
  BY <1>1 DEF Owed

(* The operation at work goes on: what is left to write is owed nothing     *)
(* new.                                                                     *)
LEMMA PaidStays ==
    ASSUME Types, Paid, \A n \in Node : IsCompleted(value, n) => IsCompleted(value', n),
           pending' = pending, busy'.op = busy.op,
           \A i \in DOMAIN busy'.todo : \E j \in DOMAIN busy.todo : busy'.todo[i] = busy.todo[j]
    PROVE  Paid'
<1>1. \A i \in DOMAIN pending : pending[i].op \in {"send", "fail"} => pending[i].node \in Node
  BY OpNodes DEF Types
<1>2. busy.op.op \in {"send", "fail"} => busy.op.node \in Node
  BY OpNodes DEF Types
<1>3. \A j \in DOMAIN busy.todo :
         busy.todo[j].write = "commit" /\ busy.todo[j].do.op \in {"send", "fail"} => busy.todo[j].do.node \in Node
  <2> TAKE j \in DOMAIN busy.todo
  <2>1. PICK w : w = busy.todo[j]
    OBVIOUS
  <2>2. w \in Writes
    BY <2>1 DEF Types
  <2>3. w.write = "commit" => w.do \in Changes
    BY <2>2 DEF Writes, WritePrompt
  <2> QED
    BY <2>1, <2>3, OpNodes
<1>4. \A i \in DOMAIN pending' : Owed(value', pending'[i])
  BY <1>1, OwedStays DEF Paid
<1>5. Owed(value', busy'.op)
  BY <1>2, OwedStays DEF Paid
<1>6. busy'.op.op = "pump" => \A n \in busy'.op.sends : NeedsMet(value', n)
  <2> SUFFICES ASSUME busy.op.op = "pump", NEW n \in busy.op.sends PROVE NeedsMet(value', n)
    OBVIOUS
  <2>1. busy.op \in Looks
    <3>1. busy.op \in (Waiting \ {PumpOp}) \cup Looks \cup {Idle.op}
      BY DEF Types
    <3> QED
      BY <3>1, PumpIsPump, PumpIsCurrent
  <2>2. n \in Node /\ NeedsMet(value, n)
    BY <2>1 DEF Looks, Paid
  <2> QED
    BY <2>2, GraphTyped DEF NeedsMet
<1>7. ASSUME NEW i \in DOMAIN busy'.todo
      PROVE  /\ busy'.todo[i].write = "commit" => Owed(value', busy'.todo[i].do)
             /\ busy'.todo[i].write = "output" => busy'.todo[i].attempt # 0
  <2>1. PICK j \in DOMAIN busy.todo : busy'.todo[i] = busy.todo[j]
    BY <1>7
  <2> QED
    BY <1>3, <2>1, OwedStays DEF Paid
<1> QED
  BY <1>4, <1>5, <1>6, <1>7 DEF Paid

(* A set of nodes within the limit that holds what will be in flight.       *)
LEMMA RoomWithin ==
    ASSUME NEW T \in SUBSET Node, Cardinality(T) <= MaxParallel, InFlight(value)' \cup SendOut' \subseteq T
    PROVE  Room'
<1> DEFINE S == InFlight(value)' \cup SendOut'
<1>1. IsFiniteSet(T)
  BY NodesFinite, FS_Subset
<1>2. S \in SUBSET T
  OBVIOUS
<1> HIDE DEF S
<1>3. IsFiniteSet(S) /\ Cardinality(S) <= Cardinality(T)
  BY <1>1, <1>2, FS_Subset
<1>4. Cardinality(S) \in Nat /\ Cardinality(T) \in Nat
  BY <1>1, <1>3, FS_CardinalityType
<1>5. Cardinality(S) <= MaxParallel
  BY <1>3, <1>4, MaxParallelPositive
<1> QED
  BY <1>5 DEF Room, S

(* Nothing new is sent.                                                     *)
LEMMA RoomStays ==
    ASSUME Room, open, NEW S \in SUBSET (InFlight(value) \cup SendOut),
           S = InFlight(value)' \cup SendOut'
    PROVE  Room'
<1>1. PICK T : T = InFlight(value) \cup SendOut
  OBVIOUS
<1>2. T \in SUBSET Node /\ Cardinality(T) <= MaxParallel
  BY <1>1 DEF InFlight, SendOut, Room
<1> QED
  BY <1>1, <1>2, RoomWithin

(* A write of the operation at work: a node that goes in flight is the one  *)
(* whose send holds the store, so it had its room and its needs already.    *)
LEMMA StoreSched ==
    ASSUME RuntimeInv, SchedInv, StoreStep \/ WriteFails
    PROVE  SchedInv'
<1> DEFINE w == Head(busy.todo)
<1>1. /\ open /\ busy.todo # <<>>
      /\ UNCHANGED <<pending, host, attempt>>
  BY DEF StoreStep, WriteFails, queue, history
<1>2. /\ Types /\ value \in Records /\ disk \in Records
      /\ busy \in [op : (Waiting \ {PumpOp}) \cup Looks \cup {Idle.op}, todo : Seq(Writes),
                   ok : BOOLEAN, began : BOOLEAN]
  BY DEF RuntimeInv, Types
<1>3. w \in Writes /\ 1 \in DOMAIN busy.todo /\ w = busy.todo[1]
      /\ \A i \in DOMAIN Tail(busy.todo) : i + 1 \in DOMAIN busy.todo /\ Tail(busy.todo)[i] = busy.todo[i + 1]
  <2>1. ASSUME NEW q \in Seq(Writes), q # <<>>
        PROVE  /\ Head(q) \in Writes /\ 1 \in DOMAIN q /\ Head(q) = q[1]
               /\ \A i \in DOMAIN Tail(q) : i + 1 \in DOMAIN q /\ Tail(q)[i] = q[i + 1]
    BY <2>1
  <2> QED
    BY <1>1, <1>2, <2>1
<1>4. /\ busy'.op = busy.op
      /\ busy'.todo = Tail(busy.todo) \/ busy'.todo = <<>>
      /\ \/ value' = value /\ disk' = disk
         \/ /\ w.write = "commit"
            /\ value' \in {value, Changed(value, w.do)} /\ disk' \in {disk, Changed(value, w.do)}
  <2>1. CASE StoreStep /\ w.write = "commit"
    <3>1. CommitStep(w.do)
      BY <2>1 DEF StoreStep
    <3> QED
      BY <1>2, <2>1, <3>1 DEF CommitStep, store
  <2>2. CASE StoreStep /\ w.write # "commit"
    <3>1. busy' = [busy EXCEPT !.todo = Tail(@)] /\ UNCHANGED <<value, disk>>
      BY <2>2 DEF StoreStep, store
    <3> QED
      BY <1>2, <3>1
  <2>3. CASE WriteFails
    <3>1. /\ busy' = [busy EXCEPT !.todo = <<>>, !.ok = FALSE] /\ value' = value
          /\ disk' = disk \/ (w.write = "commit" /\ disk' = Changed(value, w.do))
      BY <2>3 DEF WriteFails
    <3> QED
      BY <1>2, <3>1
  <2> QED
    BY <2>1, <2>2, <2>3
<1>5. \A i \in DOMAIN busy'.todo : \E j \in DOMAIN busy.todo : busy'.todo[i] = busy.todo[j]
  <2>1. DOMAIN <<>> = {}
    OBVIOUS
  <2> QED
    BY <1>3, <1>4, <2>1
<1>6. ASSUME w.write = "commit"
      PROVE  /\ w.do \in Changes /\ Settles(value, Changed(value, w.do), w.do)
             /\ w.do.op \in {"send", "accept"} => w.do = busy.op /\ w.do.epoch # NoEpoch
  <2>1. w.do \in Changes
    BY <1>3, <1>6 DEF Writes, WritePrompt
  <2>2. w.do.op \in {"send", "accept"} => w.do = busy.op
    BY <1>3, <1>6 DEF RuntimeInv, BusyWork
  <2>3. w.do.op \in {"send", "accept"} => w.do \in Sends \cup Accepts
    <3>1. busy.op \in Waiting \cup Looks \cup {Idle.op}
      BY <1>2
    <3> QED
      BY <2>2, <3>1, TagTypes
  <2> QED
    BY <1>2, <2>1, <2>2, <2>3, ChangeSettles DEF Sends, Accepts, PositiveEpoch
<1> HIDE DEF w
<1>7. \A n \in Node : IsCompleted(value, n) => IsCompleted(value', n)
  BY <1>4, <1>6 DEF Settles
<1>8. Paid'
  BY <1>1, <1>2, <1>4, <1>5, <1>7, PaidStays DEF SchedInv
<1>9. InFlight(value)' \cup SendOut' \subseteq InFlight(value) \cup SendOut
  <2>1. SendOut' = SendOut
    BY <1>1, <1>4 DEF SendOut, NoSend
  <2>2. ASSUME NEW n \in Node, IsInFlight(value', n), ~IsInFlight(value, n)
        PROVE  n \in SendOut
    <3>1. w.write = "commit" /\ value' = Changed(value, w.do)
      BY <1>4, <2>2
    <3>2. w.do.op = "send" /\ w.do.node = n
      BY <1>6, <2>2, <3>1 DEF Settles, IsInFlight, StateOf
    <3> QED
      BY <1>6, <3>1, <3>2 DEF SendOut, NoSend, IsSend
  <2> QED
    BY <2>1, <2>2 DEF InFlight
<1>10. Room'
  BY <1>1, <1>9, RoomStays DEF SchedInv
<1>11. Numbered' /\ Dated'
  <2>1. ASSUME w.write = "commit"
        PROVE  Timed(Changed(value, w.do)) /\ Founded(Changed(value, w.do))
    <3> DEFINE q == Changed(value, w.do)
    <3>1. Timed(value) /\ Founded(value) /\ Settles(value, q, w.do) /\ Owed(value, w.do)
      BY <1>1, <1>3, <1>6, <2>1 DEF SchedInv, Dated, Paid
    <3>2. Timed(q)
      BY <1>6, <2>1, <3>1 DEF Timed, Settles, IsInFlight, StateOf
    <3> HIDE DEF q
    <3>3. ASSUME NEW n \in Node, IsInFlight(q, n) \/ IsCompleted(q, n)
          PROVE  \A d \in Ancestors[n] : IsCompleted(value, d)
      <4>1. IsInFlight(value, n) \/ IsCompleted(value, n) \/ NeedsMet(value, n)
        BY <3>1, <3>3 DEF Settles, Owed, IsInFlight, StateOf
      <4>2. NeedsMet(value, n) => \A d \in Ancestors[n] : IsCompleted(value, d)
        BY <3>1, GraphTyped, AncestorsClosed DEF NeedsMet, Founded
      <4> QED
        BY <3>1, <4>1, <4>2 DEF Founded
    <3>4. \A n \in Node : IsCompleted(value, n) => IsCompleted(q, n)
      BY <3>1 DEF Settles
    <3>5. Founded(q)
      BY <3>3, <3>4, GraphTyped DEF Founded
    <3> QED
      BY <3>2, <3>5 DEF q
  <2>2. \A r \in {value', disk'} : Timed(r) /\ Founded(r)
    BY <1>4, <2>1 DEF SchedInv, Dated
  <2>3. Dated'
    BY <2>2 DEF Dated, Timed, Founded, IsInFlight, IsCompleted, StateOf
  <2> QED
    BY <1>1, <2>3 DEF SchedInv, Numbered
<1> QED
  BY <1>8, <1>10, <1>11 DEF SchedInv

(* What the handlers have in common: they queue no send, and nothing that   *)
(* does not meet what it owes.                                              *)
LEMMA HandledSched ==
    ASSUME RuntimeInv, SchedInv, open, NEW new, Grown(new),
           UNCHANGED <<disk, value>>, busy' = busy \/ busy' = Idle,
           \A o \in new : o.op # "send" /\ Owed(value, o),
           Numbered'
    PROVE  SchedInv'
<1>1. Types
  BY DEF RuntimeInv
<1>2. ASSUME NEW i \in DOMAIN pending'
      PROVE  \/ i \in DOMAIN pending /\ pending'[i] = pending[i]
             \/ pending'[i] \in new
             \/ pending'[i] = PumpOp
  BY DEF Grown
<1>3. Owed(value, PumpOp) /\ Owed(value, Idle.op)
  BY DEF Owed, PumpOp, Idle
<1>4. Paid'
  <2>1. \A i \in DOMAIN pending' : Owed(value, pending'[i])
    BY <1>2, <1>3 DEF SchedInv, Paid
  <2>2. CASE busy' = Idle
    BY <1>3, <2>1, <2>2, PumpIsCurrent DEF Paid, Owed, NeedsMet, IsCompleted, StateOf
  <2>3. CASE busy' = busy
    BY <2>1, <2>3 DEF SchedInv, Paid, Owed, NeedsMet, IsCompleted, StateOf
  <2> QED
    BY <2>2, <2>3
<1>5. SendOut' \subseteq SendOut
  <2> SUFFICES ASSUME NEW n \in Node, ~NoSend(n)' PROVE ~NoSend(n)
    BY DEF SendOut
  <2>1. ASSUME NEW i \in DOMAIN pending', IsSend(pending'[i], n)
        PROVE  i \in DOMAIN pending /\ IsSend(pending[i], n)
    BY <1>2, <2>1 DEF IsSend, PumpOp
  <2>2. IsSend(busy'.op, n) \/ busy'.op.op = "pump" => busy' = busy
    BY PumpIsCurrent DEF IsSend
  <2> QED
    BY <2>1, <2>2 DEF NoSend
<1>6. InFlight(value)' \cup SendOut' \subseteq InFlight(value) \cup SendOut
  BY <1>5 DEF InFlight, IsInFlight, StateOf
<1>7. Room'
  BY <1>6, RoomStays DEF SchedInv
<1>8. Dated'
  BY DatedStays DEF SchedInv
<1> QED
  BY <1>4, <1>7, <1>8 DEF SchedInv

(* A handler that only asks for another look.                               *)
LEMMA ScheduledSched ==
    ASSUME RuntimeInv, SchedInv, open, ScheduleAfter(<<>>),
           UNCHANGED <<disk, value>>, busy' = busy \/ busy' = Idle, Numbered'
    PROVE  SchedInv'
<1>2. Grown({})
  BY LookGrows DEF RuntimeInv
<1> QED
  BY <1>2, HandledSched

(* A turn the runtime hears of has a number and an attempt, and so have the *)
(* operations its signals queue.                                            *)
LEMMA SessionSched ==
    ASSUME RuntimeInv, SchedInv, NEW s \in Slot,
           \/ SessionReady(s) \/ SessionExits(s) \/ SessionRestarts(s) \/ IdentityReported(s)
           \/ NeverBegins(s) \/ TurnAccepted(s) \/ \E ok \in BOOLEAN : TurnFinished(s, ok)
    PROVE  SchedInv'
<1>1. open /\ UNCHANGED <<disk, value, attempt, busy>>
  BY DEF SessionReady, SessionExits, SessionRestarts, IdentityReported, NeverBegins, TurnAccepted,
         TurnFinished, SessionEvent, store, Settled
<1>2. Types /\ host \in [Slot -> Hosts]
  BY DEF RuntimeInv, Types
<1>3. Numbered'
  <2>1. ASSUME NEW h \in Hosts, NEW g \in {h, Released(h)}
        PROVE  (g.live = h.live \/ g.live = NoNode) /\ g.status = h.status
    BY <2>1 DEF Released, Hosts, NoEpoch
  <2>2. \E g : /\ host' = [host EXCEPT ![s] = g]
               /\ g.live = host[s].live \/ g.live = NoNode
               /\ g.status = "working" => g.begun # 0
    <3>1. PICK h \in Hosts : h = host[s]
      BY <1>2
    <3>7. h.status = "working" => h.begun # 0
      BY <3>1 DEF SchedInv, Numbered
    <3> DEFINE Edited(g) == /\ g.live = h.live \/ g.live = NoNode
                            /\ g.status = "working" => g.begun # 0
    <3>2. CASE SessionReady(s)
      <4> DEFINE knows == h.known \/ s \notin left.claude \/ h.resumed # NoConversation
                 ready == [h EXCEPT !.status = "idle", !.known = knows]
                 other == [h EXCEPT !.status = "idle", !.known = TRUE, !.conv = made[s] + 1]
      <4>1. host' = [host EXCEPT ![s] = ready] \/ host' = [host EXCEPT ![s] = other]
        BY <1>2, <3>1, <3>2 DEF SessionReady
      <4> HIDE DEF knows
      <4>2. Edited(ready) /\ Edited(other)
        BY DEF Hosts
      <4> HIDE DEF ready, other
      <4> QED
        BY <3>1, <4>1, <4>2
    <3>3. CASE SessionExits(s) \/ SessionRestarts(s)
      <4> DEFINE exited == [h EXCEPT !.status = "exited"]
                 turns == h.turns
                 restarted == [h EXCEPT !.status = "starting", !.epoch = @ + 1, !.begun = turns]
      <4>1. host' = [host EXCEPT ![s] = exited] \/ host' = [host EXCEPT ![s] = restarted]
        BY <1>2, <3>1, <3>3 DEF SessionExits, SessionRestarts
      <4>2. Edited(exited) /\ Edited(restarted)
        BY DEF Hosts
      <4> HIDE DEF exited, restarted
      <4> QED
        BY <3>1, <4>1, <4>2
    <3>4. CASE IdentityReported(s) \/ NeverBegins(s) \/ TurnAccepted(s)
      <4> DEFINE known == [h EXCEPT !.known = TRUE]
                 failed == [h EXCEPT !.begun = @ + 1]
                 begun == [h EXCEPT !.status = "working", !.begun = @ + 1]
      <4>1. \/ host' = [host EXCEPT ![s] = known] \/ host' = [host EXCEPT ![s] = failed]
            \/ host' = [host EXCEPT ![s] = begun]
        BY <1>2, <3>1, <3>4 DEF IdentityReported, NeverBegins, TurnAccepted
      <4>2. Edited(known) /\ Edited(failed) /\ Edited(begun)
        BY <3>7 DEF Hosts
      <4> HIDE DEF known, failed, begun
      <4> QED
        BY <3>1, <4>1, <4>2
    <3>5. ASSUME NEW ok \in BOOLEAN, TurnFinished(s, ok)
          PROVE  \E g : host' = [host EXCEPT ![s] = g] /\ Edited(g)
      <4> DEFINE done == [h EXCEPT !.status = "idle"]
      <4>1. host' = [host EXCEPT ![s] = IF Heard(s) THEN Released(done) ELSE done]
        BY <3>1, <3>5 DEF TurnFinished
      <4>2. done \in Hosts /\ Edited(done)
        BY DEF Hosts
      <4>3. Edited(Released(done))
        <5>1. done.status = "idle"
          BY DEF Hosts
        <5> HIDE DEF done
        <5> QED
          BY <2>1, <4>2, <5>1
      <4> QED
        BY <4>1, <4>2, <4>3
    <3>6. CASE \E ok \in BOOLEAN : TurnFinished(s, ok)
      <4>1. PICK ok \in BOOLEAN : TurnFinished(s, ok)
        BY <3>6
      <4>2. PICK g : host' = [host EXCEPT ![s] = g] /\ Edited(g)
        BY <3>5, <4>1
      <4>3. /\ host' = [host EXCEPT ![s] = g]
            /\ g.live = host[s].live \/ g.live = NoNode
            /\ g.status = "working" => g.begun # 0
        BY <3>1, <4>2
      <4> QED
        BY <4>3, Zenon
    <3> HIDE DEF Edited
    <3> QED
      BY <3>2, <3>3, <3>4, <3>6, Zenon
  <2>3. PICK g : /\ host' = [host EXCEPT ![s] = g]
                 /\ g.live = host[s].live \/ g.live = NoNode
                 /\ g.status = "working" => g.begun # 0
    BY <2>2
  <2> QED
    BY <1>1, <1>2, <2>3 DEF SchedInv, Numbered
<1>4. CASE ScheduleAfter(<<>>)
  BY <1>1, <1>3, <1>4, ScheduledSched
<1>5. CASE ~ScheduleAfter(<<>>)
  <2>1. PICK n : n = host[s].live
    OBVIOUS
  <2>2. host[s] \in Hosts /\ host[s].epoch \in PositiveEpoch
    BY <1>2, <1>5 DEF RuntimeInv, Epochs, TurnAccepted, TurnFinished, Hosts, PositiveEpoch,
         SessionReady, SessionExits, SessionRestarts, IdentityReported, NeverBegins
  <2>3. Heard(s) /\ n \in Node
    BY <1>5, <2>1, <2>2 DEF TurnAccepted, TurnFinished, Heard, Hosts, SessionReady, SessionExits,
         SessionRestarts, IdentityReported, NeverBegins
  <2>4. attempt[n] # 0
    BY <2>1, <2>2, <2>3 DEF SchedInv, Numbered, Heard
  <2>5. \E o \in Accepts \cup Finishes : ScheduleAfter(<<o>>) /\ o.turn # 0 /\ (o \in Finishes => o.attempt # 0)
    <3>1. CASE TurnAccepted(s)
      <4> DEFINE o == [op |-> "accept", node |-> n, epoch |-> host[s].epoch, turn |-> host[s].begun + 1]
      <4>1. ScheduleAfter(<<o>>)
        BY <2>1, <2>3, <3>1 DEF TurnAccepted
      <4>2. o \in Accepts /\ o \notin Finishes
        BY <2>2, <2>3 DEF Accepts, Finishes, Hosts
      <4>3. o.turn # 0
        BY <2>2 DEF Hosts
      <4> QED
        BY <4>1, <4>2, <4>3
    <3>2. ASSUME NEW ok \in BOOLEAN, TurnFinished(s, ok)
          PROVE  \E o \in Accepts \cup Finishes :
                    ScheduleAfter(<<o>>) /\ o.turn # 0 /\ (o \in Finishes => o.attempt # 0)
      <4> DEFINE o == [op |-> "finish", node |-> n, epoch |-> host[s].epoch, turn |-> host[s].begun,
                       ok |-> ok, attempt |-> attempt[n]]
      <4>1. ScheduleAfter(<<o>>)
        BY <2>1, <2>3, <3>2 DEF TurnFinished
      <4>3. host[s].begun # 0
        BY <3>2 DEF SchedInv, Numbered, TurnFinished
      <4>2. o \in Finishes /\ o.turn # 0 /\ o.attempt # 0
        BY <1>2, <2>2, <2>3, <2>4, <4>3 DEF Finishes, Hosts, Types
      <4> HIDE DEF o
      <4> QED
        BY <4>1, <4>2
    <3> QED
      BY <1>5, <3>1, <3>2 DEF SessionReady, SessionExits, SessionRestarts, IdentityReported, NeverBegins
  <2>6. PICK o \in Accepts \cup Finishes :
           ScheduleAfter(<<o>>) /\ o.turn # 0 /\ (o \in Finishes => o.attempt # 0)
    BY <2>5
  <2>7. o \in Waiting /\ o.op \in {"accept", "finish"} /\ (o.op = "finish" => o \in Finishes)
    BY DEF Waiting, Accepts, Finishes
  <2>8. Grown({o})
    BY <1>2, <2>6, <2>7, OpGrows
  <2>9. o.op # "send" /\ Owed(value, o)
    BY <2>6, <2>7 DEF Owed
  <2> QED
    BY <1>1, <1>3, <2>8, <2>9, HandledSched
<1> QED
  BY <1>4, <1>5

(* Stop and resume send nothing and fail no node themselves.                *)
LEMMA UserSched ==
    ASSUME RuntimeInv, SchedInv, UserStop \/ UserResume
    PROVE  SchedInv'
<1>1. open /\ UNCHANGED <<disk, value, attempt, busy>>
  BY DEF UserStop, UserResume, store, history, Settled
<1>2. Types
  BY DEF RuntimeInv
<1>3. PICK o \in Stops \cup Resumes : Enqueue(o)
  BY <1>2, UserQueues
<1>4. o \in Waiting /\ o.op \in {"stop", "resume"}
  BY DEF Waiting, Stops, Resumes
<1>5. Grown({o})
  BY <1>2, <1>3, <1>4, EnqueueGrows
<1>6. Owed(value, o)
  BY <1>4 DEF Owed
<1>7. Numbered'
  <2>1. CASE UserStop
    BY <1>1, <2>1 DEF UserStop, SchedInv, Numbered
  <2>2. CASE UserResume
    <3>1. \A s \in Slot : host'[s] = IF host[s].status = "exited" THEN NoHost ELSE host[s]
      BY <2>2 DEF UserResume
    <3> QED
      BY <1>1, <3>1, NoHostTyped DEF SchedInv, Numbered
  <2> QED
    BY <2>1, <2>2
<1> QED
  BY <1>1, <1>4, <1>5, <1>6, <1>7, HandledSched

(* The continuations of all operations but sends and pumps.                 *)
LEMMA OtherDoneSched ==
    ASSUME RuntimeInv, SchedInv, StoreDone, busy.op.op \notin {"send", "pump"}
    PROVE  SchedInv'
<1>1. /\ open /\ UNCHANGED <<disk, value, attempt>> /\ busy' = Idle /\ ScheduleAfter(<<>>)
      /\ host' = host \/ host' = [s \in Slot |-> Released(host[s])]
  BY DEF StoreDone, StopDone, ResumeDone, history, store
<1>2. host \in [Slot -> Hosts]
  BY DEF RuntimeInv, Types
<1>3. ASSUME NEW h \in Hosts
      PROVE  Released(h).begun = h.begun /\ Released(h).live = NoNode /\ Released(h).status = h.status
  BY DEF Released, Hosts
<1>4. Numbered'
  <2>1. CASE host' = host
    BY <1>1, <2>1 DEF SchedInv, Numbered
  <2>2. CASE host' = [s \in Slot |-> Released(host[s])]
    BY <1>2, <1>3, <2>2 DEF SchedInv, Numbered
  <2> QED
    BY <1>1, <2>1, <2>2
<1> QED
  BY <1>1, <1>4, ScheduledSched

(* A turn that is started gets a number and an attempt; a prompt that was   *)
(* refused fails its node under its epoch, and owes nothing for that.       *)
LEMMA SendDoneSched ==
    ASSUME RuntimeInv, SchedInv, StoreDone, busy.op.op = "send"
    PROVE  SchedInv'
<1> DEFINE o == busy.op
<1>1. /\ open /\ busy' = Idle /\ UNCHANGED <<disk, value>> /\ SendDone(o)
  BY DEF StoreDone, store
<1>2. Types /\ o \in Sends
  BY TagTypes DEF RuntimeInv, Types
<1>3. o.node \in Node /\ o.epoch \in Nat /\ o.epoch # NoEpoch /\ SlotOf[o.node] \in Slot
  BY <1>2, GraphTyped DEF Sends, PositiveEpoch
<1>4. host \in [Slot -> Hosts] /\ attempt \in [Node -> Nat]
  BY <1>2 DEF Types
<1>5. CASE ScheduleAfter(<<>>) /\ UNCHANGED <<host, attempt>>
  <2>1. Numbered'
    BY <1>5 DEF SchedInv, Numbered
  <2> QED
    BY <1>1, <1>5, <2>1, ScheduledSched
<1>6. CASE FailSubmit(o)
  <2> DEFINE f == [op |-> "fail", node |-> o.node, epoch |-> o.epoch]
  <2>1. f \in Waiting /\ f.op = "fail" /\ f.epoch # NoEpoch
    BY <1>3 DEF Waiting, Fails
  <2>2. Enqueue(f) /\ UNCHANGED <<host, attempt>>
    BY <1>6 DEF FailSubmit
  <2> HIDE DEF f
  <2>3. Grown({f})
    BY <1>2, <2>1, <2>2, EnqueueGrows
  <2>4. Owed(value, f)
    BY <2>1 DEF Owed
  <2>5. Numbered'
    BY <2>2 DEF SchedInv, Numbered
  <2> QED
    BY <1>1, <2>1, <2>3, <2>4, <2>5, HandledSched
<1>7. CASE StartTurn(o)
  <2> DEFINE s == SlotOf[o.node]
             turns == host[s].turns + 1
             g == [host[s] EXCEPT !.turns = turns, !.live = o.node, !.liveEpoch = o.epoch]
  <2>1. host' = [host EXCEPT ![s] = g] /\ attempt' = [attempt EXCEPT ![o.node] = attempt[o.node] + 1]
        /\ ScheduleAfter(<<>>)
    BY <1>3, <1>4, <1>7 DEF StartTurn
  <2>2. attempt[o.node] + 1 # 0
    BY <1>3, <1>4 DEF Hosts
  <2>3. g.status = host[s].status /\ g.begun = host[s].begun /\ g.live = o.node
    BY <1>3, <1>4 DEF Hosts
  <2> HIDE DEF g, turns
  <2>4. \A n \in Node : attempt[n] # 0 => attempt'[n] # 0
    BY <1>4, <2>1, <2>2
  <2>5. attempt'[o.node] # 0
    BY <1>3, <1>4, <2>1, <2>2
  <2>6. \A t \in Slot : host'[t] = IF t = s THEN g ELSE host[t]
    BY <1>4, <2>1
  <2>7. \A t \in Slot : host[t].live \in Node \cup {NoNode}
    BY <1>4 DEF Hosts
  <2>8. Numbered'
    BY <2>2, <2>3, <2>4, <2>5, <2>6, <2>7 DEF SchedInv, Numbered
  <2> QED
    BY <1>1, <2>1, <2>8, ScheduledSched
<1> QED
  BY <1>1, <1>5, <1>6, <1>7 DEF SendDone, history

(* The operation that gets the store takes what it met in the queue with    *)
(* it.                                                                      *)
LEMMA StartSched ==
    ASSUME RuntimeInv, SchedInv, StartOperation
    PROVE  SchedInv'
<1> DEFINE o == Head(pending)
<1>1. /\ open /\ busy = Idle /\ pending # <<>> /\ o # PumpOp
      /\ busy' = [op |-> o, todo |-> Work(o), ok |-> TRUE, began |-> FALSE]
      /\ pending' = Tail(pending)
      /\ UNCHANGED <<disk, value, open, host, attempt>>
  BY DEF StartOperation, store, history
<1>2. Types
  BY DEF RuntimeInv
<1>3. /\ Len(pending) \in Nat \ {0} /\ DOMAIN pending = 1..Len(pending) /\ 1 \in DOMAIN pending
      /\ o = pending[1] /\ o \in Waiting
      /\ DOMAIN pending' = 1..(Len(pending) - 1)
      /\ \A i \in DOMAIN pending' : i + 1 \in DOMAIN pending /\ pending'[i] = pending[i + 1]
  BY <1>1, <1>2 DEF Types
<1> HIDE DEF o
<1>4. busy'.op = o /\ busy'.todo = Work(o)
  BY <1>1
<1>5. Owed(value, o) /\ \A i \in DOMAIN pending' : Owed(value, pending'[i])
  BY <1>3 DEF SchedInv, Paid
<1>6. \A i \in DOMAIN Work(o) : Work(o)[i].write = "commit" => Work(o)[i].do = o
  BY <1>1, <1>3, WorkTyped
<1>7. ASSUME NEW i \in DOMAIN Work(o), Work(o)[i].write = "output"
      PROVE  Work(o)[i].attempt # 0
  BY <1>1, <1>3, <1>5, <1>7, WorkNames DEF Owed
<1>8. o.op # "pump"
  BY <1>1, <1>3, PumpIsPump
<1>9. Paid'
  <2>1. \A i \in DOMAIN busy'.todo : busy'.todo[i].write = "commit" => Owed(value', busy'.todo[i].do)
    BY <1>1, <1>4, <1>5, <1>6
  <2> QED
    BY <1>1, <1>4, <1>5, <1>7, <1>8, <2>1 DEF Paid
<1>10. SendOut' \subseteq SendOut
  BY <1>3, <1>4, <1>8 DEF SendOut, NoSend, IsSend
<1>11. InFlight(value)' \cup SendOut' \subseteq InFlight(value) \cup SendOut
  BY <1>1, <1>10 DEF InFlight, IsInFlight, StateOf
<1>12. Room'
  BY <1>1, <1>11, RoomStays DEF SchedInv
<1>13. Numbered' /\ Dated'
  BY <1>1, DatedStays DEF SchedInv, Numbered
<1> QED
  BY <1>9, <1>12, <1>13 DEF SchedInv

(* The end of a look: the sends it queues met their needs and have room.    *)
LEMMA AfterSched ==
    ASSUME RuntimeInv, SchedInv, busy' = Idle, UNCHANGED <<disk, value>>, Numbered',
           NEW q \in Seq(Waiting), NEW k \in Nat, NEW sends \in SUBSET Node, NEW list \in [1..k -> sends],
           QueueAfter(q, k, list),
           \A i \in DOMAIN q : q[i].op # "send" /\ Owed(value, q[i]),
           \A n \in sends : NeedsMet(value, n),
           NEW T \in SUBSET Node, Cardinality(T) <= MaxParallel, InFlight(value) \cup sends \subseteq T
    PROVE  SchedInv'
<1>1. ASSUME NEW i \in DOMAIN pending'
      PROVE  \/ i \in DOMAIN q /\ pending'[i] = q[i]
             \/ pending'[i].op = "send" /\ pending'[i].node \in sends
             \/ pending'[i] = PumpOp
  BY DEF QueueAfter
<1>2. PumpOp.op = "pump" /\ Idle.op.op = "none" /\ Idle.todo = <<>>
  BY DEF PumpOp, Idle
<1>3. Paid'
  <2>1. \A i \in DOMAIN pending' : Owed(value, pending'[i])
    BY <1>1, <1>2 DEF Owed
  <2>2. Owed(value, Idle.op)
    BY <1>2 DEF Owed
  <2> QED
    BY <1>2, <2>1, <2>2 DEF Paid
<1>4. SendOut' \subseteq sends
  <2> SUFFICES ASSUME NEW n \in Node, ~NoSend(n)' PROVE n \in sends
    BY DEF SendOut
  <2>1. PICK i \in DOMAIN pending' : IsSend(pending'[i], n)
    BY <1>2 DEF NoSend, IsSend
  <2> QED
    BY <1>1, <1>2, <2>1 DEF IsSend
<1>5. InFlight(value)' \cup SendOut' \subseteq T
  BY <1>4 DEF InFlight, IsInFlight, StateOf
<1>6. Room'
  BY <1>5, RoomWithin
<1>7. Dated'
  BY DatedStays DEF SchedInv
<1> QED
  BY <1>3, <1>6, <1>7 DEF SchedInv

(* A new session has no turn, and the others keep theirs.                   *)
LEMMA AfterNumbered ==
    ASSUME SchedInv, NEW q, NEW h \in [Slot -> Hosts], NEW r, NEW starts, NEW sends,
           After(q, h, r, starts, sends), UNCHANGED attempt,
           \A s \in Slot : /\ h[s].begun = host[s].begun /\ h[s].status = host[s].status
                           /\ h[s].live \in {host[s].live, NoNode}
    PROVE  Numbered'
<1>1. \A s \in Slot : StartedHost(s, r).status = "starting" /\ StartedHost(s, r).live = NoNode
  BY DEF StartedHost, NoHost
<1>2. \A s \in Slot : host'[s] = IF s \in starts THEN StartedHost(s, r) ELSE h[s]
  BY DEF After
<1> QED
  BY <1>1, <1>2 DEF SchedInv, Numbered

(* What a look decided to send while its findings were being saved is still *)
(* ready and still fits: nothing else was sent meanwhile.                   *)
LEMMA PumpDoneSched ==
    ASSUME RuntimeInv, SchedInv, StoreDone, busy.op.op = "pump"
    PROVE  SchedInv'
<1> DEFINE o == busy.op
<1>1. /\ open /\ busy' = Idle /\ UNCHANGED <<disk, value, attempt>>
      /\ After(pending, host, value, o.starts, o.sends) \/ After(pending, host, value, {}, {})
  BY DEF StoreDone, PumpDone, store
<1>2. Types /\ o \in Looks
  <2>1. o \in (Waiting \ {PumpOp}) \cup Looks \cup {Idle.op}
    BY DEF RuntimeInv, Types
  <2> QED
    BY <2>1, PumpIsPump, PumpIsCurrent DEF RuntimeInv
<1>3. PICK starts \in SUBSET Slot, sends \in SUBSET o.sends : After(pending, host, value, starts, sends)
  <2>1. o.starts \in SUBSET Slot
    BY <1>2 DEF Looks
  <2> QED
    BY <1>1, <2>1
<1>4. pending \in Seq(Waiting) /\ host \in [Slot -> Hosts] /\ value \in Records /\ sends \in SUBSET Node
      /\ \A s \in Slot : host[s].status # "none" => host[s].epoch # NoEpoch
  BY <1>2, <1>3 DEF Types, Looks, RuntimeInv, Epochs
<1>5. PICK k \in Nat : \E list \in [1..k -> sends] : QueueAfter(pending, k, list)
  BY <1>2, <1>3, <1>4, AfterQueue
<1>6. PICK list \in [1..k -> sends] : QueueAfter(pending, k, list)
  BY <1>5
<1>7. \A i \in DOMAIN pending : pending[i].op # "send" /\ Owed(value, pending[i])
  BY DEF RuntimeInv, QueueOrder, SchedInv, Paid
<1>8. \A n \in sends : NeedsMet(value, n)
  BY <1>3 DEF SchedInv, Paid
<1>9. PICK T : T = InFlight(value) \cup SendOut
  OBVIOUS
<1>10. T \in SUBSET Node /\ Cardinality(T) <= MaxParallel /\ InFlight(value) \cup sends \subseteq T
  <2>1. sends \subseteq SendOut
    BY <1>3, <1>4 DEF SendOut, NoSend
  <2> QED
    BY <1>1, <1>9, <2>1 DEF InFlight, SendOut, SchedInv, Room
<1>11. Numbered'
  BY <1>1, <1>3, <1>4, AfterNumbered
<1> QED
  BY <1>1, <1>4, <1>6, <1>7, <1>8, <1>10, <1>11, AfterSched

(* A look sends ready nodes only, no more than there is room for, and what  *)
(* it finds to save meets what it owes.                                     *)
LEMMA PumpSched ==
    ASSUME RuntimeInv, SchedInv, Pump
    PROVE  SchedInv'
<1>1. PICK starts \in SUBSET {s \in Slot : host[s].status = "none"}, S \in SUBSET ReadyNodes,
           convs \in ListedSlots({s \in Slot : NewConversation(s)}),
           exits \in ListedSlots({s \in Slot : ExitedUnder(s)}) :
           \E fails \in ListedNodes(S) :
              LookDoes(starts, Saves(convs) \o ExitFails(exits) \o NextFails(fails))
  BY Look
<1>2. /\ open /\ busy = Idle /\ pending # <<>> /\ Head(pending) = PumpOp
      /\ UNCHANGED <<disk, value, open, attempt>>
  BY DEF Pump, store
<1>3. Types /\ LiveTurns /\ run \in Records /\ run = value
  BY <1>2 DEF RuntimeInv, Types, Installed
<1> DEFINE q == Tail(pending)
<1>4. /\ Len(pending) \in Nat \ {0} /\ DOMAIN pending = 1..Len(pending) /\ 1 \in DOMAIN pending
      /\ pending[1].op = "pump"
      /\ q \in Seq(Waiting) /\ DOMAIN q = 1..(Len(pending) - 1)
      /\ \A i \in DOMAIN q : i + 1 \in DOMAIN pending /\ q[i] = pending[i + 1]
  BY <1>2, <1>3 DEF Types, PumpOp
<1>5. \A i \in DOMAIN q : q[i].op # "send" /\ Owed(value, q[i])
  <2> TAKE i \in DOMAIN q
  <2>1. i + 1 \in DOMAIN pending /\ 1 < i + 1
    BY <1>4
  <2> QED
    BY <1>4, <2>1 DEF RuntimeInv, QueueOrder, SchedInv, Paid
<1>6. /\ Cleared \in [Slot -> Hosts]
      /\ \A s \in Slot : Cleared[s].status # "none" => host[s].epoch # NoEpoch
      /\ \A s \in Slot : /\ Cleared[s].begun = host[s].begun /\ Cleared[s].status = host[s].status
                         /\ Cleared[s].live \in {host[s].live, NoNode}
  <2>1. ASSUME NEW h \in Hosts
        PROVE  /\ Released(h) \in Hosts /\ Released(h).status = h.status /\ Released(h).begun = h.begun
               /\ Released(h).live = NoNode
    BY DEF Released, Hosts, NoEpoch
  <2> QED
    BY <1>3, <2>1 DEF Cleared, Types, RuntimeInv, Epochs
<1>7. LookSends \in SUBSET Node /\ LookSends \subseteq Taken(value) /\ \A n \in LookSends : NeedsMet(value, n)
  BY <1>3 DEF LookSends, DispatchSend, Taken, IsReady, NeedsMet
<1>8. PICK T : T = InFlight(value) \cup Taken(value)
  OBVIOUS
<1>9. T \in SUBSET Node /\ Cardinality(T) <= MaxParallel /\ InFlight(value) \cup LookSends \subseteq T
  <2>1. Cardinality(InFlight(value)) <= MaxParallel
    <3>1. InFlight(value) \cup SendOut \subseteq Node
      BY DEF InFlight, SendOut
    <3>2. IsFiniteSet(InFlight(value) \cup SendOut) /\ InFlight(value) \in SUBSET (InFlight(value) \cup SendOut)
      BY <3>1, NodesFinite, FS_Subset
    <3>3. IsFiniteSet(InFlight(value)) /\ Cardinality(InFlight(value)) <= Cardinality(InFlight(value) \cup SendOut)
      BY <3>2, FS_Subset
    <3>4. Cardinality(InFlight(value)) \in Nat /\ Cardinality(InFlight(value) \cup SendOut) \in Nat
      BY <3>2, <3>3, FS_CardinalityType
    <3> QED
      BY <1>2, <3>3, <3>4, MaxParallelPositive DEF SchedInv, Room
  <2> QED
    BY <1>7, <1>8, <2>1, TakenHasRoom DEF InFlight, Taken
<1> HIDE DEF q
<1>10. CASE After(q, Cleared, run, starts, LookSends) /\ UNCHANGED busy
  <2>1. PICK k \in Nat : \E list \in [1..k -> LookSends] : QueueAfter(q, k, list)
    BY <1>3, <1>4, <1>6, <1>7, <1>10, AfterQueue
  <2>2. PICK list \in [1..k -> LookSends] : QueueAfter(q, k, list)
    BY <2>1
  <2>3. busy' = Idle /\ q \in Seq(Waiting)
    BY <1>2, <1>4, <1>10
  <2>4. Numbered'
    BY <1>2, <1>6, <1>10, AfterNumbered
  <2> QED
    BY <1>2, <1>5, <1>7, <1>9, <2>2, <2>3, <2>4, AfterSched
<1>11. ASSUME NEW fails \in ListedNodes(S),
              busy' = [op |-> [op |-> "pump", starts |-> starts, sends |-> LookSends],
                       todo |-> Saves(convs) \o ExitFails(exits) \o NextFails(fails),
                       ok |-> TRUE, began |-> FALSE],
              host' = Cleared, pending' = q
       PROVE  SchedInv'
  <2>1. PICK todo : todo = Saves(convs) \o ExitFails(exits) \o NextFails(fails)
    OBVIOUS
  <2>2. \A i \in DOMAIN todo : todo[i].write = "commit" /\ Owed(value, todo[i].do)
    <3>1. FoundWork(todo)
      BY <1>3, <2>1, LookWork, Zenon
    <3>2. \A i \in DOMAIN todo : todo[i].write = "commit" /\ Owed(run, todo[i].do)
      BY <3>1, Zenon DEF FoundWork
    <3> QED
      BY <1>3, <3>2
  <2>3. busy'.op.op = "pump" /\ busy'.op.sends = LookSends /\ busy'.todo = todo
    BY <1>11, <2>1
  <2>4. Paid'
    <3>1. Owed(value', busy'.op)
      BY <2>3 DEF Owed
    <3>2. \A i \in DOMAIN pending' : Owed(value', pending'[i])
      BY <1>2, <1>5, <1>11
    <3>3. \A n \in busy'.op.sends : NeedsMet(value', n)
      BY <1>2, <1>7, <2>3
    <3>4. \A i \in DOMAIN busy'.todo : busy'.todo[i].write = "commit" /\ Owed(value', busy'.todo[i].do)
      BY <1>2, <2>2, <2>3
    <3> QED
      BY <3>1, <3>2, <3>3, <3>4 DEF Paid
  <2>5. SendOut' \subseteq LookSends
    BY <1>5, <1>11, <2>3 DEF SendOut, NoSend, IsSend
  <2>6. InFlight(value)' \cup SendOut' \subseteq T
    BY <1>2, <1>9, <2>5 DEF InFlight, IsInFlight, StateOf
  <2>7. Room'
    BY <1>9, <2>6, RoomWithin
  <2>8. Numbered' /\ Dated'
    BY <1>2, <1>6, <1>11, DatedStays DEF SchedInv, Numbered
  <2> QED
    BY <2>4, <2>7, <2>8 DEF SchedInv
<1> QED
  BY <1>1, <1>10, <1>11 DEF q, LookDoes

(* A closed run has nothing queued, an opened one nothing in flight.        *)
LEMMA OpeningSched ==
    ASSUME RuntimeInv, SchedInv, Close \/ Open \/ OpenFails
    PROVE  SchedInv'
<1>1. disk \in Records /\ QuietRecord(disk)
  BY DEF RuntimeInv, Types
<1>2. ~open => busy = Idle /\ pending = <<>> /\ ~scheduled /\ host = [s \in Slot |-> NoHost]
  BY DEF RuntimeInv, Closed
<1>3. /\ disk' \in {disk, Interrupt(disk)} /\ value' = disk' /\ busy' = Idle
      /\ host' = [s \in Slot |-> NoHost]
      /\ open' => disk' = Interrupt(disk)
  BY <1>2 DEF Close, Open, OpenFails, history
<1>4. \A i \in DOMAIN pending' : pending'[i] = PumpOp
  <2>1. CASE Open
    <3>1. pending' = <<>> \o <<>> \o (IF scheduled THEN <<>> ELSE <<PumpOp>>)
      BY <1>2, <2>1 DEF Open, ScheduleAfter
    <3> QED
      BY <1>2, <2>1, <3>1 DEF Open
  <2>2. CASE Close \/ OpenFails
    BY <1>2, <2>2 DEF Close, OpenFails, queue
  <2> QED
    BY <2>1, <2>2
<1>5. Paid'
  BY <1>3, <1>4, PumpIsCurrent DEF Paid, Owed, PumpOp
<1>6. \A n \in Node : ~IsInFlight(Interrupt(disk), n)
  BY <1>1, InterruptSettles
<1>7. Room'
  <2> SUFFICES ASSUME open' PROVE Cardinality(InFlight(value)' \cup SendOut') <= MaxParallel
    BY DEF Room
  <2>1. InFlight(value)' = {}
    BY <1>3, <1>6 DEF InFlight, IsInFlight, StateOf
  <2>2. SendOut' = {}
    BY <1>3, <1>4, PumpIsCurrent DEF SendOut, NoSend, IsSend, PumpOp
  <2>3. InFlight(value)' \cup SendOut' = {}
    BY <2>1, <2>2
  <2> QED
    BY <2>3, FS_EmptySet, MaxParallelPositive
<1>8. Numbered'
  BY <1>3, NoHostTyped DEF Numbered
<1>9. Dated'
  <2>1. \A n \in Node : IsCompleted(disk, n) <=> IsCompleted(Interrupt(disk), n)
    BY <1>1, InterruptSettles
  <2>2. Timed(Interrupt(disk)) /\ Founded(Interrupt(disk))
    BY <1>6, <2>1, GraphTyped DEF SchedInv, Dated, Timed, Founded
  <2>3. \A r \in {value', disk'} : Timed(r) /\ Founded(r)
    BY <1>3, <2>2 DEF SchedInv, Dated
  <2> QED
    BY <2>3 DEF Dated, Timed, Founded, IsInFlight, IsCompleted, StateOf
<1> QED
  BY <1>5, <1>7, <1>8, <1>9 DEF SchedInv

(* A run that was just created.                                             *)
LEMMA InitSched == Init => SchedInv
<1> SUFFICES ASSUME Init PROVE SchedInv
  OBVIOUS
<1>1. \A i \in DOMAIN pending : pending[i] = PumpOp
  BY DEF Init
<1>2. \A n \in Node : ~IsInFlight(NewRecord, n) /\ ~IsCompleted(NewRecord, n)
  BY DEF NewRecord, IsInFlight, IsCompleted, StateOf, NodeIn
<1>3. busy = Idle /\ disk = NewRecord /\ value = NewRecord /\ host = [s \in Slot |-> NoHost]
  BY DEF Init
<1>4. Paid
  BY <1>1, <1>3, PumpIsCurrent DEF Paid, Owed, PumpOp
<1>5. InFlight(value) \cup SendOut = {}
  BY <1>1, <1>2, <1>3, PumpIsCurrent DEF InFlight, SendOut, NoSend, IsSend, PumpOp
<1>6. Room
  BY <1>5, FS_EmptySet, MaxParallelPositive DEF Room
<1> QED
  BY <1>2, <1>3, <1>4, <1>6, NoHostTyped DEF SchedInv, Numbered, Dated, Timed, Founded

(* A step that changes nothing.                                             *)
LEMMA StutterSched ==
    ASSUME SchedInv, UNCHANGED vars
    PROVE  SchedInv'
<1>1. UNCHANGED <<disk, value, open, pending, busy, host, attempt>>
  BY DEF vars, store, queue, history
<1>2. Paid'
  BY <1>1 DEF SchedInv, Paid, Owed, NeedsMet, IsCompleted, StateOf
<1>3. InFlight(value)' = InFlight(value) /\ SendOut' = SendOut
  BY <1>1 DEF InFlight, IsInFlight, StateOf, SendOut, NoSend
<1>4. Room'
  BY <1>1, <1>3 DEF SchedInv, Room
<1> QED
  BY <1>1, <1>2, <1>4, DatedStays DEF SchedInv, Numbered

(* Sends keep to the limit and to the order of the graph in every state of  *)
(* the runtime, from the look that chose them to the commit that records    *)
(* them, whatever sessions, user and crashes do in between.                 *)
LEMMA SchedInvHolds == Spec => []SchedInv
<1>1. RuntimeInv /\ SchedInv /\ [Next]_vars => SchedInv'
  <2> SUFFICES ASSUME RuntimeInv, SchedInv, [Next]_vars PROVE SchedInv'
    OBVIOUS
  <2>1. CASE Pump
    BY <2>1, PumpSched
  <2>2. CASE StartOperation
    BY <2>2, StartSched
  <2>3. CASE StoreStep \/ WriteFails
    BY <2>3, StoreSched
  <2>4. CASE StoreDone
    BY <2>4, SendDoneSched, PumpDoneSched, OtherDoneSched
  <2>5. ASSUME NEW s \in Slot,
               \/ SessionReady(s) \/ SessionExits(s) \/ SessionRestarts(s) \/ IdentityReported(s)
               \/ NeverBegins(s) \/ TurnAccepted(s) \/ \E ok \in BOOLEAN : TurnFinished(s, ok)
        PROVE  SchedInv'
    BY <2>5, SessionSched
  <2>6. CASE UserStop \/ UserResume
    BY <2>6, UserSched
  <2>7. CASE Close \/ Open \/ OpenFails
    BY <2>7, OpeningSched
  <2>8. CASE UNCHANGED vars
    BY <2>8, StutterSched
  <2> QED
    BY <2>1, <2>2, <2>3, <2>4, <2>5, <2>6, <2>7, <2>8 DEF Next, TurnFailsUnnamed, TurnRefused
<1> QED
  BY <1>1, InitSched, RuntimeInvHolds, PTL DEF Spec

-------------------------------------------------------------------------------
(* The refinement. *)

(* The ids and counters of the program: TLC bounds them, the code does not. *)
Unbounded ==
    /\ Nat \ {0} \subseteq Epoch /\ Nat \ {0} \subseteq Turn /\ Nat \ {0} \subseteq Attempt
    /\ Nat \ {NoConversation} \subseteq Conversation

(* The operators OrchestrationRun is built from are those of the runtime:   *)
(* both extend RunRecord, and the refinement leaves its constants alone.    *)
LEMMA SameOperations ==
    /\ \A r, n, e : Abstract!CanBeginSend(r, n) = CanBeginSend(r, n)
                    /\ Abstract!BeginSend(r, n, e) = BeginSend(r, n, e)
    /\ \A r, n, e : Abstract!CanAccept(r, n, e) = CanAccept(r, n, e)
    /\ \A r, n, e, t : Abstract!Accept(r, n, e, t) = Accept(r, n, e, t)
    /\ \A r, n, e, t : Abstract!CanComplete(r, n, e, t) = CanComplete(r, n, e, t)
                       /\ Abstract!Complete(r, n, e, t) = Complete(r, n, e, t)
    /\ \A r, n, e : Abstract!CanFail(r, n, e) = CanFail(r, n, e) /\ Abstract!Fail(r, n, e) = Fail(r, n, e)
    /\ \A r, n : Abstract!IsReady(r, n) = IsReady(r, n) /\ Abstract!IsCompleted(r, n) = IsCompleted(r, n)
    /\ \A r : Abstract!InFlight(r) = InFlight(r)
              /\ Abstract!IsLive(r) = IsLive(r) /\ Abstract!IsResumable(r) = IsResumable(r)
              /\ Abstract!Stop(r) = Stop(r) /\ Abstract!Resume(r) = Resume(r)
              /\ Abstract!Interrupt(r) = Interrupt(r)
    /\ \A r, s, c : Abstract!RecordConversation(r, s, c) = RecordConversation(r, s, c)
    /\ \A S : Abstract!Cardinality(S) = Cardinality(S)
    /\ Abstract!NewRecord = NewRecord /\ Abstract!NoEpoch = NoEpoch
<1>1. /\ \A r, n : Abstract!StateOf(r, n) = StateOf(r, n)
      /\ \A s : Abstract!NodeIn(s) = NodeIn(s)
      /\ Abstract!NoEpoch = NoEpoch
  BY DEF Abstract!StateOf, StateOf, Abstract!NodeIn, NodeIn, Abstract!NoEpoch, NoEpoch
<1>2. /\ \A r, n : Abstract!IsInFlight(r, n) = IsInFlight(r, n)
      /\ \A r, n : Abstract!IsCompleted(r, n) = IsCompleted(r, n)
      /\ \A r : Abstract!IsLive(r) = IsLive(r)
      /\ \A r : Abstract!IsResumable(r) = IsResumable(r)
  BY <1>1 DEF Abstract!IsInFlight, IsInFlight, Abstract!IsCompleted, IsCompleted, Abstract!IsLive, IsLive,
              Abstract!IsResumable, IsResumable
<1>3. \A r : Abstract!InFlight(r) = InFlight(r)
  BY <1>2 DEF Abstract!InFlight, InFlight
<1>4. /\ \A r, n : Abstract!CanBeginSend(r, n) = CanBeginSend(r, n)
      /\ \A r, n, e : Abstract!CanAccept(r, n, e) = CanAccept(r, n, e)
      /\ \A r, n, e, t : Abstract!CanComplete(r, n, e, t) = CanComplete(r, n, e, t)
  BY <1>1 DEF Abstract!CanBeginSend, CanBeginSend, Abstract!CanAccept, CanAccept,
              Abstract!CanComplete, CanComplete
<1>5. \A r, n, e : Abstract!CanFail(r, n, e) = CanFail(r, n, e)
  BY <1>1, <1>2 DEF Abstract!CanFail, CanFail
<1>6. \A r, n : Abstract!IsReady(r, n) = IsReady(r, n)
  BY <1>1, <1>2 DEF Abstract!IsReady, IsReady
<1>7. \A r : Abstract!RefreshState(r) = RefreshState(r)
  BY <1>1, <1>2 DEF Abstract!RefreshState, RefreshState
<1>8. \A r, n, e : Abstract!BeginSend(r, n, e) = BeginSend(r, n, e)
  BY <1>4 DEF Abstract!BeginSend, BeginSend
<1>9. \A r, n, e, t : Abstract!Accept(r, n, e, t) = Accept(r, n, e, t)
  BY <1>4 DEF Abstract!Accept, Accept
<1>10. \A r, n, e, t : Abstract!Complete(r, n, e, t) = Complete(r, n, e, t)
  BY <1>1, <1>4, <1>7 DEF Abstract!Complete, Complete
<1>11. \A r, n, e : Abstract!Fail(r, n, e) = Fail(r, n, e)
  BY <1>1, <1>5, <1>7 DEF Abstract!Fail, Fail
<1>12. \A r : Abstract!Stop(r) = Stop(r) /\ Abstract!Resume(r) = Resume(r) /\ Abstract!Interrupt(r) = Interrupt(r)
  BY <1>1, <1>2 DEF Abstract!Stop, Stop, Abstract!Resume, Resume, Abstract!Interrupt, Interrupt
<1>13. \A r, s, c : Abstract!RecordConversation(r, s, c) = RecordConversation(r, s, c)
  BY DEF Abstract!RecordConversation, RecordConversation
<1>14. Abstract!NewRecord = NewRecord
  BY <1>1 DEF Abstract!NewRecord, NewRecord
<1>15. \A S : Abstract!Cardinality(S) = Cardinality(S)
  BY DEF Abstract!Cardinality, Cardinality
<1> QED
  BY <1>1, <1>2, <1>3, <1>4, <1>5, <1>6, <1>8, <1>9, <1>10, <1>11, <1>12, <1>13, <1>14, <1>15

(* A change that meets what it owes is a step OrchestrationRun allows, or   *)
(* none at all when its guard finds it out of date.                         *)
LEMMA ChangeImplements ==
    ASSUME Unbounded, disk \in Records, Timed(disk), NEW o \in Changes, Owed(disk, o),
           o.op = "send" /\ CanBeginSend(disk, o.node) => Cardinality(InFlight(disk)) < MaxParallel,
           o.op = "finish" /\ o.ok => outputs[o.node] = o.attempt,
           disk' = Changed(disk, o), outputs' = outputs
    PROVE  [Abstract!Next]_(Abstract!vars)
<1>1. CASE disk' = disk
  BY <1>1 DEF Abstract!vars
<1> SUFFICES ASSUME disk' # disk PROVE Abstract!Next
  BY <1>1
<1>2. CASE o \in Sends
  <2>1. o.node \in Node /\ o.epoch \in Epoch /\ o.op = "send"
    BY <1>2 DEF Sends, PositiveEpoch, Unbounded, NoEpoch
  <2>2. disk' = BeginSend(disk, o.node, o.epoch) /\ CanBeginSend(disk, o.node)
    BY <2>1 DEF Changed, BeginSend
  <2>3. IsReady(disk, o.node)
    BY <2>1, <2>2 DEF IsReady, CanBeginSend, Owed, NeedsMet
  <2>4. Cardinality(InFlight(disk)) < MaxParallel
    BY <2>1, <2>2
  <2>5. /\ Abstract!CanBeginSend(disk, o.node) /\ Abstract!IsReady(disk, o.node)
        /\ Abstract!Cardinality(Abstract!InFlight(disk)) = Cardinality(InFlight(disk))
        /\ disk' = Abstract!BeginSend(disk, o.node, o.epoch)
    BY <2>2, <2>3, SameOperations, Zenon
  <2>6. Abstract!SendNode(o.node, o.epoch)
    BY <2>4, <2>5 DEF Abstract!SendNode
  <2> QED
    BY <2>1, <2>6 DEF Abstract!Next
<1>3. CASE o \in Accepts
  <2>1. o.node \in Node /\ o.epoch \in Epoch /\ o.turn \in Turn /\ o.op = "accept"
    BY <1>3 DEF Accepts, PositiveEpoch, Unbounded, NoEpoch, Owed
  <2>2. disk' = Accept(disk, o.node, o.epoch, o.turn) /\ CanAccept(disk, o.node, o.epoch)
    BY <2>1 DEF Changed, Accept
  <2>3. Abstract!AcceptTurn(o.node, o.epoch, o.turn)
    BY <2>2, SameOperations DEF Abstract!AcceptTurn
  <2> QED
    BY <2>1, <2>3 DEF Abstract!Next
<1>4. CASE o \in Finishes /\ o.ok
  <2>1. /\ o.node \in Node /\ o.epoch \in Epoch /\ o.turn \in Turn /\ o.op = "finish"
        /\ outputs[o.node] # 0
    BY <1>4 DEF Finishes, PositiveEpoch, Unbounded, NoEpoch, Owed
  <2>2. disk' = Complete(disk, o.node, o.epoch, o.turn) /\ CanComplete(disk, o.node, o.epoch, o.turn)
    BY <1>4, <2>1 DEF Changed, Complete
  <2>3. Abstract!CompleteNode(o.node, o.epoch, o.turn)
    BY <2>1, <2>2, SameOperations DEF Abstract!CompleteNode
  <2> QED
    BY <2>1, <2>3 DEF Abstract!Next
<1>5. CASE o \in Fails \/ (o \in Finishes /\ ~o.ok)
  <2>1. /\ o.node \in Node /\ o.epoch \in Epoch \cup {NoEpoch} /\ o.op \in {"fail", "finish"}
        /\ o.epoch = NoEpoch => o.op = "fail"
        /\ disk' = Fail(disk, o.node, o.epoch)
    BY <1>5 DEF Changed, Finishes, Fails, PositiveEpoch, Unbounded, NoEpoch
  <2>2. CanFail(disk, o.node, o.epoch)
    BY <2>1 DEF Fail
  <2>3. o.epoch = NoEpoch => IsReady(disk, o.node)
    BY <2>1, <2>2 DEF CanFail, Timed, IsReady, Owed, NeedsMet
  <2>4. Abstract!FailNode(o.node, o.epoch)
    BY <2>1, <2>2, <2>3, SameOperations DEF Abstract!FailNode
  <2> QED
    BY <2>1, <2>4, SameOperations DEF Abstract!Next
<1>6. CASE o \in Stops \cup Resumes
  <2>1. \/ disk' = Stop(disk) /\ IsLive(disk)
        \/ disk' = Resume(disk) /\ IsResumable(disk)
    BY <1>6 DEF Changed, Stops, Resumes, Stop, Resume
  <2>2. Abstract!StopRun \/ Abstract!ResumeRun
    BY <2>1, SameOperations DEF Abstract!StopRun, Abstract!ResumeRun
  <2> QED
    BY <2>2 DEF Abstract!Next
<1>7. CASE o \in Saved
  <2>1. o.slot \in Slot /\ o.conv \in Conversation
    BY <1>7 DEF Saved, AnyConversation, Unbounded, Owed
  <2>2. disk' = RecordConversation(disk, o.slot, o.conv)
    BY <1>7 DEF Changed, Saved
  <2>3. disk.slots[o.slot].conversation # o.conv
    <3> SUFFICES ASSUME disk.slots[o.slot].conversation = o.conv PROVE disk' = disk
      OBVIOUS
    <3> DEFINE slot == [disk.slots[o.slot] EXCEPT !.conversation = o.conv]
    <3>1. disk.slots[o.slot] \in [conversation : AnyConversation, opened : BOOLEAN]
      BY <2>1 DEF Records
    <3>2. slot = disk.slots[o.slot]
      BY <3>1
    <3>3. disk' = [disk EXCEPT !.slots = [disk.slots EXCEPT ![o.slot] = slot]]
      BY <2>2 DEF RecordConversation
    <3> HIDE DEF slot
    <3>4. [disk.slots EXCEPT ![o.slot] = slot] = disk.slots
      BY <2>1, <3>2 DEF Records
    <3> QED
      BY <3>3, <3>4 DEF Records
  <2>4. Abstract!SaveConversation(o.slot, o.conv)
    BY <2>2, <2>3, SameOperations DEF Abstract!SaveConversation
  <2> QED
    BY <2>1, <2>4 DEF Abstract!Next
<1> QED
  BY <1>2, <1>3, <1>4, <1>5, <1>6, <1>7 DEF Changes

(* When a completion is next to be saved, the output it shows is written.   *)
LEMMA CompletionWritten ==
    ASSUME RuntimeInv, FilesInv, busy.todo # <<>>, NEW w, w = Head(busy.todo),
           w.write = "commit", w.do.op = "finish", w.do.ok
    PROVE  Written(w.do)
<1>1. busy.todo \in Seq(Writes)
  BY DEF RuntimeInv, Types
<1>2. 1 \in DOMAIN busy.todo /\ w = busy.todo[1]
  BY <1>1
<1>3. w.do = busy.op
  BY <1>2 DEF RuntimeInv, BusyWork
<1>4. PICK t, p, c : /\ t = WriteTranscript(busy.op.node, busy.op.attempt)
                     /\ p = WriteOutput(busy.op.node, busy.op.attempt) /\ c = Commit(busy.op)
  OBVIOUS
<1>5. t.write = "transcript" /\ p.write = "output"
  BY <1>4 DEF WriteTranscript, WriteOutput
<1>6. \/ busy.todo = <<t, p, c>>
      \/ busy.todo = <<p, c>>
      \/ Written(busy.op)
  BY <1>3, <1>4 DEF FilesInv, FilesFirst, Work
<1>7. <<t, p, c>>[1] = t /\ <<p, c>>[1] = p
  OBVIOUS
<1> QED
  BY <1>2, <1>3, <1>5, <1>6, <1>7

(* When a send is next to be saved, there is room for its node: the node is *)
(* among those sent, and not yet among those in flight.                     *)
LEMMA SendHasRoom ==
    ASSUME RuntimeInv, SchedInv, open, busy.todo # <<>>, NEW w, w = Head(busy.todo),
           w.write = "commit", w.do.op = "send", CanBeginSend(value, w.do.node)
    PROVE  Cardinality(InFlight(value)) < MaxParallel
<1> DEFINE n == w.do.node
           F == InFlight(value)
<1>1. busy.todo \in Seq(Writes) /\ busy.op \in Waiting \cup Looks \cup {Idle.op}
  BY DEF RuntimeInv, Types
<1>2. 1 \in DOMAIN busy.todo /\ w = busy.todo[1]
  BY <1>1
<1>3. w.do = busy.op
  BY <1>2 DEF RuntimeInv, BusyWork
<1>4. n \in Node
  BY <1>1, <1>3, TagTypes DEF Sends
<1>5. n \in SendOut
  BY <1>3, <1>4 DEF SendOut, NoSend, IsSend
<1>6. n \notin F
  BY DEF CanBeginSend, InFlight, IsInFlight
<1>7. F \cup SendOut \subseteq Node
  BY DEF InFlight, SendOut
<1>8. IsFiniteSet(F \cup SendOut) /\ IsFiniteSet(F)
  BY <1>7, NodesFinite, FS_Subset
<1> HIDE DEF F, n
<1>9. Cardinality(F \cup {n}) = Cardinality(F) + 1 /\ Cardinality(F) \in Nat /\ IsFiniteSet(F \cup {n})
  BY <1>6, <1>8, FS_AddElement, FS_CardinalityType
<1>10. Cardinality(F \cup {n}) <= Cardinality(F \cup SendOut)
  <2>1. F \cup {n} \subseteq F \cup SendOut
    BY <1>5
  <2> QED
    BY <1>8, <2>1, FS_Subset
<1>11. Cardinality(F \cup SendOut) <= MaxParallel /\ Cardinality(F \cup SendOut) \in Nat
  BY <1>8, FS_CardinalityType DEF SchedInv, Room, F
<1>12. Cardinality(F \cup {n}) \in Nat
  BY <1>9
<1>13. Cardinality(F) < MaxParallel
  BY <1>9, <1>10, <1>11, MaxParallelPositive
<1> QED
  BY <1>13 DEF F

(* Every write of the store is a step OrchestrationRun allows.              *)
LEMMA StoreImplements ==
    ASSUME Unbounded, RuntimeInv, FilesInv, SchedInv, StoreStep \/ WriteFails
    PROVE  [Abstract!Next]_(Abstract!vars)
<1>1. open /\ busy.todo # <<>>
  BY DEF StoreStep, WriteFails
<1>2. PICK w : w = Head(busy.todo)
  OBVIOUS
<1>3. /\ disk \in Records /\ value \in Records /\ busy.todo \in Seq(Writes)
      /\ outputs \in [Node -> Nat] /\ (~latched => disk = value)
  BY <1>1 DEF RuntimeInv, FilesInv, DiskMatchesStore, Types
<1>4. w \in Writes /\ 1 \in DOMAIN busy.todo /\ w = busy.todo[1]
  BY <1>1, <1>2, <1>3
<1>5. CASE w.write = "commit" /\ ~latched /\ disk' = Changed(value, w.do) /\ outputs' = outputs
  <2>1. PICK o \in Changes : o = w.do
    BY <1>4, <1>5 DEF Writes, WritePrompt
  <2>2. disk = value /\ Owed(value, o) /\ Timed(value)
    BY <1>3, <1>4, <1>5, <2>1 DEF SchedInv, Dated, Paid
  <2>3. o.op = "send" /\ CanBeginSend(disk, o.node) => Cardinality(InFlight(disk)) < MaxParallel
    BY <1>1, <1>2, <1>5, <2>1, <2>2, SendHasRoom
  <2>4. o.op = "finish" /\ o.ok => outputs[o.node] = o.attempt
    BY <1>1, <1>2, <1>5, <2>1, CompletionWritten DEF Written
  <2>5. disk' = Changed(disk, o)
    BY <1>5, <2>1, <2>2
  <2>6. Owed(disk, o) /\ Timed(disk)
    BY <2>2
  <2> QED
    BY <1>3, <1>5, <2>3, <2>4, <2>5, <2>6, ChangeImplements
<1>6. CASE w.write = "output" /\ disk' = disk /\ outputs' = [outputs EXCEPT ![w.node] = w.attempt]
  <2>1. w.node \in Node /\ w.attempt \in Nat /\ w.attempt = attempt[w.node] /\ w.attempt # 0
    BY <1>4, <1>6 DEF Writes, WritePrompt, FilesInv, Fresh, SchedInv, Paid
  <2>2. CASE IsCompleted(disk, w.node)
    <3>1. outputs[w.node] = w.attempt
      BY <2>1, <2>2 DEF FilesInv, Shows
    <3>2. outputs' = outputs
      BY <1>3, <1>6, <2>1, <3>1
    <3> QED
      BY <1>6, <3>2 DEF Abstract!vars
  <2>3. CASE ~IsCompleted(disk, w.node)
    <3>1. w.attempt \in Attempt
      BY <2>1 DEF Unbounded
    <3>2. Abstract!SaveOutput(w.node, w.attempt)
      BY <1>6, <2>3, SameOperations DEF Abstract!SaveOutput
    <3> QED
      BY <2>1, <3>1, <3>2 DEF Abstract!Next
  <2> QED
    BY <2>2, <2>3
<1>7. \/ disk' = disk /\ outputs' = outputs
      \/ w.write = "commit" /\ ~latched /\ disk' = Changed(value, w.do) /\ outputs' = outputs
      \/ w.write = "output" /\ disk' = disk /\ outputs' = [outputs EXCEPT ![w.node] = w.attempt]
  <2>1. CASE StoreStep /\ w.write = "commit"
    <3>1. CommitStep(w.do)
      BY <1>2, <2>1 DEF StoreStep
    <3> QED
      BY <2>1, <3>1 DEF CommitStep, store
  <2>2. CASE StoreStep /\ w.write # "commit"
    BY <1>2, <2>2 DEF StoreStep, store
  <2>3. CASE WriteFails
    BY <1>2, <2>3 DEF WriteFails
  <2> QED
    BY <2>1, <2>2, <2>3
<1>8. CASE disk' = disk /\ outputs' = outputs
  BY <1>8 DEF Abstract!vars
<1> QED
  BY <1>5, <1>6, <1>7, <1>8

(* open() interrupts a run that was going, saved or not.                    *)
LEMMA OpeningImplements ==
    ASSUME Open \/ OpenFails
    PROVE  [Abstract!Next]_(Abstract!vars)
<1>1. outputs' = outputs /\ disk' \in {disk, Interrupt(disk)}
  BY DEF Open, OpenFails
<1>2. CASE disk' = disk
  BY <1>1, <1>2 DEF Abstract!vars
<1>3. CASE disk' # disk
  <2>1. disk' = Interrupt(disk) /\ IsLive(disk)
    BY <1>1, <1>3 DEF Interrupt
  <2>2. Abstract!InterruptRun
    BY <1>1, <2>1, SameOperations DEF Abstract!InterruptRun
  <2> QED
    BY <2>2 DEF Abstract!Next
<1> QED
  BY <1>2, <1>3

(* No other step changes the saved record or the outputs.                   *)
LEMMA OtherImplements ==
    ASSUME \/ Pump \/ StartOperation \/ StoreDone \/ UserStop \/ UserResume \/ Close
           \/ \E s \in Slot :
                 \/ SessionReady(s) \/ SessionExits(s) \/ SessionRestarts(s) \/ IdentityReported(s)
                 \/ TurnAccepted(s) \/ NeverBegins(s) \/ \E ok \in BOOLEAN : TurnFinished(s, ok)
           \/ UNCHANGED vars
    PROVE  [Abstract!Next]_(Abstract!vars)
<1>1. UNCHANGED <<disk, outputs>>
  BY DEF Pump, StartOperation, StoreDone, UserStop, UserResume, Close, SessionReady, SessionExits, SessionRestarts,
         IdentityReported, TurnAccepted, NeverBegins, TurnFinished, SessionEvent, store, vars
<1> QED
  BY <1>1 DEF Abstract!vars

(* The saved record and outputs change as OrchestrationRun allows and in no *)
(* other way, through queue, writes that fail or stop short, crashes and    *)
(* reopening: a node is sent when the nodes it needs have completed and     *)
(* max_parallel leaves room (schedule.rs:38), ends by the turn that was     *)
(* accepted for it, with its output saved before (mod.rs:767), and stays    *)
(* completed. What every run of OrchestrationRun satisfies, the saved run   *)
(* does.                                                                    *)
THEOREM RunImplemented ==
    ASSUME Unbounded
    PROVE  Spec => ImplementsRun
<1>1. Init => Abstract!Init
  BY SameOperations DEF Init, Abstract!Init
<1>2. RuntimeInv /\ FilesInv /\ SchedInv /\ [Next]_vars => [Abstract!Next]_(Abstract!vars)
  <2> SUFFICES ASSUME RuntimeInv, FilesInv, SchedInv, [Next]_vars PROVE [Abstract!Next]_(Abstract!vars)
    OBVIOUS
  <2>1. CASE StoreStep \/ WriteFails
    BY <2>1, StoreImplements
  <2>2. CASE Open \/ OpenFails
    BY <2>2, OpeningImplements
  <2>3. CASE Pump \/ StartOperation \/ StoreDone \/ UserStop \/ UserResume \/ Close \/ UNCHANGED vars
    BY <2>3, OtherImplements
  <2>4. ASSUME NEW s \in Slot,
               \/ SessionReady(s) \/ SessionExits(s) \/ SessionRestarts(s) \/ IdentityReported(s)
               \/ TurnAccepted(s) \/ NeverBegins(s) \/ \E ok \in BOOLEAN : TurnFinished(s, ok)
        PROVE  [Abstract!Next]_(Abstract!vars)
    BY <2>4, OtherImplements
  <2> QED
    BY <2>1, <2>2, <2>3, <2>4 DEF Next, TurnFailsUnnamed, TurnRefused
<1> QED
  BY <1>1, <1>2, RuntimeInvHolds, FilesInvHolds, SchedInvHolds, PTL DEF Spec, ImplementsRun, Abstract!Spec

-------------------------------------------------------------------------------
(* No node is left in flight by itself. *)

\* What a world allows never changes, only how much of it is left.
Remaining == [claude : SUBSET Slot, kinds : SUBSET FaultKinds, faults : Nat, stops : Nat, resumes : Nat]

WorldKept == left' \in Remaining /\ left'.kinds = left.kinds /\ left'.claude = left.claude

Trusted == open /\ ~error /\ busy.ok

IsAccept(o, n) == o.op = "accept" /\ o.node = n

AcceptAtWork(n) == IsAccept(busy.op, n) /\ busy.todo # <<>>

\* A failed write is remembered as long as the runtime shows no error.
StoreWorks == Trusted => ~latched

\* A slot a look wants to start has no session.
StartsAbsent == busy.op.op = "pump" => \A s \in busy.op.starts : host[s].status = "none"

\* No accept of an earlier turn waits behind a send of the node.
AcceptOrder ==
    /\ \A i, j \in DOMAIN pending : i < j /\ pending[i].op = "send" => ~IsAccept(pending[j], pending[i].node)
    /\ busy.op.op = "send" => \A i \in DOMAIN pending : ~IsAccept(pending[i], busy.op.node)

\* A saved stop left nothing in flight.
StopQuiet == StopSaved => \A n \in Node : ~IsInFlight(value, n)

\* A host waits for a turn that was sent, that runs, that went with its session,
\* or that can have gone silent.
LiveStatus(h, s) ==
    /\ h.begun <= h.turns
    /\ h.live # NoNode =>
          \/ h.status = "exited"
          \/ h.liveEpoch = h.epoch /\ (h.status = "working" \/ (h.status = "idle" /\ h.begun < h.turns))
          \/ h.status \in {"starting", "idle"} /\ h.begun = h.turns /\ MayGoSilent(s)

HostsLive == \A s \in Slot : LiveStatus(host[s], s)

\* The record knows turn t of n, or will by the time pending[j] is at work.
TurnKnown(n, t, j) ==
    \/ value.nodes[n].state = "Accepted" /\ value.nodes[n].turn = t
    \/ /\ value.nodes[n].state = "Sending"
       /\ \A i \in DOMAIN pending : IsAccept(pending[i], n) =>
             pending[i].epoch = value.nodes[n].epoch /\ pending[i].turn = t
       /\ AcceptAtWork(n) => busy.op.epoch = value.nodes[n].epoch /\ busy.op.turn = t
       /\ AcceptAtWork(n) \/ \E i \in DOMAIN pending : i < j /\ IsAccept(pending[i], n)

Unaccepted(n) ==
    /\ value.nodes[n].state = "Sending"
    /\ \A i \in DOMAIN pending : ~IsAccept(pending[i], n)
    /\ ~AcceptAtWork(n)

\* The host of n's slot waits for the turn of n.
WorkedOn(n) ==
    LET h == host[SlotOf[n]]
    IN  /\ h.live = n
        /\ h.status = "working" => TurnKnown(n, h.begun, Len(pending) + 1)
        /\ h.status = "idle" /\ h.begun < h.turns => Unaccepted(n)

\* What g shows of a turn, h showed before.
GoesOn(h, g) ==
    /\ g.status = "working" => h.status = "working" /\ g.begun = h.begun
    /\ g.status = "idle" /\ g.begun < g.turns => h.status = "idle" /\ h.begun < h.turns

Ends(o, n) == o.op \in {"fail", "finish"} /\ o.node = n /\ o.epoch = value.nodes[n].epoch

\* An operation that will end n is queued, or has the store.
EndQueued(n) ==
    \E j \in DOMAIN pending :
        /\ Ends(pending[j], n)
        /\ pending[j].op = "finish" /\ pending[j].ok => TurnKnown(n, pending[j].turn, j)

EndAtWork(n) ==
    \E i \in DOMAIN busy.todo :
        /\ busy.todo[i].write = "commit" /\ Ends(busy.todo[i].do, n)
        /\ busy.todo[i].do.op = "finish" /\ busy.todo[i].do.ok =>
              value.nodes[n].state = "Accepted" /\ value.nodes[n].turn = busy.todo[i].do.turn

\* Its send has been saved and is about to be submitted.
JustSent(n) == busy.began /\ busy.op.node = n /\ value.nodes[n].state = "Sending"

CaredFor(n) == WorkedOn(n) \/ EndQueued(n) \/ EndAtWork(n) \/ JustSent(n)

Guarded == Trusted => \A n \in Node : IsInFlight(value, n) => CaredFor(n)

\* An operation's change of the record is the last thing it writes.
CommitLast == busy.todo # <<>> => busy.todo[Len(busy.todo)].write = "commit"

OrphanInv ==
    /\ left \in Remaining
    /\ QuietRecord(run) /\ CommitLast /\ StoreWorks /\ StartsAbsent /\ AcceptOrder /\ StopQuiet /\ HostsLive /\ Guarded

(* A step spends what the world allows and changes nothing else of it.      *)
LEMMA WorldStays ==
    ASSUME left \in Remaining, [Next]_vars
    PROVE  WorldKept
<1> DEFINE Spent == left' \in Remaining /\ left'.kinds = left.kinds /\ left'.claude = left.claude
<1> SUFFICES Spent
  BY DEF WorldKept
<1>1. \A kind : Fault(kind) => Spent
  BY DEF Fault, Remaining
<1>2. left' = left => Spent
  OBVIOUS
<1> HIDE DEF Spent
<1>3. CASE Pump
  BY <1>1, <1>2, <1>3 DEF Pump
<1>4. CASE StartOperation \/ StoreStep \/ WriteFails
  BY <1>1, <1>2, <1>4 DEF StartOperation, StoreStep, WriteFails
<1>5. CASE StoreDone
  BY <1>1, <1>2, <1>5 DEF StoreDone, SendDone, StopDone, ResumeDone, PumpDone
<1>6. ASSUME NEW s \in Slot,
             \/ SessionReady(s) \/ SessionExits(s) \/ SessionRestarts(s) \/ IdentityReported(s)
             \/ TurnFailsUnnamed(s) \/ TurnRefused(s)
             \/ TurnAccepted(s) \/ \E ok \in BOOLEAN : TurnFinished(s, ok)
      PROVE  Spent
  BY <1>1, <1>2, <1>6 DEF SessionReady, SessionExits, SessionRestarts, IdentityReported,
       TurnFailsUnnamed, TurnRefused, TurnAccepted, TurnFinished
<1>7. CASE UserStop
  <2>1. left' = [left EXCEPT !.stops = @ - 1] /\ left.stops > 0
    BY <1>7 DEF UserStop
  <2> QED
    BY <2>1 DEF Spent, Remaining
<1>8. CASE UserResume
  <2>1. left' = [left EXCEPT !.resumes = @ - 1] /\ left.resumes > 0
    BY <1>8 DEF UserResume
  <2> QED
    BY <2>1 DEF Spent, Remaining
<1>9. CASE Close \/ Open \/ OpenFails
  BY <1>1, <1>2, <1>9 DEF Close, Open, OpenFails
<1>10. CASE UNCHANGED vars
  BY <1>2, <1>10 DEF vars
<1> QED
  BY <1>3, <1>4, <1>5, <1>6, <1>7, <1>8, <1>9, <1>10 DEF Next

(* How a node can be in flight after a change: the change sent it, or       *)
(* accepted its turn, or left it alone, and then it was no end of its turn. *)
LEMMA ChangeFlight ==
    ASSUME NEW r \in Records, QuietRecord(r), NEW o \in Changes, NEW n \in Node, IsInFlight(Changed(r, o), n)
    PROVE  \/ /\ IsSend(o, n) /\ CanBeginSend(r, n)
              /\ Changed(r, o).nodes[n].state = "Sending"
           \/ /\ IsAccept(o, n) /\ CanAccept(r, n, o.epoch)
              /\ Changed(r, o).nodes[n] = [state |-> "Accepted", epoch |-> o.epoch, turn |-> o.turn]
           \/ /\ Changed(r, o).nodes[n] = r.nodes[n] /\ o.op # "stop"
              /\ ~(IsAccept(o, n) /\ CanAccept(r, n, o.epoch))
              /\ ~(/\ o.op \in {"fail", "finish"} /\ o.node = n /\ o.epoch = r.nodes[n].epoch
                   /\ o.op = "finish" /\ o.ok => r.nodes[n].state = "Accepted" /\ r.nodes[n].turn = o.turn)
<1> DEFINE q == Changed(r, o)
<1>1. r.nodes[n] \in [state : NodeStates, epoch : Nat, turn : AnyTurn]
  BY DEF Records
<1>2. CASE o \in Sends
  <2> DEFINE node == [state |-> "Sending", epoch |-> o.epoch, turn |-> NoTurn]
  <2>1. o.op = "send" /\ o.node \in Node
    BY <1>2 DEF Sends
  <2>2. q = IF CanBeginSend(r, o.node) THEN [r EXCEPT !.nodes[o.node] = node] ELSE r
    BY <1>2, <2>1 DEF Changed, BeginSend
  <2>3. node.state = "Sending"
    OBVIOUS
  <2> HIDE DEF node
  <2>4. q.nodes[n] = IF CanBeginSend(r, o.node) /\ o.node = n THEN node ELSE r.nodes[n]
    BY <2>1, <2>2 DEF Records
  <2> QED
    BY <2>1, <2>3, <2>4 DEF IsSend, IsAccept
<1>3. CASE o \in Accepts
  <2> DEFINE node == [state |-> "Accepted", epoch |-> o.epoch, turn |-> o.turn]
             slots == [r.slots EXCEPT ![SlotOf[o.node]].opened = TRUE]
             nodes == [r.nodes EXCEPT ![o.node] = node]
  <2>1. o.op = "accept" /\ o.node \in Node
    BY <1>3 DEF Accepts
  <2>2. q = IF CanAccept(r, o.node, o.epoch) THEN [r EXCEPT !.nodes = nodes, !.slots = slots] ELSE r
    BY <1>3, <2>1 DEF Changed, Accept
  <2> HIDE DEF node, slots
  <2>3. q.nodes[n] = IF CanAccept(r, o.node, o.epoch) /\ o.node = n THEN node ELSE r.nodes[n]
    BY <2>1, <2>2 DEF Records
  <2> QED
    BY <2>1, <2>3 DEF IsAccept, node
<1>4. ASSUME NEW node \in [state : NodeStates, epoch : Nat, turn : AnyTurn], o \in Finishes \cup Fails,
             node.state \in {"Completed", "Failed"}, q = RefreshState([r EXCEPT !.nodes[o.node] = node])
      PROVE  o.node # n /\ q.nodes[n] = r.nodes[n]
  <2>1. o.node \in Node
    BY <1>4 DEF Finishes, Fails
  <2> DEFINE p == [r EXCEPT !.nodes[o.node] = node]
  <2>2. p \in Records /\ p.nodes[n] = IF n = o.node THEN node ELSE r.nodes[n]
    BY <2>1 DEF Records
  <2>3. q = RefreshState(p)
    BY <1>4
  <2> HIDE DEF p
  <2>4. q.nodes[n] = p.nodes[n]
    BY <2>2, <2>3, RefreshSettles
  <2> QED
    BY <1>4, <2>2, <2>4 DEF IsInFlight, StateOf
<1>5. CASE o \in Finishes \cup Fails
  <2>1. o.node \in Node /\ o.op \in {"finish", "fail"} /\ o.epoch \in Nat
    BY <1>5 DEF Finishes, Fails, PositiveEpoch
  <2>2. CASE o.op = "finish" /\ o.ok
    <3> DEFINE node == [state |-> "Completed", epoch |-> NoEpoch, turn |-> o.turn]
    <3>1. q = IF CanComplete(r, o.node, o.epoch, o.turn)
              THEN RefreshState([r EXCEPT !.nodes[o.node] = node]) ELSE r
      BY <2>2 DEF Changed, Complete
    <3>2. node \in [state : NodeStates, epoch : Nat, turn : AnyTurn] /\ node.state = "Completed"
      BY <1>5, <2>2 DEF Finishes, Fails, NoEpoch, NodeStates, AnyTurn
    <3> HIDE DEF node
    <3>3. CASE CanComplete(r, o.node, o.epoch, o.turn)
      BY <1>4, <1>5, <2>1, <3>1, <3>2, <3>3 DEF IsAccept
    <3>4. CASE ~CanComplete(r, o.node, o.epoch, o.turn)
      <4>1. o.node = n => ~(r.nodes[n].state = "Accepted" /\ r.nodes[n].epoch = o.epoch /\ r.nodes[n].turn = o.turn)
        BY <1>1, <3>4 DEF CanComplete
      <4> QED
        BY <2>2, <3>1, <3>4, <4>1 DEF IsAccept
    <3> QED
      BY <3>3, <3>4
  <2>3. CASE ~(o.op = "finish" /\ o.ok)
    <3>1. q = IF CanFail(r, o.node, o.epoch)
              THEN RefreshState([r EXCEPT !.nodes[o.node] = NodeIn("Failed")]) ELSE r
      BY <2>1, <2>3 DEF Changed, Fail
    <3>2. NodeIn("Failed") \in [state : NodeStates, epoch : Nat, turn : AnyTurn] /\ NodeIn("Failed").state = "Failed"
      BY DEF NodeIn, NodeStates, NoEpoch, AnyTurn
    <3>3. CASE CanFail(r, o.node, o.epoch)
      BY <1>4, <1>5, <2>1, <3>1, <3>2, <3>3 DEF IsAccept
    <3>4. CASE ~CanFail(r, o.node, o.epoch)
      <4>1. q = r /\ IsInFlight(r, n)
        BY <3>1, <3>4
      <4>2. IsLive(r)
        BY <4>1 DEF QuietRecord
      <4>3. ~(o.node = n /\ o.epoch = r.nodes[n].epoch)
        BY <3>4, <4>1, <4>2 DEF CanFail
      <4> QED
        BY <2>1, <4>1, <4>3 DEF IsAccept
    <3> QED
      BY <3>3, <3>4
  <2> QED
    BY <2>2, <2>3
<1>6. CASE o \in Stops \cup Resumes
  <2> DEFINE stopped == [m \in Node |-> IF IsInFlight(r, m) THEN NodeIn("Stopped")
                                        ELSE IF StateOf(r, m) = "Waiting" THEN NodeIn("NotRun") ELSE r.nodes[m]]
             waiting == [m \in Node |-> IF IsCompleted(r, m) THEN r.nodes[m] ELSE NodeIn("Waiting")]
  <2>1. o.op \in {"stop", "resume"}
    BY <1>6 DEF Stops, Resumes
  <2>2. \/ q = [r EXCEPT !.state = "Stopped", !.nodes = stopped]
        \/ q = [r EXCEPT !.state = "Running", !.nodes = waiting]
        \/ q = r /\ (o.op = "stop" => ~IsLive(r))
    BY <2>1 DEF Changed, Stop, Resume
  <2>3. stopped[n].state \notin {"Sending", "Accepted"} /\ waiting[n].state \notin {"Sending", "Accepted"}
    BY DEF NodeIn, IsCompleted, IsInFlight, StateOf
  <2> HIDE DEF stopped, waiting
  <2>4. q.nodes \in {stopped, waiting} \/ (q = r /\ (o.op = "stop" => ~IsLive(r)))
    BY <2>2 DEF Records
  <2>5. q = r /\ o.op # "stop"
    BY <2>1, <2>3, <2>4 DEF IsInFlight, StateOf, QuietRecord
  <2> QED
    BY <2>1, <2>5 DEF IsAccept
<1>7. CASE o \in Saved
  <2> DEFINE slots == [r.slots EXCEPT ![o.slot].conversation = o.conv]
  <2>1. o.op = "conversation"
    BY <1>7 DEF Saved
  <2>2. q = [r EXCEPT !.slots = slots]
    BY <2>1 DEF Changed, RecordConversation
  <2> HIDE DEF slots
  <2>3. q.nodes = r.nodes
    BY <2>2 DEF Records
  <2> QED
    BY <2>1, <2>3 DEF IsAccept
<1> QED
  BY <1>2, <1>3, <1>5, <1>6, <1>7 DEF Changes

(* What a step leaves of what waits for n: `d` operations leave the head of *)
(* the queue, and no accept of n comes or is lost.                          *)
Kept(n, d) ==
    /\ value'.nodes[n] = value.nodes[n]
    /\ pending' \in Seq(Waiting)
    /\ \A i \in DOMAIN pending : i > d => i - d \in DOMAIN pending' /\ pending'[i - d] = pending[i]
    /\ \A i \in DOMAIN pending' : IsAccept(pending'[i], n) => \E j \in DOMAIN pending : pending'[i] = pending[j]
    /\ AcceptAtWork(n)' => \/ AcceptAtWork(n) /\ busy'.op = busy.op
                           \/ \E j \in DOMAIN pending : busy'.op = pending[j]
    /\ AcceptAtWork(n) => AcceptAtWork(n)'
    /\ \A i \in DOMAIN pending : IsAccept(pending[i], n) /\ i <= d => AcceptAtWork(n)'

(* The accept the record waits for keeps its place before later operations. *)
LEMMA TurnStays ==
    ASSUME Types, NEW n \in Node, NEW d \in {0, 1}, Kept(n, d),
           NEW t, NEW j \in Nat, NEW k \in Nat, j - d <= k, TurnKnown(n, t, j)
    PROVE  TurnKnown(n, t, k)'
<1>1. value'.nodes[n] = value.nodes[n]
  BY DEF Kept
<1>2. CASE value.nodes[n].state = "Accepted" /\ value.nodes[n].turn = t
  BY <1>1, <1>2 DEF TurnKnown
<1>3. CASE ~(value.nodes[n].state = "Accepted" /\ value.nodes[n].turn = t)
  <2>1. /\ value.nodes[n].state = "Sending"
        /\ \A i \in DOMAIN pending : IsAccept(pending[i], n) =>
              pending[i].epoch = value.nodes[n].epoch /\ pending[i].turn = t
        /\ AcceptAtWork(n) => busy.op.epoch = value.nodes[n].epoch /\ busy.op.turn = t
        /\ AcceptAtWork(n) \/ \E i \in DOMAIN pending : i < j /\ IsAccept(pending[i], n)
    BY <1>3 DEF TurnKnown
  <2>2. \A i \in DOMAIN pending' : IsAccept(pending'[i], n) =>
           pending'[i].epoch = value.nodes[n].epoch /\ pending'[i].turn = t
    BY <2>1 DEF Kept
  <2>3. AcceptAtWork(n)' => busy'.op.epoch = value.nodes[n].epoch /\ busy'.op.turn = t
    <3>1. AcceptAtWork(n)' => IsAccept(busy'.op, n)
      BY DEF AcceptAtWork
    <3> QED
      BY <2>1, <3>1 DEF Kept
  <2>4. AcceptAtWork(n)' \/ \E i \in DOMAIN pending' : i < k /\ IsAccept(pending'[i], n)
    <3>1. CASE AcceptAtWork(n)
      BY <3>1 DEF Kept
    <3>2. ASSUME NEW i \in DOMAIN pending, i < j, IsAccept(pending[i], n)
          PROVE  AcceptAtWork(n)' \/ \E l \in DOMAIN pending' : l < k /\ IsAccept(pending'[l], n)
      <4>1. i \in Nat
        BY DEF Types
      <4>2. CASE i <= d
        BY <3>2, <4>2 DEF Kept
      <4>3. CASE i > d
        <5>1. i - d \in DOMAIN pending' /\ pending'[i - d] = pending[i]
          BY <4>3 DEF Kept
        <5>2. i - d < k
          BY <3>2, <4>1
        <5> QED
          BY <3>2, <5>1, <5>2
      <4> QED
        BY <4>1, <4>2, <4>3
    <3> QED
      BY <2>1, <3>1, <3>2
  <2> QED
    BY <1>1, <2>1, <2>2, <2>3, <2>4 DEF TurnKnown
<1> QED
  BY <1>2, <1>3

(* What a host may wait for is the same in the next state.                  *)
LEMMA HostsLiveNext ==
    ASSUME WorldKept, \A s \in Slot : LiveStatus(host'[s], s)
    PROVE  HostsLive'
  BY DEF WorldKept, HostsLive, LiveStatus, MayGoSilent

(* Two nodes in flight are of two slots.                                    *)
LEMMA SlotAlone ==
    ASSUME Founded(value), NEW m \in Node, NEW n \in Node, IsInFlight(value, m), IsInFlight(value, n),
           SlotOf[m] = SlotOf[n]
    PROVE  m = n
  BY SlotOrdered DEF Founded, IsInFlight, IsCompleted

(* A turn that is waited for stays so.                                      *)
LEMMA WorkStays ==
    ASSUME Types, NEW n \in Node, NEW d \in {0, 1}, Kept(n, d), WorkedOn(n),
           LET h == host[SlotOf[n]]
               g == host'[SlotOf[n]]
           IN  g.live = h.live /\ GoesOn(h, g)
    PROVE  WorkedOn(n)'
<1> DEFINE h == host[SlotOf[n]]
           g == host'[SlotOf[n]]
<1>1. /\ h.live = n
      /\ h.status = "working" => TurnKnown(n, h.begun, Len(pending) + 1)
      /\ h.status = "idle" /\ h.begun < h.turns => Unaccepted(n)
  BY DEF WorkedOn
<1>2. /\ g.live = n
      /\ g.status = "working" => h.status = "working" /\ g.begun = h.begun
      /\ g.status = "idle" /\ g.begun < g.turns => h.status = "idle" /\ h.begun < h.turns
  BY <1>1 DEF GoesOn
<1>3. Len(pending) + 1 \in Nat /\ Len(pending') + 1 \in Nat /\ Len(pending) + 1 - d <= Len(pending') + 1
  <2>1. Len(pending) \in Nat /\ DOMAIN pending = 1..Len(pending)
        /\ Len(pending') \in Nat /\ DOMAIN pending' = 1..Len(pending')
    BY DEF Types, Kept
  <2>2. Len(pending) > d => Len(pending) - d \in DOMAIN pending'
    BY <2>1 DEF Kept
  <2> QED
    BY <2>1, <2>2
<1>4. PICK t, j, k : t = g.begun /\ j = Len(pending) + 1 /\ k = Len(pending') + 1
  OBVIOUS
<1>5. g.status = "working" => TurnKnown(n, t, k)'
  <2> HIDE DEF h, g
  <2>1. g.status = "working" => TurnKnown(n, t, j)
    BY <1>1, <1>2, <1>4
  <2> QED
    BY <1>3, <1>4, <2>1, TurnStays
<1>6. g.status = "idle" /\ g.begun < g.turns => Unaccepted(n)'
  <2>1. Unaccepted(n) => Unaccepted(n)'
    <3>1. AcceptAtWork(n)' => IsAccept(busy'.op, n)
      BY DEF AcceptAtWork
    <3> QED
      BY <3>1 DEF Unaccepted, Kept
  <2> QED
    BY <1>1, <1>2, <2>1
<1> QED
  BY <1>2, <1>4, <1>5, <1>6 DEF WorkedOn

(* An end that is queued behind what leaves the queue still is.             *)
LEMMA EndStays ==
    ASSUME Types, NEW n \in Node, NEW d \in {0, 1}, Kept(n, d), NEW j \in DOMAIN pending, j > d,
           Ends(pending[j], n),
           pending[j].op = "finish" /\ pending[j].ok => TurnKnown(n, pending[j].turn, j)
    PROVE  EndQueued(n)'
<1>1. j \in Nat
  BY DEF Types
<1>2. PICK k : k = j - d
  OBVIOUS
<1>3. k \in Nat /\ j - d <= k /\ k \in DOMAIN pending' /\ pending'[k] = pending[j]
  BY <1>1, <1>2 DEF Kept
<1>4. PICK o, t : o = pending[j] /\ t = o.turn
  OBVIOUS
<1>5. Ends(o, n)'
  BY <1>4 DEF Ends, Kept
<1>6. o.op = "finish" /\ o.ok => TurnKnown(n, t, k)'
  BY <1>1, <1>3, <1>4, TurnStays
<1> QED
  BY <1>3, <1>4, <1>5, <1>6 DEF EndQueued

(* A node in flight has an epoch, so what ends it is an end of its turn.    *)
LEMMA EndsIsEnd ==
    ASSUME Timed(value), NEW n \in Node, IsInFlight(value, n), NEW o, Ends(o, n)
    PROVE  IsEnd(o, n)
  BY DEF Timed, Ends, IsEnd

(* Nothing that ends n is queued or at work.                                *)
LEMMA NoEndNoCare ==
    ASSUME Timed(value), NEW n \in Node, IsInFlight(value, n), NoEnd(n)
    PROVE  ~EndQueued(n) /\ ~EndAtWork(n)
  BY EndsIsEnd DEF NoEnd, EndQueued, EndAtWork

(* A node the slot's host waits for is worked on.                           *)
LEMMA LiveIsWorkedOn ==
    ASSUME RuntimeInv, SchedInv, OrphanInv, Trusted, NEW s \in Slot, NEW n \in Node,
           host[s].live = n
    PROVE  \/ WorkedOn(n) /\ InFlightUnder(value, n, host[s].liveEpoch) /\ SlotOf[n] = s /\ NoSend(n) /\ NoEnd(n)
           \/ \A m \in Node : ~IsInFlight(value, m)
<1>1. PICK e : e = host[s].liveEpoch
  OBVIOUS
<1>2. e \in Nat /\ Timed(value)
  BY <1>1 DEF RuntimeInv, Types, Hosts, SchedInv, Dated
<1>3. SlotOf[n] = s /\ (InFlightUnder(value, n, e) \/ StopSaved) /\ NoSend(n) /\ NoEnd(n)
  BY <1>1, <1>2 DEF RuntimeInv, LiveTurns, LiveTurn
<1>4. CASE StopSaved
  BY <1>4 DEF OrphanInv, StopQuiet
<1>5. CASE InFlightUnder(value, n, e)
  <2>1. IsInFlight(value, n)
    BY <1>5 DEF InFlightUnder
  <2>2. ~EndQueued(n) /\ ~EndAtWork(n)
    BY <1>2, <1>3, <2>1, NoEndNoCare
  <2>3. ~JustSent(n)
    BY <1>3 DEF JustSent, NoSend, IsSend, RuntimeInv, BusyWork
  <2> QED
    BY <1>1, <1>3, <1>5, <2>1, <2>2, <2>3 DEF OrphanInv, Guarded, CaredFor
<1> QED
  BY <1>3, <1>4, <1>5

(* What a handler adds to the queue leaves alone what waits for n, unless   *)
(* it is an accept of n.                                                    *)
LEMMA GrownKept ==
    ASSUME Types, NEW new, Grown(new), value' = value, busy' = busy \/ (busy' = Idle /\ busy.todo = <<>>),
           NEW n \in Node, \A o \in new : ~IsAccept(o, n)
    PROVE  Kept(n, 0)
<1>1. Len(pending) \in Nat /\ DOMAIN pending = 1..Len(pending)
      /\ pending' \in Seq(Waiting) /\ Len(pending') \in Nat /\ DOMAIN pending' = 1..Len(pending')
      /\ Len(pending) <= Len(pending')
  BY DEF Types, Grown
<1>2. \A i \in DOMAIN pending : i - 0 = i /\ i \in DOMAIN pending' /\ pending'[i] = pending[i] /\ ~(i <= 0)
  BY <1>1 DEF Grown
<1>3. \A i \in DOMAIN pending' : IsAccept(pending'[i], n) => \E j \in DOMAIN pending : pending'[i] = pending[j]
  <2> TAKE i \in DOMAIN pending'
  <2>1. ~IsAccept(PumpOp, n)
    BY DEF IsAccept, PumpOp
  <2> QED
    BY <2>1 DEF Grown
<1>4. AcceptAtWork(n)' = AcceptAtWork(n) /\ (AcceptAtWork(n) => busy' = busy)
  BY PumpIsCurrent DEF AcceptAtWork, IsAccept
<1> QED
  BY <1>1, <1>2, <1>3, <1>4 DEF Kept

(* An accept that is queued is of a node whose send is done.                *)
LEMMA GrownAccepts ==
    ASSUME RuntimeInv, AcceptOrder, NEW new, Grown(new), busy' \in {busy, Idle}, \A o \in new : o.op # "send",
           \A o \in new, n \in Node : IsAccept(o, n) => NoSend(n)
    PROVE  AcceptOrder'
<1>1. /\ Len(pending) \in Nat /\ DOMAIN pending = 1..Len(pending)
      /\ Len(pending') \in Nat /\ DOMAIN pending' = 1..Len(pending')
      /\ DOMAIN pending \subseteq DOMAIN pending'
      /\ \A i \in DOMAIN pending : pending[i].op = "send" => pending[i].node \in Node
      /\ busy.op.op = "send" => busy.op.node \in Node
  BY OpNodes DEF RuntimeInv, Types, Grown
<1>2. ASSUME NEW i \in DOMAIN pending'
      PROVE  \/ i \in DOMAIN pending /\ pending'[i] = pending[i]
             \/ i \notin DOMAIN pending /\ pending'[i] \in new
             \/ i \notin DOMAIN pending /\ pending'[i] = PumpOp
  BY DEF Grown
<1>3. PumpOp.op = "pump"
  BY DEF PumpOp
<1>4. ASSUME NEW i \in DOMAIN pending', NEW j \in DOMAIN pending', i < j, pending'[i].op = "send",
             IsAccept(pending'[j], pending'[i].node)
      PROVE  FALSE
  <2>1. i \in DOMAIN pending /\ pending'[i] = pending[i] /\ pending[i].node \in Node
    BY <1>1, <1>2, <1>3, <1>4
  <2>2. CASE j \in DOMAIN pending
    <3>1. pending'[j] = pending[j]
      BY <1>2, <2>2
    <3> QED
      BY <1>4, <2>1, <2>2, <3>1 DEF AcceptOrder
  <2>3. CASE j \notin DOMAIN pending
    <3>1. pending'[j] \in new
      BY <1>2, <1>3, <1>4, <2>3 DEF IsAccept
    <3> QED
      BY <1>4, <2>1, <3>1 DEF NoSend, IsSend
  <2> QED
    BY <2>2, <2>3
<1>5. ASSUME busy'.op.op = "send", NEW i \in DOMAIN pending', IsAccept(pending'[i], busy'.op.node)
      PROVE  FALSE
  <2>1. busy' = busy /\ busy.op.op = "send" /\ busy.op.node \in Node
    BY <1>1, <1>5, PumpIsCurrent
  <2>2. CASE i \in DOMAIN pending
    <3>1. pending'[i] = pending[i]
      BY <1>2, <2>2
    <3> QED
      BY <1>5, <2>1, <2>2, <3>1 DEF AcceptOrder
  <2>3. CASE i \notin DOMAIN pending
    <3>1. pending'[i] \in new
      BY <1>2, <1>3, <1>5, <2>3 DEF IsAccept
    <3> QED
      BY <1>5, <2>1, <3>1 DEF NoSend, IsSend
  <2> QED
    BY <2>2, <2>3
<1> QED
  BY <1>4, <1>5 DEF AcceptOrder

(* What the handlers have in common: the record stays, nothing is sent, and *)
(* whatever was queued for a node still is.                                 *)
LEMMA HandledOrphans ==
    ASSUME RuntimeInv, SchedInv, OrphanInv, open, WorldKept,
           UNCHANGED <<value, latched, open>>, run' \in {run, value},
           busy' = busy \/ (busy' = Idle /\ busy.todo = <<>>),
           Trusted' => Trusted,
           NEW new, Grown(new), \A o \in new : o.op # "send",
           \A o \in new, n \in Node : IsAccept(o, n) => NoSend(n) /\ NoEnd(n),
           \A s \in Slot : host[s].status = "none" => host'[s].status = "none",
           HostsLive',
           Trusted' => \A n \in Node : IsInFlight(value, n) =>
              /\ WorkedOn(n) => CaredFor(n)'
              /\ JustSent(n) => CaredFor(n)'
    PROVE  OrphanInv'
<1>1. Types /\ Timed(value)
  BY DEF RuntimeInv, SchedInv, Dated
<1>2. CommitLast'
  BY PumpIsCurrent DEF OrphanInv, CommitLast
<1>3. StoreWorks'
  BY DEF OrphanInv, StoreWorks
<1>4. StartsAbsent'
  <2>1. busy'.op.op = "pump" => busy' = busy
    BY PumpIsCurrent
  <2>2. busy.op.op = "pump" => busy.op.starts \subseteq Slot
    <3>1. busy.op \in (Waiting \ {PumpOp}) \cup Looks \cup {Idle.op}
      BY <1>1 DEF Types
    <3> QED
      BY <3>1, PumpIsPump, PumpIsCurrent DEF Looks
  <2> QED
    BY <2>1, <2>2 DEF OrphanInv, StartsAbsent
<1>5. AcceptOrder'
  BY GrownAccepts DEF OrphanInv
<1>6. StopQuiet'
  <2>1. StopSaved' => StopSaved
    BY PumpIsCurrent DEF StopSaved
  <2> QED
    BY <2>1 DEF OrphanInv, StopQuiet, IsInFlight, StateOf
<1>7. Guarded'
  <2> SUFFICES ASSUME Trusted', NEW n \in Node, IsInFlight(value', n) PROVE CaredFor(n)'
    BY DEF Guarded
  <2>1. Trusted /\ IsInFlight(value, n)
    OBVIOUS
  <2>2. WorkedOn(n) \/ EndQueued(n) \/ EndAtWork(n) \/ JustSent(n)
    BY <2>1 DEF OrphanInv, Guarded, CaredFor
  <2>3. CASE WorkedOn(n) \/ JustSent(n)
    BY <2>1, <2>3
  <2>4. CASE EndQueued(n)
    <3>1. \A o \in new : ~IsAccept(o, n)
      BY <1>1, <2>1, <2>4, NoEndNoCare
    <3>2. Kept(n, 0)
      BY <1>1, <3>1, GrownKept
    <3>3. PICK j \in DOMAIN pending :
             /\ Ends(pending[j], n)
             /\ pending[j].op = "finish" /\ pending[j].ok => TurnKnown(n, pending[j].turn, j)
      BY <2>4 DEF EndQueued
    <3>4. j > 0
      BY <1>1 DEF Types
    <3>5. EndQueued(n)'
      BY <1>1, <3>2, <3>3, <3>4, EndStays
    <3> QED
      BY <3>5 DEF CaredFor
  <2>5. CASE EndAtWork(n)
    <3>1. busy' = busy
      BY <2>5 DEF EndAtWork
    <3>2. EndAtWork(n)'
      BY <2>5, <3>1 DEF EndAtWork, Ends
    <3> QED
      BY <3>2 DEF CaredFor
  <2> QED
    BY <2>2, <2>3, <2>4, <2>5
<1>8. QuietRecord(run')
  BY DEF OrphanInv, RuntimeInv
<1> QED
  BY <1>2, <1>3, <1>4, <1>5, <1>6, <1>7, <1>8 DEF OrphanInv, WorldKept

(* An event of a session that only asks for another look: the session waits *)
(* for no turn, or dies on it, or its turn goes on.                         *)
LEMMA EditedOrphans ==
    ASSUME RuntimeInv, SchedInv, OrphanInv, NEW s \in Slot, open, WorldKept,
           UNCHANGED <<value, latched, open, run, busy, error>>, ScheduleAfter(<<>>),
           host[s].status # "none", NEW g, host' = [host EXCEPT ![s] = g],
           g.live = host[s].live, LiveStatus(g, s), g.live # NoNode => GoesOn(host[s], g)
    PROVE  OrphanInv'
<1>1. Types /\ \A t \in Slot : host'[t] = IF t = s THEN g ELSE host[t]
  BY DEF RuntimeInv, Types
<1>2. Grown({})
  BY <1>1, LookGrows
<1>3. Trusted' = Trusted
  BY DEF Trusted
<1>4. HostsLive'
  BY <1>1, HostsLiveNext DEF OrphanInv, HostsLive
<1>5. ASSUME NEW n \in Node, IsInFlight(value, n)
      PROVE  /\ WorkedOn(n) => CaredFor(n)'
             /\ JustSent(n) => CaredFor(n)'
  <2>1. Kept(n, 0)
    BY <1>1, <1>2, GrownKept
  <2>2. SlotOf[n] \in Slot /\ n # NoNode
    BY GraphTyped, NoNodeIsNone
  <2>3. CASE WorkedOn(n)
    <3>1. host[SlotOf[n]].live = n
      BY <2>3 DEF WorkedOn
    <3>2. host'[SlotOf[n]].live = host[SlotOf[n]].live
      BY <1>1, <2>2
    <3>3. GoesOn(host[SlotOf[n]], host'[SlotOf[n]])
      <4>1. CASE SlotOf[n] = s
        BY <1>1, <2>2, <3>1, <3>2, <4>1
      <4>2. CASE SlotOf[n] # s
        BY <1>1, <2>2, <4>2 DEF GoesOn
      <4> QED
        BY <4>1, <4>2
    <3>4. WorkedOn(n)'
      BY <1>1, <2>1, <2>3, <3>2, <3>3, WorkStays
    <3> QED
      BY <3>4 DEF CaredFor
  <2>4. CASE JustSent(n)
    BY <2>4 DEF JustSent, CaredFor
  <2> QED
    BY <2>3, <2>4
<1>6. \A t \in Slot : host[t].status = "none" => host'[t].status = "none"
  BY <1>1
<1> QED
  BY <1>2, <1>3, <1>4, <1>5, <1>6, HandledOrphans

(* A session gets ready, restarts, states its identity, dies, or gives up a *)
(* turn before it began: what was waited for then is what the world lets go *)
(* silent.                                                                  *)
LEMMA SessionOrphans ==
    ASSUME RuntimeInv, SchedInv, OrphanInv, WorldKept, NEW s \in Slot,
           \/ SessionReady(s) \/ SessionExits(s) \/ SessionRestarts(s) \/ IdentityReported(s)
           \/ TurnFailsUnnamed(s) \/ TurnRefused(s)
    PROVE  OrphanInv'
<1>1. open /\ UNCHANGED <<value, latched, open, run, busy, error>> /\ ScheduleAfter(<<>>)
  BY DEF SessionReady, SessionExits, SessionRestarts, IdentityReported, TurnFailsUnnamed, TurnRefused,
         NeverBegins, SessionEvent, store, Settled
<1>2. host[s].status # "none"
  BY DEF SessionReady, SessionExits, SessionRestarts, IdentityReported, TurnFailsUnnamed, TurnRefused, NeverBegins
<1>3. PICK h \in Hosts : h = host[s]
  BY DEF RuntimeInv, Types
<1>4. LiveStatus(h, s) /\ h.begun \in Nat /\ h.turns \in Nat
  BY <1>3 DEF OrphanInv, HostsLive, Hosts
<1> DEFINE Fine(g) == g.live = h.live /\ LiveStatus(g, s) /\ (g.live # NoNode => GoesOn(h, g))
<1>5. \E g : host' = [host EXCEPT ![s] = g] /\ Fine(g)
  <2>1. CASE SessionReady(s)
    <3> DEFINE knows == h.known \/ s \notin left.claude \/ h.resumed # NoConversation
               ready == [h EXCEPT !.status = "idle", !.known = knows]
               other == [h EXCEPT !.status = "idle", !.known = TRUE, !.conv = made[s] + 1]
    <3>1. host' = [host EXCEPT ![s] = ready] \/ host' = [host EXCEPT ![s] = other]
      BY <1>3, <2>1 DEF SessionReady, RuntimeInv, Types
    <3>2. h.status = "starting"
      BY <1>3, <2>1 DEF SessionReady
    <3> HIDE DEF knows
    <3>3. \A g \in {ready, other} :
             g.live = h.live /\ g.status = "idle" /\ g.begun = h.begun /\ g.turns = h.turns
      BY DEF Hosts
    <3> HIDE DEF ready, other
    <3>4. \A g \in {ready, other} : Fine(g)
      BY <1>4, <3>2, <3>3 DEF LiveStatus, GoesOn
    <3> QED
      BY <3>1, <3>4
  <2>2. CASE SessionExits(s)
    <3> DEFINE g == [h EXCEPT !.status = "exited"]
    <3>1. host' = [host EXCEPT ![s] = g]
      BY <1>3, <2>2 DEF SessionExits, RuntimeInv, Types
    <3>2. g.live = h.live /\ g.status = "exited" /\ g.begun = h.begun /\ g.turns = h.turns
      BY DEF Hosts
    <3>3. Fine(g)
      BY <1>4, <3>2 DEF LiveStatus, GoesOn
    <3> QED
      BY <3>1, <3>3
  <2>3. CASE SessionRestarts(s)
    <3> DEFINE turns == h.turns
               g == [h EXCEPT !.status = "starting", !.epoch = @ + 1, !.begun = turns]
    <3>1. host' = [host EXCEPT ![s] = g] /\ h.status = "idle"
      BY <1>3, <2>3 DEF SessionRestarts, RuntimeInv, Types
    <3>2. g.live = h.live /\ g.status = "starting" /\ g.begun = h.turns /\ g.turns = h.turns
      BY DEF Hosts
    <3>3. (s \in left.claude => ~(h.begun < h.turns)) /\ "update" \in left.kinds
      BY <1>3, <2>3 DEF SessionRestarts, Occupied, Outstanding, Fault
    <3>4. h.live # NoNode => MayGoSilent(s)
      BY <1>4, <3>1, <3>3 DEF LiveStatus, MayGoSilent
    <3> HIDE DEF g
    <3>5. Fine(g)
      BY <1>4, <3>2, <3>4 DEF LiveStatus, GoesOn
    <3> QED
      BY <3>1, <3>5
  <2>4. CASE IdentityReported(s)
    <3> DEFINE g == [h EXCEPT !.known = TRUE]
    <3>1. host' = [host EXCEPT ![s] = g]
      BY <1>3, <2>4 DEF IdentityReported, RuntimeInv, Types
    <3>2. g.live = h.live /\ g.status = h.status /\ g.begun = h.begun /\ g.turns = h.turns
          /\ g.epoch = h.epoch /\ g.liveEpoch = h.liveEpoch
      BY DEF Hosts
    <3> HIDE DEF g
    <3>3. Fine(g)
      BY <1>4, <3>2 DEF LiveStatus, GoesOn
    <3> QED
      BY <3>1, <3>3
  <2>5. CASE TurnFailsUnnamed(s) \/ TurnRefused(s)
    <3> DEFINE more == h.begun + 1
               g == [h EXCEPT !.begun = more]
    <3>1. host' = [host EXCEPT ![s] = g] /\ h.status = "idle" /\ h.begun < h.turns
      BY <1>3, <2>5 DEF TurnFailsUnnamed, TurnRefused, NeverBegins, Outstanding, RuntimeInv, Types
    <3>2. MayGoSilent(s)
      BY <2>5 DEF TurnFailsUnnamed, TurnRefused, Fault, MayGoSilent
    <3> HIDE DEF more
    <3>3. g.live = h.live /\ g.status = h.status /\ g.begun = more /\ g.turns = h.turns
          /\ g.epoch = h.epoch /\ g.liveEpoch = h.liveEpoch
      BY DEF Hosts
    <3> HIDE DEF g
    <3>4. more <= h.turns /\ (~(more < h.turns) => more = h.turns)
      BY <1>4, <3>1 DEF more
    <3>5. Fine(g)
      BY <1>4, <3>1, <3>2, <3>3, <3>4 DEF LiveStatus, GoesOn
    <3> QED
      BY <3>1, <3>5
  <2> HIDE DEF Fine
  <2> QED
    BY <2>1, <2>2, <2>3, <2>4, <2>5
<1>6. PICK g : host' = [host EXCEPT ![s] = g] /\ Fine(g)
  BY <1>5
<1> QED
  BY <1>1, <1>2, <1>3, <1>6, EditedOrphans

(* What a handler queues is behind what waited.                             *)
LEMMA ScheduleAdds ==
    ASSUME Types, NEW o \in Waiting, ScheduleAfter(<<o>>)
    PROVE  /\ Grown({o})
           /\ Len(pending) + 1 \in DOMAIN pending' /\ pending'[Len(pending) + 1] = o
<1> DEFINE pump == IF scheduled THEN <<>> ELSE <<PumpOp>>
           all == pending \o <<o>>
<1>2. Grown({o})
  BY OpGrows
<1>3. all \in Seq(Waiting) /\ Len(all) = Len(pending) + 1 /\ all[Len(pending) + 1] = o /\ Len(pending) \in Nat
  BY DEF Types
<1>4. pump \in Seq(Waiting) /\ Len(pump) \in Nat
  <2>1. PumpOp \in Waiting
    BY DEF Waiting
  <2>2. CASE scheduled
    BY <2>2
  <2>3. CASE ~scheduled
    BY <2>1, <2>3
  <2> QED
    BY <2>2, <2>3
<1>5. pending' = all \o pump
  BY DEF ScheduleAfter
<1> HIDE DEF all, pump
<1>6. Len(pending') = Len(all) + Len(pump) /\ pending' \in Seq(Waiting)
      /\ \A i \in 1..(Len(all) + Len(pump)) : pending'[i] = IF i <= Len(all) THEN all[i] ELSE pump[i - Len(all)]
  BY <1>3, <1>4, <1>5, ConcatProperties
<1> QED
  BY <1>2, <1>3, <1>4, <1>6

(* The runtime hears that the turn was accepted, and queues the accept; or  *)
(* that it ended, and queues its end behind that accept.                    *)
LEMMA HeardOrphans ==
    ASSUME RuntimeInv, SchedInv, OrphanInv, WorldKept, NEW s \in Slot,
           open, UNCHANGED <<value, latched, open, run, busy, error>>, Heard(s),
           NEW g, host' = [host EXCEPT ![s] = g],
           NEW n \in Node, n = host[s].live,
           NEW o \in Accepts \cup Finishes, ScheduleAfter(<<o>>),
           o.node = n /\ o.epoch = host[s].epoch, g.begun <= g.turns,
           \/ /\ o.op = "accept" /\ host[s].status = "idle" /\ host[s].begun < host[s].turns
              /\ g.status = "working" /\ g.live = n /\ g.liveEpoch = g.epoch /\ g.begun = o.turn
           \/ o.op = "finish" /\ host[s].status = "working" /\ o.turn = host[s].begun /\ g.live = NoNode
    PROVE  OrphanInv'
<1>1. Types /\ host[s] \in Hosts /\ \A t \in Slot : host'[t] = IF t = s THEN g ELSE host[t]
  BY DEF RuntimeInv, Types
<1>2. o \in Waiting /\ o.op # "send"
  BY DEF Waiting, Accepts, Finishes
<1>3. Grown({o}) /\ Len(pending) + 1 \in DOMAIN pending' /\ pending'[Len(pending) + 1] = o
  BY <1>1, <1>2, ScheduleAdds
<1>4. Trusted' = Trusted
  BY DEF Trusted
<1>5. NoSend(n) /\ NoEnd(n) /\ SlotOf[n] = s
  BY <1>1 DEF RuntimeInv, LiveTurns, LiveTurn, Hosts
<1>7. HostsLive'
  <2>1. LiveStatus(g, s)
    BY DEF LiveStatus
  <2> QED
    BY <1>1, <2>1, HostsLiveNext DEF OrphanInv, HostsLive
<1>8. ASSUME Trusted, NEW m \in Node, IsInFlight(value, m)
      PROVE  /\ WorkedOn(m) => CaredFor(m)'
             /\ JustSent(m) => CaredFor(m)'
  <2>1. JustSent(m) => JustSent(m)'
    BY DEF JustSent
  <2>2. SlotOf[m] \in Slot
    BY GraphTyped
  <2>3. CASE WorkedOn(m) /\ m # n
    <3>1. SlotOf[m] # s
      BY <2>3 DEF WorkedOn
    <3>2. Kept(m, 0)
      BY <1>1, <1>3, <2>3, GrownKept DEF IsAccept
    <3>3. host'[SlotOf[m]] = host[SlotOf[m]]
      BY <1>1, <2>2, <3>1
    <3>4. WorkedOn(m)'
      BY <1>1, <2>3, <3>2, <3>3, WorkStays DEF GoesOn
    <3> QED
      BY <2>1, <3>4 DEF CaredFor
  <2>4. CASE m = n
    <3>1. WorkedOn(n) /\ InFlightUnder(value, n, host[s].liveEpoch)
      BY <1>8, <2>4, LiveIsWorkedOn
    <3>2. value.nodes[n].epoch = o.epoch
      BY <3>1 DEF InFlightUnder, Heard
    <3>3. CASE o.op = "accept"
      <4>1. g.live = n /\ g.status = "working" /\ g.begun = o.turn
        BY <3>3 DEF Accepts, Finishes
      <4>2. Unaccepted(n)
        BY <1>5, <3>1, <3>3 DEF WorkedOn
      <4>3. PICK t, k : t = g.begun /\ k = Len(pending') + 1
        OBVIOUS
      <4>4. ~IsAccept(PumpOp, n)
        BY DEF IsAccept, PumpOp
      <4>5. \A i \in DOMAIN pending' : IsAccept(pending'[i], n) => pending'[i] = o
        BY <1>3, <4>2, <4>4 DEF Grown, Unaccepted
      <4>6. Len(pending) + 1 < k /\ IsAccept(pending'[Len(pending) + 1], n)
        <5>1. Len(pending) + 1 \in 1..Len(pending') /\ Len(pending') \in Nat
          BY <1>3 DEF Grown
        <5> QED
          BY <1>3, <3>3, <4>3, <5>1 DEF IsAccept
      <4>7. ~AcceptAtWork(n)'
        BY <4>2 DEF Unaccepted, AcceptAtWork
      <4>8. value'.nodes[n].state = "Sending"
        BY <4>2 DEF Unaccepted
      <4>9. TurnKnown(n, t, k)'
        BY <1>3, <3>2, <4>1, <4>3, <4>5, <4>6, <4>7, <4>8 DEF TurnKnown
      <4>10. host'[SlotOf[n]] = g
        BY <1>1, <1>5
      <4>11. WorkedOn(n)'
        BY <4>1, <4>3, <4>9, <4>10 DEF WorkedOn
      <4> QED
        BY <2>4, <4>11 DEF CaredFor
    <3>4. CASE o.op = "finish"
      <4>1. PICK t, j : t = o.turn /\ j = Len(pending) + 1
        OBVIOUS
      <4>2. host[s].status = "working" /\ o.turn = host[s].begun
        BY <3>4
      <4>3. TurnKnown(n, t, j)
        BY <1>5, <3>1, <4>1, <4>2 DEF WorkedOn
      <4>4. Kept(n, 0)
        BY <1>1, <1>3, <3>4, GrownKept DEF IsAccept
      <4>5. j \in Nat /\ j - 0 <= j
        BY <1>1, <4>1 DEF Types
      <4>6. TurnKnown(n, t, j)'
        BY <1>1, <4>3, <4>4, <4>5, TurnStays
      <4>7. Ends(o, n)'
        BY <3>2, <3>4 DEF Ends
      <4>8. EndQueued(n)'
        BY <1>3, <4>1, <4>6, <4>7 DEF EndQueued
      <4> QED
        BY <2>4, <4>8 DEF CaredFor
    <3> QED
      BY <3>3, <3>4
  <2> QED
    BY <2>1, <2>3, <2>4 DEF CaredFor
<1>9. \A t \in Slot : host[t].status = "none" => host'[t].status = "none"
  BY <1>1
<1>10. \A p \in {o}, m \in Node : IsAccept(p, m) => NoSend(m) /\ NoEnd(m)
  BY <1>5 DEF IsAccept
<1>11. \A p \in {o} : p.op # "send"
  BY <1>2
<1> QED
  BY <1>3, <1>4, <1>7, <1>8, <1>9, <1>10, <1>11, HandledOrphans

(* The two signals of a turn.                                               *)
LEMMA TurnOrphans ==
    ASSUME RuntimeInv, SchedInv, OrphanInv, WorldKept, NEW s \in Slot,
           TurnAccepted(s) \/ \E ok \in BOOLEAN : TurnFinished(s, ok)
    PROVE  OrphanInv'
<1>1. open /\ UNCHANGED <<value, latched, open, run, busy, error>> /\ host[s].status # "none"
  BY DEF TurnAccepted, TurnFinished, SessionEvent, store, Settled
<1>2. PICK h \in Hosts : h = host[s]
  BY DEF RuntimeInv, Types
<1>8. h.begun \in Nat /\ h.turns \in Nat /\ LiveStatus(h, s)
  BY <1>2 DEF OrphanInv, HostsLive, Hosts
<1>3. PICK n : n = host[s].live
  OBVIOUS
<1>4. h.epoch \in PositiveEpoch /\ (Heard(s) => n \in Node)
  BY <1>1, <1>2, <1>3 DEF RuntimeInv, Epochs, Hosts, PositiveEpoch, Heard
<1>5. ~Heard(s) => n = NoNode
  <2>1. h.status = "working" \/ (h.status = "idle" /\ h.begun < h.turns)
    BY <1>2 DEF TurnAccepted, TurnFinished, Outstanding
  <2>2. ~(h.begun = h.turns /\ h.begun < h.turns)
    BY <1>8
  <2> QED
    BY <1>2, <1>3, <1>8, <2>1, <2>2 DEF LiveStatus, Heard
<1>6. CASE TurnAccepted(s)
  <2> DEFINE more == h.begun + 1
             g == [h EXCEPT !.status = "working", !.begun = more]
             o == [op |-> "accept", node |-> n, epoch |-> h.epoch, turn |-> more]
  <2>1. /\ host' = [host EXCEPT ![s] = g] /\ ScheduleAfter(IF Heard(s) THEN <<o>> ELSE <<>>)
        /\ h.status = "idle" /\ h.begun < h.turns
    BY <1>2, <1>3, <1>6 DEF TurnAccepted, Outstanding, RuntimeInv, Types
  <2>4. more \in Nat /\ more <= h.turns
    BY <1>8, <2>1
  <2> HIDE DEF more
  <2>5. g.status = "working" /\ g.live = h.live /\ g.liveEpoch = h.liveEpoch /\ g.epoch = h.epoch
        /\ g.begun = more /\ g.turns = h.turns
    BY DEF Hosts
  <2>2. CASE Heard(s)
    <3>1. o \in Accepts /\ o.op = "accept" /\ o.node = n /\ o.epoch = h.epoch /\ o.turn = more
      BY <1>2, <1>4, <2>2, <2>4 DEF Accepts, Hosts
    <3>2. ScheduleAfter(<<o>>)
      BY <2>1, <2>2
    <3>3. g.liveEpoch = g.epoch /\ g.live = n
      BY <1>2, <1>3, <2>2, <2>5 DEF Heard
    <3> HIDE DEF o, g
    <3> QED
      BY <1>1, <1>2, <1>3, <1>4, <2>1, <2>2, <2>4, <2>5, <3>1, <3>2, <3>3, HeardOrphans
  <2>3. CASE ~Heard(s)
    <3>1. g.live = NoNode /\ host[s].live = NoNode
      BY <1>2, <1>3, <1>5, <2>3, <2>5
    <3>2. ScheduleAfter(<<>>)
      BY <2>1, <2>3
    <3> HIDE DEF g, o
    <3>3. LiveStatus(g, s)
      BY <2>4, <2>5, <3>1 DEF LiveStatus
    <3> QED
      BY <1>1, <2>1, <3>1, <3>2, <3>3, EditedOrphans
  <2> QED
    BY <2>2, <2>3
<1>7. ASSUME NEW ok \in BOOLEAN, TurnFinished(s, ok)
      PROVE  OrphanInv'
  <2> DEFINE done == [h EXCEPT !.status = "idle"]
             g == IF Heard(s) THEN Released(done) ELSE done
             o == [op |-> "finish", node |-> n, epoch |-> h.epoch, turn |-> h.begun, ok |-> ok, attempt |-> attempt[n]]
  <2>1. /\ host' = [host EXCEPT ![s] = g] /\ ScheduleAfter(IF Heard(s) THEN <<o>> ELSE <<>>)
        /\ h.status = "working"
    BY <1>2, <1>3, <1>7 DEF TurnFinished
  <2>4. done \in Hosts /\ done.live = h.live /\ done.begun = h.begun /\ done.turns = h.turns
    BY DEF Hosts
  <2> HIDE DEF done
  <2>5. g.begun <= g.turns
    BY <1>8, <2>4 DEF Released, Hosts, LiveStatus
  <2>2. CASE Heard(s)
    <3>1. o \in Finishes /\ o.op = "finish" /\ o.node = n /\ o.epoch = h.epoch /\ o.turn = h.begun
      BY <1>2, <1>4, <2>2 DEF Finishes, Hosts, RuntimeInv, Types
    <3>2. ScheduleAfter(<<o>>)
      BY <2>1, <2>2
    <3>4. g.live = NoNode
      BY <2>2, <2>4 DEF Released, Hosts
    <3> HIDE DEF o, g
    <3> QED
      BY <1>1, <1>2, <1>3, <1>4, <2>1, <2>2, <2>5, <3>1, <3>2, <3>4, HeardOrphans
  <2>3. CASE ~Heard(s)
    <3>1. g.live = NoNode /\ host[s].live = NoNode
      BY <1>2, <1>3, <1>5, <2>3, <2>4
    <3>2. ScheduleAfter(<<>>)
      BY <2>1, <2>3
    <3> HIDE DEF g, o
    <3>3. LiveStatus(g, s)
      BY <2>5, <3>1 DEF LiveStatus
    <3> QED
      BY <1>1, <2>1, <3>1, <3>2, <3>3, EditedOrphans
  <2> QED
    BY <2>2, <2>3
<1> QED
  BY <1>6, <1>7

(* The user's stop and resume.  A run that can be resumed waits for no      *)
(* turn, so the sessions a resume drops worked on none.                     *)
LEMMA UserOrphans ==
    ASSUME RuntimeInv, SchedInv, OrphanInv, WorldKept, UserStop \/ UserResume
    PROVE  OrphanInv'
<1>1. open /\ UNCHANGED <<value, latched, open, run, busy, error>>
  BY DEF UserStop, UserResume, store, Settled
<1>2. Types
  BY DEF RuntimeInv
<1>3. PICK o \in Stops \cup Resumes : Enqueue(o)
  BY <1>2, UserQueues
<1>4. o \in Waiting /\ o.op \in {"stop", "resume"}
  BY DEF Waiting, Stops, Resumes
<1>5. Grown({o})
  BY <1>2, <1>3, <1>4, EnqueueGrows
<1>6. \A n \in Node : ~IsAccept(o, n)
  BY <1>4 DEF IsAccept
<1>7. Trusted' = Trusted
  BY <1>1 DEF Trusted
<1>8. \A t \in Slot : \/ host'[t] = host[t]
                      \/ host'[t] = NoHost /\ host[t].live = NoNode
  <2>1. CASE UserStop
    BY <2>1 DEF UserStop
  <2>2. CASE UserResume
    <3> SUFFICES ASSUME NEW t \in Slot, host[t].live # NoNode PROVE FALSE
      BY <2>2 DEF UserResume
    <3>1. PICK n, e : n = host[t].live /\ e = host[t].liveEpoch
      OBVIOUS
    <3>2. n \in Node /\ e \in Nat
      BY <1>2, <3>1 DEF Types, Hosts
    <3>3. IsInFlight(run, n)
      BY <3>1, <3>2 DEF RuntimeInv, LiveTurns, LiveTurn, InFlightUnder
    <3>4. ~IsLive(run)
      BY <2>2 DEF UserResume, IsResumable, IsLive
    <3> QED
      BY <3>2, <3>3, <3>4 DEF OrphanInv, QuietRecord
  <2> QED
    BY <2>1, <2>2
<1>9. NoHost.live = NoNode /\ NoHost.status = "none" /\ NoHost.begun <= NoHost.turns
  BY DEF NoHost
<1>10. HostsLive'
  BY <1>8, <1>9, HostsLiveNext DEF OrphanInv, HostsLive, LiveStatus
<1>11. ASSUME NEW n \in Node
       PROVE  /\ WorkedOn(n) => CaredFor(n)'
              /\ JustSent(n) => CaredFor(n)'
  <2>1. Kept(n, 0)
    BY <1>1, <1>2, <1>5, <1>6, GrownKept
  <2>2. SlotOf[n] \in Slot /\ n # NoNode
    BY GraphTyped, NoNodeIsNone
  <2>3. WorkedOn(n) => host'[SlotOf[n]] = host[SlotOf[n]]
    BY <1>8, <2>2 DEF WorkedOn
  <2>4. WorkedOn(n) => WorkedOn(n)'
    BY <1>2, <2>1, <2>3, WorkStays DEF GoesOn
  <2>5. JustSent(n) => JustSent(n)'
    BY <1>1 DEF JustSent
  <2> QED
    BY <2>4, <2>5 DEF CaredFor
<1>12. \A t \in Slot : host[t].status = "none" => host'[t].status = "none"
  BY <1>8, <1>9
<1>13. \A p \in {o} : p.op # "send" /\ \A n \in Node : ~IsAccept(p, n)
  BY <1>4, <1>6
<1> QED
  BY <1>1, <1>5, <1>7, <1>10, <1>11, <1>12, <1>13, HandledOrphans

(* A continuation: the store is free, and was not wrong if no error shows.  *)
LEMMA DoneTrusted ==
    ASSUME RuntimeInv, StoreDone
    PROVE  /\ open /\ UNCHANGED <<value, latched, open>> /\ run' = value
           /\ busy' = Idle /\ busy.todo = <<>> /\ (Trusted' => Trusted)
<1>1. /\ open /\ UNCHANGED <<value, latched, open>> /\ run' = value
      /\ busy' = Idle /\ busy.todo = <<>> /\ error' = (error \/ ~busy.ok)
  BY DEF StoreDone, store
<1> QED
  BY <1>1 DEF Trusted

(* The continuations of all operations but sends and pumps: a stop lets go  *)
(* of turns the record has ended.                                           *)
LEMMA OtherDoneOrphans ==
    ASSUME RuntimeInv, SchedInv, OrphanInv, WorldKept,
           StoreDone, busy.op.op \notin {"send", "pump"}
    PROVE  OrphanInv'
<1>1. /\ open /\ UNCHANGED <<value, latched, open>> /\ run' = value
      /\ busy' = Idle /\ busy.todo = <<>> /\ (Trusted' => Trusted)
  BY DoneTrusted
<1>2. /\ ScheduleAfter(<<>>)
      /\ \/ host' = host
         \/ host' = [s \in Slot |-> Released(host[s])] /\ busy.op.op = "stop" /\ busy.ok
  BY DEF StoreDone, StopDone, ResumeDone, history
<1>3. Types
  BY DEF RuntimeInv
<1>4. Grown({})
  BY <1>2, <1>3, LookGrows
<1>5. ASSUME NEW h \in Hosts
      PROVE  /\ Released(h).live = NoNode /\ Released(h).status = h.status
             /\ Released(h).begun = h.begun /\ Released(h).turns = h.turns
  BY DEF Released, Hosts
<1>6. \A t \in Slot : \/ host'[t] = host[t]
                      \/ /\ host'[t].live = NoNode /\ host'[t].status = host[t].status
                         /\ host'[t].begun = host[t].begun /\ host'[t].turns = host[t].turns
  BY <1>2, <1>3, <1>5 DEF Types
<1>7. HostsLive'
  BY <1>6, HostsLiveNext DEF OrphanInv, HostsLive, LiveStatus
<1>8. ASSUME NEW n \in Node, IsInFlight(value, n)
      PROVE  /\ WorkedOn(n) => CaredFor(n)'
             /\ JustSent(n) => CaredFor(n)'
  <2>1. Kept(n, 0)
    BY <1>1, <1>3, <1>4, GrownKept
  <2>2. ~JustSent(n)
    BY DEF JustSent, RuntimeInv, BusyWork
  <2>3. host' = host
    BY <1>1, <1>2, <1>8 DEF OrphanInv, StopQuiet, StopSaved
  <2>4. WorkedOn(n) => WorkedOn(n)'
    BY <1>3, <2>1, <2>3, WorkStays DEF GoesOn
  <2> QED
    BY <2>2, <2>4 DEF CaredFor
<1>9. \A t \in Slot : host[t].status = "none" => host'[t].status = "none"
  BY <1>6
<1>10. \A p \in {} : FALSE
  OBVIOUS
<1> QED
  BY <1>1, <1>4, <1>7, <1>8, <1>9, HandledOrphans

(* The prompt of a saved send is submitted, and its session works on the    *)
(* node; or it is refused, and the failure of the node is queued.           *)
LEMMA SendDoneOrphans ==
    ASSUME RuntimeInv, SchedInv, OrphanInv, WorldKept,
           StoreDone, busy.op.op = "send"
    PROVE  OrphanInv'
<1> DEFINE o == busy.op
<1>1. /\ open /\ UNCHANGED <<value, latched, open>> /\ run' = value
      /\ busy' = Idle /\ busy.todo = <<>> /\ (Trusted' => Trusted)
  BY DoneTrusted
<1>2. Types /\ o \in Sends /\ SendDone(o)
  BY TagTypes DEF RuntimeInv, Types, StoreDone
<1>3. o.node \in Node /\ o.epoch \in PositiveEpoch /\ SlotOf[o.node] \in Slot
  BY <1>2, GraphTyped DEF Sends
<1>4. host \in [Slot -> Hosts]
  BY <1>2 DEF Types
<1>5. ASSUME ScheduleAfter(<<>>)
      PROVE  Grown({})
  BY <1>2, <1>5, LookGrows
<1>6. \A p \in {} : FALSE
  OBVIOUS
<1>7. host' = host => HostsLive'
  BY HostsLiveNext DEF OrphanInv, HostsLive
<1>8. CASE ScheduleAfter(<<>>) /\ UNCHANGED host /\ ~(busy.ok /\ busy.began)
  <2>1. HostsLive'
    BY <1>7, <1>8
  <2>2. ASSUME Trusted, NEW n \in Node, IsInFlight(value, n)
        PROVE  /\ WorkedOn(n) => CaredFor(n)'
               /\ JustSent(n) => CaredFor(n)'
    <3>1. Kept(n, 0)
      BY <1>1, <1>2, <1>5, <1>8, GrownKept
    <3>2. ~JustSent(n)
      BY <1>8, <2>2 DEF JustSent, Trusted
    <3>3. WorkedOn(n) => WorkedOn(n)'
      BY <1>2, <1>8, <3>1, WorkStays DEF GoesOn
    <3> QED
      BY <3>2, <3>3 DEF CaredFor
  <2> QED
    BY <1>1, <1>5, <1>8, <2>1, <2>2, HandledOrphans
<1>9. CASE FailSubmit(o) /\ busy.ok /\ busy.began
  <2> DEFINE f == [op |-> "fail", node |-> o.node, epoch |-> o.epoch]
  <2>1. f \in Waiting /\ f.op = "fail" /\ f.node = o.node /\ f.epoch = o.epoch
    BY <1>3 DEF Waiting, Fails, PositiveEpoch
  <2>2. Enqueue(f) /\ host' = host
    BY <1>9 DEF FailSubmit
  <2> HIDE DEF f
  <2>3. Grown({f})
    BY <1>2, <2>1, <2>2, EnqueueGrows
  <2>4. PICK j : j = Len(pending) + 1
    OBVIOUS
  <2>5. j \in DOMAIN pending' /\ pending'[j] = f
    BY <1>2, <2>1, <2>2, <2>4, AppendProperties DEF Types, Enqueue
  <2>6. HostsLive'
    BY <1>7, <2>2
  <2>7. ASSUME NEW n \in Node, IsInFlight(value, n)
        PROVE  /\ WorkedOn(n) => CaredFor(n)'
               /\ JustSent(n) => CaredFor(n)'
    <3>1. Kept(n, 0)
      BY <1>1, <1>2, <2>1, <2>3, GrownKept DEF IsAccept
    <3>2. WorkedOn(n) => WorkedOn(n)'
      BY <1>2, <2>2, <3>1, WorkStays DEF GoesOn
    <3>3. JustSent(n) => EndQueued(n)'
      <4> SUFFICES ASSUME JustSent(n) PROVE EndQueued(n)'
        OBVIOUS
      <4>1. n = o.node /\ value.nodes[n].epoch = o.epoch
        BY <1>9 DEF JustSent, RuntimeInv, Begun, InFlightUnder
      <4>2. PICK p : p = f
        OBVIOUS
      <4>3. Ends(p, n)' /\ p.op = "fail"
        BY <1>1, <2>1, <4>1, <4>2 DEF Ends
      <4> QED
        BY <2>5, <4>2, <4>3 DEF EndQueued
    <3> QED
      BY <3>2, <3>3 DEF CaredFor
  <2>8. \A p \in {f} : p.op # "send" /\ \A n \in Node : ~IsAccept(p, n)
    BY <2>1 DEF IsAccept
  <2> QED
    BY <1>1, <2>2, <2>3, <2>6, <2>7, <2>8, HandledOrphans
<1>10. CASE StartTurn(o) /\ SubmitStarts(o) /\ busy.began
  <2> DEFINE s == SlotOf[o.node]
  <2>1. PICK h \in Hosts : h = host[s]
    BY <1>3, <1>4
  <2> DEFINE turns == h.turns + 1
             node == o.node
             epoch == o.epoch
             g == [h EXCEPT !.turns = turns, !.live = node, !.liveEpoch = epoch]
  <2>2. host' = [host EXCEPT ![s] = g] /\ ScheduleAfter(<<>>) /\ h.status = "idle" /\ h.epoch = epoch
    BY <1>3, <1>4, <1>10, <2>1 DEF StartTurn, SubmitStarts
  <2>3. h.begun < turns
    BY <1>3, <2>1 DEF OrphanInv, HostsLive, LiveStatus, Hosts
  <2> HIDE DEF turns, epoch
  <2>4. g.status = "idle" /\ g.begun < g.turns /\ g.live = node /\ g.liveEpoch = g.epoch
    <3> HIDE DEF node
    <3> QED
      BY <2>2, <2>3 DEF Hosts
  <2> HIDE DEF g
  <2>5. \A t \in Slot : host'[t] = IF t = s THEN g ELSE host[t]
    BY <1>4, <2>2
  <2>6. HostsLive'
    <3>1. g.begun \in Nat /\ g.turns \in Nat => LiveStatus(g, s)
      BY <2>4 DEF LiveStatus
    <3>2. g.begun \in Nat /\ g.turns \in Nat
      BY <1>3, <2>1 DEF Hosts, g, turns
    <3> QED
      BY <2>5, <3>1, <3>2, HostsLiveNext DEF OrphanInv, HostsLive
  <2>7. Grown({})
    BY <1>5, <2>2
  <2>9. host[s].live # o.node /\ IsInFlight(value, o.node) /\ Founded(value)
    <3>1. host[s].live = o.node => LiveTurn(s, o.node, host[s].liveEpoch)
      BY <1>2, <1>3, <1>4 DEF RuntimeInv, LiveTurns, Hosts
    <3> QED
      BY <1>10, <3>1 DEF LiveTurn, NoSend, IsSend, RuntimeInv, Begun, InFlightUnder, SchedInv, Dated
  <2>8. ASSUME NEW n \in Node, IsInFlight(value, n)
        PROVE  /\ WorkedOn(n) => CaredFor(n)'
               /\ JustSent(n) => CaredFor(n)'
    <3>1. Kept(n, 0)
      BY <1>1, <1>2, <2>7, GrownKept
    <3>2. SlotOf[n] \in Slot /\ n # NoNode
      BY GraphTyped, NoNodeIsNone
    <3>3. CASE WorkedOn(n)
      <4>1. SlotOf[n] # s
        BY <1>3, <2>8, <2>9, <3>3, SlotAlone DEF WorkedOn
      <4>2. host'[SlotOf[n]] = host[SlotOf[n]]
        BY <2>5, <3>2, <4>1
      <4>3. WorkedOn(n)'
        BY <1>2, <3>1, <3>3, <4>2, WorkStays DEF GoesOn
      <4>4. n # o.node
        BY <4>1
      <4> QED
        BY <4>3, <4>4 DEF CaredFor, JustSent
    <3>4. CASE JustSent(n) /\ ~WorkedOn(n)
      <4>1. n = o.node /\ value.nodes[n].state = "Sending"
        BY <3>4 DEF JustSent
      <4>2. ~AcceptAtWork(n)'
        BY <1>1, PumpIsCurrent DEF AcceptAtWork
      <4>3. \A i \in DOMAIN pending' : ~IsAccept(pending'[i], n)
        <5> SUFFICES ASSUME NEW i \in DOMAIN pending', IsAccept(pending'[i], n) PROVE FALSE
          OBVIOUS
        <5>1. PICK l \in DOMAIN pending : pending'[i] = pending[l]
          BY <3>1 DEF Kept
        <5> QED
          BY <4>1, <5>1 DEF OrphanInv, AcceptOrder
      <4>4. Unaccepted(n)'
        BY <1>1, <4>1, <4>2, <4>3 DEF Unaccepted
      <4>5. host'[SlotOf[n]] = g
        BY <2>5, <3>2, <4>1
      <4>6. WorkedOn(n)'
        BY <2>4, <4>1, <4>4, <4>5 DEF WorkedOn
      <4> QED
        BY <3>4, <4>6 DEF CaredFor
    <3> QED
      BY <3>3, <3>4
  <2>10. \A t \in Slot : host[t].status = "none" => host'[t].status = "none"
    BY <2>1, <2>2, <2>5
  <2> QED
    BY <1>1, <2>6, <2>7, <2>8, <2>10, HandledOrphans
<1> QED
  BY <1>2, <1>8, <1>9, <1>10 DEF SendDone

(* Every operation but a send writes something, and its change of the       *)
(* record last.                                                             *)
LEMMA WorkEnds ==
    ASSUME NEW o \in Waiting \ {PumpOp}
    PROVE  \/ Work(o) = <<>> /\ o.op = "send"
           \/ /\ Work(o) # <<>> /\ Len(Work(o)) \in DOMAIN Work(o)
              /\ Work(o)[Len(Work(o))].write = "commit" /\ Work(o)[Len(Work(o))].do = o
<1> DEFINE Last == [write |-> "commit", do |-> o]
           Good(w) == w # <<>> /\ Len(w) \in DOMAIN w /\ w[Len(w)].write = "commit" /\ w[Len(w)].do = o
<1>1. o.op \in {"send", "accept", "finish", "fail", "stop", "resume"}
  BY DEF Waiting, Sends, Accepts, Finishes, Fails, Stops, Resumes
<1>2. Commit(o) = Last /\ Last.write = "commit" /\ Last.do = o
  BY DEF Commit
<1> HIDE DEF Last
<1>3. CASE o.op = "send"
  <2>1. Work(o) = IF CanCompose(o.node) THEN <<WritePrompt, Last>> ELSE <<>>
    BY <1>2, <1>3 DEF Work
  <2>2. Good(<<WritePrompt, Last>>)
    BY <1>2
  <2> HIDE DEF Good
  <2>3. Work(o) = <<>> \/ Good(Work(o))
    BY <2>1, <2>2
  <2> QED
    BY <1>3, <2>3 DEF Good
<1>4. CASE o.op = "finish"
  <2>1. PICK t, p : t = WriteTranscript(o.node, o.attempt) /\ p = WriteOutput(o.node, o.attempt)
    OBVIOUS
  <2>2. Work(o) \in {<<t, p, Last>>, <<t, Last>>}
    BY <1>2, <1>4, <2>1 DEF Work
  <2>3. Good(<<t, p, Last>>) /\ Good(<<t, Last>>)
    BY <1>2
  <2> HIDE DEF Good
  <2>4. Good(Work(o))
    BY <2>2, <2>3
  <2> QED
    BY <2>4 DEF Good
<1>5. CASE o.op = "stop"
  <2> DEFINE u == [i \in DOMAIN o.captured |-> WriteTranscript(o.captured[i].node, o.captured[i].attempt)]
  <2>1. o.captured \in Seq([node : Node, attempt : Nat])
    BY <1>5, TagTypes DEF Stops
  <2>2. PICK S : S = {WriteTranscript(o.captured[i].node, o.captured[i].attempt) : i \in DOMAIN o.captured}
    OBVIOUS
  <2> DEFINE k == Len(o.captured)
  <2>3. k \in Nat /\ DOMAIN o.captured = 1..k
    BY <2>1
  <2>4. u \in [1..k -> S]
    BY <2>2, <2>3
  <2>5. Work(o) = u \o <<Last>>
    BY <1>2, <1>5 DEF Work
  <2> HIDE DEF u, k
  <2>6. u \in Seq(S)
    BY <2>3, <2>4, ListIsSeq, Zenon
  <2>7. ASSUME NEW T, NEW v \in Seq(T)
        PROVE  Good(v \o <<Last>>)
    <3>1. Len(v) \in Nat /\ v \in Seq(T \cup {Last}) /\ <<Last>> \in Seq(T \cup {Last})
      BY SeqDef
    <3>2. PICK w : w = v \o <<Last>>
      OBVIOUS
    <3>3. w \in Seq(T \cup {Last}) /\ Len(w) = Len(v) + 1 /\ w[Len(v) + 1] = Last
      BY <3>1, <3>2
    <3>4. w # <<>> /\ Len(w) \in DOMAIN w
      BY <3>1, <3>3
    <3> QED
      BY <1>2, <3>2, <3>3, <3>4
  <2> HIDE DEF Good
  <2>8. Good(Work(o))
    BY <2>5, <2>6, <2>7
  <2> QED
    BY <2>8 DEF Good
<1>6. CASE o.op \in {"accept", "fail", "resume"}
  <2>1. Work(o) = <<Last>>
    BY <1>2, <1>6 DEF Work
  <2> QED
    BY <1>2, <2>1
<1> QED
  BY <1>1, <1>3, <1>4, <1>5, <1>6

(* The operation that gets the store takes what it meant for its node with  *)
(* it.                                                                      *)
LEMMA StartOrphans ==
    ASSUME RuntimeInv, SchedInv, OrphanInv, WorldKept, StartOperation
    PROVE  OrphanInv'
<1> DEFINE o == Head(pending)
<1>1. /\ open /\ busy = Idle /\ pending # <<>> /\ o # PumpOp
      /\ busy' = [op |-> o, todo |-> Work(o), ok |-> TRUE, began |-> FALSE]
      /\ pending' = Tail(pending)
      /\ UNCHANGED <<value, latched, open, run, error, host>>
  BY DEF StartOperation, store
<1>2. Types
  BY DEF RuntimeInv
<1>3. /\ Len(pending) \in Nat \ {0} /\ DOMAIN pending = 1..Len(pending) /\ 1 \in DOMAIN pending
      /\ o = pending[1] /\ o \in Waiting
      /\ pending' \in Seq(Waiting) /\ DOMAIN pending' = 1..(Len(pending) - 1)
      /\ \A i \in DOMAIN pending' : i + 1 \in DOMAIN pending /\ pending'[i] = pending[i + 1]
      /\ \A i \in DOMAIN pending : i > 1 => i - 1 \in DOMAIN pending' /\ pending'[i - 1] = pending[i]
  BY <1>1, <1>2 DEF Types
<1> HIDE DEF o
<1>4. busy'.op = o /\ busy'.todo = Work(o) /\ busy'.ok /\ ~busy'.began
  BY <1>1
<1>5. busy.todo = <<>> /\ ~busy.began /\ busy.ok
  BY <1>1 DEF Idle
<1>6. \/ Work(o) = <<>> /\ o.op = "send"
      \/ /\ Work(o) # <<>> /\ Len(Work(o)) \in DOMAIN Work(o)
         /\ Work(o)[Len(Work(o))].write = "commit" /\ Work(o)[Len(Work(o))].do = o
  BY <1>1, <1>3, WorkEnds
<1>7. o.op # "pump"
  BY <1>1, <1>3, PumpIsPump
<1>8. CommitLast' /\ StoreWorks' /\ StartsAbsent' /\ HostsLive' /\ QuietRecord(run')
  <2>1. StoreWorks'
    BY <1>1, <1>4, <1>5 DEF OrphanInv, StoreWorks, Trusted
  <2>2. HostsLive'
    BY <1>1, HostsLiveNext DEF OrphanInv, HostsLive
  <2>3. CommitLast' /\ StartsAbsent'
    BY <1>4, <1>6, <1>7 DEF CommitLast, StartsAbsent
  <2> QED
    BY <1>1, <2>1, <2>2, <2>3 DEF OrphanInv
<1>9. AcceptOrder'
  <2>1. ASSUME NEW i \in DOMAIN pending', NEW j \in DOMAIN pending', i < j, pending'[i].op = "send"
        PROVE  ~IsAccept(pending'[j], pending'[i].node)
    <3>1. i + 1 \in DOMAIN pending /\ j + 1 \in DOMAIN pending /\ i + 1 < j + 1
      BY <1>3, <2>1
    <3> QED
      BY <1>3, <2>1, <3>1 DEF OrphanInv, AcceptOrder
  <2>2. ASSUME o.op = "send", NEW i \in DOMAIN pending'
        PROVE  ~IsAccept(pending'[i], o.node)
    <3>1. i + 1 \in DOMAIN pending /\ 1 < i + 1
      BY <1>3
    <3> QED
      BY <1>3, <2>2, <3>1 DEF OrphanInv, AcceptOrder
  <2> QED
    BY <1>4, <2>1, <2>2 DEF AcceptOrder
<1>10. StopQuiet'
  BY <1>4, <1>6 DEF StopQuiet, StopSaved
<1>11. ASSUME Trusted', NEW n \in Node, IsInFlight(value', n)
       PROVE  CaredFor(n)'
  <2>1. Trusted /\ IsInFlight(value, n)
    BY <1>1, <1>5, <1>11 DEF Trusted
  <2>2. WorkedOn(n) \/ EndQueued(n)
    <3>1. ~EndAtWork(n) /\ ~JustSent(n)
      BY <1>5 DEF EndAtWork, JustSent
    <3> QED
      BY <2>1, <3>1 DEF OrphanInv, Guarded, CaredFor
  <2>3. Kept(n, 1)
    <3>1. AcceptAtWork(n)' => busy'.op = pending[1]
      BY <1>3, <1>4
    <3>2. ~AcceptAtWork(n)
      BY <1>5 DEF AcceptAtWork
    <3>3. \A i \in DOMAIN pending : IsAccept(pending[i], n) /\ i <= 1 => AcceptAtWork(n)'
      BY <1>3, <1>4, <1>6 DEF IsAccept, AcceptAtWork
    <3>4. \A i \in DOMAIN pending' : \E j \in DOMAIN pending : pending'[i] = pending[j]
      BY <1>3
    <3> QED
      BY <1>1, <1>3, <3>1, <3>2, <3>3, <3>4 DEF Kept
  <2>4. CASE WorkedOn(n)
    <3>1. WorkedOn(n)'
      BY <1>1, <1>2, <2>3, <2>4, WorkStays DEF GoesOn
    <3> QED
      BY <3>1 DEF CaredFor
  <2>5. CASE EndQueued(n)
    <3>1. PICK j \in DOMAIN pending :
             /\ Ends(pending[j], n)
             /\ pending[j].op = "finish" /\ pending[j].ok => TurnKnown(n, pending[j].turn, j)
      BY <2>5 DEF EndQueued
    <3>2. CASE j > 1
      <4>1. EndQueued(n)'
        BY <1>2, <2>3, <3>1, <3>2, EndStays
      <4> QED
        BY <4>1 DEF CaredFor
    <3>3. CASE ~(j > 1)
      <4>1. j = 1 /\ o = pending[j]
        BY <1>3, <3>3
      <4>2. o.op \in {"fail", "finish"} /\ o.node = n /\ o.epoch = value.nodes[n].epoch
        BY <3>1, <4>1 DEF Ends
      <4>3. o.op = "finish" /\ o.ok => value.nodes[n].state = "Accepted" /\ value.nodes[n].turn = o.turn
        <5>1. ~AcceptAtWork(n) /\ \A i \in DOMAIN pending : ~(i < 1)
          BY <1>3, <1>5 DEF AcceptAtWork
        <5> QED
          BY <3>1, <4>1, <5>1 DEF TurnKnown
      <4>4. PICK p, i : p = o /\ i = Len(Work(o))
        OBVIOUS
      <4>5. i \in DOMAIN busy'.todo /\ busy'.todo[i].write = "commit" /\ busy'.todo[i].do = p
        BY <1>4, <1>6, <4>2, <4>4
      <4>6. Ends(p, n)'
        BY <1>1, <4>2, <4>4 DEF Ends
      <4>7. EndAtWork(n)'
        BY <1>1, <4>3, <4>4, <4>5, <4>6 DEF EndAtWork
      <4> QED
        BY <4>7 DEF CaredFor
    <3> QED
      BY <3>2, <3>3
  <2> QED
    BY <2>2, <2>4, <2>5
<1>12. Guarded'
  BY <1>11 DEF Guarded
<1> QED
  BY <1>8, <1>9, <1>10, <1>12 DEF OrphanInv, WorldKept

(* A write that failed: from then on an error shows.                        *)
LEMMA FailedOrphans ==
    ASSUME OrphanInv, WorldKept,
           UNCHANGED <<pending, run, host>>, busy'.op = busy.op, busy'.todo = <<>>, ~busy'.ok
    PROVE  OrphanInv'
<1>1. ~Trusted' /\ ~StopSaved'
  BY DEF Trusted, StopSaved
<1>2. StartsAbsent' /\ AcceptOrder' /\ HostsLive'
  BY HostsLiveNext DEF OrphanInv, StartsAbsent, AcceptOrder, HostsLive
<1> QED
  BY <1>1, <1>2 DEF OrphanInv, WorldKept, CommitLast, StoreWorks, StopQuiet, Guarded

(* A write of the operation at work: a node that is in flight after a       *)
(* commit was sent by it, or accepted, or not concerned.                    *)
LEMMA StoreOrphans ==
    ASSUME RuntimeInv, SchedInv, OrphanInv, WorldKept,
           StoreStep \/ WriteFails
    PROVE  OrphanInv'
<1>1. open /\ busy.todo # <<>> /\ UNCHANGED <<open, run, pending, error, host>>
  BY DEF StoreStep, WriteFails, queue
<1>2. /\ Types /\ value \in Records /\ QuietRecord(value)
      /\ busy \in [op : (Waiting \ {PumpOp}) \cup Looks \cup {Idle.op}, todo : Seq(Writes),
                   ok : BOOLEAN, began : BOOLEAN]
  BY DEF RuntimeInv, Types
<1>3. PICK w, rest : w = Head(busy.todo) /\ rest = Tail(busy.todo)
  OBVIOUS
<1>4. /\ w \in Writes /\ 1 \in DOMAIN busy.todo /\ w = busy.todo[1]
      /\ Len(busy.todo) \in Nat /\ DOMAIN busy.todo = 1..Len(busy.todo)
      /\ DOMAIN rest = 1..(Len(busy.todo) - 1) /\ Len(rest) = Len(busy.todo) - 1
      /\ \A i \in DOMAIN rest : i + 1 \in DOMAIN busy.todo /\ rest[i] = busy.todo[i + 1]
      /\ rest # <<>> => Len(rest) \in DOMAIN rest
      /\ rest = <<>> => Len(busy.todo) = 1
  <2>1. ASSUME NEW q \in Seq(Writes), q # <<>>
        PROVE  /\ Head(q) \in Writes /\ 1 \in DOMAIN q /\ Head(q) = q[1]
               /\ Len(q) \in Nat /\ DOMAIN q = 1..Len(q)
               /\ DOMAIN Tail(q) = 1..(Len(q) - 1) /\ Len(Tail(q)) = Len(q) - 1
               /\ \A i \in DOMAIN Tail(q) : i + 1 \in DOMAIN q /\ Tail(q)[i] = q[i + 1]
               /\ Tail(q) # <<>> => Len(Tail(q)) \in DOMAIN Tail(q)
               /\ Tail(q) = <<>> => Len(q) = 1
    <3>1. /\ Head(q) \in Writes /\ 1 \in DOMAIN q /\ Head(q) = q[1]
          /\ Len(q) \in Nat /\ DOMAIN q = 1..Len(q)
          /\ DOMAIN Tail(q) = 1..(Len(q) - 1) /\ Len(Tail(q)) = Len(q) - 1
          /\ \A i \in DOMAIN Tail(q) : i + 1 \in DOMAIN q /\ Tail(q)[i] = q[i + 1]
          /\ Tail(q) # <<>> => Len(Tail(q)) \in DOMAIN Tail(q)
      BY <2>1
    <3>2. Tail(q) = <<>> => Len(Tail(q)) = 0
      <4>1. Len(<<>>) = 0
        OBVIOUS
      <4> QED
        BY <4>1, Zenon
    <3>3. Tail(q) = <<>> => Len(q) = 1
      BY <3>1, <3>2
    <3> QED
      BY <3>1, <3>3
  <2> QED
    BY <1>1, <1>2, <1>3, <2>1
<1>5. busy.ok /\ ~busy.began
  BY <1>1 DEF RuntimeInv, BusyWork
<1>6. w.write = "commit" => /\ w.do \in Changes
                            /\ IF busy.op.op = "pump" THEN w.do.op \in {"conversation", "fail"}
                                                      ELSE Len(busy.todo) = 1 /\ w.do = busy.op
  BY <1>4 DEF Writes, WritePrompt, RuntimeInv, BusyWork
<1>7. \/ busy'.op = busy.op /\ busy'.todo = <<>> /\ ~busy'.ok
      \/ /\ busy'.op = busy.op /\ busy'.todo = rest /\ busy'.ok = busy.ok /\ latched' = latched
         /\ \/ w.write # "commit" /\ value' = value /\ ~busy'.began
            \/ /\ w.write = "commit" /\ value' = Changed(value, w.do)
               /\ busy'.began = (w.do.op = "send" /\ CanBeginSend(value, w.do.node))
  <2>1. CASE StoreStep /\ w.write = "commit"
    <3>1. CommitStep(w.do)
      BY <1>3, <2>1 DEF StoreStep
    <3> QED
      BY <1>2, <1>3, <2>1, <3>1 DEF CommitStep
  <2>2. CASE StoreStep /\ w.write # "commit"
    <3>1. busy' = [busy EXCEPT !.todo = Tail(@)] /\ UNCHANGED <<value, latched>>
      BY <1>3, <2>2 DEF StoreStep, store
    <3> QED
      BY <1>2, <1>3, <1>5, <2>2, <3>1
  <2>3. CASE WriteFails
    <3>1. busy' = [busy EXCEPT !.todo = <<>>, !.ok = FALSE]
      BY <2>3 DEF WriteFails
    <3> QED
      BY <1>2, <3>1
  <2> QED
    BY <2>1, <2>2, <2>3
<1>8. CASE busy'.op = busy.op /\ busy'.todo = <<>> /\ ~busy'.ok
  BY <1>1, <1>8, FailedOrphans
<1>9. CASE /\ busy'.op = busy.op /\ busy'.todo = rest /\ busy'.ok = busy.ok /\ latched' = latched
           /\ \/ w.write # "commit" /\ value' = value /\ ~busy'.began
              \/ /\ w.write = "commit" /\ value' = Changed(value, w.do)
                 /\ busy'.began = (w.do.op = "send" /\ CanBeginSend(value, w.do.node))
  <2>1. Trusted' = Trusted /\ Trusted' = (~error)
    BY <1>1, <1>5, <1>9 DEF Trusted
  <2>2. CommitLast'
    <3> SUFFICES ASSUME rest # <<>> PROVE rest[Len(rest)].write = "commit"
      BY <1>9 DEF CommitLast
    <3>1. rest[Len(rest)] = busy.todo[Len(busy.todo)]
      BY <1>4
    <3> QED
      BY <1>1, <3>1 DEF OrphanInv, CommitLast
  <2>3. StoreWorks' /\ StartsAbsent' /\ AcceptOrder' /\ HostsLive' /\ QuietRecord(run')
    BY <1>1, <1>9, <2>1, HostsLiveNext DEF OrphanInv, StoreWorks, StartsAbsent, AcceptOrder, HostsLive
  <2>4. StopQuiet'
    <3> SUFFICES ASSUME busy.op.op = "stop", rest = <<>>, NEW n \in Node, IsInFlight(value', n) PROVE FALSE
      BY <1>9 DEF StopQuiet, StopSaved
    <3>1. w = busy.todo[Len(busy.todo)]
      BY <1>4
    <3>2. w.write = "commit"
      BY <1>1, <3>1 DEF OrphanInv, CommitLast
    <3>3. PICK o : o = w.do
      OBVIOUS
    <3>4. o.op = "stop" /\ o \in Changes
      BY <1>6, <3>2, <3>3
    <3>5. IsInFlight(Changed(value, o), n)
      BY <1>9, <3>2, <3>3
    <3>6. o.op # "stop"
      BY <1>2, <3>4, <3>5, ChangeFlight DEF IsSend, IsAccept
    <3> QED
      BY <3>4, <3>6
  <2>5. ASSUME Trusted', NEW n \in Node, IsInFlight(value', n)
        PROVE  CaredFor(n)'
    <3>1. \/ w.write = "commit" /\ IsSend(w.do, n) /\ CanBeginSend(value, n) /\ value'.nodes[n].state = "Sending"
          \/ /\ w.write = "commit" /\ IsAccept(w.do, n) /\ CanAccept(value, n, w.do.epoch)
             /\ value'.nodes[n] = [state |-> "Accepted", epoch |-> w.do.epoch, turn |-> w.do.turn]
          \/ /\ value'.nodes[n] = value.nodes[n]
             /\ w.write = "commit" => ~(IsAccept(w.do, n) /\ CanAccept(value, n, w.do.epoch))
             /\ ~(/\ w.write = "commit" /\ Ends(w.do, n)
                  /\ w.do.op = "finish" /\ w.do.ok =>
                        value.nodes[n].state = "Accepted" /\ value.nodes[n].turn = w.do.turn)
      <4>1. CASE w.write = "commit"
        <5>1. value' = Changed(value, w.do) /\ w.do \in Changes
          BY <1>6, <1>9, <4>1
        <5> QED
          BY <1>2, <2>5, <4>1, <5>1, ChangeFlight DEF Ends
      <4>2. CASE w.write # "commit"
        BY <1>9, <4>2
      <4> QED
        BY <4>1, <4>2
    <3>2. CASE w.write = "commit" /\ IsSend(w.do, n) /\ CanBeginSend(value, n) /\ value'.nodes[n].state = "Sending"
      <4>1. busy'.began /\ busy.op.node = n
        BY <1>6, <1>9, <3>2 DEF IsSend
      <4>2. JustSent(n)'
        BY <1>9, <3>2, <4>1 DEF JustSent
      <4> QED
        BY <4>2 DEF CaredFor
    <3>3. CASE /\ w.write = "commit" /\ IsAccept(w.do, n) /\ CanAccept(value, n, w.do.epoch)
               /\ value'.nodes[n] = [state |-> "Accepted", epoch |-> w.do.epoch, turn |-> w.do.turn]
      <4>1. w.do = busy.op /\ busy.op.op = "accept" /\ busy.op.node = n /\ AcceptAtWork(n) /\ Len(busy.todo) = 1
        BY <1>1, <1>6, <3>3 DEF IsAccept, AcceptAtWork
      <4>2. /\ value.nodes[n].state = "Sending" /\ value.nodes[n].epoch = busy.op.epoch /\ IsInFlight(value, n)
            /\ value'.nodes[n].state = "Accepted" /\ value'.nodes[n].epoch = busy.op.epoch
            /\ value'.nodes[n].turn = busy.op.turn
        BY <3>3, <4>1 DEF CanAccept, StateOf, IsInFlight
      <4>3. \A t, j : TurnKnown(n, t, j) => busy.op.turn = t
        BY <4>1, <4>2 DEF TurnKnown
      <4>4. ~EndAtWork(n) /\ ~JustSent(n)
        <5>1. ASSUME NEW i \in DOMAIN busy.todo, busy.todo[i].write = "commit"
              PROVE  ~Ends(busy.todo[i].do, n)
          <6>1. i = 1
            BY <1>4, <4>1
          <6> QED
            BY <1>4, <4>1, <6>1 DEF Ends
        <5> QED
          BY <1>5, <5>1 DEF EndAtWork, JustSent
      <4>5. CASE WorkedOn(n)
        <5>1. ~Unaccepted(n)
          BY <4>1 DEF Unaccepted
        <5>2. PICK h : h = host[SlotOf[n]]
          OBVIOUS
        <5>3. h.live = n /\ (h.status = "working" => busy.op.turn = h.begun)
          BY <4>3, <4>5, <5>1, <5>2 DEF WorkedOn
        <5>4. PICK t, j : t = h.begun /\ j = Len(pending) + 1
          OBVIOUS
        <5>5. busy.op.turn = t => TurnKnown(n, t, j)'
          BY <4>2 DEF TurnKnown
        <5>6. ~(h.status = "idle" /\ h.begun < h.turns)
          BY <4>5, <5>1, <5>2 DEF WorkedOn
        <5>7. WorkedOn(n)'
          BY <1>1, <5>2, <5>3, <5>4, <5>5, <5>6 DEF WorkedOn
        <5> QED
          BY <5>7 DEF CaredFor
      <4>6. CASE EndQueued(n)
        <5>1. PICK j \in DOMAIN pending :
                 /\ Ends(pending[j], n)
                 /\ pending[j].op = "finish" /\ pending[j].ok => TurnKnown(n, pending[j].turn, j)
          BY <4>6 DEF EndQueued
        <5>2. PICK o, t : o = pending[j] /\ t = o.turn
          OBVIOUS
        <5>3. Ends(o, n)'
          BY <4>2, <5>1, <5>2 DEF Ends
        <5>4. o.op = "finish" /\ o.ok => TurnKnown(n, t, j)'
          BY <4>2, <4>3, <5>1, <5>2 DEF TurnKnown
        <5>5. EndQueued(n)'
          BY <1>1, <5>1, <5>2, <5>3, <5>4 DEF EndQueued
        <5> QED
          BY <5>5 DEF CaredFor
      <4> QED
        BY <2>1, <2>5, <4>2, <4>4, <4>5, <4>6 DEF OrphanInv, Guarded, CaredFor
    <3>4. CASE /\ value'.nodes[n] = value.nodes[n]
               /\ w.write = "commit" => ~(IsAccept(w.do, n) /\ CanAccept(value, n, w.do.epoch))
               /\ ~(/\ w.write = "commit" /\ Ends(w.do, n)
                    /\ w.do.op = "finish" /\ w.do.ok =>
                          value.nodes[n].state = "Accepted" /\ value.nodes[n].turn = w.do.turn)
      <4>1. IsInFlight(value, n)
        BY <2>5, <3>4 DEF IsInFlight, StateOf
      <4>2. ASSUME NEW t, NEW j, TurnKnown(n, t, j)
            PROVE  TurnKnown(n, t, j)'
        <5>1. CASE value.nodes[n].state = "Accepted"
          BY <3>4, <4>2, <5>1 DEF TurnKnown
        <5>2. CASE value.nodes[n].state # "Accepted"
          <6>1. value.nodes[n].state = "Sending"
            BY <4>1, <5>2 DEF IsInFlight, StateOf
          <6>2. AcceptAtWork(n)' <=> AcceptAtWork(n)
            <7>1. AcceptAtWork(n)' => AcceptAtWork(n)
              BY <1>1, <1>9 DEF AcceptAtWork
            <7>2. ASSUME AcceptAtWork(n)
                  PROVE  rest # <<>>
              <8>1. busy.op.op = "accept" /\ busy.op.node = n /\ busy.op.epoch = value.nodes[n].epoch
                BY <4>2, <5>2, <7>2 DEF AcceptAtWork, IsAccept, TurnKnown
              <8>2. w.write # "commit"
                BY <1>6, <3>4, <6>1, <8>1 DEF IsAccept, CanAccept, StateOf
              <8>3. w # busy.todo[Len(busy.todo)]
                BY <1>1, <8>2 DEF OrphanInv, CommitLast
              <8>4. Len(busy.todo) # 1
                BY <1>4, <8>3
              <8> QED
                BY <1>4, <8>4
            <7> QED
              BY <1>9, <7>1, <7>2 DEF AcceptAtWork
          <6> QED
            BY <1>1, <1>9, <3>4, <4>2, <6>2 DEF TurnKnown
        <5> QED
          BY <5>1, <5>2
      <4>3. Unaccepted(n) => Unaccepted(n)'
        BY <1>1, <1>9, <3>4 DEF Unaccepted, AcceptAtWork
      <4>4. CASE WorkedOn(n)
        <5>1. PICK t, j : t = host[SlotOf[n]].begun /\ j = Len(pending) + 1
          OBVIOUS
        <5>2. TurnKnown(n, t, j) => TurnKnown(n, t, j)'
          BY <4>2
        <5>3. WorkedOn(n)'
          BY <1>1, <4>3, <4>4, <5>1, <5>2 DEF WorkedOn
        <5> QED
          BY <5>3 DEF CaredFor
      <4>5. CASE EndQueued(n)
        <5>1. PICK j \in DOMAIN pending :
                 /\ Ends(pending[j], n)
                 /\ pending[j].op = "finish" /\ pending[j].ok => TurnKnown(n, pending[j].turn, j)
          BY <4>5 DEF EndQueued
        <5>2. PICK o, t : o = pending[j] /\ t = o.turn
          OBVIOUS
        <5>3. Ends(o, n)'
          BY <3>4, <5>1, <5>2 DEF Ends
        <5>4. o.op = "finish" /\ o.ok => TurnKnown(n, t, j)'
          BY <4>2, <5>1, <5>2
        <5>5. EndQueued(n)'
          BY <1>1, <5>1, <5>2, <5>3, <5>4 DEF EndQueued
        <5> QED
          BY <5>5 DEF CaredFor
      <4>6. CASE EndAtWork(n)
        <5>1. PICK i \in DOMAIN busy.todo :
                 /\ busy.todo[i].write = "commit" /\ Ends(busy.todo[i].do, n)
                 /\ busy.todo[i].do.op = "finish" /\ busy.todo[i].do.ok =>
                       value.nodes[n].state = "Accepted" /\ value.nodes[n].turn = busy.todo[i].do.turn
          BY <4>6 DEF EndAtWork
        <5>2. i # 1
          BY <1>4, <3>4, <5>1
        <5>3. PICK k, c : k = i - 1 /\ c = busy.todo[i]
          OBVIOUS
        <5>4. k \in DOMAIN rest /\ rest[k] = c
          <6>1. k \in DOMAIN rest /\ k + 1 = i
            BY <1>4, <5>2, <5>3
          <6> QED
            BY <1>4, <5>3, <6>1
        <5>5. PICK o : o = c.do
          OBVIOUS
        <5>6. Ends(o, n)'
          BY <3>4, <5>1, <5>3, <5>5 DEF Ends
        <5>7. o.op = "finish" /\ o.ok => value'.nodes[n].state = "Accepted" /\ value'.nodes[n].turn = o.turn
          BY <3>4, <5>1, <5>3, <5>5
        <5>8. EndAtWork(n)'
          BY <1>9, <5>1, <5>3, <5>4, <5>5, <5>6, <5>7 DEF EndAtWork
        <5> QED
          BY <5>8 DEF CaredFor
      <4>7. ~JustSent(n)
        BY <1>5 DEF JustSent
      <4> QED
        BY <2>1, <2>5, <4>1, <4>4, <4>5, <4>6, <4>7 DEF OrphanInv, Guarded, CaredFor
    <3> QED
      BY <3>1, <3>2, <3>3, <3>4
  <2>6. Guarded'
    BY <2>5 DEF Guarded
  <2> QED
    BY <2>2, <2>3, <2>4, <2>6 DEF OrphanInv, WorldKept
<1> QED
  BY <1>7, <1>8, <1>9

(* A listing of slots leaves none out.                                      *)
LEMMA ListsAll ==
    ASSUME NEW S \in SUBSET Slot, NEW q \in ListedSlots(S), NEW s \in S
    PROVE  \E i \in DOMAIN q : q[i] = s
<1>1. PICK k : k = Cardinality(S)
  OBVIOUS
<1>2. IsFiniteSet(S) /\ k \in Nat
  BY <1>1, SlotsFinite, FS_Subset, FS_CardinalityType
<1>3. q \in [1..k -> S] /\ \A i, j \in 1..k : i < j => q[i] # q[j]
  BY <1>1 DEF ListedSlots
<1>4. \A i, j \in 1..k : q[i] = q[j] => i = j
  <2> TAKE i, j \in 1..k
  <2>1. i < j \/ j < i \/ i = j
    BY <1>2
  <2> QED
    BY <1>3, <2>1
<1>5. q \in Injection(1..k, S)
  BY <1>3, <1>4 DEF Injection, IsInjective
<1>6. Cardinality(1..k) = k
  BY <1>2, FS_Interval
<1>7. q \in Surjection(1..k, S)
  BY <1>1, <1>2, <1>5, <1>6, FS_Injection, Zenon
<1> QED
  BY <1>3, <1>7 DEF Surjection

\* The writes of a look, by their place.
LookWrites(todo, convs, exits, fails, a, b, c) ==
    /\ a \in Nat /\ b \in Nat /\ c \in Nat
    /\ DOMAIN convs = 1..a /\ DOMAIN exits = 1..b /\ DOMAIN fails = 1..c /\ DOMAIN todo = 1..(a + b + c)
    /\ \A i \in 1..a : todo[i] = Saves(convs)[i]
    /\ \A i \in 1..b : todo[a + i] = ExitFails(exits)[i]
    /\ \A i \in 1..c : todo[a + b + i] = NextFails(fails)[i]

(* What a look saves is its three lists, one behind the other.              *)
LEMMA LookListed ==
    ASSUME NEW T \in SUBSET Slot, NEW convs \in ListedSlots(T), NEW X \in SUBSET Slot, NEW exits \in ListedSlots(X),
           NEW S \in SUBSET Node, NEW fails \in ListedNodes(S),
           NEW todo, todo = Saves(convs) \o ExitFails(exits) \o NextFails(fails)
    PROVE  \E a, b, c : LookWrites(todo, convs, exits, fails, a, b, c)
<1> DEFINE A == Saves(convs)
           B == ExitFails(exits)
           C == NextFails(fails)
           W == {A[i] : i \in DOMAIN A} \cup {B[i] : i \in DOMAIN B} \cup {C[i] : i \in DOMAIN C}
<1>1. \A Y \in SUBSET Slot : Cardinality(Y) \in Nat
  BY SlotsFinite, FS_Subset, FS_CardinalityType
<1>2. Cardinality(S) \in Nat
  BY NodesFinite, FS_Subset, FS_CardinalityType
<1>3. PICK a, b, c : a = Cardinality(T) /\ b = Cardinality(X) /\ c = Cardinality(S)
  OBVIOUS
<1>4. a \in Nat /\ b \in Nat /\ c \in Nat
  BY <1>1, <1>2, <1>3
<1>5. DOMAIN convs = 1..a /\ DOMAIN exits = 1..b /\ DOMAIN fails = 1..c
  BY <1>3 DEF ListedSlots, ListedNodes
<1>6. A \in [1..a -> W] /\ B \in [1..b -> W] /\ C \in [1..c -> W]
  <2>1. DOMAIN A = 1..a /\ DOMAIN B = 1..b /\ DOMAIN C = 1..c
    BY <1>5 DEF Saves, ExitFails, NextFails
  <2>2. A = [i \in 1..a |-> A[i]] /\ B = [i \in 1..b |-> B[i]] /\ C = [i \in 1..c |-> C[i]]
    BY <1>5 DEF Saves, ExitFails, NextFails
  <2> HIDE DEF A, B, C
  <2> QED
    BY <2>1, <2>2
<1>7. todo = A \o B \o C
  OBVIOUS
<1> HIDE DEF A, B, C, W
<1>8. /\ A \in Seq(W) /\ Len(A) = a
      /\ B \in Seq(W) /\ Len(B) = b
      /\ C \in Seq(W) /\ Len(C) = c
  BY <1>4, <1>6, ListIsSeq, Zenon
<1>9. /\ A \o B \in Seq(W) /\ Len(A \o B) = a + b
      /\ \A i \in 1..(a + b) : (A \o B)[i] = IF i <= a THEN A[i] ELSE B[i - a]
  BY <1>8, ConcatProperties, Zenon
<1>10. PICK D : D = A \o B
  OBVIOUS
<1>11. /\ todo \in Seq(W) /\ Len(todo) = (a + b) + c
       /\ \A i \in 1..((a + b) + c) : todo[i] = IF i <= a + b THEN D[i] ELSE C[i - (a + b)]
  <2>1. todo = D \o C /\ D \in Seq(W) /\ Len(D) = a + b
    BY <1>7, <1>9, <1>10, Zenon
  <2>2. /\ D \o C \in Seq(W) /\ Len(D \o C) = Len(D) + Len(C)
        /\ \A i \in 1..(Len(D) + Len(C)) : (D \o C)[i] = IF i <= Len(D) THEN D[i] ELSE C[i - Len(D)]
    <3>1. D \in Seq(W) /\ C \in Seq(W)
      BY <1>8, <2>1
    <3> QED
      BY <3>1, ConcatProperties, Zenon
  <2> QED
    BY <1>8, <2>1, <2>2, Zenon
<1>12. DOMAIN todo = 1..(a + b + c)
  BY <1>11
<1>13. \A i \in 1..a : todo[i] = A[i]
  <2> TAKE i \in 1..a
  <2>1. i \in 1..(a + b) /\ i \in 1..((a + b) + c) /\ i <= a + b /\ i <= a
    BY <1>4
  <2> QED
    BY <1>9, <1>10, <1>11, <2>1
<1>14. \A i \in 1..b : todo[a + i] = B[i]
  <2> TAKE i \in 1..b
  <2>1. PICK k : k = a + i
    OBVIOUS
  <2>2. k \in 1..(a + b) /\ k \in 1..((a + b) + c) /\ k <= a + b /\ ~(k <= a) /\ k - a = i
    BY <1>4, <2>1
  <2> QED
    BY <1>9, <1>10, <1>11, <2>1, <2>2
<1>15. \A i \in 1..c : todo[a + b + i] = C[i]
  <2> TAKE i \in 1..c
  <2>1. PICK k : k = a + b + i
    OBVIOUS
  <2>2. k \in 1..((a + b) + c) /\ ~(k <= a + b) /\ k - (a + b) = i
    BY <1>4, <2>1
  <2> QED
    BY <1>11, <2>1, <2>2
<1>16. LookWrites(todo, convs, exits, fails, a, b, c)
  BY <1>4, <1>5, <1>12, <1>13, <1>14, <1>15 DEF LookWrites, A, B, C
<1> QED
  BY <1>16

\* Every turn whose session exited ends.
ExitsAmong(todo) ==
    \A s \in Slot : ExitedUnder(s) =>
       \E i \in DOMAIN todo :
          todo[i] = Commit([op |-> "fail", node |-> host[s].live, epoch |-> host[s].liveEpoch])

(* What a look saves includes the end of every turn whose session exited.   *)
LEMMA ExitsSaved ==
    ASSUME NEW convs \in ListedSlots({s \in Slot : NewConversation(s)}),
           NEW exits \in ListedSlots({s \in Slot : ExitedUnder(s)}),
           NEW S \in SUBSET Node, NEW fails \in ListedNodes(S),
           NEW todo, todo = Saves(convs) \o ExitFails(exits) \o NextFails(fails)
    PROVE  ExitsAmong(todo)
<1> SUFFICES ASSUME NEW s \in Slot, ExitedUnder(s)
             PROVE  \E i \in DOMAIN todo :
                       todo[i] = Commit([op |-> "fail", node |-> host[s].live, epoch |-> host[s].liveEpoch])
  BY DEF ExitsAmong
<1> DEFINE T == {t \in Slot : NewConversation(t)}
           X == {t \in Slot : ExitedUnder(t)}
<1>1. T \in SUBSET Slot /\ X \in SUBSET Slot /\ s \in X
  <2>1. T \in SUBSET Slot /\ X \in SUBSET Slot
    BY Zenon
  <2>2. s \in X
    BY Zenon
  <2> QED
    BY <2>1, <2>2
<1>3. convs \in ListedSlots(T) /\ exits \in ListedSlots(X)
  OBVIOUS
<1> HIDE DEF T, X
<1>2. PICK e \in DOMAIN exits : exits[e] = s
  BY <1>1, <1>3, ListsAll
<1>4. PICK a, b, c : LookWrites(todo, convs, exits, fails, a, b, c)
  BY <1>1, <1>3, LookListed, Zenon
<1>5. PICK i : i = a + e
  OBVIOUS
<1>6. i \in DOMAIN todo /\ todo[i] = ExitFails(exits)[e]
  <2>1. a \in Nat /\ b \in Nat /\ c \in Nat /\ e \in 1..b
    BY <1>2, <1>4, Zenon DEF LookWrites
  <2>2. i \in 1..(a + b + c)
    BY <1>5, <2>1
  <2>3. DOMAIN todo = 1..(a + b + c) /\ todo[a + e] = ExitFails(exits)[e]
    BY <1>4, <2>1, Zenon DEF LookWrites
  <2> QED
    BY <1>5, <2>2, <2>3
<1> QED
  BY <1>2, <1>6 DEF ExitFails

(* The end of a look, with or without findings that were saved: sessions    *)
(* are started where there was none, and sends queued behind what waited.   *)
(* `d` operations leave the head of the queue: the pump, or none.           *)
LEMMA AfterOrphans ==
    ASSUME RuntimeInv, SchedInv, OrphanInv, WorldKept,
           UNCHANGED <<value, latched, open>>, run' = value, busy' = Idle, Trusted' => Trusted,
           busy.op.op # "send", busy.todo = <<>>,
           NEW d \in {0, 1}, NEW q \in Seq(Waiting),
           \A i \in DOMAIN pending : i <= d => pending[i] = PumpOp,
           \A i \in DOMAIN pending : i > d => i - d \in DOMAIN q /\ q[i - d] = pending[i],
           \A i \in DOMAIN q : q[i].op # "send" /\ \E j \in DOMAIN pending : q[i] = pending[j],
           NEW r \in Records, NEW starts \in SUBSET {s \in Slot : host[s].status = "none"},
           NEW sends \in SUBSET Node, After(q, host, r, starts, sends)
    PROVE  OrphanInv'
<1>1. Types /\ host \in [Slot -> Hosts] /\ Len(q) \in Nat /\ DOMAIN q = 1..Len(q)
  BY DEF RuntimeInv, Types
<1>2. PICK k \in Nat : \E list \in [1..k -> sends] : QueueAfter(q, k, list)
  <2>1. \A s \in Slot : host[s].status # "none" => host[s].epoch # NoEpoch
    BY DEF RuntimeInv, Epochs
  <2> QED
    BY <1>1, <2>1, AfterQueue
<1>3. PICK list \in [1..k -> sends] : QueueAfter(q, k, list)
  BY <1>2
<1>4. /\ pending' \in Seq(Waiting) /\ Len(pending') \in Nat
      /\ DOMAIN pending' = 1..Len(pending') /\ Len(q) + k <= Len(pending')
      /\ \A i \in DOMAIN q : pending'[i] = q[i]
      /\ \A i \in DOMAIN pending' :
            \/ i \in DOMAIN q /\ pending'[i] = q[i]
            \/ i - Len(q) \in 1..k /\ pending'[i].op = "send"
            \/ pending'[i] = PumpOp /\ i = Len(pending')
  BY <1>3 DEF QueueAfter
<1>5. PumpOp.op = "pump"
  BY DEF PumpOp
<1>6. \A s \in Slot : host'[s] = IF s \in starts THEN StartedHost(s, r) ELSE host[s]
  BY DEF After
<1>7. CommitLast' /\ StartsAbsent' /\ StopQuiet' /\ QuietRecord(run')
  BY PumpIsCurrent DEF CommitLast, StartsAbsent, StopQuiet, StopSaved, RuntimeInv
<1>8. StoreWorks'
  BY DEF OrphanInv, StoreWorks
<1>9. AcceptOrder'
  <2>1. ASSUME NEW i \in DOMAIN pending', NEW j \in DOMAIN pending', i < j, pending'[i].op = "send",
               IsAccept(pending'[j], pending'[i].node)
        PROVE  FALSE
    <3>1. i - Len(q) \in 1..k
      BY <1>4, <1>5, <2>1
    <3>2. ~(j \in DOMAIN q)
      BY <1>1, <1>4, <2>1, <3>1
    <3>3. pending'[j].op \in {"send", "pump"}
      BY <1>4, <1>5, <3>2
    <3> QED
      BY <2>1, <3>3 DEF IsAccept
  <2> QED
    BY <2>1, PumpIsCurrent DEF AcceptOrder
<1>10. HostsLive'
  <2>1. \A s \in Slot : \/ host'[s] = host[s]
                        \/ host'[s].live = NoNode /\ host'[s].begun = 0 /\ host'[s].turns = 0
    BY <1>6 DEF StartedHost, NoHost
  <2> QED
    BY <2>1, HostsLiveNext DEF OrphanInv, HostsLive, LiveStatus
<1>11. Guarded'
  <2> SUFFICES ASSUME Trusted', NEW n \in Node, IsInFlight(value', n) PROVE CaredFor(n)'
    BY DEF Guarded
  <2>1. Trusted /\ IsInFlight(value, n)
    OBVIOUS
  <2>2. WorkedOn(n) \/ EndQueued(n) \/ EndAtWork(n) \/ JustSent(n)
    BY <2>1 DEF OrphanInv, Guarded, CaredFor
  <2>3. Kept(n, d)
    <3>1. \A i \in DOMAIN pending : i > d => i - d \in DOMAIN pending' /\ pending'[i - d] = pending[i]
      <4> TAKE i \in DOMAIN pending
      <4> HAVE i > d
      <4>1. PICK j : j = i - d
        OBVIOUS
      <4>2. j \in DOMAIN q /\ q[j] = pending[i]
        BY <4>1
      <4>3. j \in DOMAIN pending'
        BY <1>1, <1>4, <4>2
      <4> QED
        BY <1>4, <4>1, <4>2, <4>3
    <3>2. \A i \in DOMAIN pending' : IsAccept(pending'[i], n) => \E j \in DOMAIN pending : pending'[i] = pending[j]
      <4> TAKE i \in DOMAIN pending'
      <4> HAVE IsAccept(pending'[i], n)
      <4>1. i \in DOMAIN q /\ pending'[i] = q[i]
        BY <1>4, <1>5 DEF IsAccept
      <4> QED
        BY <4>1
    <3>3. ~AcceptAtWork(n) /\ ~AcceptAtWork(n)'
      BY PumpIsCurrent DEF AcceptAtWork
    <3>4. \A i \in DOMAIN pending : ~(IsAccept(pending[i], n) /\ i <= d)
      BY <1>5 DEF IsAccept
    <3> QED
      BY <1>4, <3>1, <3>2, <3>3, <3>4 DEF Kept
  <2>4. CASE WorkedOn(n)
    <3>1. SlotOf[n] \in Slot /\ n # NoNode
      BY GraphTyped, NoNodeIsNone
    <3>2. host[SlotOf[n]].status # "none"
      BY <2>4, <3>1 DEF OrphanInv, HostsLive, LiveStatus, WorkedOn
    <3>3. host'[SlotOf[n]] = host[SlotOf[n]]
      BY <1>6, <3>1, <3>2
    <3>4. WorkedOn(n)'
      BY <1>1, <2>3, <2>4, <3>3, WorkStays DEF GoesOn
    <3> QED
      BY <3>4 DEF CaredFor
  <2>5. CASE EndQueued(n)
    <3>1. PICK j \in DOMAIN pending :
             /\ Ends(pending[j], n)
             /\ pending[j].op = "finish" /\ pending[j].ok => TurnKnown(n, pending[j].turn, j)
      BY <2>5 DEF EndQueued
    <3>2. j > d
      <4>1. ~(j <= d)
        BY <1>5, <3>1 DEF Ends
      <4>2. j \in Int
        BY <1>1 DEF Types
      <4> QED
        BY <4>1, <4>2
    <3>3. EndQueued(n)'
      BY <1>1, <2>3, <3>1, <3>2, EndStays
    <3> QED
      BY <3>3 DEF CaredFor
  <2>6. ~EndAtWork(n)
    BY DEF EndAtWork
  <2>7. ~JustSent(n)
    BY DEF JustSent, RuntimeInv, BusyWork
  <2> QED
    BY <2>2, <2>4, <2>5, <2>6, <2>7
<1> QED
  BY <1>7, <1>8, <1>9, <1>10, <1>11 DEF OrphanInv, WorldKept

(* The continuation of a pump.                                              *)
LEMMA PumpDoneOrphans ==
    ASSUME RuntimeInv, SchedInv, OrphanInv, WorldKept,
           StoreDone, busy.op.op = "pump"
    PROVE  OrphanInv'
<1> DEFINE o == busy.op
<1>1. /\ open /\ UNCHANGED <<value, latched, open>> /\ run' = value
      /\ busy' = Idle /\ busy.todo = <<>> /\ (Trusted' => Trusted)
  BY DoneTrusted
<1>2. Types /\ o \in Looks
  <2>1. o \in (Waiting \ {PumpOp}) \cup Looks \cup {Idle.op}
    BY DEF RuntimeInv, Types
  <2> QED
    BY <2>1, PumpIsPump, PumpIsCurrent DEF RuntimeInv
<1>3. PICK starts \in SUBSET {s \in Slot : host[s].status = "none"}, sends \in SUBSET Node :
         After(pending, host, value, starts, sends)
  <2>1. After(pending, host, value, o.starts, o.sends) \/ After(pending, host, value, {}, {})
    BY DEF StoreDone, PumpDone
  <2>2. o.starts \in SUBSET {s \in Slot : host[s].status = "none"} /\ o.sends \in SUBSET Node
    BY <1>2 DEF Looks, OrphanInv, StartsAbsent
  <2> QED
    BY <2>1, <2>2
<1>4. /\ pending \in Seq(Waiting) /\ value \in Records
      /\ \A i \in DOMAIN pending : i - 0 = i /\ i > 0
      /\ \A i \in DOMAIN pending : pending[i].op # "send"
  BY <1>2 DEF Types, RuntimeInv, QueueOrder
<1>5. PICK q : q = pending
  OBVIOUS
<1>6. /\ \A i \in DOMAIN pending : i <= 0 => pending[i] = PumpOp
      /\ \A i \in DOMAIN pending : i > 0 => i - 0 \in DOMAIN q /\ q[i - 0] = pending[i]
      /\ \A i \in DOMAIN q : q[i].op # "send" /\ \E j \in DOMAIN pending : q[i] = pending[j]
      /\ q \in Seq(Waiting) /\ After(q, host, value, starts, sends)
  <2>1. \A i \in DOMAIN pending : ~(i <= 0)
    BY <1>2 DEF Types
  <2> QED
    BY <1>3, <1>4, <1>5, <2>1
<1>7. 0 \in {0, 1}
  OBVIOUS
<1>8. ~(busy.op.op = "send")
  OBVIOUS
<1> QED
  BY <1>1, <1>3, <1>4, <1>6, <1>7, <1>8, AfterOrphans

(* A look that has nothing to save goes straight on; one that has lets go   *)
(* of the turns whose sessions exited, and has their ends at work.          *)
LEMMA PumpOrphans ==
    ASSUME RuntimeInv, SchedInv, OrphanInv, WorldKept, Pump
    PROVE  OrphanInv'
<1>1. PICK starts \in SUBSET {s \in Slot : host[s].status = "none"}, S \in SUBSET ReadyNodes,
           convs \in ListedSlots({s \in Slot : NewConversation(s)}),
           exits \in ListedSlots({s \in Slot : ExitedUnder(s)}) :
           \E fails \in ListedNodes(S) :
              LookDoes(starts, Saves(convs) \o ExitFails(exits) \o NextFails(fails))
  BY Look
<1>2. /\ open /\ busy = Idle /\ pending # <<>> /\ Head(pending) = PumpOp
      /\ UNCHANGED <<value, latched, open, run, error>>
  BY DEF Pump, store
<1>3. Types /\ LiveTurns /\ run = value /\ run \in Records
  BY <1>2 DEF RuntimeInv, Types, Installed
<1>4. busy.op.op = "none" /\ busy.todo = <<>> /\ ~busy.began /\ busy.ok
  BY <1>2 DEF Idle
<1>5. PICK q : q = Tail(pending)
  OBVIOUS
<1>6. /\ Len(pending) \in Nat \ {0} /\ DOMAIN pending = 1..Len(pending) /\ pending[1] = PumpOp
      /\ q \in Seq(Waiting) /\ DOMAIN q = 1..(Len(pending) - 1)
      /\ \A i \in DOMAIN q : i + 1 \in DOMAIN pending /\ q[i] = pending[i + 1]
  BY <1>2, <1>3, <1>5 DEF Types
<1>7. /\ \A i \in DOMAIN pending : i <= 1 => pending[i] = PumpOp
      /\ \A i \in DOMAIN pending : i > 1 => i - 1 \in DOMAIN q /\ q[i - 1] = pending[i]
  <2>1. ASSUME NEW i \in DOMAIN pending, i <= 1
        PROVE  pending[i] = PumpOp
    <3>1. i = 1
      BY <1>6, <2>1
    <3> QED
      BY <1>6, <3>1
  <2>2. ASSUME NEW i \in DOMAIN pending, i > 1
        PROVE  i - 1 \in DOMAIN q /\ q[i - 1] = pending[i]
    <3>1. PICK j : j = i - 1
      OBVIOUS
    <3>2. j \in DOMAIN q /\ j + 1 = i
      BY <1>6, <2>2, <3>1
    <3> QED
      BY <1>6, <3>1, <3>2
  <2> QED
    BY <2>1, <2>2
<1>8. \A i \in DOMAIN q : q[i].op \notin {"send", "pump"} /\ \E j \in DOMAIN pending : q[i] = pending[j]
  <2> TAKE i \in DOMAIN q
  <2>1. i + 1 \in DOMAIN pending /\ 1 \in DOMAIN pending /\ 1 < i + 1 /\ q[i] = pending[i + 1]
    BY <1>6
  <2>2. pending[1].op = "pump"
    BY <1>6 DEF PumpOp
  <2> QED
    BY <2>1, <2>2 DEF RuntimeInv, QueueOrder
<1>9. LookSends \in SUBSET Node
  BY DEF LookSends, DispatchSend, Taken
<1>10. \A s \in Slot : /\ ExitedUnder(s) => Cleared[s] = Released(host[s])
                       /\ ~ExitedUnder(s) => Cleared[s] = host[s]
  BY DEF Cleared
<1>11. PICK fails \in ListedNodes(S) : LookDoes(starts, Saves(convs) \o ExitFails(exits) \o NextFails(fails))
  BY <1>1
<1>12. PICK todo : todo = Saves(convs) \o ExitFails(exits) \o NextFails(fails)
  OBVIOUS
<1>13. ExitsAmong(todo)
  <2>1. S \in SUBSET Node
    BY DEF ReadyNodes
  <2> QED
    BY <1>12, <2>1, ExitsSaved, Zenon
<1>14. CASE todo = <<>> /\ After(q, Cleared, run, starts, LookSends) /\ UNCHANGED busy
  <2>1. \A s \in Slot : ~ExitedUnder(s)
    BY <1>13, <1>14 DEF ExitsAmong
  <2>2. Cleared = host
    BY <1>3, <2>1 DEF Cleared, Types
  <2>3. After(q, host, run, starts, LookSends)
    BY <1>14, <2>2
  <2>4. run' = value /\ busy' = Idle /\ (Trusted' => Trusted)
    BY <1>2, <1>3, <1>14 DEF Trusted
  <2>5. 1 \in {0, 1} /\ busy.op.op # "send"
    BY <1>4
  <2>6. UNCHANGED <<value, latched, open>> /\ \A i \in DOMAIN q : q[i].op # "send"
    BY <1>2, <1>8
  <2> QED
    BY <1>3, <1>4, <1>6, <1>7, <1>8, <1>9, <2>3, <2>4, <2>5, <2>6, AfterOrphans
<1>15. CASE /\ busy' = [op |-> [op |-> "pump", starts |-> starts, sends |-> LookSends],
                        todo |-> todo, ok |-> TRUE, began |-> FALSE]
            /\ host' = Cleared /\ pending' = q
  <2> DEFINE look == [op |-> "pump", starts |-> starts, sends |-> LookSends]
  <2>1. look.op = "pump" /\ look.starts = starts
    OBVIOUS
  <2>2. busy' = [op |-> look, todo |-> todo, ok |-> TRUE, began |-> FALSE]
    BY <1>15
  <2> HIDE DEF look
  <2>3. busy'.op = look /\ busy'.todo = todo /\ busy'.ok /\ ~busy'.began
    BY <2>2
  <2>4. /\ Trusted' = Trusted
        /\ \A s \in Slot :
              /\ Cleared[s].status = host[s].status
              /\ Cleared[s].begun = host[s].begun /\ Cleared[s].turns = host[s].turns
              /\ ExitedUnder(s) => Cleared[s].live = NoNode
    <3>1. ASSUME NEW h \in Hosts
          PROVE  /\ Released(h).status = h.status /\ Released(h).live = NoNode
                 /\ Released(h).begun = h.begun /\ Released(h).turns = h.turns
      BY DEF Released, Hosts
    <3> QED
      BY <1>2, <1>3, <1>4, <1>10, <2>3, <3>1 DEF Trusted, Types
  <2>5. CommitLast'
    <3>1. FoundWork(todo)
      BY <1>3, <1>12, LookWork, Zenon
    <3>2. todo \in Seq(Writes) /\ \A i \in DOMAIN todo : todo[i].write = "commit"
      BY <3>1 DEF FoundWork
    <3>3. todo # <<>> => Len(todo) \in DOMAIN todo
      BY <3>2
    <3> QED
      BY <2>3, <3>2, <3>3 DEF CommitLast
  <2>6. StoreWorks' /\ StopQuiet' /\ QuietRecord(run')
    BY <1>2, <2>1, <2>3, <2>4 DEF OrphanInv, StoreWorks, StopQuiet, StopSaved, QuietRecord, IsLive, IsInFlight, StateOf
  <2>7. StartsAbsent'
    BY <1>15, <2>1, <2>3, <2>4 DEF StartsAbsent
  <2>8. AcceptOrder'
    BY <1>8, <1>15, <2>1, <2>3 DEF AcceptOrder
  <2>9. HostsLive'
    BY <1>10, <1>15, <2>4, HostsLiveNext DEF OrphanInv, HostsLive, LiveStatus
  <2>10. Guarded'
    <3> SUFFICES ASSUME Trusted, NEW n \in Node, IsInFlight(value', n) PROVE CaredFor(n)'
      BY <2>4 DEF Guarded
    <3>1. IsInFlight(value, n) /\ SlotOf[n] \in Slot /\ value' = value
      BY <1>2, GraphTyped
    <3>2. WorkedOn(n) \/ EndQueued(n)
      <4>1. ~EndAtWork(n) /\ ~JustSent(n)
        BY <1>4 DEF EndAtWork, JustSent
      <4> QED
        BY <3>1, <4>1 DEF OrphanInv, Guarded, CaredFor
    <3>3. Kept(n, 1)
      <4>1. \A i \in DOMAIN pending' : \E j \in DOMAIN pending : pending'[i] = pending[j]
        BY <1>8, <1>15
      <4>2. ~AcceptAtWork(n) /\ ~AcceptAtWork(n)'
        BY <1>4, <2>1, <2>3 DEF AcceptAtWork, IsAccept
      <4>3. \A i \in DOMAIN pending : ~(IsAccept(pending[i], n) /\ i <= 1)
        BY <1>7 DEF IsAccept, PumpOp
      <4> QED
        BY <1>6, <1>7, <1>15, <3>1, <4>1, <4>2, <4>3 DEF Kept
    <3>4. CASE WorkedOn(n) /\ ~ExitedUnder(SlotOf[n])
      <4>1. host'[SlotOf[n]] = host[SlotOf[n]]
        BY <1>10, <1>15, <3>1, <3>4
      <4>2. WorkedOn(n)'
        BY <1>3, <3>3, <3>4, <4>1, WorkStays DEF GoesOn
      <4> QED
        BY <4>2 DEF CaredFor
    <3>5. CASE WorkedOn(n) /\ ExitedUnder(SlotOf[n])
      <4>1. PICK s \in Slot : s = SlotOf[n]
        BY <3>1
      <4>2. host[s].live = n
        BY <3>5, <4>1 DEF WorkedOn
      <4>3. value.nodes[n].epoch = host[s].liveEpoch
        BY <3>1, <4>2, LiveIsWorkedOn DEF InFlightUnder
      <4>4. PICK i \in DOMAIN todo :
               todo[i] = Commit([op |-> "fail", node |-> host[s].live, epoch |-> host[s].liveEpoch])
        BY <1>13, <3>5, <4>1 DEF ExitsAmong
      <4>5. PICK w, o : w = todo[i] /\ o = w.do
        OBVIOUS
      <4>6. w.write = "commit" /\ o.op = "fail" /\ o.node = n /\ o.epoch = value.nodes[n].epoch
        BY <4>2, <4>3, <4>4, <4>5 DEF Commit
      <4>7. Ends(o, n)'
        BY <3>1, <4>6 DEF Ends
      <4>8. EndAtWork(n)'
        BY <2>3, <4>5, <4>6, <4>7 DEF EndAtWork
      <4> QED
        BY <4>8 DEF CaredFor
    <3>6. CASE EndQueued(n)
      <4>1. PICK j \in DOMAIN pending :
               /\ Ends(pending[j], n)
               /\ pending[j].op = "finish" /\ pending[j].ok => TurnKnown(n, pending[j].turn, j)
        BY <3>6 DEF EndQueued
      <4>2. j > 1
        <5>1. ~(j <= 1)
          BY <1>7, <4>1 DEF Ends, PumpOp
        <5>2. j \in Int
          BY <1>6
        <5> QED
          BY <5>1, <5>2
      <4>3. EndQueued(n)'
        BY <1>3, <3>3, <4>1, <4>2, EndStays
      <4> QED
        BY <4>3 DEF CaredFor
    <3> QED
      BY <3>2, <3>4, <3>5, <3>6
  <2> QED
    BY <2>5, <2>6, <2>7, <2>8, <2>9, <2>10 DEF OrphanInv, WorldKept
<1> QED
  BY <1>5, <1>11, <1>12, <1>14, <1>15 DEF LookDoes

(* A closed run has no hosts, and an opened one nothing in flight.          *)
LEMMA OpeningOrphans ==
    ASSUME RuntimeInv, SchedInv, OrphanInv, WorldKept, Close \/ Open \/ OpenFails
    PROVE  OrphanInv'
<1>1. disk \in Records /\ QuietRecord(disk)
  BY DEF RuntimeInv, Types
<1>2. ~open => busy = Idle /\ pending = <<>> /\ ~scheduled /\ ~latched /\ host = [s \in Slot |-> NoHost]
  BY DEF RuntimeInv, Closed
<1>3. /\ disk' \in {disk, Interrupt(disk)} /\ value' = disk' /\ run' = disk' /\ busy' = Idle
      /\ host' = [s \in Slot |-> NoHost] /\ ~latched'
      /\ open' => disk' = Interrupt(disk)
  BY <1>2 DEF Close, Open, OpenFails, history
<1>4. \A i \in DOMAIN pending' : pending'[i] = PumpOp
  <2>1. CASE Open
    <3>1. pending' = <<>> \o <<>> \o (IF scheduled THEN <<>> ELSE <<PumpOp>>)
      BY <1>2, <2>1 DEF Open, ScheduleAfter
    <3> QED
      BY <1>2, <2>1, <3>1 DEF Open
  <2>2. CASE Close \/ OpenFails
    BY <1>2, <2>2 DEF Close, OpenFails, queue
  <2> QED
    BY <2>1, <2>2
<1>5. \A n \in Node : ~IsInFlight(Interrupt(disk), n)
  BY <1>1, InterruptSettles
<1>6. QuietRecord(run')
  BY <1>1, <1>3, <1>5 DEF QuietRecord
<1>7. Guarded'
  BY <1>3, <1>5 DEF Guarded, Trusted
<1>8. StoreWorks' /\ CommitLast' /\ StartsAbsent' /\ StopQuiet'
  BY <1>3, PumpIsCurrent DEF StoreWorks, CommitLast, StartsAbsent, StopQuiet, StopSaved
<1>9. AcceptOrder'
  BY <1>3, <1>4, PumpIsCurrent DEF AcceptOrder, IsAccept, PumpOp
<1>10. HostsLive'
  BY <1>3, HostsLiveNext DEF LiveStatus, NoHost
<1> QED
  BY <1>6, <1>7, <1>8, <1>9, <1>10 DEF OrphanInv, WorldKept

(* A run that was just created.                                             *)
LEMMA InitOrphans == Init => OrphanInv
<1> SUFFICES ASSUME Init PROVE OrphanInv
  OBVIOUS
<1>1. \A i \in DOMAIN pending : pending[i] = PumpOp
  BY DEF Init
<1>2. \A n \in Node : ~IsInFlight(NewRecord, n)
  BY DEF NewRecord, IsInFlight, StateOf, NodeIn
<1>3. /\ busy = Idle /\ value = NewRecord /\ run = NewRecord /\ host = [s \in Slot |-> NoHost]
      /\ ~latched /\ left \in Worlds
  BY DEF Init
<1>4. left \in Remaining
  BY <1>3, WorldsTyped DEF Remaining
<1>5. QuietRecord(run) /\ Guarded
  BY <1>2, <1>3 DEF QuietRecord, Guarded
<1>6. StoreWorks /\ CommitLast /\ StartsAbsent /\ StopQuiet
  BY <1>3, PumpIsCurrent DEF StoreWorks, CommitLast, StartsAbsent, StopQuiet, StopSaved
<1>7. AcceptOrder
  BY <1>1, <1>3, PumpIsCurrent DEF AcceptOrder, IsAccept, PumpOp
<1>8. HostsLive
  BY <1>3 DEF HostsLive, LiveStatus, NoHost
<1> QED
  BY <1>4, <1>5, <1>6, <1>7, <1>8 DEF OrphanInv

(* A step that changes nothing.                                             *)
LEMMA StutterOrphans ==
    ASSUME OrphanInv, WorldKept, UNCHANGED vars
    PROVE  OrphanInv'
<1>1. UNCHANGED <<value, latched, open, run, pending, busy, error, host, left>>
  BY DEF vars, store, queue
<1>2. (CommitLast /\ StoreWorks /\ StartsAbsent /\ AcceptOrder /\ StopQuiet /\ HostsLive /\ QuietRecord(run))'
  BY <1>1, HostsLiveNext DEF OrphanInv, CommitLast, StoreWorks, StartsAbsent, AcceptOrder, StopQuiet,
       StopSaved, HostsLive, Trusted, QuietRecord, IsLive, IsInFlight, StateOf
<1>3. ASSUME NEW n \in Node
      PROVE  CaredFor(n)' = CaredFor(n) /\ IsInFlight(value', n) = IsInFlight(value, n)
  BY <1>1 DEF CaredFor, WorkedOn, Unaccepted, EndQueued, EndAtWork, JustSent, TurnKnown, Ends, AcceptAtWork,
       IsAccept, IsInFlight, StateOf
<1>4. Guarded'
  BY <1>1, <1>3 DEF OrphanInv, Guarded, Trusted
<1> QED
  BY <1>1, <1>2, <1>4 DEF OrphanInv

(* No node that is in flight is forgotten in any state of the runtime.      *)
LEMMA OrphanInvHolds == Spec => []OrphanInv
<1>1. RuntimeInv /\ SchedInv /\ OrphanInv /\ [Next]_vars => OrphanInv'
  <2> SUFFICES ASSUME RuntimeInv, SchedInv, OrphanInv, [Next]_vars PROVE OrphanInv'
    OBVIOUS
  <2> WorldKept
    BY WorldStays DEF OrphanInv
  <2>1. CASE Pump
    BY <2>1, PumpOrphans
  <2>2. CASE StartOperation
    BY <2>2, StartOrphans
  <2>3. CASE StoreStep \/ WriteFails
    BY <2>3, StoreOrphans
  <2>4. CASE StoreDone
    BY <2>4, SendDoneOrphans, PumpDoneOrphans, OtherDoneOrphans
  <2>5. ASSUME NEW s \in Slot,
               \/ SessionReady(s) \/ SessionExits(s) \/ SessionRestarts(s) \/ IdentityReported(s)
               \/ TurnFailsUnnamed(s) \/ TurnRefused(s)
               \/ TurnAccepted(s) \/ \E ok \in BOOLEAN : TurnFinished(s, ok)
        PROVE  OrphanInv'
    BY <2>5, SessionOrphans, TurnOrphans
  <2>6. CASE UserStop \/ UserResume
    BY <2>6, UserOrphans
  <2>7. CASE Close \/ Open \/ OpenFails
    BY <2>7, OpeningOrphans
  <2>8. CASE UNCHANGED vars
    BY <2>8, StutterOrphans
  <2> QED
    BY <2>1, <2>2, <2>3, <2>4, <2>5, <2>6, <2>7, <2>8 DEF Next
<1> QED
  BY <1>1, InitOrphans, RuntimeInvHolds, SchedInvHolds, PTL DEF Spec

(* No node is left in flight by itself.  A node the record says is running  *)
(* is what its slot's host waits for, and its turn was sent, runs, went     *)
(* with the session or is one that can have gone silent; or the operation   *)
(* that ends it is queued or at work.  States after a failed write excepted.*)
THEOREM NothingIsOrphaned == Spec => []NoOrphanNode
<1>1. RuntimeInv /\ OrphanInv => NoOrphanNode
  <2> SUFFICES ASSUME RuntimeInv, OrphanInv, open, ~error, busy.ok, NEW n \in InFlight(value)
               PROVE  \/ host[SlotOf[n]].live = n /\ (AtWork(SlotOf[n]) \/ Silent(SlotOf[n]))
                      \/ \E o \in Queued : Decides(o, n)
    BY DEF NoOrphanNode
  <2>1. n \in Node /\ SlotOf[n] \in Slot /\ CaredFor(n)
    BY GraphTyped DEF InFlight, OrphanInv, Guarded, Trusted
  <2>2. CASE WorkedOn(n)
    <3>1. LiveStatus(host[SlotOf[n]], SlotOf[n]) /\ host[SlotOf[n]].live = n
      BY <2>1, <2>2 DEF WorkedOn, OrphanInv, HostsLive
    <3>2. ~(host[SlotOf[n]].begun < host[SlotOf[n]].turns)
            \/ host[SlotOf[n]].begun # host[SlotOf[n]].turns
      BY <2>1 DEF RuntimeInv, Types, Hosts
    <3> QED
      BY <2>1, <3>1, <3>2, NoNodeIsNone DEF LiveStatus, AtWork, Silent, Outstanding
  <2>3. CASE EndQueued(n)
    <3>1. PICK j \in DOMAIN pending : Ends(pending[j], n)
      BY <2>3 DEF EndQueued
    <3>2. pending[j] \in Queued
      BY DEF Queued
    <3> QED
      BY <3>1, <3>2 DEF Ends, Decides
  <2>4. CASE EndAtWork(n)
    <3>1. PICK i \in DOMAIN busy.todo : busy.todo[i].write = "commit" /\ Ends(busy.todo[i].do, n)
      BY <2>4 DEF EndAtWork
    <3>2. busy.todo[i].do \in Queued
      BY <3>1 DEF Queued
    <3> QED
      BY <3>1, <3>2 DEF Ends, Decides
  <2>5. CASE JustSent(n)
    <3>1. busy.op.op = "send" /\ busy.op.node = n /\ busy.op \in Queued
      BY <2>5 DEF JustSent, RuntimeInv, BusyWork, Queued
    <3> QED
      BY <3>1 DEF Decides
  <2> QED
    BY <2>1, <2>2, <2>3, <2>4, <2>5 DEF CaredFor
<1> QED
  BY <1>1, RuntimeInvHolds, OrphanInvHolds, PTL

-------------------------------------------------------------------------------
(* The role is given before anything else. *)

Conv(s) == value.slots[s].conversation

Steady(s) == s \in left.claude /\ {"crash", "exit"} \cap left.kinds = {}

\* The role was given in s: for all but Claude, to the conversation r names.
Given(r, s) == briefed[s] # {} /\ (s \notin left.claude => r.slots[s].conversation \in briefed[s])

\* A slot that is recorded as opened was given the role.
OpenedGiven(r) == \A s \in Slot : r.slots[s].opened => Given(r, s)

\* The session of s, if there is one, shows the conversation that is saved.
Shown(s) == s \notin left.claude /\ host[s].status # "none" => host[s].known /\ Conv(s) = host[s].conv

\* A send leaves the role out, and an accept records it as given, only where it
\* was; a send is queued for a conversation that is saved.
Told(o) ==
    /\ (o.op = "send" /\ o.opened) \/ o.op = "accept" => Given(value, SlotOf[o.node])
    /\ o.op = "send" => Shown(SlotOf[o.node])

QueueTold == Told(busy.op) /\ \A i \in DOMAIN pending : Told(pending[i])

\* A turn was sent in the session and has not ended.
Turning(h) == h.status = "working" \/ h.begun < h.turns

HostTold(s) ==
    LET h == host[s]
    IN  /\ NoConversation \notin briefed[s]
        /\ h.known => h.status # "none"
        /\ h.status # "none" =>
              /\ h.conv # NoConversation
              /\ Conv(s) = h.resumed \/ (h.resumed = NoConversation /\ Conv(s) = h.conv)
        /\ h.status \in {"idle", "working"} /\ s \notin left.claude => h.known
        /\ Turning(h) => Given(value, s) /\ (s \notin left.claude => h.known /\ Conv(s) = h.conv)
        /\ Steady(s) =>
              /\ open /\ h.status # "exited" /\ h.resumed = NoConversation /\ briefed[s] \subseteq {h.conv}
              /\ h.status = "none" => Conv(s) = NoConversation /\ briefed[s] = {}

SavesNow(w, s) == w.write = "commit" /\ w.do.op = "conversation" /\ w.do.slot = s

\* A conversation is saved once, and is that of the slot's session.
SavesFirst ==
    \A i \in DOMAIN busy.todo, s \in Slot : SavesNow(busy.todo[i], s) =>
        /\ Conv(s) = NoConversation
        /\ host[s].status # "none" => host[s].resumed = NoConversation /\ host[s].conv = busy.todo[i].do.conv
        /\ Steady(s) => host[s].status # "none"
        /\ \A j \in DOMAIN busy.todo : SavesNow(busy.todo[j], s) => i = j

\* What a look sends goes to conversations that are saved by the time it is queued.
LookSaves ==
    busy.op.op = "pump" /\ busy.ok => \A n \in busy.op.sends :
        LET s == SlotOf[n]
        IN  s \notin left.claude /\ host[s].status # "none" =>
               /\ host[s].known
               /\ Conv(s) = host[s].conv \/ \E i \in DOMAIN busy.todo : SavesNow(busy.todo[i], s)

RoleInv ==
    /\ DOMAIN briefed = Slot
    /\ OpenedGiven(value) /\ OpenedGiven(disk) /\ QueueTold /\ SavesFirst /\ LookSaves
    /\ \A s \in Slot : HostTold(s)

(* A change of the record saves the conversation of one slot, or records    *)
(* one slot as opened, or leaves the slots alone.                           *)
LEMMA ChangedSlots ==
    ASSUME NEW r \in Records, NEW o \in Changes, NEW s \in Slot
    PROVE  /\ Changed(r, o).slots[s].opened =>
                 r.slots[s].opened \/ (o.op = "accept" /\ SlotOf[o.node] = s)
           /\ Changed(r, o).slots[s].conversation =
                 IF o.op = "conversation" /\ o.slot = s THEN o.conv ELSE r.slots[s].conversation
<1> DEFINE q == Changed(r, o)
<1>1. \A p \in Records : RefreshState(p).slots = p.slots
  <2> TAKE p \in Records
  <2> DEFINE nodes == [m \in Node |-> IF StateOf(p, m) = "Waiting" THEN NodeIn("NotRun") ELSE p.nodes[m]]
  <2>1. RefreshState(p) \in {p, [p EXCEPT !.state = "Failing"], [p EXCEPT !.state = "Failed", !.nodes = nodes],
                             [p EXCEPT !.state = "Completed"]}
    BY DEF RefreshState
  <2> HIDE DEF nodes
  <2> QED
    BY <2>1 DEF Records
<1>2. \A m \in Node, node \in [state : NodeStates, epoch : Nat, turn : AnyTurn] :
         [r EXCEPT !.nodes[m] = node] \in Records /\ [r EXCEPT !.nodes[m] = node].slots = r.slots
  BY DEF Records
<1>3. CASE o \in Sends
  <2> DEFINE node == [state |-> "Sending", epoch |-> o.epoch, turn |-> NoTurn]
  <2>1. o.op = "send" /\ o.node \in Node
    BY <1>3 DEF Sends
  <2>2. q = IF CanBeginSend(r, o.node) THEN [r EXCEPT !.nodes[o.node] = node] ELSE r
    BY <1>3, <2>1 DEF Changed, BeginSend
  <2> HIDE DEF node
  <2>3. q.slots = r.slots
    BY <2>2 DEF Records
  <2> QED
    BY <2>1, <2>3
<1>4. CASE o \in Accepts
  <2> DEFINE node == [state |-> "Accepted", epoch |-> o.epoch, turn |-> o.turn]
             slots == [r.slots EXCEPT ![SlotOf[o.node]].opened = TRUE]
             nodes == [r.nodes EXCEPT ![o.node] = node]
  <2>1. o.op = "accept" /\ o.node \in Node
    BY <1>4 DEF Accepts
  <2>2. q = IF CanAccept(r, o.node, o.epoch) THEN [r EXCEPT !.nodes = nodes, !.slots = slots] ELSE r
    BY <1>4, <2>1 DEF Changed, Accept
  <2>3. slots[s].conversation = r.slots[s].conversation /\ (slots[s].opened => r.slots[s].opened \/ SlotOf[o.node] = s)
    BY DEF Records
  <2> HIDE DEF node, slots, nodes
  <2>4. q.slots \in {slots, r.slots}
    BY <2>2 DEF Records
  <2> QED
    BY <2>1, <2>3, <2>4
<1>5. CASE o \in Finishes \cup Fails
  <2>1. o.node \in Node /\ o.op \in {"finish", "fail"}
    BY <1>5 DEF Finishes, Fails
  <2>2. q.slots = r.slots
    <3>1. CASE o.op = "finish" /\ o.ok
      <4> DEFINE node == [state |-> "Completed", epoch |-> NoEpoch, turn |-> o.turn]
      <4>1. q = IF CanComplete(r, o.node, o.epoch, o.turn)
                THEN RefreshState([r EXCEPT !.nodes[o.node] = node]) ELSE r
        BY <3>1 DEF Changed, Complete
      <4>2. node \in [state : NodeStates, epoch : Nat, turn : AnyTurn]
        BY <1>5, <3>1 DEF Finishes, Fails, NoEpoch, NodeStates, AnyTurn
      <4> HIDE DEF node
      <4> QED
        BY <1>1, <1>2, <2>1, <4>1, <4>2
    <3>2. CASE ~(o.op = "finish" /\ o.ok)
      <4>1. q = IF CanFail(r, o.node, o.epoch)
                THEN RefreshState([r EXCEPT !.nodes[o.node] = NodeIn("Failed")]) ELSE r
        BY <2>1, <3>2 DEF Changed, Fail
      <4>2. NodeIn("Failed") \in [state : NodeStates, epoch : Nat, turn : AnyTurn]
        BY DEF NodeIn, NodeStates, NoEpoch, AnyTurn
      <4> QED
        BY <1>1, <1>2, <2>1, <4>1, <4>2
    <3> QED
      BY <3>1, <3>2
  <2> QED
    BY <2>1, <2>2
<1>6. CASE o \in Stops \cup Resumes
  <2> DEFINE stopped == [m \in Node |-> IF IsInFlight(r, m) THEN NodeIn("Stopped")
                                        ELSE IF StateOf(r, m) = "Waiting" THEN NodeIn("NotRun") ELSE r.nodes[m]]
             waiting == [m \in Node |-> IF IsCompleted(r, m) THEN r.nodes[m] ELSE NodeIn("Waiting")]
  <2>1. o.op \in {"stop", "resume"}
    BY <1>6 DEF Stops, Resumes
  <2>2. q \in {r, [r EXCEPT !.state = "Stopped", !.nodes = stopped], [r EXCEPT !.state = "Running", !.nodes = waiting]}
    BY <2>1 DEF Changed, Stop, Resume
  <2> HIDE DEF stopped, waiting
  <2>3. q.slots = r.slots
    BY <2>2 DEF Records
  <2> QED
    BY <2>1, <2>3
<1>7. CASE o \in Saved
  <2>1. o.op = "conversation" /\ o.slot \in Slot
    BY <1>7 DEF Saved
  <2> DEFINE slots == [r.slots EXCEPT ![o.slot].conversation = o.conv]
  <2>2. q = [r EXCEPT !.slots = slots]
    BY <2>1 DEF Changed, RecordConversation
  <2>3. /\ slots[s].conversation = IF o.slot = s THEN o.conv ELSE r.slots[s].conversation
        /\ slots[s].opened = r.slots[s].opened
    BY <2>1 DEF Records
  <2> HIDE DEF slots
  <2>4. q.slots = slots
    BY <2>2 DEF Records
  <2> QED
    BY <2>1, <2>3, <2>4
<1> QED
  BY <1>3, <1>4, <1>5, <1>6, <1>7 DEF Changes

(* A change keeps what is recorded true: the slot it records as opened was  *)
(* given its role, and the one whose conversation it saves had none.        *)
LEMMA ChangedGiven ==
    ASSUME NEW r \in Records, NEW o \in Changes, OpenedGiven(r),
           \A s \in Slot : NoConversation \notin briefed[s],
           o.op = "accept" => Given(r, SlotOf[o.node]),
           \A s \in Slot : o.op = "conversation" /\ o.slot = s => r.slots[s].conversation = NoConversation
    PROVE  /\ OpenedGiven(Changed(r, o))
           /\ \A s \in Slot : Given(r, s) => Given(Changed(r, o), s)
<1>1. ASSUME NEW s \in Slot, Given(r, s)
      PROVE  Given(Changed(r, o), s)
  BY <1>1, ChangedSlots DEF Given
<1>2. ASSUME NEW s \in Slot, Changed(r, o).slots[s].opened
      PROVE  Given(r, s)
  BY <1>2, ChangedSlots DEF OpenedGiven
<1> QED
  BY <1>1, <1>2 DEF OpenedGiven

\* What a handler leaves of a session: a conversation that is known, or that
\* was begun for the slot, stays its conversation.
HostKept(s) ==
    LET h == host[s]
        g == host'[s]
    IN  /\ g.status # "none" =>
              /\ h.status # "none" /\ g.resumed = h.resumed
              /\ h.known => g.known
              /\ h.known \/ h.resumed = NoConversation => g.conv = h.conv
        /\ Steady(s) /\ h.status # "none" => g.status # "none"

(* What the handlers have in common: they save nothing and send nothing.    *)
LEMMA HandledRoles ==
    ASSUME RuntimeInv, RoleInv, left'.claude = left.claude, left'.kinds = left.kinds,
           UNCHANGED <<value, disk, open>>, busy' = busy \/ busy' = Idle, DOMAIN briefed' = Slot,
           NEW new, Grown(new),
           \A o \in new : o.op # "send" /\ (o.op = "accept" => Given(value, SlotOf[o.node])),
           \A s \in Slot : briefed[s] \subseteq briefed'[s] /\ HostKept(s),
           \A s \in Slot : HostTold(s)' \/ (host'[s] = host[s] /\ briefed'[s] = briefed[s])
    PROVE  RoleInv'
<1>1. /\ Types /\ busy.op \in Waiting \cup Looks \cup {Idle.op}
      /\ \A i \in DOMAIN pending : pending[i] \in Waiting /\ pending[i] \in Waiting \cup Looks \cup {Idle.op}
  BY DEF RuntimeInv, Types
<1>2. ASSUME NEW r, NEW s \in Slot, Given(r, s)
      PROVE  Given(r, s)'
  BY <1>2 DEF Given
<1>3. OpenedGiven(value)' /\ OpenedGiven(disk)'
  <2>1. PICK r, d : r = value /\ d = disk
    OBVIOUS
  <2>2. OpenedGiven(r)' /\ OpenedGiven(d)'
    BY <1>2, <2>1 DEF RoleInv, OpenedGiven
  <2> QED
    BY <2>1, <2>2 DEF OpenedGiven, Given
<1>4. ASSUME NEW s \in Slot
      PROVE  HostTold(s)'
  <2>1. CASE host'[s] = host[s] /\ briefed'[s] = briefed[s]
    <3>1. (Given(value, s) => Given(value, s)') /\ Steady(s)' = Steady(s) /\ Conv(s)' = Conv(s)
      BY DEF Given, Steady, Conv
    <3> QED
      BY <2>1, <3>1 DEF RoleInv, HostTold
  <2> QED
    BY <2>1
<1>5. ASSUME NEW s \in Slot
      PROVE  /\ Given(value, s) => Given(value, s)'
             /\ Shown(s) => Shown(s)'
  <2>1. Given(value, s) => Given(value, s)'
    BY DEF Given
  <2>2. Shown(s) => Shown(s)'
    BY DEF Shown, HostKept, Conv
  <2> QED
    BY <2>1, <2>2
<1>6. ASSUME NEW o \in Waiting \cup Looks \cup {Idle.op}, Told(o)
      PROVE  Told(o)'
  <2>1. CASE o.op \in {"send", "accept"}
    <3>1. o.node \in Node
      BY <2>1, TagTypes DEF Sends, Accepts
    <3>2. PICK s \in Slot : s = SlotOf[o.node]
      BY <3>1, GraphTyped
    <3> QED
      BY <1>5, <1>6, <3>2 DEF Told
  <2>2. CASE o.op \notin {"send", "accept"}
    BY <2>2 DEF Told
  <2> QED
    BY <2>1, <2>2
<1>7. QueueTold'
  <2>1. Told(busy.op)'
    <3>1. PICK o : o = busy'.op
      OBVIOUS
    <3>2. o \in Waiting \cup Looks \cup {Idle.op} /\ Told(o)
      <4>1. CASE busy' = busy
        BY <1>1, <3>1, <4>1 DEF RoleInv, QueueTold
      <4>2. CASE busy' = Idle
        BY <3>1, <4>2, PumpIsCurrent DEF Told
      <4> QED
        BY <4>1, <4>2
    <3>3. Told(o)'
      BY <1>6, <3>2
    <3> QED
      BY <3>1, <3>3 DEF Told
  <2>2. ASSUME NEW i \in DOMAIN pending'
        PROVE  Told(pending[i])'
    <3>1. PICK o : o = pending'[i]
      OBVIOUS
    <3>2. o \in Waiting
      BY <3>1 DEF Grown
    <3>3. Told(o)
      <4>1. CASE i \in DOMAIN pending
        BY <3>1, <4>1 DEF RoleInv, QueueTold, Grown
      <4>2. CASE i \notin DOMAIN pending /\ o \in new
        BY <4>2 DEF Told
      <4>3. CASE o = PumpOp
        BY <4>3 DEF Told, PumpOp
      <4> QED
        BY <3>1, <4>1, <4>2, <4>3 DEF Grown
    <3>4. Told(o)'
      BY <1>6, <3>2, <3>3
    <3> QED
      BY <3>1, <3>4 DEF Told
  <2> QED
    BY <2>1, <2>2 DEF QueueTold
<1>8. SavesFirst'
  <2>1. CASE busy' = Idle
    BY <2>1, PumpIsCurrent DEF SavesFirst
  <2>2. CASE busy' = busy
    <3> SUFFICES ASSUME NEW i \in DOMAIN busy.todo, NEW s \in Slot, SavesNow(busy.todo[i], s)
                 PROVE  /\ Conv(s)' = NoConversation
                        /\ host'[s].status # "none" =>
                              host'[s].resumed = NoConversation /\ host'[s].conv = busy.todo[i].do.conv
                        /\ Steady(s) => host'[s].status # "none"
                        /\ \A j \in DOMAIN busy.todo : SavesNow(busy.todo[j], s) => i = j
      BY <2>2 DEF SavesFirst, SavesNow, Steady
    <3>1. /\ Conv(s) = NoConversation
          /\ host[s].status # "none" => host[s].resumed = NoConversation /\ host[s].conv = busy.todo[i].do.conv
          /\ Steady(s) => host[s].status # "none"
          /\ \A j \in DOMAIN busy.todo : SavesNow(busy.todo[j], s) => i = j
      BY DEF RoleInv, SavesFirst
    <3> QED
      BY <3>1 DEF HostKept, Conv
  <2> QED
    BY <2>1, <2>2
<1>9. LookSaves'
  <2>1. CASE busy' = Idle
    BY <2>1, PumpIsCurrent DEF LookSaves
  <2>2. CASE busy' = busy
    <3> SUFFICES ASSUME busy.op.op = "pump", busy.ok, NEW n \in busy.op.sends, NEW s, s = SlotOf[n],
                        s \notin left.claude, host'[s].status # "none"
                 PROVE  /\ host'[s].known
                        /\ Conv(s)' = host'[s].conv \/ \E i \in DOMAIN busy.todo : SavesNow(busy.todo[i], s)
      BY <2>2 DEF LookSaves, SavesNow, Conv
    <3>1. s \in Slot
      <4>1. busy.op \in Looks
        BY <1>1, PumpIsPump, PumpIsCurrent DEF RuntimeInv, Types
      <4> QED
        BY <4>1, GraphTyped DEF Looks
    <3>2. host[s].known /\ (Conv(s) = host[s].conv \/ \E i \in DOMAIN busy.todo : SavesNow(busy.todo[i], s))
      BY <3>1 DEF RoleInv, LookSaves, HostKept
    <3> QED
      BY <3>1, <3>2 DEF HostKept, Conv
  <2> QED
    BY <2>1, <2>2
<1> QED
  BY <1>3, <1>4, <1>7, <1>8, <1>9 DEF RoleInv

(* A handler that changes one session.                                      *)
LEMMA EditedRoles ==
    ASSUME RuntimeInv, RoleInv, left'.claude = left.claude, left'.kinds = left.kinds,
           UNCHANGED <<value, disk, open, busy, briefed>>, NEW new, Grown(new),
           \A o \in new : o.op # "send" /\ (o.op = "accept" => Given(value, SlotOf[o.node])),
           NEW s \in Slot, host[s].status # "none", NEW g, host' = [host EXCEPT ![s] = g],
           g.status # "none" /\ g.conv # NoConversation /\ g.resumed = host[s].resumed,
           host[s].known => g.known,
           host[s].known \/ host[s].resumed = NoConversation => g.conv = host[s].conv,
           g.status \in {"idle", "working"} /\ s \notin left.claude => g.known,
           Turning(g) => Turning(host[s]),
           Steady(s) => g.status # "exited"
    PROVE  RoleInv'
<1>1. \A t \in Slot : host'[t] = IF t = s THEN g ELSE host[t]
  BY DEF RuntimeInv, Types
<1>2. \A t \in Slot : briefed[t] \subseteq briefed'[t] /\ HostKept(t)
  BY <1>1 DEF HostKept
<1>3. HostTold(s)'
  <2>1. HostTold(s)
    BY DEF RoleInv
  <2>2. host'[s] = g
    BY <1>1
  <2>3. Conv(s)' = Conv(s) /\ Steady(s)' = Steady(s) /\ (Given(value, s)' <=> Given(value, s)) /\ open' = open
        /\ briefed'[s] = briefed[s] /\ (s \in left'.claude <=> s \in left.claude)
    BY DEF Conv, Steady, Given
  <2>4. Turning(g) => Given(value, s) /\ (s \notin left.claude => g.known /\ Conv(s) = g.conv)
    BY <2>1 DEF HostTold
  <2>5. Conv(s) = g.resumed \/ (g.resumed = NoConversation /\ Conv(s) = g.conv)
    BY <2>1 DEF HostTold
  <2>6. Steady(s) => open /\ g.status # "exited" /\ g.resumed = NoConversation /\ briefed[s] \subseteq {g.conv}
    BY <2>1 DEF HostTold
  <2> QED
    BY <2>1, <2>2, <2>3, <2>4, <2>5, <2>6 DEF HostTold
<1>4. \A t \in Slot : HostTold(t)' \/ (host'[t] = host[t] /\ briefed'[t] = briefed[t])
  BY <1>1, <1>3
<1>5. DOMAIN briefed' = Slot
  BY DEF RoleInv
<1> QED
  BY <1>2, <1>4, <1>5, HandledRoles

(* What a session signals about no turn.                                    *)
LEMMA SessionRoles ==
    ASSUME RuntimeInv, RoleInv, left'.claude = left.claude, left'.kinds = left.kinds, NEW s \in Slot,
           \/ SessionReady(s) \/ SessionExits(s) \/ SessionRestarts(s) \/ IdentityReported(s)
           \/ TurnFailsUnnamed(s) \/ TurnRefused(s)
    PROVE  RoleInv'
<1>1. UNCHANGED <<value, disk, open, busy, briefed>> /\ ScheduleAfter(<<>>)
  BY DEF SessionReady, SessionExits, SessionRestarts, IdentityReported, TurnFailsUnnamed, TurnRefused,
         NeverBegins, SessionEvent, store
<1>2. host[s].status # "none"
  BY DEF SessionReady, SessionExits, SessionRestarts, IdentityReported, TurnFailsUnnamed, TurnRefused, NeverBegins
<1>3. PICK h \in Hosts : h = host[s]
  BY DEF RuntimeInv, Types
<1>4. Grown({})
  BY <1>1, LookGrows DEF RuntimeInv
<1>5. h.conv # NoConversation /\ (h.status \in {"idle", "working"} /\ s \notin left.claude => h.known)
      /\ (Steady(s) => h.status # "exited")
  BY <1>2, <1>3 DEF RoleInv, HostTold
<1> DEFINE Fine(g) ==
              /\ g.status # "none" /\ g.conv # NoConversation /\ g.resumed = h.resumed
              /\ h.known => g.known
              /\ h.known \/ h.resumed = NoConversation => g.conv = h.conv
              /\ g.status \in {"idle", "working"} /\ s \notin left.claude => g.known
              /\ Turning(g) => Turning(h)
              /\ Steady(s) => g.status # "exited"
<1>6. \E g : host' = [host EXCEPT ![s] = g] /\ Fine(g)
  <2>1. CASE SessionReady(s)
    <3> DEFINE knows == h.known \/ s \notin left.claude \/ h.resumed # NoConversation
               next  == made[s] + 1
               ready == [h EXCEPT !.status = "idle", !.known = knows]
               other == [h EXCEPT !.status = "idle", !.known = TRUE, !.conv = next]
    <3>1. \/ host' = [host EXCEPT ![s] = ready]
          \/ host' = [host EXCEPT ![s] = other] /\ h.resumed # NoConversation /\ ~h.known
      BY <1>3, <2>1 DEF SessionReady, RuntimeInv, Types
    <3>2. next # NoConversation
      BY ConversationsNumbered DEF RuntimeInv, Types
    <3>3. knows <=> h.known \/ s \notin left.claude \/ h.resumed # NoConversation
      OBVIOUS
    <3> HIDE DEF knows, next
    <3>4. /\ ready.status = "idle" /\ (ready.known <=> knows) /\ ready.conv = h.conv /\ ready.resumed = h.resumed
          /\ other.status = "idle" /\ other.known /\ other.conv = next /\ other.resumed = h.resumed
          /\ ready.begun = h.begun /\ ready.turns = h.turns /\ other.begun = h.begun /\ other.turns = h.turns
      BY DEF Hosts
    <3> HIDE DEF ready, other
    <3>5. (Turning(ready) => Turning(h)) /\ (Turning(other) => Turning(h))
      BY <3>4 DEF Turning
    <3> QED
      BY <1>5, <3>1, <3>2, <3>3, <3>4, <3>5
  <2>2. CASE SessionExits(s)
    <3> DEFINE g == [h EXCEPT !.status = "exited"]
    <3>1. host' = [host EXCEPT ![s] = g] /\ ~Steady(s)
      BY <1>3, <2>2 DEF SessionExits, RuntimeInv, Types, Fault, Steady
    <3>2. g.status = "exited" /\ g.known = h.known /\ g.conv = h.conv /\ g.resumed = h.resumed
          /\ (Turning(g) => Turning(h))
      BY DEF Hosts, Turning
    <3> HIDE DEF g
    <3> QED
      BY <1>5, <3>1, <3>2
  <2>3. CASE SessionRestarts(s)
    <3> DEFINE turns == h.turns
               g == [h EXCEPT !.status = "starting", !.epoch = @ + 1, !.begun = turns]
    <3>1. host' = [host EXCEPT ![s] = g]
      BY <1>3, <2>3 DEF SessionRestarts, RuntimeInv, Types
    <3>2. turns \in Nat
      BY <1>3 DEF Hosts
    <3>3. g.status = "starting" /\ g.known = h.known /\ g.conv = h.conv /\ g.resumed = h.resumed /\ ~Turning(g)
      <4>1. g.begun = turns /\ g.turns = turns /\ g.status = "starting"
        BY DEF Hosts
      <4> QED
        BY <3>2, <4>1 DEF Hosts, Turning
    <3> HIDE DEF g
    <3> QED
      BY <1>5, <3>1, <3>3
  <2>4. CASE IdentityReported(s)
    <3> DEFINE g == [h EXCEPT !.known = TRUE]
    <3>1. host' = [host EXCEPT ![s] = g]
      BY <1>3, <2>4 DEF IdentityReported, RuntimeInv, Types
    <3>2. g.status = h.status /\ g.known /\ g.conv = h.conv /\ g.resumed = h.resumed /\ (Turning(g) => Turning(h))
      BY DEF Hosts, Turning
    <3> HIDE DEF g
    <3> QED
      BY <1>2, <1>3, <1>5, <3>1, <3>2
  <2>5. CASE TurnFailsUnnamed(s) \/ TurnRefused(s)
    <3> DEFINE more == h.begun + 1
               g == [h EXCEPT !.begun = more]
    <3>1. host' = [host EXCEPT ![s] = g] /\ Turning(h)
      BY <1>3, <2>5 DEF TurnFailsUnnamed, TurnRefused, NeverBegins, Outstanding, Turning, RuntimeInv, Types
    <3> HIDE DEF more
    <3>2. g.status = h.status /\ g.known = h.known /\ g.conv = h.conv /\ g.resumed = h.resumed
      BY DEF Hosts
    <3> HIDE DEF g
    <3> QED
      BY <1>2, <1>3, <1>5, <3>1, <3>2
  <2> QED
    BY <2>1, <2>2, <2>3, <2>4, <2>5
<1>7. PICK g : host' = [host EXCEPT ![s] = g] /\ Fine(g)
  BY <1>6
<1>8. \A o \in {} : o.op # "send" /\ (o.op = "accept" => Given(value, SlotOf[o.node]))
  OBVIOUS
<1> QED
  BY <1>1, <1>2, <1>3, <1>4, <1>7, <1>8, EditedRoles

(* The two signals of a turn: the role of a slot that works was given.      *)
LEMMA TurnRoles ==
    ASSUME RuntimeInv, RoleInv, left'.claude = left.claude, left'.kinds = left.kinds, NEW s \in Slot,
           TurnAccepted(s) \/ \E ok \in BOOLEAN : TurnFinished(s, ok)
    PROVE  RoleInv'
<1>1. UNCHANGED <<value, disk, open, busy, briefed>> /\ host[s].status # "none" /\ Turning(host[s])
  BY DEF TurnAccepted, TurnFinished, SessionEvent, store, Outstanding, Turning
<1>2. PICK h \in Hosts : h = host[s]
  BY DEF RuntimeInv, Types
<1>3. PICK n : n = h.live
  OBVIOUS
<1>4. h.epoch \in PositiveEpoch /\ (Heard(s) => n \in Node)
  BY <1>1, <1>2, <1>3 DEF RuntimeInv, Epochs, Hosts, PositiveEpoch, Heard
<1>5. Given(value, s) /\ h.conv # NoConversation /\ (s \notin left.claude => h.known)
  BY <1>1, <1>2 DEF RoleInv, HostTold
<1>6. Heard(s) => SlotOf[n] = s
  <2>1. h.liveEpoch \in Nat
    BY DEF Hosts
  <2> QED
    BY <1>2, <1>3, <1>4, <2>1 DEF RuntimeInv, LiveTurns, LiveTurn
<1>7. Types
  BY DEF RuntimeInv
<1>8. ASSUME NEW o, ScheduleAfter(IF Heard(s) THEN <<o>> ELSE <<>>),
             Heard(s) => o \in Waiting /\ o.op # "send" /\ o.node = n
      PROVE  \E new : Grown(new) /\ \A p \in new : p.op # "send" /\ (p.op = "accept" => Given(value, SlotOf[p.node]))
  <2>1. CASE Heard(s)
    <3>1. Grown({o})
      BY <1>7, <1>8, <2>1, ScheduleAdds
    <3>2. \A p \in {o} : p.op # "send" /\ (p.op = "accept" => Given(value, SlotOf[p.node]))
      BY <1>5, <1>6, <1>8, <2>1
    <3> QED
      BY <3>1, <3>2
  <2>2. CASE ~Heard(s)
    <3>2. ScheduleAfter(<<>>)
      BY <1>8, <2>2
    <3>3. Grown({})
      BY <1>7, <3>2, LookGrows
    <3> QED
      BY <3>3
  <2> QED
    BY <2>1, <2>2
<1>9. ASSUME NEW g, host' = [host EXCEPT ![s] = g], g.status \in {"idle", "working"},
             g.known = h.known, g.conv = h.conv, g.resumed = h.resumed,
             NEW new, Grown(new), \A p \in new : p.op # "send" /\ (p.op = "accept" => Given(value, SlotOf[p.node]))
      PROVE  RoleInv'
  BY <1>1, <1>2, <1>5, <1>9, EditedRoles
<1>10. CASE TurnAccepted(s)
  <2> DEFINE more == h.begun + 1
             g == [h EXCEPT !.status = "working", !.begun = more]
             o == [op |-> "accept", node |-> n, epoch |-> h.epoch, turn |-> more]
  <2>1. host' = [host EXCEPT ![s] = g] /\ ScheduleAfter(IF Heard(s) THEN <<o>> ELSE <<>>)
    BY <1>2, <1>3, <1>10 DEF TurnAccepted, RuntimeInv, Types
  <2>5. more \in Nat
    BY DEF Hosts
  <2> HIDE DEF more
  <2>2. o.op # "send" /\ o.node = n /\ (Heard(s) => o \in Waiting)
    BY <1>4, <2>5 DEF Accepts, Hosts, Waiting
  <2>3. g.status \in {"idle", "working"} /\ g.known = h.known /\ g.conv = h.conv /\ g.resumed = h.resumed
    BY <1>1, <1>2 DEF Hosts
  <2> HIDE DEF o, g
  <2>4. PICK new : Grown(new) /\ \A p \in new : p.op # "send" /\ (p.op = "accept" => Given(value, SlotOf[p.node]))
    BY <1>8, <2>1, <2>2
  <2> QED
    BY <1>9, <2>1, <2>3, <2>4
<1>11. ASSUME NEW ok \in BOOLEAN, TurnFinished(s, ok)
       PROVE  RoleInv'
  <2> DEFINE done == [h EXCEPT !.status = "idle"]
             g == IF Heard(s) THEN Released(done) ELSE done
             o == [op |-> "finish", node |-> n, epoch |-> h.epoch, turn |-> h.begun, ok |-> ok, attempt |-> attempt[n]]
  <2>1. host' = [host EXCEPT ![s] = g] /\ ScheduleAfter(IF Heard(s) THEN <<o>> ELSE <<>>)
    BY <1>2, <1>3, <1>11 DEF TurnFinished
  <2>2. o.op # "send" /\ o.node = n /\ (Heard(s) => o \in Waiting)
    BY <1>4, <1>7 DEF Finishes, Hosts, Waiting, Types
  <2>3. done \in Hosts /\ done.status = "idle" /\ done.known = h.known /\ done.conv = h.conv /\ done.resumed = h.resumed
    BY DEF Hosts
  <2> HIDE DEF o, done
  <2>4. g.status \in {"idle", "working"} /\ g.known = h.known /\ g.conv = h.conv /\ g.resumed = h.resumed
    BY <2>3 DEF Released, Hosts
  <2> HIDE DEF g
  <2>5. PICK new : Grown(new) /\ \A p \in new : p.op # "send" /\ (p.op = "accept" => Given(value, SlotOf[p.node]))
    BY <1>8, <2>1, <2>2
  <2> QED
    BY <1>9, <2>1, <2>4, <2>5
<1> QED
  BY <1>10, <1>11

(* The user's stop and resume: a session that is dropped had exited, which  *)
(* ends what a steady slot knows.                                           *)
LEMMA UserRoles ==
    ASSUME RuntimeInv, RoleInv, left'.claude = left.claude, left'.kinds = left.kinds, UserStop \/ UserResume
    PROVE  RoleInv'
<1>1. UNCHANGED <<value, disk, open, busy, briefed>>
  BY DEF UserStop, UserResume, store, history
<1>2. Types
  BY DEF RuntimeInv
<1>3. PICK o \in Stops \cup Resumes : Enqueue(o)
  BY <1>2, UserQueues
<1>4. o \in Waiting /\ o.op \in {"stop", "resume"}
  BY DEF Waiting, Stops, Resumes
<1>5. Grown({o})
  BY <1>2, <1>3, <1>4, EnqueueGrows
<1>6. \A t \in Slot : host'[t] = host[t] \/ (host'[t] = NoHost /\ host[t].status = "exited")
  <2>1. CASE UserStop
    BY <2>1 DEF UserStop
  <2>2. CASE UserResume
    BY <2>2 DEF UserResume
  <2> QED
    BY <2>1, <2>2
<1>7. NoHost.status = "none" /\ ~NoHost.known /\ ~Turning(NoHost)
  BY DEF NoHost, Turning
<1>8. ASSUME NEW s \in Slot
      PROVE  /\ HostKept(s)
             /\ HostTold(s)' \/ (host'[s] = host[s] /\ briefed'[s] = briefed[s])
  <2>1. CASE host'[s] = host[s]
    BY <1>1, <2>1 DEF HostKept
  <2>2. CASE host'[s] = NoHost /\ host[s].status = "exited"
    <3>1. ~Steady(s) /\ ~Steady(s)' /\ NoConversation \notin briefed'[s]
      BY <1>1, <2>2 DEF RoleInv, HostTold, Steady
    <3> QED
      BY <1>7, <2>2, <3>1 DEF HostKept, HostTold
  <2> QED
    BY <1>6, <2>1, <2>2
<1>9. \A p \in {o} : p.op # "send" /\ (p.op = "accept" => Given(value, SlotOf[p.node]))
  BY <1>4
<1>10. DOMAIN briefed' = Slot /\ \A s \in Slot : briefed[s] \subseteq briefed'[s]
  BY <1>1 DEF RoleInv
<1> QED
  BY <1>1, <1>5, <1>8, <1>9, <1>10, HandledRoles

(* The continuations of all operations but sends and pumps.                 *)
LEMMA OtherDoneRoles ==
    ASSUME RuntimeInv, RoleInv, left'.claude = left.claude, left'.kinds = left.kinds,
           StoreDone, busy.op.op \notin {"send", "pump"}
    PROVE  RoleInv'
<1>1. UNCHANGED <<value, disk, open, briefed>> /\ busy' = Idle
  BY DEF StoreDone, StopDone, ResumeDone, store, history
<1>2. /\ ScheduleAfter(<<>>)
      /\ host' \in {host, [s \in Slot |-> Released(host[s])]}
  BY DEF StoreDone, StopDone, ResumeDone, history
<1>3. Types
  BY DEF RuntimeInv
<1>4. Grown({})
  BY <1>2, <1>3, LookGrows
<1>5. ASSUME NEW h \in Hosts
      PROVE  /\ Released(h).status = h.status /\ Released(h).known = h.known
             /\ Released(h).conv = h.conv /\ Released(h).resumed = h.resumed
             /\ Released(h).begun = h.begun /\ Released(h).turns = h.turns
  BY DEF Released, Hosts
<1>6. \A s \in Slot : /\ host'[s].status = host[s].status /\ host'[s].known = host[s].known
                      /\ host'[s].conv = host[s].conv /\ host'[s].resumed = host[s].resumed
                      /\ host'[s].begun = host[s].begun /\ host'[s].turns = host[s].turns
  BY <1>2, <1>3, <1>5 DEF Types
<1>7. ASSUME NEW s \in Slot
      PROVE  HostTold(s)'
  <2>1. HostTold(s)
    BY DEF RoleInv
  <2>2. Conv(s)' = Conv(s) /\ (Steady(s)' <=> Steady(s)) /\ (Given(value, s)' <=> Given(value, s))
        /\ (open' <=> open) /\ briefed'[s] = briefed[s] /\ (s \in left'.claude <=> s \in left.claude)
    BY <1>1 DEF Conv, Steady, Given
  <2> QED
    BY <1>6, <2>1, <2>2 DEF HostTold, Turning
<1>8. \A s \in Slot : briefed[s] \subseteq briefed'[s] /\ HostKept(s)
  BY <1>1, <1>6 DEF HostKept
<1>9. \A p \in {} : p.op # "send" /\ (p.op = "accept" => Given(value, SlotOf[p.node]))
  OBVIOUS
<1>10. DOMAIN briefed' = Slot
  BY <1>1 DEF RoleInv
<1> QED
  BY <1>1, <1>4, <1>7, <1>8, <1>9, <1>10, HandledRoles

(* The prompt of a saved send is submitted to the session that shows the    *)
(* conversation that is saved: with the role, or in a slot that was given   *)
(* its role in this conversation.                                           *)
LEMMA SendDoneRoles ==
    ASSUME RuntimeInv, RoleInv, left'.claude = left.claude, left'.kinds = left.kinds,
           StoreDone, busy.op.op = "send"
    PROVE  RoleInv'
<1> DEFINE o == busy.op
<1>1. UNCHANGED <<value, disk, open>> /\ busy' = Idle
  BY DEF StoreDone, store
<1>2. Types /\ o \in Sends /\ SendDone(o)
  BY TagTypes DEF RuntimeInv, Types, StoreDone
<1>3. o.node \in Node /\ o.epoch \in PositiveEpoch /\ SlotOf[o.node] \in Slot
  BY <1>2, GraphTyped DEF Sends
<1>4. host \in [Slot -> Hosts]
  BY <1>2 DEF Types
<1>5. ASSUME ScheduleAfter(<<>>)
      PROVE  Grown({})
  BY <1>2, <1>5, LookGrows
<1>6. \A p \in {} : p.op # "send" /\ (p.op = "accept" => Given(value, SlotOf[p.node]))
  OBVIOUS
<1>7. ASSUME UNCHANGED <<host, briefed>>
      PROVE  /\ \A s \in Slot : briefed[s] \subseteq briefed'[s] /\ HostKept(s)
             /\ DOMAIN briefed' = Slot
  BY <1>7 DEF HostKept, RoleInv
<1>8. CASE ScheduleAfter(<<>>) /\ UNCHANGED <<host, briefed>>
  BY <1>1, <1>5, <1>6, <1>7, <1>8, HandledRoles
<1>9. CASE FailSubmit(o)
  <2> DEFINE f == [op |-> "fail", node |-> o.node, epoch |-> o.epoch]
  <2>1. f \in Waiting /\ f.op = "fail"
    BY <1>3 DEF Waiting, Fails, PositiveEpoch
  <2>2. Enqueue(f) /\ UNCHANGED <<host, briefed>>
    BY <1>9 DEF FailSubmit
  <2> HIDE DEF f
  <2>3. Grown({f})
    BY <1>2, <2>1, <2>2, EnqueueGrows
  <2>4. \A p \in {f} : p.op # "send" /\ (p.op = "accept" => Given(value, SlotOf[p.node]))
    BY <2>1
  <2> QED
    BY <1>1, <1>7, <2>2, <2>3, <2>4, HandledRoles
<1>10. CASE StartTurn(o) /\ SubmitStarts(o)
  <2>1. PICK s \in Slot : s = SlotOf[o.node]
    BY <1>3
  <2>2. PICK h \in Hosts : h = host[s]
    BY <1>4
  <2> DEFINE turns == h.turns + 1
             g == [h EXCEPT !.turns = turns, !.live = o.node, !.liveEpoch = o.epoch]
  <2>3. host' = [host EXCEPT ![s] = g] /\ ScheduleAfter(<<>>)
    BY <1>4, <1>10, <2>1, <2>2 DEF StartTurn
  <2>4. briefed' = [briefed EXCEPT ![s] = IF o.opened THEN @ ELSE @ \cup {h.conv}]
    BY <1>10, <2>1, <2>2 DEF StartTurn
  <2>5. h.status = "idle"
    BY <1>10, <2>1, <2>2 DEF SubmitStarts
  <2> HIDE DEF turns
  <2>6. g.status = "idle" /\ g.known = h.known /\ g.conv = h.conv /\ g.resumed = h.resumed
    BY <2>2, <2>5 DEF Hosts
  <2> HIDE DEF g
  <2>7. \A t \in Slot : host'[t] = IF t = s THEN g ELSE host[t]
    BY <1>4, <2>3
  <2>8. /\ DOMAIN briefed' = Slot
        /\ \A t \in Slot : t # s => briefed'[t] = briefed[t]
        /\ briefed'[s] = IF o.opened THEN briefed[s] ELSE briefed[s] \cup {h.conv}
    BY <2>4 DEF RoleInv
  <2>9. \A t \in Slot : briefed[t] \subseteq briefed'[t]
    BY <2>8
  <2>10. \A t \in Slot : HostKept(t)
    BY <2>2, <2>5, <2>6, <2>7 DEF HostKept
  <2>11. HostTold(s) /\ Told(o)
    BY DEF RoleInv, QueueTold
  <2>12. (o.opened => Given(value, s)) /\ Shown(s) /\ h.conv # NoConversation /\ (s \notin left.claude => h.known)
    BY <1>2, <2>1, <2>2, <2>5, <2>11, TagTypes DEF Told, HostTold, Sends
  <2>13. s \notin left.claude => Conv(s) = h.conv
    BY <2>2, <2>5, <2>12 DEF Shown
  <2>14. Given(value, s)'
    <3>1. CASE o.opened
      BY <1>1, <2>8, <2>12, <3>1 DEF Given
    <3>2. CASE ~o.opened
      BY <1>1, <2>8, <2>13, <3>2 DEF Given, Conv
    <3> QED
      BY <3>1, <3>2
  <2>15. Steady(s) => open /\ h.resumed = NoConversation /\ briefed'[s] \subseteq {h.conv}
    BY <2>2, <2>8, <2>11 DEF HostTold
  <2>16. Conv(s) = h.resumed \/ (h.resumed = NoConversation /\ Conv(s) = h.conv)
    BY <2>2, <2>5, <2>11 DEF HostTold
  <2>17. HostTold(s)'
    <3>1. /\ Conv(s)' = Conv(s) /\ (Steady(s)' <=> Steady(s)) /\ (open' <=> open)
          /\ s \in left'.claude <=> s \in left.claude
      BY <1>1 DEF Conv, Steady
    <3>2. NoConversation \notin briefed'[s]
      BY <2>8, <2>11, <2>12 DEF HostTold
    <3>3. host'[s] = g
      BY <2>7
    <3> QED
      BY <2>6, <2>12, <2>13, <2>14, <2>15, <2>16, <3>1, <3>2, <3>3 DEF HostTold
  <2>18. \A t \in Slot : HostTold(t)' \/ (host'[t] = host[t] /\ briefed'[t] = briefed[t])
    BY <2>7, <2>8, <2>17
  <2>19. Grown({})
    BY <1>5, <2>3
  <2> QED
    BY <1>1, <1>6, <2>8, <2>9, <2>10, <2>18, <2>19, HandledRoles
<1> QED
  BY <1>2, <1>8, <1>9, <1>10 DEF SendDone, history

(* Nothing that the roles are about has changed.                            *)
LEMMA RolesStay ==
    ASSUME RoleInv, UNCHANGED <<value, disk, open, host, briefed>>,
           left'.claude = left.claude, left'.kinds = left.kinds
    PROVE  /\ (OpenedGiven(value) /\ OpenedGiven(disk))' /\ DOMAIN briefed' = Slot
           /\ \A s \in Slot : HostTold(s)'
           /\ \A o \in Waiting \cup Looks \cup {Idle.op} : Told(o) => Told(o)'
<1>1. DOMAIN briefed' = Slot /\ (OpenedGiven(value) /\ OpenedGiven(disk))'
  BY DEF RoleInv, OpenedGiven, Given
<1>2. ASSUME NEW s \in Slot
      PROVE  HostTold(s)' /\ (Given(value, s) => Given(value, s)') /\ (Shown(s) => Shown(s)')
  BY DEF RoleInv, HostTold, Given, Steady, Conv, Shown
<1>3. ASSUME NEW o \in Waiting \cup Looks \cup {Idle.op}, Told(o)
      PROVE  Told(o)'
  <2>1. CASE o.op \in {"send", "accept"}
    <3>1. o.node \in Node
      BY <2>1, TagTypes DEF Sends, Accepts
    <3>2. PICK s \in Slot : s = SlotOf[o.node]
      BY <3>1, GraphTyped
    <3> QED
      BY <1>2, <1>3, <3>2 DEF Told
  <2>2. CASE o.op \notin {"send", "accept"}
    BY <2>2 DEF Told
  <2> QED
    BY <2>1, <2>2
<1> QED
  BY <1>1, <1>2, <1>3

(* The operation that gets the store.                                       *)
LEMMA StartRoles ==
    ASSUME RuntimeInv, RoleInv, left'.claude = left.claude, left'.kinds = left.kinds, StartOperation
    PROVE  RoleInv'
<1> DEFINE o == Head(pending)
<1>1. /\ pending # <<>> /\ o # PumpOp
      /\ busy' = [op |-> o, todo |-> Work(o), ok |-> TRUE, began |-> FALSE]
      /\ pending' = Tail(pending)
      /\ UNCHANGED <<value, disk, open, host, briefed>>
  BY DEF StartOperation, store, history
<1>2. /\ 1 \in DOMAIN pending /\ o = pending[1] /\ o \in Waiting \ {PumpOp}
      /\ \A i \in DOMAIN pending' : i + 1 \in DOMAIN pending /\ pending'[i] = pending[i + 1]
  BY <1>1 DEF RuntimeInv, Types
<1> HIDE DEF o
<1>3. busy'.op = o /\ busy'.todo = Work(o)
  BY <1>1
<1>4. /\ (OpenedGiven(value) /\ OpenedGiven(disk))' /\ DOMAIN briefed' = Slot
      /\ \A s \in Slot : HostTold(s)'
      /\ \A p \in Waiting \cup Looks \cup {Idle.op} : Told(p) => Told(p)'
  BY <1>1, RolesStay
<1>5. \A i \in DOMAIN pending : pending[i] \in Waiting /\ Told(pending[i])
  BY DEF RuntimeInv, Types, RoleInv, QueueTold
<1>6. QueueTold'
  <2>1. PICK p : p = o
    OBVIOUS
  <2>2. Told(busy.op)'
    <3>1. Told(p)'
      BY <1>2, <1>4, <1>5, <2>1
    <3> QED
      BY <1>3, <2>1, <3>1 DEF Told
  <2>3. ASSUME NEW i \in DOMAIN pending'
        PROVE  Told(pending[i])'
    <3>1. PICK v : v = pending'[i]
      OBVIOUS
    <3>2. v \in Waiting /\ Told(v)
      BY <1>2, <1>5, <3>1
    <3>3. Told(v)'
      BY <1>4, <3>2
    <3> QED
      BY <3>1, <3>3 DEF Told
  <2> QED
    BY <2>2, <2>3 DEF QueueTold
<1>7. o.op \notin {"pump", "conversation"}
  BY <1>2, PumpIsPump DEF Waiting, Sends, Accepts, Finishes, Fails, Stops, Resumes
<1>8. SavesFirst'
  <2>1. \A i \in DOMAIN busy'.todo : busy'.todo[i].write = "commit" => busy'.todo[i].do = o
    BY <1>2, <1>3, WorkTyped
  <2> QED
    BY <1>7, <2>1 DEF SavesFirst, SavesNow
<1>9. LookSaves'
  BY <1>3, <1>7 DEF LookSaves
<1> QED
  BY <1>4, <1>6, <1>8, <1>9 DEF RoleInv

(* A run that was just created.                                             *)
LEMMA InitRoles == Init => RoleInv
<1> SUFFICES ASSUME Init PROVE RoleInv
  OBVIOUS
<1>1. \A i \in DOMAIN pending : pending[i] = PumpOp
  BY DEF Init
<1>2. /\ busy = Idle /\ value = NewRecord /\ disk = NewRecord /\ host = [s \in Slot |-> NoHost] /\ open
      /\ briefed = [s \in Slot |-> {}]
  BY DEF Init
<1>3. \A s \in Slot : ~NewRecord.slots[s].opened /\ NewRecord.slots[s].conversation = NoConversation
  BY DEF NewRecord
<1>4. OpenedGiven(value) /\ OpenedGiven(disk)
  BY <1>2, <1>3 DEF OpenedGiven
<1>5. QueueTold
  BY <1>1, <1>2, PumpIsCurrent DEF QueueTold, Told, PumpOp
<1>6. SavesFirst /\ LookSaves
  BY <1>2, PumpIsCurrent DEF SavesFirst, LookSaves
<1>7. ASSUME NEW s \in Slot
      PROVE  HostTold(s)
  <2>1. /\ host[s].status = "none" /\ ~host[s].known /\ host[s].resumed = NoConversation
        /\ briefed[s] = {} /\ Conv(s) = NoConversation /\ ~Turning(host[s])
    BY <1>2, <1>3 DEF NoHost, Conv, Turning
  <2> QED
    BY <1>2, <2>1 DEF HostTold
<1> QED
  BY <1>2, <1>4, <1>5, <1>6, <1>7 DEF RoleInv

(* A step that changes nothing.                                             *)
LEMMA StutterRoles ==
    ASSUME RuntimeInv, RoleInv, UNCHANGED vars
    PROVE  RoleInv'
<1>1. UNCHANGED <<value, disk, open, pending, busy, host, briefed, left>>
  BY DEF vars, store, queue, history
<1>2. /\ (OpenedGiven(value) /\ OpenedGiven(disk))' /\ DOMAIN briefed' = Slot
      /\ \A s \in Slot : HostTold(s)'
  BY <1>1, RolesStay
<1>3. QueueTold'
  BY <1>1 DEF RoleInv, QueueTold, Told, Shown, Given, Conv
<1>4. SavesFirst'
  BY <1>1 DEF RoleInv, SavesFirst, Conv, Steady
<1>5. LookSaves'
  BY <1>1 DEF RoleInv, LookSaves, Conv
<1> QED
  BY <1>2, <1>3, <1>4, <1>5 DEF RoleInv

(* A closed run has no hosts, and an opened one no steady slots: a program  *)
(* that can end may lose a conversation of Claude's that was not saved.     *)
LEMMA OpeningRoles ==
    ASSUME RuntimeInv, RoleInv, left'.claude = left.claude, left'.kinds = left.kinds, Close \/ Open \/ OpenFails
    PROVE  RoleInv'
<1>1. ~open => busy = Idle /\ pending = <<>> /\ ~scheduled /\ host = [s \in Slot |-> NoHost]
  BY DEF RuntimeInv, Closed
<1>2. /\ disk' \in {disk, Interrupt(disk)} /\ value' = disk' /\ busy' = Idle
      /\ host' = [s \in Slot |-> NoHost] /\ briefed' = briefed
  BY <1>1 DEF Close, Open, OpenFails, history
<1>3. \A i \in DOMAIN pending' : pending'[i] = PumpOp
  <2>1. CASE Open
    <3>1. pending' = <<>> \o <<>> \o (IF scheduled THEN <<>> ELSE <<PumpOp>>)
      BY <1>1, <2>1 DEF Open, ScheduleAfter
    <3> QED
      BY <1>1, <2>1, <3>1 DEF Open
  <2>2. CASE Close \/ OpenFails
    BY <1>1, <2>2 DEF Close, OpenFails, queue
  <2> QED
    BY <2>1, <2>2
<1>4. ASSUME NEW s \in Slot
      PROVE  ~Steady(s)
  <2>1. CASE Close
    BY <2>1 DEF Close, Fault, Steady
  <2>2. CASE Open \/ OpenFails
    BY <2>2 DEF Open, OpenFails, RoleInv, HostTold
  <2> QED
    BY <2>1, <2>2
<1>5. Interrupt(disk).slots = disk.slots
  <2>1. disk \in Records
    BY DEF RuntimeInv, Types
  <2> QED
    BY <2>1 DEF Interrupt, Records
<1>6. OpenedGiven(value)' /\ OpenedGiven(disk)'
  <2>1. PICK r : r = disk'
    OBVIOUS
  <2>2. r.slots = disk.slots
    BY <1>2, <1>5, <2>1
  <2>3. OpenedGiven(r)'
    BY <1>2, <2>2 DEF RoleInv, OpenedGiven, Given
  <2> QED
    BY <1>2, <2>1, <2>3 DEF OpenedGiven, Given
<1>7. QueueTold'
  BY <1>2, <1>3, PumpIsCurrent DEF QueueTold, Told, PumpOp
<1>8. SavesFirst' /\ LookSaves'
  BY <1>2, PumpIsCurrent DEF SavesFirst, LookSaves
<1>9. ASSUME NEW s \in Slot
      PROVE  HostTold(s)'
  <2>1. host'[s].status = "none" /\ ~host'[s].known /\ ~Turning(host'[s]) /\ ~Steady(s)'
        /\ NoConversation \notin briefed'[s]
    BY <1>2, <1>4 DEF NoHost, Steady, RoleInv, HostTold, Turning
  <2> QED
    BY <2>1 DEF HostTold
<1> QED
  BY <1>2, <1>6, <1>7, <1>8, <1>9 DEF RoleInv

(* The end of a look: a session is started for the conversation that is     *)
(* saved, or a new one, and sends are queued for conversations on show.     *)
LEMMA AfterRoles ==
    ASSUME RuntimeInv, RoleInv, left'.claude = left.claude, left'.kinds = left.kinds,
           UNCHANGED <<value, disk, open, briefed>>, busy' = Idle, NEW q \in Seq(Waiting),
           \A i \in DOMAIN q : q[i].op # "send" /\ \E j \in DOMAIN pending : q[i] = pending[j],
           NEW starts \in SUBSET {s \in Slot : host[s].status = "none"}, NEW sends \in SUBSET Node,
           \A n \in sends : Shown(SlotOf[n]), After(q, host, value, starts, sends)
    PROVE  RoleInv'
<1>1. /\ Types /\ host \in [Slot -> Hosts] /\ value \in Records
      /\ \A i \in DOMAIN pending : pending[i] \in Waiting /\ Told(pending[i])
  BY DEF RuntimeInv, Types, RoleInv, QueueTold
<1>2. \A s \in Slot : host'[s] = IF s \in starts THEN StartedHost(s, value) ELSE host[s]
  BY DEF After
<1>3. /\ DOMAIN pending' = 1..Len(pending') /\ pending' \in Seq(Waiting)
      /\ SendsAfter(q, host, value, sends)
      /\ \A i \in DOMAIN pending' :
            pending'[i].op # "send" => pending'[i] = PumpOp \/ \E j \in DOMAIN pending : pending'[i] = pending[j]
  <2>1. \A s \in Slot : host[s].status # "none" => host[s].epoch # NoEpoch
    BY DEF RuntimeInv, Epochs
  <2>2. /\ SendsAfter(q, host, value, sends)
        /\ \E k \in Nat : \E list \in [1..k -> sends] : QueueAfter(q, k, list)
    BY <1>1, <2>1, AfterQueue
  <2> QED
    BY <2>2 DEF QueueAfter
<1>4. ASSUME NEW s \in Slot
      PROVE  /\ (Steady(s)' <=> Steady(s)) /\ Conv(s)' = Conv(s) /\ (Given(value, s)' <=> Given(value, s))
             /\ briefed'[s] = briefed[s] /\ (open' <=> open) /\ (s \in left'.claude <=> s \in left.claude)
  BY DEF Steady, Conv, Given
<1>5. ASSUME NEW s \in starts
      PROVE  HostTold(s)'
  <2> DEFINE conv == IF Conv(s) = NoConversation THEN made[s] + 1 ELSE Conv(s)
             g == [NoHost EXCEPT !.status = "starting", !.epoch = 1, !.resumed = Conv(s), !.conv = conv]
  <2>1. host'[s] = g
    BY <1>2 DEF StartedHost, Conv
  <2>2. conv # NoConversation
    <3>1. made[s] \in Nat
      BY <1>1 DEF Types
    <3>2. made[s] + 1 \in Nat \ {0}
      BY <3>1
    <3> QED
      BY <3>2, ConversationsNumbered
  <2> HIDE DEF conv
  <2>3. g.status = "starting" /\ g.resumed = Conv(s) /\ g.conv = conv /\ ~g.known /\ ~Turning(g)
    BY DEF NoHost, Turning
  <2> HIDE DEF g
  <2>4. HostTold(s) /\ host[s].status = "none"
    BY DEF RoleInv
  <2>5. NoConversation \notin briefed[s] /\ (Steady(s) => open /\ Conv(s) = NoConversation /\ briefed[s] = {})
    BY <2>4 DEF HostTold
  <2> QED
    BY <1>4, <2>1, <2>2, <2>3, <2>5 DEF HostTold
<1>6. ASSUME NEW s \in Slot, s \notin starts
      PROVE  HostTold(s)' /\ (Shown(s) => Shown(s)')
  <2>1. host'[s] = host[s] /\ HostTold(s)
    BY <1>2, <1>6 DEF RoleInv
  <2> QED
    BY <1>4, <2>1 DEF HostTold, Shown
<1>7. OpenedGiven(value)' /\ OpenedGiven(disk)' /\ DOMAIN briefed' = Slot
  BY DEF RoleInv, OpenedGiven, Given
<1>8. QueueTold'
  <2>1. Told(busy.op)'
    BY PumpIsCurrent DEF Told
  <2>2. ASSUME NEW i \in DOMAIN pending'
        PROVE  Told(pending[i])'
    <3>1. PICK o : o = pending'[i]
      OBVIOUS
    <3>2. CASE o.op = "send"
      <4>1. PICK n \in sends : host[SlotOf[n]].status # "none" /\ o = SendOp(n, value)
        BY <1>3, <3>1, <3>2 DEF SendsAfter
      <4>2. PICK s \in Slot : s = SlotOf[n]
        BY GraphTyped
      <4>3. s \notin starts /\ Shown(s)
        BY <4>1, <4>2
      <4>4. o.node = n /\ o.opened = value.slots[s].opened
        BY <4>1, <4>2 DEF SendOp
      <4>5. o.opened => Given(value, s)
        BY <4>4 DEF RoleInv, OpenedGiven
      <4>6. Told(o)'
        BY <1>4, <1>6, <3>2, <4>2, <4>3, <4>4, <4>5 DEF Told
      <4> QED
        BY <3>1, <4>6 DEF Told
    <3>3. CASE o.op = "accept"
      <4>1. o \in Waiting /\ Told(o)
        BY <1>1, <1>3, <3>1, <3>3 DEF PumpOp
      <4>2. o.node \in Node
        BY <3>3, <4>1, TagTypes DEF Accepts
      <4>3. PICK s \in Slot : s = SlotOf[o.node]
        BY <4>2, GraphTyped
      <4>4. Told(o)'
        BY <1>4, <3>3, <4>1, <4>3 DEF Told
      <4> QED
        BY <3>1, <4>4 DEF Told
    <3>4. CASE o.op \notin {"send", "accept"}
      BY <3>1, <3>4 DEF Told
    <3> QED
      BY <3>2, <3>3, <3>4
  <2> QED
    BY <2>1, <2>2 DEF QueueTold
<1>9. SavesFirst' /\ LookSaves'
  BY PumpIsCurrent DEF SavesFirst, LookSaves
<1> QED
  BY <1>5, <1>6, <1>7, <1>8, <1>9 DEF RoleInv

(* The continuation of a pump: what it meant to save is saved.              *)
LEMMA PumpDoneRoles ==
    ASSUME RuntimeInv, SchedInv, OrphanInv, RoleInv, left'.claude = left.claude, left'.kinds = left.kinds,
           StoreDone, busy.op.op = "pump"
    PROVE  RoleInv'
<1> DEFINE o == busy.op
<1>1. UNCHANGED <<value, disk, open, briefed>> /\ busy' = Idle /\ busy.todo = <<>>
  BY DEF StoreDone, PumpDone, store
<1>2. Types /\ o \in Looks
  <2>1. o \in (Waiting \ {PumpOp}) \cup Looks \cup {Idle.op}
    BY DEF RuntimeInv, Types
  <2> QED
    BY <2>1, PumpIsPump, PumpIsCurrent DEF RuntimeInv
<1>3. PICK starts \in SUBSET {s \in Slot : host[s].status = "none"}, sends \in SUBSET Node :
         After(pending, host, value, starts, sends) /\ \A n \in sends : busy.ok /\ n \in o.sends
  <2>1. (After(pending, host, value, o.starts, o.sends) /\ busy.ok) \/ After(pending, host, value, {}, {})
    BY DEF StoreDone, PumpDone
  <2>2. o.starts \in SUBSET {s \in Slot : host[s].status = "none"} /\ o.sends \in SUBSET Node
    BY <1>2 DEF Looks, OrphanInv, StartsAbsent
  <2>3. {} \in SUBSET {s \in Slot : host[s].status = "none"} /\ {} \in SUBSET Node
    OBVIOUS
  <2> QED
    BY <2>1, <2>2, <2>3
<1>4. \A n \in sends : Shown(SlotOf[n])
  BY <1>1, <1>3 DEF RoleInv, LookSaves, Shown
<1>5. PICK q : q = pending
  OBVIOUS
<1>6. /\ q \in Seq(Waiting) /\ After(q, host, value, starts, sends)
      /\ \A i \in DOMAIN q : q[i].op # "send" /\ \E j \in DOMAIN pending : q[i] = pending[j]
  BY <1>2, <1>3, <1>5 DEF Types, RuntimeInv, QueueOrder
<1> QED
  BY <1>1, <1>3, <1>4, <1>6, AfterRoles

\* A look saves each conversation it learned, once.
NamesAmong(todo) ==
    \A s \in Slot :
        /\ NewConversation(s) => \E i \in DOMAIN todo : SavesNow(todo[i], s)
        /\ \A i \in DOMAIN todo : SavesNow(todo[i], s) =>
              /\ NewConversation(s) /\ todo[i].do.conv = Reported(s)
              /\ \A j \in DOMAIN todo : SavesNow(todo[j], s) => i = j

(* The names are the first part of what a look saves.                       *)
LEMMA NamesSaved ==
    ASSUME NEW convs \in ListedSlots({s \in Slot : NewConversation(s)}),
           NEW exits \in ListedSlots({s \in Slot : ExitedUnder(s)}),
           NEW S \in SUBSET Node, NEW fails \in ListedNodes(S),
           NEW todo, todo = Saves(convs) \o ExitFails(exits) \o NextFails(fails)
    PROVE  NamesAmong(todo)
<1> DEFINE T == {t \in Slot : NewConversation(t)}
           X == {t \in Slot : ExitedUnder(t)}
<1>1. T \in SUBSET Slot /\ X \in SUBSET Slot /\ \A s \in Slot : s \in T <=> NewConversation(s)
  OBVIOUS
<1> HIDE DEF T, X
<1>2. convs \in ListedSlots(T) /\ exits \in ListedSlots(X)
  BY DEF T, X
<1>3. PICK a, b, c : LookWrites(todo, convs, exits, fails, a, b, c)
  BY <1>1, <1>2, LookListed, Zenon
<1>4. DOMAIN todo = 1..(a + b + c) /\ a \in Nat /\ b \in Nat /\ c \in Nat /\ DOMAIN convs = 1..a
  BY <1>3 DEF LookWrites
<1>5. /\ \A i \in 1..a : convs[i] \in T
      /\ \A i, j \in 1..a : i < j => convs[i] # convs[j]
  BY <1>2, <1>4 DEF ListedSlots
<1>6. ASSUME NEW i \in 1..a
      PROVE  /\ todo[i].write = "commit" /\ todo[i].do.op = "conversation"
             /\ todo[i].do.slot = convs[i] /\ todo[i].do.conv = Reported(convs[i])
  <2>1. todo[i] = Commit([op |-> "conversation", slot |-> convs[i], conv |-> Reported(convs[i])])
    BY <1>3, <1>4 DEF LookWrites, Saves
  <2> QED
    BY <2>1 DEF Commit
<1>7. ASSUME NEW i \in DOMAIN todo, ~(i \in 1..a)
      PROVE  todo[i].do.op = "fail"
  <2>1. CASE i <= a + b
    <3>1. PICK k : k = i - a
      OBVIOUS
    <3>2. k \in 1..b /\ i = a + k
      BY <1>4, <1>7, <2>1, <3>1
    <3>3. todo[i] = ExitFails(exits)[k] /\ k \in DOMAIN exits
      BY <1>3, <3>2, Zenon DEF LookWrites
    <3>4. PICK o : o.op = "fail" /\ ExitFails(exits)[k] = Commit(o)
      BY <3>3 DEF ExitFails
    <3> QED
      BY <3>3, <3>4 DEF Commit
  <2>2. CASE ~(i <= a + b)
    <3>1. PICK k : k = i - (a + b)
      OBVIOUS
    <3>2. k \in 1..c /\ i = a + b + k
      BY <1>4, <1>7, <2>2, <3>1
    <3>3. todo[i] = NextFails(fails)[k] /\ k \in DOMAIN fails
      BY <1>3, <3>2 DEF LookWrites
    <3> QED
      BY <3>3 DEF NextFails, Commit
  <2> QED
    BY <2>1, <2>2
<1>8. ASSUME NEW s \in Slot, NEW i \in DOMAIN todo, SavesNow(todo[i], s)
      PROVE  i \in 1..a /\ convs[i] = s /\ todo[i].do.conv = Reported(s)
  BY <1>6, <1>7, <1>8 DEF SavesNow
<1>9. ASSUME NEW s \in Slot, NEW i \in DOMAIN todo, NEW j \in DOMAIN todo, SavesNow(todo[i], s), SavesNow(todo[j], s)
      PROVE  i = j
  <2>1. i \in 1..a /\ j \in 1..a /\ convs[i] = convs[j]
    BY <1>8, <1>9
  <2>2. i < j \/ j < i \/ i = j
    BY <1>4, <2>1
  <2> QED
    BY <1>5, <2>1, <2>2
<1>10. ASSUME NEW s \in Slot, NewConversation(s)
       PROVE  \E i \in DOMAIN todo : SavesNow(todo[i], s)
  <2>1. s \in T
    BY <1>1, <1>10
  <2>2. PICK i \in DOMAIN convs : convs[i] = s
    BY <1>1, <1>2, <2>1, ListsAll
  <2>3. i \in 1..a /\ i \in DOMAIN todo
    BY <1>4, <2>2
  <2> QED
    BY <1>6, <2>2, <2>3 DEF SavesNow
<1>11. \A s \in Slot, i \in DOMAIN todo : SavesNow(todo[i], s) => NewConversation(s) /\ todo[i].do.conv = Reported(s)
  BY <1>1, <1>5, <1>8
<1> QED
  BY <1>9, <1>10, <1>11 DEF NamesAmong

(* A slot that is ready reports the conversation that is saved, or one the  *)
(* look saves; and a slot that reports a new one had none.                  *)
LEMMA LookShows ==
    ASSUME RuntimeInv, RoleInv, busy = Idle
    PROVE  /\ \A n \in LookSends :
                 /\ n \in Node /\ SlotOf[n] \in Slot
                 /\ SlotOf[n] \notin left.claude =>
                       /\ host[SlotOf[n]].known
                       /\ Conv(SlotOf[n]) = host[SlotOf[n]].conv \/ NewConversation(SlotOf[n])
           /\ \A s \in Slot : NewConversation(s) =>
                 /\ Conv(s) = NoConversation /\ host[s].status # "none"
                 /\ host[s].resumed = NoConversation /\ host[s].conv = Reported(s)
<1>1. run = value
  BY DEF RuntimeInv, Installed
<1>2. ASSUME NEW n \in LookSends
      PROVE  /\ n \in Node /\ SlotOf[n] \in Slot
             /\ SlotOf[n] \notin left.claude =>
                   /\ host[SlotOf[n]].known
                   /\ Conv(SlotOf[n]) = host[SlotOf[n]].conv \/ NewConversation(SlotOf[n])
  <2>1. n \in Node /\ SlotReady(SlotOf[n])
    BY DEF LookSends, DispatchSend, Taken
  <2>2. PICK s \in Slot : s = SlotOf[n]
    BY <2>1, GraphTyped
  <2>3. HostTold(s) /\ host[s].status = "idle" /\ ~Mismatched(s)
    BY <2>1, <2>2 DEF SlotReady, CannotRun, RoleInv
  <2>4. s \notin left.claude => host[s].known /\ Reported(s) = host[s].conv /\ host[s].conv # NoConversation
    BY <2>3 DEF HostTold, Reported
  <2> QED
    BY <1>1, <2>1, <2>2, <2>3, <2>4 DEF NewConversation, Conv
<1>3. ASSUME NEW s \in Slot, NewConversation(s)
      PROVE  /\ Conv(s) = NoConversation /\ host[s].status # "none"
             /\ host[s].resumed = NoConversation /\ host[s].conv = Reported(s)
  <2>1. HostTold(s)
    BY DEF RoleInv
  <2>2. host[s].known /\ host[s].conv = Reported(s) /\ host[s].conv # NoConversation /\ Conv(s) # host[s].conv
    BY <1>1, <1>3 DEF NewConversation, Reported, Conv
  <2>3. host[s].resumed = NoConversation \/ host[s].resumed = host[s].conv
    BY <1>3, <2>2 DEF NewConversation, Mismatched
  <2> QED
    BY <2>1, <2>2, <2>3 DEF HostTold
<1> QED
  BY <1>2, <1>3

(* A look.                                                                  *)
LEMMA PumpRoles ==
    ASSUME RuntimeInv, RoleInv, left'.claude = left.claude, left'.kinds = left.kinds, Pump
    PROVE  RoleInv'
<1>1. PICK starts \in SUBSET {s \in Slot : host[s].status = "none"}, S \in SUBSET ReadyNodes,
           convs \in ListedSlots({s \in Slot : NewConversation(s)}),
           exits \in ListedSlots({s \in Slot : ExitedUnder(s)}) :
           \E fails \in ListedNodes(S) :
              LookDoes(starts, Saves(convs) \o ExitFails(exits) \o NextFails(fails))
  BY Look
<1>2. /\ busy = Idle /\ pending # <<>> /\ Head(pending) = PumpOp
      /\ UNCHANGED <<value, disk, open, briefed>>
  BY DEF Pump, store
<1>3. Types /\ run = value
  BY <1>2 DEF RuntimeInv, Installed
<1>4. PICK q : q = Tail(pending)
  OBVIOUS
<1>5. /\ Len(pending) \in Nat \ {0} /\ DOMAIN pending = 1..Len(pending) /\ pending[1] = PumpOp
      /\ q \in Seq(Waiting) /\ DOMAIN q = 1..(Len(pending) - 1)
      /\ \A i \in DOMAIN q : i + 1 \in DOMAIN pending /\ q[i] = pending[i + 1]
  BY <1>2, <1>3, <1>4 DEF Types
<1>6. \A i \in DOMAIN q : q[i].op \notin {"send", "pump"} /\ \E j \in DOMAIN pending : q[i] = pending[j]
  <2> TAKE i \in DOMAIN q
  <2>1. i + 1 \in DOMAIN pending /\ 1 \in DOMAIN pending /\ 1 < i + 1 /\ q[i] = pending[i + 1]
    BY <1>5
  <2>2. pending[1].op = "pump"
    BY <1>5 DEF PumpOp
  <2> QED
    BY <2>1, <2>2 DEF RuntimeInv, QueueOrder
<1>7. PICK fails \in ListedNodes(S) : LookDoes(starts, Saves(convs) \o ExitFails(exits) \o NextFails(fails))
  BY <1>1
<1>8. PICK todo : todo = Saves(convs) \o ExitFails(exits) \o NextFails(fails)
  OBVIOUS
<1>9. ExitsAmong(todo) /\ NamesAmong(todo)
  <2>1. S \in SUBSET Node
    BY DEF ReadyNodes
  <2>2. ExitsAmong(todo)
    BY <1>8, <2>1, ExitsSaved, Zenon
  <2>3. NamesAmong(todo)
    BY <1>8, <2>1, NamesSaved, Zenon
  <2> QED
    BY <2>2, <2>3
<1>10. \A s \in Slot : /\ ExitedUnder(s) => Cleared[s] = Released(host[s])
                       /\ ~ExitedUnder(s) => Cleared[s] = host[s]
  BY DEF Cleared
<1>11. /\ \A n \in LookSends :
             /\ n \in Node /\ SlotOf[n] \in Slot
             /\ SlotOf[n] \notin left.claude =>
                   /\ host[SlotOf[n]].known
                   /\ Conv(SlotOf[n]) = host[SlotOf[n]].conv \/ NewConversation(SlotOf[n])
       /\ \A s \in Slot : NewConversation(s) =>
             /\ Conv(s) = NoConversation /\ host[s].status # "none"
             /\ host[s].resumed = NoConversation /\ host[s].conv = Reported(s)
  BY <1>2, LookShows
<1>12. CASE todo = <<>> /\ After(q, Cleared, run, starts, LookSends) /\ busy' = busy
  <2>1. \A s \in Slot : ~ExitedUnder(s) /\ ~NewConversation(s)
    BY <1>9, <1>12 DEF ExitsAmong, NamesAmong
  <2>2. Cleared = host
    BY <1>3, <2>1 DEF Cleared, Types
  <2>3. After(q, host, value, starts, LookSends)
    BY <1>3, <1>12, <2>2
  <2>4. LookSends \in SUBSET Node /\ \A n \in LookSends : Shown(SlotOf[n])
    BY <1>11, <2>1 DEF Shown
  <2>5. busy' = Idle
    BY <1>2, <1>12
  <2> QED
    BY <1>2, <1>5, <1>6, <2>3, <2>4, <2>5, AfterRoles
<1>13. CASE /\ busy' = [op |-> [op |-> "pump", starts |-> starts, sends |-> LookSends],
                        todo |-> todo, ok |-> TRUE, began |-> FALSE]
            /\ host' = Cleared /\ pending' = q
  <2> DEFINE look == [op |-> "pump", starts |-> starts, sends |-> LookSends]
  <2>1. look.op = "pump" /\ look.sends = LookSends
    OBVIOUS
  <2>2. busy' = [op |-> look, todo |-> todo, ok |-> TRUE, began |-> FALSE]
    BY <1>13
  <2> HIDE DEF look
  <2>3. busy'.op = look /\ busy'.todo = todo /\ busy'.ok
    BY <2>2
  <2>4. \A s \in Slot : /\ host'[s].status = host[s].status /\ host'[s].known = host[s].known
                        /\ host'[s].conv = host[s].conv /\ host'[s].resumed = host[s].resumed
                        /\ host'[s].begun = host[s].begun /\ host'[s].turns = host[s].turns
    <3>1. ASSUME NEW h \in Hosts
          PROVE  /\ Released(h).status = h.status /\ Released(h).known = h.known
                 /\ Released(h).conv = h.conv /\ Released(h).resumed = h.resumed
                 /\ Released(h).begun = h.begun /\ Released(h).turns = h.turns
      BY DEF Released, Hosts
    <3>2. \A s \in Slot : host[s] \in Hosts /\ (host'[s] = host[s] \/ host'[s] = Released(host[s]))
      BY <1>3, <1>10, <1>13 DEF Types
    <3> QED
      BY <3>1, <3>2
  <2>5. ASSUME NEW s \in Slot
        PROVE  /\ (Steady(s)' <=> Steady(s)) /\ Conv(s)' = Conv(s) /\ (Given(value, s)' <=> Given(value, s))
               /\ briefed'[s] = briefed[s] /\ (open' <=> open) /\ (s \in left'.claude <=> s \in left.claude)
    BY <1>2 DEF Steady, Conv, Given
  <2>6. \A s \in Slot : HostTold(s)'
    BY <2>4, <2>5 DEF RoleInv, HostTold, Turning
  <2>7. OpenedGiven(value)' /\ OpenedGiven(disk)' /\ DOMAIN briefed' = Slot
    BY <1>2 DEF RoleInv, OpenedGiven, Given
  <2>8. QueueTold'
    <3>1. Told(busy.op)'
      BY <2>1, <2>3 DEF Told
    <3>2. ASSUME NEW i \in DOMAIN pending'
          PROVE  Told(pending[i])'
      <4>1. PICK o : o = pending'[i]
        OBVIOUS
      <4>2. o \in Waiting /\ Told(o) /\ o.op # "send"
        BY <1>3, <1>6, <1>13, <4>1 DEF Types, RoleInv, QueueTold
      <4>3. CASE o.op = "accept"
        <5>1. o.node \in Node
          BY <4>2, <4>3, TagTypes DEF Accepts
        <5>2. PICK s \in Slot : s = SlotOf[o.node]
          BY <5>1, GraphTyped
        <5>3. Told(o)'
          BY <2>5, <4>2, <4>3, <5>2 DEF Told
        <5> QED
          BY <4>1, <5>3 DEF Told
      <4>4. CASE o.op # "accept"
        BY <4>1, <4>2, <4>4 DEF Told
      <4> QED
        BY <4>3, <4>4
    <3> QED
      BY <3>1, <3>2 DEF QueueTold
  <2>9. SavesFirst'
    <3> SUFFICES ASSUME NEW i \in DOMAIN todo, NEW s \in Slot, SavesNow(todo[i], s)
                 PROVE  /\ Conv(s)' = NoConversation
                        /\ host'[s].status # "none" =>
                              host'[s].resumed = NoConversation /\ host'[s].conv = todo[i].do.conv
                        /\ Steady(s)' => host'[s].status # "none"
                        /\ \A j \in DOMAIN todo : SavesNow(todo[j], s) => i = j
      BY <2>3 DEF SavesFirst, SavesNow
    <3>1. /\ NewConversation(s) /\ todo[i].do.conv = Reported(s)
          /\ \A j \in DOMAIN todo : SavesNow(todo[j], s) => i = j
      BY <1>9 DEF NamesAmong
    <3> QED
      BY <1>11, <2>4, <2>5, <3>1
  <2>10. LookSaves'
    <3> SUFFICES ASSUME NEW n \in LookSends, NEW s \in Slot, s = SlotOf[n],
                        s \notin left.claude, host'[s].status # "none"
                 PROVE  /\ host'[s].known
                        /\ Conv(s)' = host'[s].conv \/ \E i \in DOMAIN todo : SavesNow(todo[i], s)
      BY <1>11, <2>1, <2>3 DEF LookSaves, SavesNow, Conv
    <3> QED
      BY <1>9, <1>11, <2>4, <2>5 DEF NamesAmong
  <2> QED
    BY <2>6, <2>7, <2>8, <2>9, <2>10 DEF RoleInv
<1> QED
  BY <1>4, <1>7, <1>8, <1>12, <1>13 DEF LookDoes

(* A write of the operation at work, done or failed: a conversation that is *)
(* saved is that of the slot's session, and a slot that is recorded as      *)
(* opened was given its role, on the disk even when the store was not told. *)
LEMMA StoreRoles ==
    ASSUME RuntimeInv, RoleInv, left'.claude = left.claude, left'.kinds = left.kinds, StoreStep \/ WriteFails
    PROVE  RoleInv'
<1>1. busy.todo # <<>> /\ UNCHANGED <<open, pending, host, briefed>>
  BY DEF StoreStep, WriteFails, queue, history
<1>2. /\ Types /\ value \in Records
      /\ busy \in [op : (Waiting \ {PumpOp}) \cup Looks \cup {Idle.op}, todo : Seq(Writes),
                   ok : BOOLEAN, began : BOOLEAN]
  BY DEF RuntimeInv, Types
<1>3. PICK w, rest : w = Head(busy.todo) /\ rest = Tail(busy.todo)
  OBVIOUS
<1>4. /\ w \in Writes /\ 1 \in DOMAIN busy.todo /\ w = busy.todo[1]
      /\ \A i \in DOMAIN rest : i + 1 \in DOMAIN busy.todo /\ rest[i] = busy.todo[i + 1] /\ i \in Nat \ {0}
      /\ \A i \in DOMAIN busy.todo : i = 1 \/ (i - 1 \in DOMAIN rest /\ rest[i - 1] = busy.todo[i])
  <2>1. /\ Len(busy.todo) \in Nat /\ DOMAIN busy.todo = 1..Len(busy.todo)
        /\ w \in Writes /\ 1 \in DOMAIN busy.todo /\ w = busy.todo[1]
        /\ DOMAIN rest = 1..(Len(busy.todo) - 1)
        /\ \A i \in DOMAIN rest : i + 1 \in DOMAIN busy.todo /\ rest[i] = busy.todo[i + 1]
    BY <1>1, <1>2, <1>3
  <2>2. ASSUME NEW i \in DOMAIN busy.todo, i # 1
        PROVE  i - 1 \in DOMAIN rest /\ rest[i - 1] = busy.todo[i]
    <3>1. PICK j : j = i - 1
      OBVIOUS
    <3>2. j \in DOMAIN rest /\ j + 1 = i
      BY <2>1, <2>2, <3>1
    <3> QED
      BY <2>1, <3>1, <3>2
  <2>3. \A i \in DOMAIN rest : i \in Nat \ {0}
    BY <2>1
  <2> QED
    BY <2>1, <2>2, <2>3
<1>5. w.write = "commit" => /\ w.do \in Changes
                            /\ IF busy.op.op = "pump" THEN w.do.op \in {"conversation", "fail"}
                                                      ELSE w.do = busy.op
  BY <1>4 DEF Writes, WritePrompt, RuntimeInv, BusyWork
<1>6. \/ /\ busy'.op = busy.op /\ busy'.todo = <<>> /\ ~busy'.ok /\ value' = value
         /\ disk' = disk \/ (w.write = "commit" /\ disk' = Changed(value, w.do))
      \/ /\ busy'.op = busy.op /\ busy'.todo = rest /\ busy'.ok = busy.ok
         /\ \/ w.write # "commit" /\ value' = value /\ disk' = disk
            \/ w.write = "commit" /\ value' = Changed(value, w.do) /\ disk' = value'
  <2>1. CASE StoreStep /\ w.write = "commit"
    <3>1. CommitStep(w.do)
      BY <1>3, <2>1 DEF StoreStep
    <3> QED
      BY <1>2, <1>3, <2>1, <3>1 DEF CommitStep, store
  <2>2. CASE StoreStep /\ w.write # "commit"
    <3>1. busy' = [busy EXCEPT !.todo = Tail(@)] /\ UNCHANGED <<value, disk>>
      BY <1>3, <2>2 DEF StoreStep, store
    <3> QED
      BY <1>2, <1>3, <2>2, <3>1
  <2>3. CASE WriteFails
    <3>1. /\ busy' = [busy EXCEPT !.todo = <<>>, !.ok = FALSE] /\ value' = value
          /\ disk' = disk \/ (w.write = "commit" /\ disk' = Changed(value, w.do))
      BY <1>3, <2>3 DEF WriteFails
    <3> QED
      BY <1>2, <3>1
  <2> QED
    BY <2>1, <2>2, <2>3
<1>7. \A s \in Slot : SavesNow(w, s) =>
         /\ Conv(s) = NoConversation
         /\ host[s].status # "none" => host[s].resumed = NoConversation /\ host[s].conv = w.do.conv
         /\ Steady(s) => host[s].status # "none"
         /\ \A j \in DOMAIN busy.todo : SavesNow(busy.todo[j], s) => 1 = j
  BY <1>4 DEF RoleInv, SavesFirst
<1>8. w.write = "commit" =>
         /\ OpenedGiven(Changed(value, w.do))
         /\ \A s \in Slot : Given(value, s) => Given(Changed(value, w.do), s)
  <2> SUFFICES ASSUME w.write = "commit"
               PROVE  /\ OpenedGiven(Changed(value, w.do))
                      /\ \A s \in Slot : Given(value, s) => Given(Changed(value, w.do), s)
    OBVIOUS
  <2>1. PICK o \in Changes : o = w.do
    BY <1>5
  <2>2. o.op = "accept" => Given(value, SlotOf[o.node])
    BY <1>5, <2>1 DEF RoleInv, QueueTold, Told
  <2>3. \A s \in Slot : o.op = "conversation" /\ o.slot = s => value.slots[s].conversation = NoConversation
    BY <1>7, <2>1 DEF SavesNow, Conv
  <2>4. OpenedGiven(value) /\ \A s \in Slot : NoConversation \notin briefed[s]
    BY DEF RoleInv, HostTold
  <2>5. OpenedGiven(Changed(value, o)) /\ \A s \in Slot : Given(value, s) => Given(Changed(value, o), s)
    BY <1>2, <2>2, <2>3, <2>4, ChangedGiven
  <2> QED
    BY <2>1, <2>5
<1>9. ASSUME NEW r
      PROVE  /\ OpenedGiven(r) => OpenedGiven(r)'
             /\ \A s \in Slot : Given(r, s) => Given(r, s)'
  BY <1>1 DEF OpenedGiven, Given
<1>10. OpenedGiven(value)' /\ OpenedGiven(disk)' /\ DOMAIN briefed' = Slot
       /\ \A s \in Slot : Given(value, s) => Given(value, s)'
  <2>1. PICK r, d : r = value' /\ d = disk'
    OBVIOUS
  <2>2. OpenedGiven(r) /\ OpenedGiven(d) /\ \A s \in Slot : Given(value, s) => Given(r, s)
    BY <1>6, <1>8, <2>1 DEF RoleInv
  <2>3. OpenedGiven(r)' /\ OpenedGiven(d)' /\ \A s \in Slot : Given(value, s) => Given(r, s)'
    BY <1>9, <2>2
  <2>4. DOMAIN briefed' = Slot
    BY <1>1 DEF RoleInv
  <2> QED
    BY <2>1, <2>3, <2>4 DEF OpenedGiven, Given
<1>11. ASSUME NEW s \in Slot
       PROVE  /\ ~SavesNow(w, s) => Conv(s)' = Conv(s)
              /\ Conv(s)' = Conv(s) \/ (SavesNow(w, s) /\ Conv(s)' = w.do.conv)
              /\ SavesNow(w, s) /\ busy'.ok => Conv(s)' = w.do.conv
  <2>1. w.write = "commit" => Changed(value, w.do).slots[s].conversation =
                                 IF w.do.op = "conversation" /\ w.do.slot = s THEN w.do.conv ELSE Conv(s)
    <3>1. w.write = "commit" => w.do \in Changes
      BY <1>5
    <3> QED
      BY <1>2, <3>1, ChangedSlots DEF Conv
  <2> QED
    BY <1>6, <2>1 DEF SavesNow, Conv
<1>12. ASSUME NEW s \in Slot
       PROVE  HostTold(s)'
  <2>1. HostTold(s)
    BY DEF RoleInv
  <2>2. /\ host'[s] = host[s] /\ briefed'[s] = briefed[s] /\ (Steady(s)' <=> Steady(s)) /\ (open' <=> open)
        /\ (s \in left'.claude <=> s \in left.claude) /\ (Given(value, s) => Given(value, s)')
    BY <1>1, <1>10 DEF Steady
  <2>3. CASE Conv(s)' = Conv(s)
    BY <2>1, <2>2, <2>3 DEF HostTold
  <2>4. CASE SavesNow(w, s) /\ Conv(s)' = w.do.conv
    <3>1. /\ host[s].status # "none" => host[s].resumed = NoConversation /\ host[s].conv = Conv(s)'
          /\ Steady(s) => host[s].status # "none"
      BY <1>7, <2>4
    <3> QED
      BY <2>1, <2>2, <3>1 DEF HostTold
  <2> QED
    BY <1>11, <2>3, <2>4
<1>13. ASSUME NEW o \in Waiting \cup Looks \cup {Idle.op}, Told(o), o.op = "send" => busy.op.op # "pump"
       PROVE  Told(o)'
  <2>1. CASE o.op \in {"send", "accept"}
    <3>1. o.node \in Node
      BY <2>1, TagTypes DEF Sends, Accepts
    <3>2. PICK s \in Slot : s = SlotOf[o.node]
      BY <3>1, GraphTyped
    <3>3. Given(value, s) => Given(value, s)'
      BY <1>10
    <3>4. busy.op.op # "pump" => ~SavesNow(w, s)
      <4>1. busy.op.op # "conversation"
        BY <1>2, TagTypes DEF Waiting, Sends, Accepts, Finishes, Fails, Stops, Resumes, Looks, PumpOp, Idle
      <4> QED
        BY <1>5, <4>1 DEF SavesNow
    <3>5. o.op = "send" => (Shown(s) => Shown(s)')
      BY <1>1, <1>11, <1>13, <3>4 DEF Shown
    <3> QED
      BY <1>13, <3>2, <3>3, <3>5 DEF Told
  <2>2. CASE o.op \notin {"send", "accept"}
    BY <2>2 DEF Told
  <2> QED
    BY <2>1, <2>2
<1>14. QueueTold'
  <2>1. Told(busy.op)'
    <3>1. PICK o : o = busy.op
      OBVIOUS
    <3>2. o \in Waiting \cup Looks \cup {Idle.op} /\ Told(o) /\ (o.op = "send" => busy.op.op # "pump")
      BY <1>2, <3>1 DEF RoleInv, QueueTold
    <3>3. Told(o)'
      BY <1>13, <3>2
    <3> QED
      BY <1>6, <3>1, <3>3 DEF Told
  <2>2. ASSUME NEW i \in DOMAIN pending'
        PROVE  Told(pending[i])'
    <3>1. PICK o : o = pending[i]
      OBVIOUS
    <3>2. o \in Waiting \cup Looks \cup {Idle.op} /\ Told(o) /\ (o.op = "send" => busy.op.op # "pump")
      BY <1>1, <1>2, <3>1 DEF Types, RoleInv, QueueTold, RuntimeInv, QueueOrder
    <3>3. Told(o)'
      BY <1>13, <3>2
    <3> QED
      BY <1>1, <3>1, <3>3 DEF Told
  <2> QED
    BY <2>1, <2>2 DEF QueueTold
<1>15. CASE busy'.op = busy.op /\ busy'.todo = <<>> /\ ~busy'.ok
  <2>1. SavesFirst' /\ LookSaves'
    BY <1>15 DEF SavesFirst, LookSaves
  <2> QED
    BY <1>10, <1>12, <1>14, <2>1 DEF RoleInv
<1>16. CASE busy'.op = busy.op /\ busy'.todo = rest /\ busy'.ok = busy.ok
  <2>1. busy.ok
    BY <1>1 DEF RuntimeInv, BusyWork
  <2>2. SavesFirst'
    <3> SUFFICES ASSUME NEW i \in DOMAIN rest, NEW s \in Slot, SavesNow(rest[i], s)
                 PROVE  /\ Conv(s)' = NoConversation
                        /\ host[s].status # "none" => host[s].resumed = NoConversation /\ host[s].conv = rest[i].do.conv
                        /\ Steady(s) => host[s].status # "none"
                        /\ \A j \in DOMAIN rest : SavesNow(rest[j], s) => i = j
      BY <1>1, <1>16 DEF SavesFirst, SavesNow, Steady
    <3>1. PICK k : k = i + 1
      OBVIOUS
    <3>2. k \in DOMAIN busy.todo /\ rest[i] = busy.todo[k] /\ k # 1
      BY <1>4, <3>1
    <3>3. /\ Conv(s) = NoConversation
          /\ host[s].status # "none" => host[s].resumed = NoConversation /\ host[s].conv = rest[i].do.conv
          /\ Steady(s) => host[s].status # "none"
          /\ \A j \in DOMAIN busy.todo : SavesNow(busy.todo[j], s) => k = j
      BY <3>2 DEF RoleInv, SavesFirst
    <3>4. ~SavesNow(w, s)
      BY <1>4, <3>2, <3>3
    <3>5. \A j \in DOMAIN rest : SavesNow(rest[j], s) => i = j
      BY <1>4, <3>1, <3>3
    <3> QED
      BY <1>11, <3>3, <3>4, <3>5
  <2>3. LookSaves'
    <3> SUFFICES ASSUME busy.op.op = "pump", NEW n \in busy.op.sends, NEW s, s = SlotOf[n],
                        s \notin left.claude, host[s].status # "none"
                 PROVE  host[s].known /\ (Conv(s)' = host[s].conv \/ \E i \in DOMAIN rest : SavesNow(rest[i], s))
      BY <1>1, <1>16 DEF LookSaves, SavesNow, Conv
    <3>1. s \in Slot
      <4>1. busy.op \in Looks
        BY <1>2, PumpIsPump, PumpIsCurrent
      <4> QED
        BY <4>1, GraphTyped DEF Looks
    <3>2. host[s].known /\ (Conv(s) = host[s].conv \/ \E i \in DOMAIN busy.todo : SavesNow(busy.todo[i], s))
      BY <2>1 DEF RoleInv, LookSaves
    <3>3. CASE SavesNow(w, s)
      BY <1>7, <1>11, <1>16, <2>1, <3>1, <3>2, <3>3
    <3>4. CASE ~SavesNow(w, s)
      BY <1>4, <1>11, <3>1, <3>2, <3>4
    <3> QED
      BY <3>3, <3>4
  <2> QED
    BY <1>10, <1>12, <1>14, <2>2, <2>3 DEF RoleInv
<1> QED
  BY <1>6, <1>15, <1>16

(* What a slot's session shows was given the role in any state of the       *)
(* runtime.                                                                 *)
LEMMA RoleInvHolds == Spec => []RoleInv
<1>1. RuntimeInv /\ SchedInv /\ OrphanInv /\ RoleInv /\ [Next]_vars => RoleInv'
  <2> SUFFICES ASSUME RuntimeInv, SchedInv, OrphanInv, RoleInv, [Next]_vars PROVE RoleInv'
    OBVIOUS
  <2> left'.claude = left.claude /\ left'.kinds = left.kinds
    BY WorldStays DEF OrphanInv, WorldKept
  <2>1. CASE Pump
    BY <2>1, PumpRoles
  <2>2. CASE StartOperation
    BY <2>2, StartRoles
  <2>3. CASE StoreStep \/ WriteFails
    BY <2>3, StoreRoles
  <2>4. CASE StoreDone
    BY <2>4, SendDoneRoles, PumpDoneRoles, OtherDoneRoles
  <2>5. ASSUME NEW s \in Slot,
               \/ SessionReady(s) \/ SessionExits(s) \/ SessionRestarts(s) \/ IdentityReported(s)
               \/ TurnFailsUnnamed(s) \/ TurnRefused(s)
               \/ TurnAccepted(s) \/ \E ok \in BOOLEAN : TurnFinished(s, ok)
        PROVE  RoleInv'
    BY <2>5, SessionRoles, TurnRoles
  <2>6. CASE UserStop \/ UserResume
    BY <2>6, UserRoles
  <2>7. CASE Close \/ Open \/ OpenFails
    BY <2>7, OpeningRoles
  <2>8. CASE UNCHANGED vars
    BY <2>8, StutterRoles
  <2> QED
    BY <2>1, <2>2, <2>3, <2>4, <2>5, <2>6, <2>7, <2>8 DEF Next
<1> QED
  BY <1>1, InitRoles, RuntimeInvHolds, SchedInvHolds, OrphanInvHolds, PTL DEF Spec

(* No conversation works on a node without having been given its slot's     *)
(* role: the role precedes the first prompt of a conversation (spec.md:102) *)
(* whatever is started, stopped, resumed, restarted or written in between.  *)
(* Only Claude's slots can lose a conversation that had it, and only if     *)
(* their sessions or the program can end.                                   *)
THEOREM RoleIsDelivered == Spec => []RoleDelivered
<1>1. RuntimeInv /\ RoleInv => RoleDelivered
  <2> SUFFICES ASSUME RuntimeInv, RoleInv, NEW s \in Slot, host[s].status = "working"
               PROVE  \/ host[s].conv \in briefed[s]
                      \/ s \in left.claude /\ {"crash", "exit"} \cap left.kinds # {} /\ briefed[s] # {}
    BY DEF RoleDelivered
  <2>1. HostTold(s)
    BY DEF RoleInv
  <2>2. Given(value, s) /\ (s \notin left.claude => Conv(s) = host[s].conv)
    BY <2>1 DEF HostTold, Turning
  <2>3. Steady(s) => briefed[s] \subseteq {host[s].conv}
    BY <2>1 DEF HostTold
  <2> QED
    BY <2>2, <2>3 DEF Given, Steady, Conv
<1> QED
  BY <1>1, RuntimeInvHolds, RoleInvHolds, PTL

===============================================================================
