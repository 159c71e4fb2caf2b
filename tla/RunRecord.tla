------------------------------- MODULE RunRecord -------------------------------
(***************************************************************************)
(* The saved record of one orchestration run and the operations that       *)
(* change it (crates/agent/src/orchestration/run.rs), with the scheduler   *)
(* that reads it (schedule.rs).  An operation is an operator from a record *)
(* to the next one; one whose guard fails returns the record as it was,    *)
(* which is the `false` the code returns.  Timestamps, failure wording,    *)
(* the definition copy and the run input take no part in any guard and are *)
(* left out.                                                               *)
(***************************************************************************)
EXTENDS OrchestrationGraph

CONSTANTS Epoch,         \* session epochs, 1 and up: a start counts it up
          Turn,          \* provider turn ids
          Conversation   \* provider conversation ids

\* What Option::None is for each of them.
CONSTANTS NoTurn, NoConversation

ASSUME EpochsPositive == Epoch \subseteq Nat \ {0}
ASSUME NoTurnIsNone == NoTurn \notin Turn
ASSUME NoConversationIsNone == NoConversation \notin Conversation

\* SessionRuntime counts epochs from 1, so 0 stands for Option::None.
NoEpoch == 0

RunStates == {"Running", "Failing", "Completed", "Failed", "Stopped", "Interrupted"}

NodeStates == {"Waiting", "Sending", "Accepted", "Completed",
               "Failed", "Stopped", "Interrupted", "NotRun"}

\* One record for every NodeState variant; a field a variant does not carry
\* holds its None.
NodeRun == [state : NodeStates, epoch : Epoch \cup {NoEpoch}, turn : Turn \cup {NoTurn}]

SlotRun == [conversation : Conversation \cup {NoConversation}, opened : BOOLEAN]

RunRecords == [state : RunStates, nodes : [Node -> NodeRun], slots : [Slot -> SlotRun]]

NodeIn(s) == [state |-> s, epoch |-> NoEpoch, turn |-> NoTurn]

NewRecord ==
    [state |-> "Running",
     nodes |-> [n \in Node |-> NodeIn("Waiting")],
     slots |-> [s \in Slot |-> [conversation |-> NoConversation, opened |-> FALSE]]]

-------------------------------------------------------------------------------
StateOf(r, n) == r.nodes[n].state

IsLive(r) == r.state \in {"Running", "Failing"}

IsResumable(r) == r.state \in {"Failed", "Stopped", "Interrupted"}

IsInFlight(r, n) == StateOf(r, n) \in {"Sending", "Accepted"}

IsCompleted(r, n) == StateOf(r, n) = "Completed"

InFlight(r) == {n \in Node : IsInFlight(r, n)}

-------------------------------------------------------------------------------
(* The scheduler. *)

\* Waiting, with every direct dependency completed.
IsReady(r, n) ==
    /\ StateOf(r, n) = "Waiting"
    /\ \A d \in Needs[n] : IsCompleted(r, d)

\* saturating_sub: a run whose limit is already used up has no capacity.
Capacity(r) ==
    LET running == Cardinality(InFlight(r))
    IN  IF running < MaxParallel THEN MaxParallel - running ELSE 0

\* The ready nodes the walk over `order` reaches before capacity runs out.
Taken(r) ==
    {n \in Node :
        /\ r.state = "Running"
        /\ IsReady(r, n)
        /\ Cardinality({m \in Node : IsReady(r, m) /\ Position[m] < Position[n]}) < Capacity(r)}

\* Dispatch.send and Dispatch.prepare, for the slots in `ready`.
DispatchSend(r, ready) == {n \in Taken(r) : SlotOf[n] \in ready}

DispatchPrepare(r, ready) == {SlotOf[n] : n \in Taken(r)} \ ready

\* next_node: the node a slot that cannot start fails.
IsNextNode(r, s, n) ==
    /\ SlotOf[n] = s /\ IsReady(r, n)
    /\ \A m \in Node : (SlotOf[m] = s /\ IsReady(r, m)) => Position[n] <= Position[m]

-------------------------------------------------------------------------------
(* The operations. *)

\* Recompute the run state after a node finished.
RefreshState(r) ==
    LET failed   == \E n \in Node : StateOf(r, n) = "Failed"
        inFlight == \E n \in Node : IsInFlight(r, n)
    IN  IF failed /\ inFlight THEN [r EXCEPT !.state = "Failing"]
        ELSE IF failed
             THEN [r EXCEPT !.state = "Failed",
                            !.nodes = [n \in Node |->
                                IF StateOf(r, n) = "Waiting" THEN NodeIn("NotRun") ELSE r.nodes[n]]]
        ELSE IF \A n \in Node : IsCompleted(r, n) THEN [r EXCEPT !.state = "Completed"]
        ELSE r

CanBeginSend(r, n) == r.state = "Running" /\ StateOf(r, n) = "Waiting"

BeginSend(r, n, e) ==
    IF CanBeginSend(r, n)
    THEN [r EXCEPT !.nodes[n] = [state |-> "Sending", epoch |-> e, turn |-> NoTurn]]
    ELSE r

CanAccept(r, n, e) == StateOf(r, n) = "Sending" /\ r.nodes[n].epoch = e

\* Accepting also records that the slot's role was delivered.
Accept(r, n, e, t) ==
    IF CanAccept(r, n, e)
    THEN [r EXCEPT !.nodes[n] = [state |-> "Accepted", epoch |-> e, turn |-> t],
                   !.slots[SlotOf[n]].opened = TRUE]
    ELSE r

CanComplete(r, n, e, t) == r.nodes[n] = [state |-> "Accepted", epoch |-> e, turn |-> t]

Complete(r, n, e, t) ==
    IF CanComplete(r, n, e, t)
    THEN RefreshState([r EXCEPT !.nodes[n] = [state |-> "Completed", epoch |-> NoEpoch, turn |-> t]])
    ELSE r

\* With NoEpoch only a waiting node fails: its session never took it.
CanFail(r, n, e) ==
    /\ IsLive(r)
    /\ \/ StateOf(r, n) = "Waiting" /\ e = NoEpoch
       \/ IsInFlight(r, n) /\ e = r.nodes[n].epoch

Fail(r, n, e) ==
    IF CanFail(r, n, e)
    THEN RefreshState([r EXCEPT !.nodes[n] = NodeIn("Failed")])
    ELSE r

Stop(r) ==
    IF IsLive(r)
    THEN [r EXCEPT !.state = "Stopped",
                   !.nodes = [n \in Node |->
                       IF IsInFlight(r, n) THEN NodeIn("Stopped")
                       ELSE IF StateOf(r, n) = "Waiting" THEN NodeIn("NotRun")
                       ELSE r.nodes[n]]]
    ELSE r

Interrupt(r) ==
    IF IsLive(r)
    THEN [r EXCEPT !.state = "Interrupted",
                   !.nodes = [n \in Node |->
                       IF IsInFlight(r, n) THEN NodeIn("Interrupted") ELSE r.nodes[n]]]
    ELSE r

\* Mutant of Resume: completed nodes are sent again.
ResumeEverything(r) ==
    IF IsResumable(r)
    THEN [r EXCEPT !.state = "Running", !.nodes = [n \in Node |-> NodeIn("Waiting")]]
    ELSE r

Resume(r) ==
    IF IsResumable(r)
    THEN [r EXCEPT !.state = "Running",
                   !.nodes = [n \in Node |->
                       IF IsCompleted(r, n) THEN r.nodes[n] ELSE NodeIn("Waiting")]]
    ELSE r

RecordConversation(r, s, c) == [r EXCEPT !.slots[s].conversation = c]

===============================================================================
