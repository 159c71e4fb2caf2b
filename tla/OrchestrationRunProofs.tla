------------------------ MODULE OrchestrationRunProofs ------------------------
(***************************************************************************)
(* Proofs that every orchestration run, for every valid graph, keeps the   *)
(* promises stated in OrchestrationRun.                                    *)
(***************************************************************************)
EXTENDS OrchestrationRun, FiniteSetTheorems, TLAPS

-------------------------------------------------------------------------------
(* The record operations keep the record well formed. *)

\* Every helper node value is a NodeRun.
LEMMA NodeInType ==
    ASSUME NEW s \in NodeStates
    PROVE  NodeIn(s) \in NodeRun
  BY DEF NodeIn, NodeRun, NoEpoch

\* RefreshState returns a record.
LEMMA RefreshStateType ==
    ASSUME NEW r \in RunRecords
    PROVE  RefreshState(r) \in RunRecords
  <1>1. NodeIn("NotRun") \in NodeRun
    BY NodeInType DEF NodeStates
  <1> QED
    BY <1>1 DEF RefreshState, RunRecords, RunStates

\* begin_send returns a record, and so do the operations below.
LEMMA BeginSendType ==
    ASSUME NEW r \in RunRecords, NEW n \in Node, NEW e \in Epoch
    PROVE  BeginSend(r, n, e) \in RunRecords
  BY DEF BeginSend, RunRecords, NodeRun, NodeStates

\* accept keeps the node a NodeRun and marks its slot opened.
LEMMA AcceptType ==
    ASSUME NEW r \in RunRecords, NEW n \in Node, NEW e \in Epoch, NEW t \in Turn
    PROVE  Accept(r, n, e, t) \in RunRecords
  <1>1. SlotOf[n] \in Slot
    BY GraphTyped
  <1>2. [r.nodes EXCEPT ![n] = [state |-> "Accepted", epoch |-> e, turn |-> t]] \in [Node -> NodeRun]
    BY DEF RunRecords, NodeRun, NodeStates
  <1>3. [r.slots EXCEPT ![SlotOf[n]].opened = TRUE] \in [Slot -> SlotRun]
    BY <1>1 DEF RunRecords, SlotRun
  <1> QED BY <1>1, <1>2, <1>3 DEF Accept, RunRecords

\* complete, with the run state it recomputes, returns a record.
LEMMA CompleteType ==
    ASSUME NEW r \in RunRecords, NEW n \in Node, NEW e \in Epoch, NEW t \in Turn
    PROVE  Complete(r, n, e, t) \in RunRecords
  <1>1. [r EXCEPT !.nodes[n] = [state |-> "Completed", epoch |-> NoEpoch, turn |-> t]] \in RunRecords
    BY DEF RunRecords, NodeRun, NodeStates
  <1> QED BY <1>1, RefreshStateType DEF Complete

\* fail, with the run state it recomputes, returns a record.
LEMMA FailType ==
    ASSUME NEW r \in RunRecords, NEW n \in Node, NEW e \in Epoch \cup {NoEpoch}
    PROVE  Fail(r, n, e) \in RunRecords
  <1>1. [r EXCEPT !.nodes[n] = NodeIn("Failed")] \in RunRecords
    BY NodeInType DEF RunRecords, NodeStates
  <1> QED BY <1>1, RefreshStateType DEF Fail

\* stop, interrupt and resume rewrite every node within its type.
LEMMA WholeRunType ==
    ASSUME NEW r \in RunRecords
    PROVE  Stop(r) \in RunRecords /\ Interrupt(r) \in RunRecords /\ Resume(r) \in RunRecords
  <1>1. Stop(r) \in RunRecords
    BY NodeInType DEF Stop, RunRecords, RunStates, NodeStates
  <1>2. Interrupt(r) \in RunRecords
    BY NodeInType DEF Interrupt, RunRecords, RunStates, NodeStates
  <1>3. Resume(r) \in RunRecords
    BY NodeInType DEF Resume, RunRecords, RunStates, NodeStates
  <1> QED BY <1>1, <1>2, <1>3

\* record_conversation only replaces a conversation id.
LEMMA RecordConversationType ==
    ASSUME NEW r \in RunRecords, NEW s \in Slot, NEW c \in Conversation
    PROVE  RecordConversation(r, s, c) \in RunRecords
  BY DEF RecordConversation, RunRecords, SlotRun

\* A new record, with no output saved, is well formed.
LEMMA InitType == Init => TypeOK
  BY NodeInType DEF Init, TypeOK, NewRecord, RunRecords, RunStates, NodeStates, SlotRun

\* Every committed change keeps the record and the outputs well formed.
LEMMA NextType == TypeOK /\ [Next]_vars => TypeOK'
  <1> SUFFICES ASSUME TypeOK, [Next]_vars PROVE TypeOK'
    OBVIOUS
  <1> USE DEF TypeOK
  <1>1. ASSUME NEW n \in Node, NEW e \in Epoch, SendNode(n, e) PROVE TypeOK'
    BY <1>1, BeginSendType DEF SendNode
  <1>2. ASSUME NEW n \in Node, NEW e \in Epoch, NEW t \in Turn, AcceptTurn(n, e, t) PROVE TypeOK'
    BY <1>2, AcceptType DEF AcceptTurn
  <1>3. ASSUME NEW n \in Node, NEW v \in Output, SaveOutput(n, v) PROVE TypeOK'
    BY <1>3 DEF SaveOutput
  <1>4. ASSUME NEW n \in Node, NEW e \in Epoch, NEW t \in Turn, CompleteNode(n, e, t) PROVE TypeOK'
    BY <1>4, CompleteType DEF CompleteNode
  <1>5. ASSUME NEW n \in Node, NEW e \in Epoch \cup {NoEpoch}, FailNode(n, e) PROVE TypeOK'
    BY <1>5, FailType DEF FailNode
  <1>6. CASE StopRun
    BY <1>6, WholeRunType DEF StopRun
  <1>7. CASE InterruptRun
    BY <1>7, WholeRunType DEF InterruptRun
  <1>8. CASE ResumeRun
    BY <1>8, WholeRunType DEF ResumeRun
  <1>9. ASSUME NEW s \in Slot, NEW c \in Conversation, SaveConversation(s, c) PROVE TypeOK'
    BY <1>9, RecordConversationType DEF SaveConversation
  <1>10. CASE UNCHANGED vars
    BY <1>10 DEF vars
  <1> QED
    BY <1>1, <1>2, <1>3, <1>4, <1>5, <1>6, <1>7, <1>8, <1>9, <1>10 DEF Next

\* The record stays well formed under every operation of run.rs.
THEOREM TypeCorrect == Spec => []TypeOK
  BY InitType, NextType, PTL DEF Spec

-------------------------------------------------------------------------------
(* What RefreshState does to a record whose node just finished. *)

\* It only ever turns waiting nodes into nodes that are not run.
LEMMA RefreshNodes ==
    ASSUME NEW r \in RunRecords, NEW m \in Node
    PROVE  \/ RefreshState(r).nodes[m] = r.nodes[m]
           \/ /\ StateOf(r, m) = "Waiting"
              /\ RefreshState(r).nodes[m] = NodeIn("NotRun")
  BY DEF RefreshState, RunRecords

\* A live record becomes consistent again, whatever its own state said.
LEMMA RefreshConsistent ==
    ASSUME NEW r \in RunRecords,
           r.state \in {"Running", "Failing"},
           r.state = "Failing" => SomeNodeIn(r, {"Failed"}),
           EveryNodeIn(r, {"Waiting", "Sending", "Accepted", "Completed", "Failed"})
    PROVE  Consistent(RefreshState(r))
  <1> DEFINE failed == \E n \in Node : StateOf(r, n) = "Failed"
             inFlight == \E n \in Node : IsInFlight(r, n)
             q == RefreshState(r)
  <1> HIDE DEF q
  <1>0. q \in RunRecords
    BY RefreshStateType DEF q
  <1>1. CASE failed /\ inFlight
    <2>1. q = [r EXCEPT !.state = "Failing"]
      BY <1>1 DEF q, RefreshState
    <2>2. q.state = "Failing" /\ q.nodes = r.nodes
      BY <2>1 DEF RunRecords
    <2> QED BY <1>1, <2>2 DEF q, Consistent, SomeNodeIn, EveryNodeIn, StateOf, IsInFlight
  <1>2. CASE failed /\ ~inFlight
    <2>1. q = [r EXCEPT !.state = "Failed",
                        !.nodes = [n \in Node |->
                           IF StateOf(r, n) = "Waiting" THEN NodeIn("NotRun") ELSE r.nodes[n]]]
      BY <1>2 DEF q, RefreshState
    <2>2. /\ q.state = "Failed"
          /\ \A n \in Node : q.nodes[n] = IF StateOf(r, n) = "Waiting" THEN NodeIn("NotRun") ELSE r.nodes[n]
      BY <2>1 DEF RunRecords
    <2>3. \A n \in Node : StateOf(q, n) = IF StateOf(r, n) = "Waiting" THEN "NotRun" ELSE StateOf(r, n)
      BY <2>2 DEF StateOf, NodeIn
    <2> QED BY <1>2, <2>2, <2>3 DEF q, Consistent, SomeNodeIn, EveryNodeIn, IsInFlight
  <1>3. CASE ~failed /\ \A n \in Node : IsCompleted(r, n)
    <2>1. q = [r EXCEPT !.state = "Completed"]
      BY <1>3 DEF q, RefreshState
    <2>2. q.state = "Completed" /\ q.nodes = r.nodes
      BY <2>1 DEF RunRecords
    <2> QED BY <1>3, <2>2 DEF q, Consistent, SomeNodeIn, EveryNodeIn, StateOf, IsCompleted
  <1>4. CASE ~failed /\ ~(\A n \in Node : IsCompleted(r, n))
    <2>1. q = r
      BY <1>4 DEF q, RefreshState
    <2> QED BY <1>4, <2>1 DEF q, Consistent, SomeNodeIn, EveryNodeIn, StateOf, IsCompleted
  <1> QED BY <1>1, <1>2, <1>3, <1>4

-------------------------------------------------------------------------------
(* How one step changes the nodes. *)

\* A completed node and its output are never touched again.
LEMMA CompletedKept ==
    ASSUME TypeOK, [Next]_vars, NEW m \in Node, IsCompleted(rec, m)
    PROVE  rec'.nodes[m] = rec.nodes[m] /\ outputs'[m] = outputs[m]
  <1> DEFINE kept == rec'.nodes[m] = rec.nodes[m] /\ outputs'[m] = outputs[m]
  <1> USE DEF TypeOK, IsCompleted, StateOf
  <1>1. ASSUME NEW n \in Node, NEW e \in Epoch, SendNode(n, e) PROVE kept
    BY <1>1 DEF SendNode, BeginSend, CanBeginSend, RunRecords
  <1>2. ASSUME NEW n \in Node, NEW e \in Epoch, NEW t \in Turn, AcceptTurn(n, e, t) PROVE kept
    BY <1>2 DEF AcceptTurn, Accept, CanAccept, RunRecords
  <1>3. ASSUME NEW n \in Node, NEW v \in Output, SaveOutput(n, v) PROVE kept
    BY <1>3 DEF SaveOutput
  <1>4. ASSUME NEW n \in Node, NEW e \in Epoch, NEW t \in Turn, CompleteNode(n, e, t) PROVE kept
    <2> DEFINE r == [rec EXCEPT !.nodes[n] = [state |-> "Completed", epoch |-> NoEpoch, turn |-> t]]
    <2>1. r \in RunRecords
      BY DEF RunRecords, NodeRun, NodeStates
    <2>2. rec' = RefreshState(r) /\ UNCHANGED outputs
      BY <1>4 DEF CompleteNode, Complete
    <2>3. m # n
      BY <1>4 DEF CompleteNode, CanComplete
    <2>4. r.nodes[m] = rec.nodes[m]
      BY <2>3 DEF RunRecords
    <2> QED BY <2>1, <2>2, <2>4, RefreshNodes
  <1>5. ASSUME NEW n \in Node, NEW e \in Epoch \cup {NoEpoch}, FailNode(n, e) PROVE kept
    <2> DEFINE r == [rec EXCEPT !.nodes[n] = NodeIn("Failed")]
    <2>1. r \in RunRecords
      BY NodeInType DEF RunRecords, NodeStates
    <2>2. rec' = RefreshState(r) /\ UNCHANGED outputs
      BY <1>5 DEF FailNode, Fail
    <2>3. m # n
      BY <1>5 DEF FailNode, CanFail, IsInFlight
    <2>4. r.nodes[m] = rec.nodes[m]
      BY <2>3 DEF RunRecords
    <2> QED BY <2>1, <2>2, <2>4, RefreshNodes
  <1>6. CASE StopRun
    BY <1>6 DEF StopRun, Stop, IsInFlight, RunRecords
  <1>7. CASE InterruptRun
    BY <1>7 DEF InterruptRun, Interrupt, IsInFlight, RunRecords
  <1>8. CASE ResumeRun
    BY <1>8 DEF ResumeRun, Resume, RunRecords
  <1>9. ASSUME NEW s \in Slot, NEW c \in Conversation, SaveConversation(s, c) PROVE kept
    BY <1>9 DEF SaveConversation, RecordConversation, RunRecords
  <1>10. CASE UNCHANGED vars
    BY <1>10 DEF vars
  <1> QED
    BY <1>1, <1>2, <1>3, <1>4, <1>5, <1>6, <1>7, <1>8, <1>9, <1>10 DEF Next

\* Only a ready node joins the ones in flight, and only one per step; a node
\* completes out of the ones in flight.
LEMMA InFlightStep ==
    ASSUME TypeOK, [Next]_vars
    PROVE  /\ \/ InFlight(rec') \subseteq InFlight(rec)
              \/ \E n \in Node : /\ IsReady(rec, n)
                                 /\ Cardinality(InFlight(rec)) < MaxParallel
                                 /\ InFlight(rec') = InFlight(rec) \cup {n}
           /\ \A m \in Node : IsCompleted(rec', m) => IsCompleted(rec, m) \/ IsInFlight(rec, m)
  <1> DEFINE joined == \E n \in Node : /\ IsReady(rec, n)
                                       /\ Cardinality(InFlight(rec)) < MaxParallel
                                       /\ InFlight(rec') = InFlight(rec) \cup {n}
             goal == /\ InFlight(rec') \subseteq InFlight(rec) \/ joined
                     /\ \A m \in Node : IsCompleted(rec', m) => IsCompleted(rec, m) \/ IsInFlight(rec, m)
  <1> USE DEF TypeOK
  <1>1. ASSUME NEW n \in Node, NEW e \in Epoch, SendNode(n, e) PROVE goal
    <2>1. /\ rec'.nodes = [rec.nodes EXCEPT ![n] = [state |-> "Sending", epoch |-> e, turn |-> NoTurn]]
          /\ StateOf(rec, n) = "Waiting"
      BY <1>1 DEF SendNode, BeginSend, CanBeginSend, RunRecords
    <2>2. \A m \in Node : StateOf(rec', m) = IF m = n THEN "Sending" ELSE StateOf(rec, m)
      BY <2>1 DEF StateOf, RunRecords
    <2>3. InFlight(rec') = InFlight(rec) \cup {n}
      BY <2>2 DEF InFlight, IsInFlight
    <2>4. joined
      BY <1>1, <2>3 DEF SendNode
    <2> QED BY <2>1, <2>2, <2>4 DEF IsCompleted
  <1>2. ASSUME NEW n \in Node, NEW e \in Epoch, NEW t \in Turn, AcceptTurn(n, e, t) PROVE goal
    <2>1. /\ rec'.nodes = [rec.nodes EXCEPT ![n] = [state |-> "Accepted", epoch |-> e, turn |-> t]]
          /\ StateOf(rec, n) = "Sending"
      BY <1>2 DEF AcceptTurn, Accept, CanAccept, RunRecords
    <2>2. \A m \in Node : StateOf(rec', m) = IF m = n THEN "Accepted" ELSE StateOf(rec, m)
      BY <2>1 DEF StateOf, RunRecords
    <2> QED BY <2>1, <2>2 DEF InFlight, IsInFlight, IsCompleted
  <1>3. ASSUME NEW n \in Node, NEW v \in Output, SaveOutput(n, v) PROVE goal
    BY <1>3 DEF SaveOutput
  <1>4. ASSUME NEW n \in Node, NEW e \in Epoch, NEW t \in Turn, CompleteNode(n, e, t) PROVE goal
    <2> DEFINE r == [rec EXCEPT !.nodes[n] = [state |-> "Completed", epoch |-> NoEpoch, turn |-> t]]
    <2>1. r \in RunRecords
      BY DEF RunRecords, NodeRun, NodeStates
    <2>2. rec' = RefreshState(r)
      BY <1>4 DEF CompleteNode, Complete
    <2>3. StateOf(rec, n) = "Accepted"
      BY <1>4 DEF CompleteNode, CanComplete, StateOf
    <2>4. \A m \in Node : StateOf(r, m) = IF m = n THEN "Completed" ELSE StateOf(rec, m)
      BY DEF StateOf, RunRecords
    <2> HIDE DEF r
    <2>5. \A m \in Node : StateOf(rec', m) \in {StateOf(r, m), "NotRun"}
      <3> TAKE m \in Node
      <3>1. rec'.nodes[m] = r.nodes[m] \/ rec'.nodes[m] = NodeIn("NotRun")
        BY <2>1, <2>2, RefreshNodes
      <3> QED BY <3>1 DEF StateOf, NodeIn
    <2> QED BY <2>3, <2>4, <2>5 DEF InFlight, IsInFlight, IsCompleted
  <1>5. ASSUME NEW n \in Node, NEW e \in Epoch \cup {NoEpoch}, FailNode(n, e) PROVE goal
    <2> DEFINE r == [rec EXCEPT !.nodes[n] = NodeIn("Failed")]
    <2>1. r \in RunRecords
      BY NodeInType DEF RunRecords, NodeStates
    <2>2. rec' = RefreshState(r)
      BY <1>5 DEF FailNode, Fail
    <2>3. \A m \in Node : StateOf(r, m) = IF m = n THEN "Failed" ELSE StateOf(rec, m)
      BY DEF StateOf, NodeIn, RunRecords
    <2> HIDE DEF r
    <2>4. \A m \in Node : StateOf(rec', m) \in {StateOf(r, m), "NotRun"}
      <3> TAKE m \in Node
      <3>1. rec'.nodes[m] = r.nodes[m] \/ rec'.nodes[m] = NodeIn("NotRun")
        BY <2>1, <2>2, RefreshNodes
      <3> QED BY <3>1 DEF StateOf, NodeIn
    <2> QED BY <2>3, <2>4 DEF InFlight, IsInFlight, IsCompleted
  <1>6. CASE StopRun
    <2>1. \A m \in Node : StateOf(rec', m) \in {StateOf(rec, m), "Stopped", "NotRun"}
      BY <1>6 DEF StopRun, Stop, StateOf, NodeIn, RunRecords
    <2> QED BY <2>1 DEF InFlight, IsInFlight, IsCompleted
  <1>7. CASE InterruptRun
    <2>1. \A m \in Node : StateOf(rec', m) \in {StateOf(rec, m), "Interrupted"}
      BY <1>7 DEF InterruptRun, Interrupt, StateOf, NodeIn, RunRecords
    <2> QED BY <2>1 DEF InFlight, IsInFlight, IsCompleted
  <1>8. CASE ResumeRun
    <2>1. \A m \in Node : StateOf(rec', m) \in {StateOf(rec, m), "Waiting"}
      BY <1>8 DEF ResumeRun, Resume, StateOf, NodeIn, RunRecords
    <2> QED BY <2>1 DEF InFlight, IsInFlight, IsCompleted
  <1>9. ASSUME NEW s \in Slot, NEW c \in Conversation, SaveConversation(s, c) PROVE goal
    <2>1. rec'.nodes = rec.nodes
      BY <1>9 DEF SaveConversation, RecordConversation, RunRecords
    <2> QED BY <2>1 DEF InFlight, IsInFlight, IsCompleted, StateOf
  <1>10. CASE UNCHANGED vars
    BY <1>10 DEF vars
  <1> QED
    BY <1>1, <1>2, <1>3, <1>4, <1>5, <1>6, <1>7, <1>8, <1>9, <1>10 DEF Next

\* Every operation leaves the run state and the nodes in agreement.
LEMMA ConsistentStep ==
    ASSUME TypeOK, Consistent(rec), [Next]_vars
    PROVE  Consistent(rec')
  <1> USE DEF TypeOK
  <1>1. ASSUME NEW n \in Node, NEW e \in Epoch, SendNode(n, e) PROVE Consistent(rec')
    <2>1. /\ rec'.nodes = [rec.nodes EXCEPT ![n] = [state |-> "Sending", epoch |-> e, turn |-> NoTurn]]
          /\ rec'.state = "Running" /\ rec.state = "Running"
      BY <1>1 DEF SendNode, BeginSend, CanBeginSend, RunRecords
    <2>2. \A m \in Node : StateOf(rec', m) = IF m = n THEN "Sending" ELSE StateOf(rec, m)
      BY <2>1 DEF StateOf, RunRecords
    <2> QED BY <2>1, <2>2 DEF Consistent, SomeNodeIn, EveryNodeIn
  <1>2. ASSUME NEW n \in Node, NEW e \in Epoch, NEW t \in Turn, AcceptTurn(n, e, t)
        PROVE Consistent(rec')
    <2>1. /\ rec'.nodes = [rec.nodes EXCEPT ![n] = [state |-> "Accepted", epoch |-> e, turn |-> t]]
          /\ rec'.state = rec.state /\ StateOf(rec, n) = "Sending"
      BY <1>2 DEF AcceptTurn, Accept, CanAccept, RunRecords
    <2>2. \A m \in Node : StateOf(rec', m) = IF m = n THEN "Accepted" ELSE StateOf(rec, m)
      BY <2>1 DEF StateOf, RunRecords
    <2> QED BY <2>1, <2>2 DEF Consistent, SomeNodeIn, EveryNodeIn
  <1>3. ASSUME NEW n \in Node, NEW v \in Output, SaveOutput(n, v) PROVE Consistent(rec')
    BY <1>3 DEF SaveOutput
  <1>4. ASSUME NEW n \in Node, NEW e \in Epoch, NEW t \in Turn, CompleteNode(n, e, t)
        PROVE Consistent(rec')
    <2> DEFINE r == [rec EXCEPT !.nodes[n] = [state |-> "Completed", epoch |-> NoEpoch, turn |-> t]]
    <2>1. r \in RunRecords
      BY DEF RunRecords, NodeRun, NodeStates
    <2>2. rec' = RefreshState(r)
      BY <1>4 DEF CompleteNode, Complete
    <2>3. StateOf(rec, n) = "Accepted"
      BY <1>4 DEF CompleteNode, CanComplete, StateOf
    <2>4. \A m \in Node : StateOf(r, m) = IF m = n THEN "Completed" ELSE StateOf(rec, m)
      BY DEF StateOf, RunRecords
    <2>5. r.state = rec.state
      BY DEF RunRecords
    <2> HIDE DEF r
    <2>6. rec.state \in {"Running", "Failing"}
      BY <2>3 DEF Consistent, EveryNodeIn, RunRecords, RunStates
    <2>7. /\ EveryNodeIn(r, {"Waiting", "Sending", "Accepted", "Completed", "Failed"})
          /\ r.state = "Failing" => SomeNodeIn(r, {"Failed"})
      BY <2>3, <2>4, <2>5, <2>6 DEF Consistent, EveryNodeIn, SomeNodeIn
    <2> QED BY <2>1, <2>2, <2>5, <2>6, <2>7, RefreshConsistent
  <1>5. ASSUME NEW n \in Node, NEW e \in Epoch \cup {NoEpoch}, FailNode(n, e)
        PROVE Consistent(rec')
    <2> DEFINE r == [rec EXCEPT !.nodes[n] = NodeIn("Failed")]
    <2>1. r \in RunRecords
      BY NodeInType DEF RunRecords, NodeStates
    <2>2. rec' = RefreshState(r) /\ rec.state \in {"Running", "Failing"}
      BY <1>5 DEF FailNode, Fail, CanFail, IsLive
    <2>3. \A m \in Node : StateOf(r, m) = IF m = n THEN "Failed" ELSE StateOf(rec, m)
      BY DEF StateOf, NodeIn, RunRecords
    <2>4. r.state = rec.state
      BY DEF RunRecords
    <2> HIDE DEF r
    <2>5. EveryNodeIn(r, {"Waiting", "Sending", "Accepted", "Completed", "Failed"})
      BY <2>2, <2>3 DEF Consistent, EveryNodeIn
    <2>6. SomeNodeIn(r, {"Failed"})
      BY <2>3 DEF SomeNodeIn
    <2> QED BY <2>1, <2>2, <2>4, <2>5, <2>6, RefreshConsistent
  <1>6. CASE StopRun
    <2>1. /\ rec'.state = "Stopped" /\ rec.state \in {"Running", "Failing"}
          /\ \A m \in Node : rec'.nodes[m] = IF IsInFlight(rec, m) THEN NodeIn("Stopped")
                                            ELSE IF StateOf(rec, m) = "Waiting" THEN NodeIn("NotRun")
                                            ELSE rec.nodes[m]
      BY <1>6 DEF StopRun, Stop, IsLive, RunRecords
    <2>2. \A m \in Node : StateOf(rec', m) = IF IsInFlight(rec, m) THEN "Stopped"
                                           ELSE IF StateOf(rec, m) = "Waiting" THEN "NotRun"
                                           ELSE StateOf(rec, m)
      BY <2>1 DEF StateOf, NodeIn
    <2> QED BY <2>1, <2>2 DEF Consistent, SomeNodeIn, EveryNodeIn, IsInFlight
  <1>7. CASE InterruptRun
    <2>1. /\ rec'.state = "Interrupted" /\ rec.state \in {"Running", "Failing"}
          /\ \A m \in Node : rec'.nodes[m] = IF IsInFlight(rec, m) THEN NodeIn("Interrupted")
                                            ELSE rec.nodes[m]
      BY <1>7 DEF InterruptRun, Interrupt, IsLive, RunRecords
    <2>2. \A m \in Node : StateOf(rec', m) = IF IsInFlight(rec, m) THEN "Interrupted"
                                           ELSE StateOf(rec, m)
      BY <2>1 DEF StateOf, NodeIn
    <2> QED BY <2>1, <2>2 DEF Consistent, SomeNodeIn, EveryNodeIn, IsInFlight
  <1>8. CASE ResumeRun
    <2>1. /\ rec'.state = "Running" /\ rec.state \in {"Failed", "Stopped", "Interrupted"}
          /\ \A m \in Node : rec'.nodes[m] = IF IsCompleted(rec, m) THEN rec.nodes[m]
                                            ELSE NodeIn("Waiting")
      BY <1>8 DEF ResumeRun, Resume, IsResumable, RunRecords
    <2>2. \A m \in Node : StateOf(rec', m) = IF IsCompleted(rec, m) THEN StateOf(rec, m)
                                           ELSE "Waiting"
      BY <2>1 DEF StateOf, NodeIn
    <2> QED BY <2>1, <2>2 DEF Consistent, SomeNodeIn, EveryNodeIn, IsCompleted
  <1>9. ASSUME NEW s \in Slot, NEW c \in Conversation, SaveConversation(s, c)
        PROVE Consistent(rec')
    <2>1. rec'.nodes = rec.nodes /\ rec'.state = rec.state
      BY <1>9 DEF SaveConversation, RecordConversation, RunRecords
    <2> QED BY <2>1 DEF Consistent, SomeNodeIn, EveryNodeIn, StateOf
  <1>10. CASE UNCHANGED vars
    BY <1>10 DEF vars
  <1> QED
    BY <1>1, <1>2, <1>3, <1>4, <1>5, <1>6, <1>7, <1>8, <1>9, <1>10 DEF Next

\* A node completes only with its output on disk.
LEMMA OutputSavedStep ==
    ASSUME TypeOK, OutputSaved, [Next]_vars
    PROVE  OutputSaved'
  <1> SUFFICES ASSUME NEW m \in Node, IsCompleted(rec', m) PROVE outputs'[m] # NoOutput
    BY DEF OutputSaved
  <1>1. CASE IsCompleted(rec, m)
    BY <1>1, CompletedKept DEF OutputSaved
  <1>2. CASE ~IsCompleted(rec, m)
    <2> USE DEF TypeOK
    <2>1. ASSUME NEW n \in Node, NEW e \in Epoch, SendNode(n, e) PROVE FALSE
      BY <1>2, <2>1 DEF SendNode, BeginSend, IsCompleted, StateOf, RunRecords
    <2>2. ASSUME NEW n \in Node, NEW e \in Epoch, NEW t \in Turn, AcceptTurn(n, e, t) PROVE FALSE
      BY <1>2, <2>2 DEF AcceptTurn, Accept, IsCompleted, StateOf, RunRecords
    <2>3. ASSUME NEW n \in Node, NEW v \in Output, SaveOutput(n, v) PROVE FALSE
      BY <1>2, <2>3 DEF SaveOutput
    <2>4. ASSUME NEW n \in Node, NEW e \in Epoch, NEW t \in Turn, CompleteNode(n, e, t)
          PROVE outputs'[m] # NoOutput
      <3> DEFINE r == [rec EXCEPT !.nodes[n] = [state |-> "Completed", epoch |-> NoEpoch, turn |-> t]]
      <3>1. r \in RunRecords
        BY DEF RunRecords, NodeRun, NodeStates
      <3>2. rec' = RefreshState(r) /\ UNCHANGED outputs /\ outputs[n] # NoOutput
        BY <2>4 DEF CompleteNode, Complete
      <3>3. m # n => r.nodes[m] = rec.nodes[m]
        BY DEF RunRecords
      <3> HIDE DEF r
      <3>4. m # n => FALSE
        BY <1>2, <3>1, <3>2, <3>3, RefreshNodes DEF IsCompleted, StateOf, NodeIn
      <3> QED BY <3>2, <3>4
    <2>5. ASSUME NEW n \in Node, NEW e \in Epoch \cup {NoEpoch}, FailNode(n, e) PROVE FALSE
      <3> DEFINE r == [rec EXCEPT !.nodes[n] = NodeIn("Failed")]
      <3>1. r \in RunRecords
        BY NodeInType DEF RunRecords, NodeStates
      <3>2. rec' = RefreshState(r)
        BY <2>5 DEF FailNode, Fail
      <3>3. r.nodes[m] = rec.nodes[m] \/ r.nodes[m] = NodeIn("Failed")
        BY DEF RunRecords
      <3> HIDE DEF r
      <3> QED BY <1>2, <3>1, <3>2, <3>3, RefreshNodes DEF IsCompleted, StateOf, NodeIn
    <2>6. CASE StopRun
      BY <1>2, <2>6 DEF StopRun, Stop, IsCompleted, StateOf, NodeIn, RunRecords
    <2>7. CASE InterruptRun
      BY <1>2, <2>7 DEF InterruptRun, Interrupt, IsCompleted, StateOf, NodeIn, RunRecords
    <2>8. CASE ResumeRun
      BY <1>2, <2>8 DEF ResumeRun, Resume, IsCompleted, StateOf, NodeIn, RunRecords
    <2>9. ASSUME NEW s \in Slot, NEW c \in Conversation, SaveConversation(s, c) PROVE FALSE
      BY <1>2, <2>9 DEF SaveConversation, RecordConversation, IsCompleted, StateOf, RunRecords
    <2>10. CASE UNCHANGED vars
      BY <1>2, <2>10 DEF vars
    <2> QED
      BY <2>1, <2>2, <2>3, <2>4, <2>5, <2>6, <2>7, <2>8, <2>9, <2>10 DEF Next
  <1> QED BY <1>1, <1>2

-------------------------------------------------------------------------------
(* The inductive invariant: each named property, none of which depends on    *)
(* another except on the type of the record.                                 *)

Inv ==
    /\ TypeOK
    /\ AncestorsCompleted
    /\ ParallelBound
    /\ StateMatchesNodes
    /\ OutputSaved

\* A new run satisfies the inductive invariant: nothing has been sent.
LEMMA InitInv == Init => Inv
  <1> SUFFICES ASSUME Init PROVE Inv
    OBVIOUS
  <1>1. TypeOK
    BY InitType
  <1>2. rec.state = "Running" /\ \A n \in Node : StateOf(rec, n) = "Waiting"
    BY DEF Init, NewRecord, NodeIn, StateOf
  <1>3. InFlight(rec) = {}
    BY <1>2 DEF InFlight, IsInFlight
  <1>4. ParallelBound
    BY <1>3, FS_EmptySet, MaxParallelPositive DEF ParallelBound
  <1>5. AncestorsCompleted /\ OutputSaved
    BY <1>2 DEF AncestorsCompleted, OutputSaved, IsInFlight, IsCompleted
  <1>6. StateMatchesNodes
    BY <1>2, NodesFinite DEF StateMatchesNodes, Consistent, EveryNodeIn, SomeNodeIn
  <1> QED BY <1>1, <1>4, <1>5, <1>6 DEF Inv

\* Every step keeps the inductive invariant, conjunct by conjunct.
LEMMA NextInv == Inv /\ [Next]_vars => Inv'
  <1> SUFFICES ASSUME Inv, [Next]_vars PROVE Inv'
    OBVIOUS
  <1>0. TypeOK /\ TypeOK'
    BY NextType DEF Inv
  <1>1. AncestorsCompleted'
    <2> SUFFICES ASSUME NEW n \in Node, IsInFlight(rec', n) \/ IsCompleted(rec', n),
                        NEW d \in Ancestors[n]
                 PROVE  IsCompleted(rec', d)
      BY DEF AncestorsCompleted
    <2>1. d \in Node
      BY GraphTyped
    <2>2. IsInFlight(rec, n) \/ IsCompleted(rec, n) \/ IsReady(rec, n)
      BY <1>0, InFlightStep DEF InFlight
    <2>3. CASE IsInFlight(rec, n) \/ IsCompleted(rec, n)
      <3>1. IsCompleted(rec, d)
        BY <2>3 DEF Inv, AncestorsCompleted
      <3> QED BY <1>0, <2>1, <3>1, CompletedKept DEF IsCompleted, StateOf
    <2>4. CASE IsReady(rec, n)
      <3>1. \A m \in Needs[n] : m \in Node /\ IsCompleted(rec, m)
        BY <2>4, GraphTyped DEF IsReady
      <3>2. d \in Needs[n] \/ \E m \in Needs[n] : d \in Ancestors[m]
        BY AncestorsClosed
      <3>3. IsCompleted(rec, d)
        BY <3>1, <3>2 DEF Inv, AncestorsCompleted
      <3> QED BY <1>0, <2>1, <3>3, CompletedKept DEF IsCompleted, StateOf
    <2> QED BY <2>2, <2>3, <2>4
  <1>2. ParallelBound'
    <2>0. IsFiniteSet(InFlight(rec)) /\ Cardinality(InFlight(rec)) \in Nat /\ MaxParallel \in Nat
      BY NodesFinite, FS_Subset, FS_CardinalityType, MaxParallelPositive DEF InFlight
    <2>1. CASE InFlight(rec') \subseteq InFlight(rec)
      <3>1. Cardinality(InFlight(rec')) \in Nat /\ Cardinality(InFlight(rec')) <= Cardinality(InFlight(rec))
        BY <2>0, <2>1, FS_Subset, FS_CardinalityType
      <3> QED BY <2>0, <3>1 DEF Inv, ParallelBound
    <2>2. ASSUME NEW n \in Node, Cardinality(InFlight(rec)) < MaxParallel,
                 InFlight(rec') = InFlight(rec) \cup {n}
          PROVE  ParallelBound'
      <3>1. /\ IsFiniteSet(InFlight(rec) \cup {n})
            /\ \/ Cardinality(InFlight(rec) \cup {n}) = Cardinality(InFlight(rec))
               \/ Cardinality(InFlight(rec) \cup {n}) = Cardinality(InFlight(rec)) + 1
        BY <2>0, FS_AddElement
      <3>2. Cardinality(InFlight(rec) \cup {n}) <= MaxParallel
        BY <2>0, <2>2, <3>1
      <3> QED BY <2>2, <3>2 DEF ParallelBound
    <2> QED BY <1>0, <2>1, <2>2, InFlightStep
  <1>3. StateMatchesNodes'
    BY <1>0, ConsistentStep DEF Inv, StateMatchesNodes
  <1>4. OutputSaved'
    BY <1>0, OutputSavedStep DEF Inv
  <1> QED BY <1>0, <1>1, <1>2, <1>3, <1>4 DEF Inv

\* The inductive invariant holds throughout every run.
LEMMA InvHolds == Spec => []Inv
  BY InitInv, NextInv, PTL DEF Spec

\* Whatever fails, is stopped or resumed, no node runs on top of work that is
\* not completed: AncestorsCompleted, for every graph Graph::new accepts.
THEOREM DependenciesRespected == Spec => []AncestorsCompleted
  <1>1. Inv => AncestorsCompleted
    BY DEF Inv
  <1> QED BY <1>1, InvHolds, PTL

\* Two nodes of one conversation are never in flight together.  The record
\* guards nothing of the kind: it follows from the ancestor order Graph::new
\* demands of a slot's nodes.
THEOREM OneNodePerConversation == Spec => []SlotExclusive
  <1>1. Inv => SlotExclusive
    <2> SUFFICES ASSUME Inv, NEW m \in InFlight(rec), NEW n \in InFlight(rec),
                        SlotOf[m] = SlotOf[n], m # n
                 PROVE  FALSE
      BY DEF SlotExclusive
    <2>1. m \in Node /\ n \in Node
      BY DEF InFlight
    <2>2. m \in Ancestors[n] \/ n \in Ancestors[m]
      BY <2>1, SlotOrdered
    <2>3. IsCompleted(rec, m) \/ IsCompleted(rec, n)
      BY <2>1, <2>2 DEF Inv, AncestorsCompleted, InFlight
    <2> QED BY <2>3 DEF InFlight, IsInFlight, IsCompleted
  <1> QED BY <1>1, InvHolds, PTL

\* At most max_parallel nodes are in flight.
THEOREM ParallelLimitKept == Spec => []ParallelBound
  <1>1. Inv => ParallelBound
    BY DEF Inv
  <1> QED BY <1>1, InvHolds, PTL

\* The run state always agrees with its nodes; in particular a run with no
\* work left is completed, and one that is over has nothing in flight.
THEOREM RunStateTruthful == Spec => []StateMatchesNodes
  <1>1. Inv => StateMatchesNodes
    BY DEF Inv
  <1> QED BY <1>1, InvHolds, PTL

\* Every completed node has its output on disk.
THEOREM CompletedHasOutput == Spec => []OutputSaved
  <1>1. Inv => OutputSaved
    BY DEF Inv
  <1> QED BY <1>1, InvHolds, PTL

\* No step of any kind changes a completed node or its output.
THEOREM CompletionKept == Spec => CompletedIsFinal
  <1>1. TypeOK /\ [Next]_vars =>
          [\A n \in Node : IsCompleted(rec, n) =>
              rec'.nodes[n] = rec.nodes[n] /\ outputs'[n] = outputs[n]]_vars
    BY CompletedKept
  <1> QED BY <1>1, TypeCorrect, PTL DEF Spec, CompletedIsFinal

\* While a node is failed no node begins: the run is then Failing or over, and
\* begin_send only acts on a Running one.
THEOREM FailureStopsSending == Spec => NoStartAfterFailure
  <1> DEFINE A == (\E n \in Node : StateOf(rec, n) = "Failed") =>
                   \A m \in Node : StateOf(rec', m) = "Sending" => StateOf(rec, m) = "Sending"
  <1>1. ASSUME Inv, [Next]_vars PROVE A
    <2> SUFFICES ASSUME NEW n \in Node, StateOf(rec, n) = "Failed",
                        NEW m \in Node, StateOf(rec', m) = "Sending", StateOf(rec, m) # "Sending"
                 PROVE  FALSE
      OBVIOUS
    <2>a. Consistent(rec) /\ rec \in RunRecords
      BY <1>1 DEF Inv, TypeOK, StateMatchesNodes
    <2>0. rec.state # "Running"
      BY <2>a DEF Consistent, EveryNodeIn
    <2> USE <2>a
    <2>1. ASSUME NEW k \in Node, NEW e \in Epoch, SendNode(k, e) PROVE FALSE
      BY <2>0, <2>1 DEF SendNode, CanBeginSend
    <2>2. ASSUME NEW k \in Node, NEW e \in Epoch, NEW t \in Turn, AcceptTurn(k, e, t) PROVE FALSE
      BY <2>2 DEF AcceptTurn, Accept, StateOf, RunRecords
    <2>3. ASSUME NEW k \in Node, NEW v \in Output, SaveOutput(k, v) PROVE FALSE
      BY <2>3 DEF SaveOutput
    <2>4. ASSUME NEW k \in Node, NEW e \in Epoch, NEW t \in Turn, CompleteNode(k, e, t) PROVE FALSE
      <3> DEFINE r == [rec EXCEPT !.nodes[k] = [state |-> "Completed", epoch |-> NoEpoch, turn |-> t]]
      <3>1. r \in RunRecords /\ StateOf(r, m) \in {StateOf(rec, m), "Completed"}
        BY DEF RunRecords, NodeRun, NodeStates, StateOf
      <3>2. rec' = RefreshState(r)
        BY <2>4 DEF CompleteNode, Complete
      <3> HIDE DEF r
      <3> QED BY <3>1, <3>2, RefreshNodes DEF StateOf, NodeIn
    <2>5. ASSUME NEW k \in Node, NEW e \in Epoch \cup {NoEpoch}, FailNode(k, e) PROVE FALSE
      <3> DEFINE r == [rec EXCEPT !.nodes[k] = NodeIn("Failed")]
      <3>1. r \in RunRecords /\ StateOf(r, m) \in {StateOf(rec, m), "Failed"}
        BY NodeInType DEF RunRecords, NodeStates, StateOf, NodeIn
      <3>2. rec' = RefreshState(r)
        BY <2>5 DEF FailNode, Fail
      <3> HIDE DEF r
      <3> QED BY <3>1, <3>2, RefreshNodes DEF StateOf, NodeIn
    <2>6. CASE StopRun
      BY <2>6 DEF StopRun, Stop, StateOf, NodeIn, RunRecords
    <2>7. CASE InterruptRun
      BY <2>7 DEF InterruptRun, Interrupt, StateOf, NodeIn, RunRecords
    <2>8. CASE ResumeRun
      BY <2>8 DEF ResumeRun, Resume, StateOf, NodeIn, RunRecords
    <2>9. ASSUME NEW s \in Slot, NEW c \in Conversation, SaveConversation(s, c) PROVE FALSE
      BY <2>9 DEF SaveConversation, RecordConversation, StateOf, RunRecords
    <2>10. CASE UNCHANGED vars
      BY <2>10 DEF vars
    <2> QED
      BY <1>1, <2>1, <2>2, <2>3, <2>4, <2>5, <2>6, <2>7, <2>8, <2>9, <2>10 DEF Next
  <1>2. Inv /\ [Next]_vars => [A]_vars
    BY <1>1
  <1> QED BY <1>2, InvHolds, PTL DEF Spec, NoStartAfterFailure

===============================================================================
