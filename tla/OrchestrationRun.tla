---------------------------- MODULE OrchestrationRun ----------------------------
(***************************************************************************)
(* What an orchestration run promises, whatever the order in which its     *)
(* sessions, its store and its user act: the abstract specification of the *)
(* saved record and the output files.  Each action is one committed change *)
(* of the record; its guard is the record operation's own, plus what the   *)
(* caller owes it (the scheduler only sends ready nodes within the limit,  *)
(* the output is saved before the completion).  OrchestrationRuntime, the  *)
(* program with its queue, crashes and failing writes, implements it.      *)
(***************************************************************************)
EXTENDS RunRecord

CONSTANTS Output,     \* what an output file can hold
          NoOutput    \* there is no output file yet

ASSUME NoOutputIsNone == NoOutput \notin Output

VARIABLES rec,        \* the durable RunRecord
          outputs     \* outputs[n]: the output file of n

vars == <<rec, outputs>>

Init ==
    /\ rec = NewRecord
    /\ outputs = [n \in Node |-> NoOutput]

-------------------------------------------------------------------------------
(* Alternatives a faulty runtime or record could take, for the mutants. *)

SendAnyWaiting(n, e) ==
    /\ CanBeginSend(rec, n) /\ Cardinality(InFlight(rec)) < MaxParallel
    /\ rec' = BeginSend(rec, n, e)
    /\ UNCHANGED outputs

SendOverLimit(n, e) ==
    /\ CanBeginSend(rec, n) /\ IsReady(rec, n)
    /\ rec' = BeginSend(rec, n, e)
    /\ UNCHANGED outputs

StopKeepingWaiting ==
    /\ IsLive(rec)
    /\ rec' = [rec EXCEPT !.state = "Stopped"]
    /\ UNCHANGED outputs

-------------------------------------------------------------------------------
(* The actions. *)

\* pump and send: a ready node, while fewer than MaxParallel are running.
SendNode(n, e) ==
    /\ CanBeginSend(rec, n)
    /\ IsReady(rec, n)
    /\ Cardinality(InFlight(rec)) < MaxParallel
    /\ rec' = BeginSend(rec, n, e)
    /\ UNCHANGED outputs

\* on_execution, Accepted.
AcceptTurn(n, e, t) ==
    /\ CanAccept(rec, n, e)
    /\ rec' = Accept(rec, n, e, t)
    /\ UNCHANGED outputs

\* on_execution, Finished: the output file is written first.  The file of a
\* node that is not completed belongs to no completion and may be replaced.
SaveOutput(n, v) ==
    /\ ~IsCompleted(rec, n)
    /\ outputs' = [outputs EXCEPT ![n] = v]
    /\ UNCHANGED rec

CompleteNode(n, e, t) ==
    /\ CanComplete(rec, n, e, t)
    /\ outputs[n] # NoOutput
    /\ rec' = Complete(rec, n, e, t)
    /\ UNCHANGED outputs

\* A running node fails under its own epoch; one that never ran only when it
\* is the next its slot would run.
FailNode(n, e) ==
    /\ CanFail(rec, n, e)
    /\ e = NoEpoch => IsReady(rec, n)
    /\ rec' = Fail(rec, n, e)
    /\ UNCHANGED outputs

StopRun ==
    /\ IsLive(rec)
    /\ rec' = Stop(rec)
    /\ UNCHANGED outputs

InterruptRun ==
    /\ IsLive(rec)
    /\ rec' = Interrupt(rec)
    /\ UNCHANGED outputs

ResumeRun ==
    /\ IsResumable(rec)
    /\ rec' = Resume(rec)
    /\ UNCHANGED outputs

SaveConversation(s, c) ==
    /\ rec.slots[s].conversation # c
    /\ rec' = RecordConversation(rec, s, c)
    /\ UNCHANGED outputs

Next ==
    \/ \E n \in Node, e \in Epoch : SendNode(n, e)
    \/ \E n \in Node, e \in Epoch, t \in Turn : AcceptTurn(n, e, t)
    \/ \E n \in Node, v \in Output : SaveOutput(n, v)
    \/ \E n \in Node, e \in Epoch, t \in Turn : CompleteNode(n, e, t)
    \/ \E n \in Node, e \in Epoch \cup {NoEpoch} : FailNode(n, e)
    \/ StopRun
    \/ InterruptRun
    \/ ResumeRun
    \/ \E s \in Slot, c \in Conversation : SaveConversation(s, c)

Spec == Init /\ [][Next]_vars

-------------------------------------------------------------------------------
(* Properties. *)

\* The record keeps the shape RunRecord is serialized in.
TypeOK ==
    /\ rec \in RunRecords
    /\ outputs \in [Node -> Output \cup {NoOutput}]

\* begin_send looks at no dependency, yet a node is in flight or completed only
\* while everything it depends on, at any distance, is completed: across
\* failures, stops and resumes nothing is sent on top of unfinished work.
AncestorsCompleted ==
    \A n \in Node : (IsInFlight(rec, n) \/ IsCompleted(rec, n)) =>
        \A d \in Ancestors[n] : IsCompleted(rec, d)

\* max_parallel of the definition bounds the nodes in flight, although each
\* is sent by an operation of its own after the look that counted them.
ParallelBound == Cardinality(InFlight(rec)) <= MaxParallel

\* A slot is one conversation: two of its nodes are never in flight together.
SlotExclusive ==
    \A m, n \in InFlight(rec) : SlotOf[m] = SlotOf[n] => m = n

SomeNodeIn(r, S) == \E n \in Node : StateOf(r, n) \in S

EveryNodeIn(r, S) == \A n \in Node : StateOf(r, n) \in S

Consistent(r) ==
    /\ r.state = "Running" => EveryNodeIn(r, {"Waiting", "Sending", "Accepted", "Completed"})
    /\ r.state = "Failing" =>
           /\ SomeNodeIn(r, {"Failed"})
           /\ SomeNodeIn(r, {"Sending", "Accepted"})
           /\ EveryNodeIn(r, {"Waiting", "Sending", "Accepted", "Completed", "Failed"})
    /\ r.state = "Completed" <=> EveryNodeIn(r, {"Completed"})
    /\ r.state = "Failed" =>
           /\ SomeNodeIn(r, {"Failed"})
           /\ EveryNodeIn(r, {"Completed", "Failed", "NotRun"})
    /\ r.state = "Stopped" => EveryNodeIn(r, {"Completed", "Failed", "Stopped", "NotRun"})
    /\ r.state = "Interrupted" => EveryNodeIn(r, {"Waiting", "Completed", "Failed", "Interrupted"})

\* The run state the user sees agrees with the nodes.  A run that is over has
\* nothing in flight, a failing one still waits for something, and a run with
\* no work left is completed, or it would wait for ever.
StateMatchesNodes == Consistent(rec)

\* complete() follows save_output: a completed node always has an output file
\* for its dependents to read.
OutputSaved == \A n \in Node : IsCompleted(rec, n) => outputs[n] # NoOutput

\* "Completed nodes and their outputs are kept and never sent again"
\* (run.rs:344): no step touches either once the node is completed.
CompletedIsFinal ==
    [][\A n \in Node : IsCompleted(rec, n) =>
           rec'.nodes[n] = rec.nodes[n] /\ outputs'[n] = outputs[n]]_vars

\* "A node failed while others were still running. No node starts" (run.rs:57):
\* while any node is failed, none begins, until the run is resumed.
NoStartAfterFailure ==
    [][(\E n \in Node : StateOf(rec, n) = "Failed") =>
           \A m \in Node : StateOf(rec', m) = "Sending" => StateOf(rec, m) = "Sending"]_vars

===============================================================================
