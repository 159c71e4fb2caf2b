-------------------------- MODULE OrchestrationRuntime --------------------------
(***************************************************************************)
(* The program that drives an orchestration run: OrchestrationRuntime of   *)
(* crates/app/src/agent_tab/orchestration/mod.rs with its SlotHosts        *)
(* (slot.rs), the RunStore it saves to (crates/agent/src/orchestration/    *)
(* store.rs over snapshot_store.rs), and, as far as it can tell, the agent *)
(* sessions behind the slots.                                              *)
(*                                                                         *)
(* One main thread runs every handler.  Changes of the store are queued    *)
(* (`pending`) and done one at a time by a background task that owns the   *)
(* store meanwhile (`busy`): its writes interleave with session events and *)
(* clicks, and a crash can fall between any two of them.  start_next is    *)
(* called at the end of every handler that may have made an operation      *)
(* startable; Settled makes it run before the main thread takes anything   *)
(* else.                                                                   *)
(***************************************************************************)
EXTENDS RunRecord, Sequences

CONSTANTS Reads,        \* Reads[n]: the nodes whose output the text of n contains
          Worlds,       \* what may happen to a run: Init picks one of them
          Attempt,      \* the turns started for one node, counted from 1
          NoNode        \* Option::None for a node

FaultKinds == {"crash", "exit", "write", "reject", "mismatch", "update", "profile", "unnamed",
               "refused"}

\* A world says which slots run Claude (whose identity arrives with the first
\* turn), which kinds of fault may happen and how many in all, and how often
\* the user stops and resumes.
ASSUME WorldsTyped == Worlds \subseteq [claude : SUBSET Slot, kinds : SUBSET FaultKinds,
                                        faults : Nat, stops : Nat, resumes : Nat]
\* DefinitionError::NotAncestor otherwise.
ASSUME ReadsAncestors == Reads \in [Node -> SUBSET Node] /\ \A n \in Node : Reads[n] \subseteq Ancestors[n]
ASSUME NoNodeIsNone == NoNode \notin Node
ASSUME SlotsFinite == IsFiniteSet(Slot)
ASSUME AttemptsPositive == Attempt \subseteq Nat \ {0}
\* made[s] + 1 names a conversation, so it is never None.
ASSUME ConversationsNumbered == NoConversation \notin Nat \ {0}

VARIABLES
    (* RunStore *)
    disk,         \* the snapshot file
    value,        \* SnapshotStore::value, its memory copy
    latched,      \* SnapshotStore::failed
    outputs,      \* outputs[n]: the attempt whose output the file of n holds, 0 for none
    transcripts,  \* transcripts[n]: likewise for the transcript file
    (* OrchestrationRuntime *)
    open,         \* a runtime is loaded
    run,          \* the copy of the record last installed
    pending,      \* operations waiting for the store
    busy,         \* the operation that holds the store
    scheduled,    \* a pump is queued or saving
    again,        \* refresh_again
    error,        \* some operation reported an error since the run was opened
    host,         \* host[s]: the SlotHost of slot s and its session
    (* history, and the bounds *)
    attempt,      \* attempt[n]: how many turns were started for n
    inTurn,       \* inTurn[n]: the current send of n did start a turn
    briefed,      \* briefed[s]: the conversations of s whose first prompt had the role
    made,         \* made[s]: how many conversations were begun for s
    left          \* the world, with the faults, stops and resumes still to come

store == <<disk, value, latched, outputs, transcripts>>
queue == <<pending, scheduled, again>>
history == <<attempt, inTurn, briefed, made>>
vars == <<store, open, run, queue, busy, error, host, history, left>>

-------------------------------------------------------------------------------
(* Shapes. *)

NoHost ==
    [status |-> "none", epoch |-> NoEpoch, turns |-> 0, begun |-> 0,
     conv |-> NoConversation, known |-> FALSE, resumed |-> NoConversation,
     live |-> NoNode, liveEpoch |-> NoEpoch]

\* A prompt was sent whose turn the provider has neither begun nor given up: the
\* status still says idle.  Claude's session alone counts it as active work.
Outstanding(s) == host[s].begun < host[s].turns

Occupied(s) == s \in left.claude /\ Outstanding(s)

\* host.live = None.
Released(h) == [h EXCEPT !.live = NoNode, !.liveEpoch = NoEpoch]

Idle == [op |-> [op |-> "none"], todo |-> <<>>, ok |-> TRUE, began |-> FALSE]

PumpOp == [op |-> "pump"]

\* The walks over some of the nodes, in the order of Graph::order (one list, as
\* no two nodes share a position), and over some of the slots, whose indices
\* nothing here tells apart.
ListedNodes(S) ==
    {q \in [1..Cardinality(S) -> S] :
        \A i, j \in 1..Cardinality(S) : i < j => Position[q[i]] < Position[q[j]]}

ListedSlots(S) ==
    {q \in [1..Cardinality(S) -> S] : \A i, j \in 1..Cardinality(S) : i < j => q[i] # q[j]}

\* The main thread runs start_next before it takes another event.
Settled == open /\ (busy # Idle \/ pending = <<>>)

Fault(kind) ==
    /\ kind \in left.kinds /\ left.faults > 0
    /\ left' = [left EXCEPT !.faults = @ - 1]

-------------------------------------------------------------------------------
(* The store's side of an operation: what is written, in which order. *)

Commit(do) == [write |-> "commit", do |-> do]
WriteTranscript(n, a) == [write |-> "transcript", node |-> n, attempt |-> a]
WriteOutput(n, a) == [write |-> "output", node |-> n, attempt |-> a]
WritePrompt == [write |-> "prompt"]

\* send reads the outputs the text needs, which RunStore::output only shows for
\* a completed node; compose gives up when one is missing.
CanCompose(n) == \A d \in Reads[n] : IsCompleted(value, d) /\ outputs[d] # 0

\* Mutant of Work: the completion is recorded before the files are written.
WorkCommitsFirst(o) ==
    IF o.op = "finish"
    THEN <<Commit(o), WriteTranscript(o.node, o.attempt), WriteOutput(o.node, o.attempt)>>
    ELSE <<Commit(o)>>

Work(o) ==
    CASE o.op = "send"   -> IF CanCompose(o.node) THEN <<WritePrompt, Commit(o)>> ELSE <<>>
      [] o.op = "finish" -> IF o.ok
                            THEN <<WriteTranscript(o.node, o.attempt), WriteOutput(o.node, o.attempt), Commit(o)>>
                            ELSE <<WriteTranscript(o.node, o.attempt), Commit(o)>>
      [] o.op = "stop"   -> [i \in DOMAIN o.captured |->
                                WriteTranscript(o.captured[i].node, o.captured[i].attempt)] \o <<Commit(o)>>
      [] OTHER           -> <<Commit(o)>>

\* The change each operation makes to the record.
Changed(r, o) ==
    CASE o.op = "send"         -> BeginSend(r, o.node, o.epoch)
      [] o.op = "accept"       -> Accept(r, o.node, o.epoch, o.turn)
      [] o.op = "finish"       -> IF o.ok THEN Complete(r, o.node, o.epoch, o.turn)
                                          ELSE Fail(r, o.node, o.epoch)
      [] o.op = "fail"         -> Fail(r, o.node, o.epoch)
      [] o.op = "stop"         -> Stop(r)
      [] o.op = "resume"       -> Resume(r)
      [] o.op = "conversation" -> RecordConversation(r, o.slot, o.conv)

-------------------------------------------------------------------------------
(* Queueing. *)

\* queue(): behind the changes already waiting.
Enqueue(o) ==
    /\ pending' = Append(pending, o)
    /\ UNCHANGED <<scheduled, again>>

\* Mutant of ScheduleAfter: what changes while a pump is out asks for no other.
ScheduleForgetting(ops) ==
    /\ pending' = pending \o ops \o (IF scheduled THEN <<>> ELSE <<PumpOp>>)
    /\ scheduled' = TRUE
    /\ UNCHANGED again

\* schedule(), after the operations `ops` were queued: one pump at a time, and
\* one more look when something changes while it is queued or saving.
ScheduleAfter(ops) ==
    /\ pending' = pending \o ops \o (IF scheduled THEN <<>> ELSE <<PumpOp>>)
    /\ scheduled' = TRUE
    /\ again' = (again \/ scheduled)

-------------------------------------------------------------------------------
(* What a look at the slots finds: SlotHost::observe. *)

Reported(s) == IF host[s].known THEN host[s].conv ELSE NoConversation

\* The session was started to resume one conversation and reports another.
Mismatched(s) ==
    /\ host[s].resumed # NoConversation /\ Reported(s) # NoConversation
    /\ Reported(s) # host[s].resumed

CannotRun(s) == Mismatched(s) \/ host[s].status = "exited"

SlotReady(s) ==
    host[s].status = "idle" /\ host[s].live = NoNode /\ ~Occupied(s) /\ ~CannotRun(s)

\* Mutant of NewConversation: a reported conversation is not saved.
NeverNewConversation(s) == FALSE

NewConversation(s) ==
    /\ ~Mismatched(s) /\ Reported(s) # NoConversation
    /\ Reported(s) # run.slots[s].conversation

ExitedUnder(s) == host[s].status = "exited" /\ host[s].live # NoNode

-------------------------------------------------------------------------------
(* The end of a pump, `after`: start slots, queue sends, look again if asked. *)

StartedHost(s, r) ==
    LET saved == r.slots[s].conversation
    IN  [NoHost EXCEPT !.status = "starting", !.epoch = 1, !.resumed = saved,
                       !.conv = IF saved = NoConversation THEN made[s] + 1 ELSE saved]

\* The epoch and the `opened` flag are read when the send is queued.
SendOp(n, r) ==
    [op |-> "send", node |-> n, epoch |-> host[SlotOf[n]].epoch,
     opened |-> r.slots[SlotOf[n]].opened]

After(q, h, r, starts, sends) ==
    /\ host' = [s \in Slot |-> IF s \in starts THEN StartedHost(s, r) ELSE h[s]]
    /\ made' = [s \in Slot |->
           IF s \in starts /\ r.slots[s].conversation = NoConversation THEN made[s] + 1 ELSE made[s]]
    /\ \E list \in ListedNodes({n \in sends : h[SlotOf[n]].status # "none"}) :
          pending' = q \o [i \in DOMAIN list |-> SendOp(list[i], r)]
                       \o (IF again THEN <<PumpOp>> ELSE <<>>)
    /\ scheduled' = again
    /\ again' = FALSE

-------------------------------------------------------------------------------
(* start_next. *)

\* What a look saves: the conversations it learned, then the nodes that went
\* with their sessions, then those whose slots cannot run them.
Saves(convs) ==
    [i \in DOMAIN convs |->
        Commit([op |-> "conversation", slot |-> convs[i], conv |-> Reported(convs[i])])]

ExitFails(exits) ==
    [i \in DOMAIN exits |->
        Commit([op |-> "fail", node |-> host[exits[i]].live, epoch |-> host[exits[i]].liveEpoch])]

NextFails(fails) ==
    [i \in DOMAIN fails |-> Commit([op |-> "fail", node |-> fails[i], epoch |-> NoEpoch])]

\* pump(): look at every slot, then save what was found or go straight on.
Pump ==
    /\ open /\ busy = Idle /\ pending # <<>> /\ Head(pending) = PumpOp
    /\ LET ready   == {s \in Slot : SlotReady(s)}
           sends   == DispatchSend(run, ready)
           prepare == DispatchPrepare(run, ready)
           absent  == {s \in prepare : host[s].status = "none"}
           failing(missing) ==
             {n \in Node : /\ SlotOf[n] \in missing \cup {s \in prepare \ absent : CannotRun(s)}
                           /\ IsNextNode(run, SlotOf[n], n)}
           cleared == [s \in Slot |-> IF ExitedUnder(s) THEN Released(host[s]) ELSE host[s]]
           look(missing) ==
             \E convs \in ListedSlots({s \in Slot : NewConversation(s)}),
                exits \in ListedSlots({s \in Slot : ExitedUnder(s)}),
                fails \in ListedNodes(failing(missing)) :
                LET commits == Saves(convs) \o ExitFails(exits) \o NextFails(fails)
                    starts  == absent \ missing
                IN  IF commits = <<>>
                    THEN After(Tail(pending), cleared, run, starts, sends) /\ UNCHANGED busy
                    ELSE /\ busy' = [op |-> [op |-> "pump", starts |-> starts, sends |-> sends],
                                     todo |-> commits, ok |-> TRUE, began |-> FALSE]
                         /\ host' = cleared
                         /\ pending' = Tail(pending)
                         /\ UNCHANGED <<scheduled, again, made>>
       IN  \/ look({}) /\ UNCHANGED left
           \/ \E missing \in (SUBSET absent) \ {{}} : Fault("profile") /\ look(missing)
    /\ UNCHANGED <<store, open, run, error, attempt, inTurn, briefed>>

StartOperation ==
    /\ open /\ busy = Idle /\ pending # <<>> /\ Head(pending) # PumpOp
    /\ busy' = [op |-> Head(pending), todo |-> Work(Head(pending)), ok |-> TRUE, began |-> FALSE]
    /\ pending' = Tail(pending)
    /\ UNCHANGED <<store, open, run, scheduled, again, error, host, history, left>>

-------------------------------------------------------------------------------
(* The background task. *)

\* Mutant of CommitStep: a store with a failed write goes on from its memory.
CommitUnlatched(do) ==
    /\ disk' = Changed(value, do) /\ value' = Changed(value, do)
    /\ busy' = [busy EXCEPT !.todo = Tail(@), !.began = (do.op = "send" /\ CanBeginSend(value, do.node))]
    /\ UNCHANGED <<latched, outputs, transcripts>>

\* SnapshotStore::commit: refused once latched; an unchanged value writes nothing.
CommitStep(do) ==
    LET next == Changed(value, do)
    IN  IF latched
        THEN /\ busy' = [busy EXCEPT !.todo = <<>>, !.ok = FALSE]
             /\ UNCHANGED store
        ELSE /\ disk' = next /\ value' = next
             /\ busy' = [busy EXCEPT !.todo = Tail(@), !.began = (do.op = "send" /\ CanBeginSend(value, do.node))]
             /\ UNCHANGED <<latched, outputs, transcripts>>

StoreStep ==
    /\ open /\ busy.todo # <<>>
    /\ LET w == Head(busy.todo)
       IN  \/ /\ w.write = "commit"
              /\ CommitStep(w.do)
           \/ /\ w.write = "transcript"
              /\ transcripts' = [transcripts EXCEPT ![w.node] = w.attempt]
              /\ busy' = [busy EXCEPT !.todo = Tail(@)]
              /\ UNCHANGED <<disk, value, latched, outputs>>
           \/ /\ w.write = "output"
              /\ outputs' = [outputs EXCEPT ![w.node] = w.attempt]
              /\ busy' = [busy EXCEPT !.todo = Tail(@)]
              /\ UNCHANGED <<disk, value, latched, transcripts>>
           \/ /\ w.write = "prompt"
              /\ busy' = [busy EXCEPT !.todo = Tail(@)]
              /\ UNCHANGED store
    /\ UNCHANGED <<open, run, queue, error, host, history, left>>

\* Mutant of WriteFails: the store does not remember the failure.
WriteFailsForgotten ==
    /\ open /\ busy.todo # <<>>
    /\ Fault("write")
    /\ busy' = [busy EXCEPT !.todo = <<>>, !.ok = FALSE]
    /\ Head(busy.todo).write = "commit" /\ disk' = Changed(value, Head(busy.todo).do)
    /\ UNCHANGED <<latched, value, outputs, transcripts, open, run, queue, error, host, history>>

\* A failed write ends the operation.  A failed snapshot may have reached the
\* disk all the same, so the store refuses every later commit.
WriteFails ==
    /\ open /\ busy.todo # <<>>
    /\ Fault("write")
    /\ busy' = [busy EXCEPT !.todo = <<>>, !.ok = FALSE]
    /\ LET w == Head(busy.todo)
       IN  \/ w.write # "commit" /\ UNCHANGED <<disk, latched>>
           \/ /\ w.write = "commit" /\ ~latched /\ Changed(value, w.do) # value
              /\ latched' = TRUE
              /\ disk' \in {disk, Changed(value, w.do)}
    /\ UNCHANGED <<value, outputs, transcripts, open, run, queue, error, host, history>>

-------------------------------------------------------------------------------
(* with_store's continuation: install the store, then apply the result. *)

\* submit(): only under the epoch the send was queued for, to an idle session.
SubmitStarts(o) ==
    host[SlotOf[o.node]].epoch = o.epoch /\ host[SlotOf[o.node]].status = "idle"

\* The prompt is queued for the provider: what becomes of it shows later.
StartTurn(o) ==
    LET s == SlotOf[o.node]
    IN  /\ host' = [host EXCEPT ![s].turns = @ + 1, ![s].live = o.node, ![s].liveEpoch = o.epoch]
        /\ attempt' = [attempt EXCEPT ![o.node] = @ + 1]
        /\ inTurn' = [inTurn EXCEPT ![o.node] = TRUE]
        /\ briefed' = [briefed EXCEPT ![s] = IF o.opened THEN @ ELSE @ \cup {host[s].conv}]
        /\ ScheduleAfter(<<>>)
        /\ UNCHANGED made

\* Mutant of FailSubmit: a refused prompt only asks for another look.
FailSubmitForgotten(o) ==
    /\ ScheduleAfter(<<>>)
    /\ UNCHANGED <<host, history>>

FailSubmit(o) ==
    /\ Enqueue([op |-> "fail", node |-> o.node, epoch |-> o.epoch])
    /\ inTurn' = [inTurn EXCEPT ![o.node] = FALSE]
    /\ UNCHANGED <<host, attempt, briefed, made>>

SendDone(o) ==
    \/ busy.ok /\ busy.began /\ SubmitStarts(o) /\ StartTurn(o) /\ UNCHANGED left
    \/ busy.ok /\ busy.began /\ SubmitStarts(o) /\ FailSubmit(o) /\ Fault("reject")
    \/ busy.ok /\ busy.began /\ ~SubmitStarts(o) /\ FailSubmit(o) /\ UNCHANGED left
    \/ ~(busy.ok /\ busy.began) /\ ScheduleAfter(<<>>) /\ UNCHANGED <<host, history, left>>

\* A saved stop interrupts the turns that are running; each ends in its time.  A
\* turn the provider has not begun has no id to interrupt it by and begins all
\* the same.
StopDone ==
    /\ host' = IF busy.ok THEN [s \in Slot |-> Released(host[s])] ELSE host
    /\ ScheduleAfter(<<>>)
    /\ UNCHANGED <<history, left>>

ResumeDone ==
    /\ inTurn' = [n \in Node |-> inTurn[n] /\ StateOf(value, n) # "Waiting"]
    /\ ScheduleAfter(<<>>)
    /\ UNCHANGED <<host, attempt, briefed, made, left>>

PumpDone(o) ==
    /\ IF busy.ok THEN After(pending, host, value, o.starts, o.sends)
                  ELSE After(pending, host, value, {}, {})
    /\ UNCHANGED <<attempt, inTurn, briefed, left>>

StoreDone ==
    /\ open /\ busy # Idle /\ busy.todo = <<>>
    /\ run' = value
    /\ busy' = Idle
    /\ error' = (error \/ ~busy.ok)
    /\ LET o == busy.op
       IN  \/ o.op = "send" /\ SendDone(o)
           \/ o.op = "stop" /\ StopDone
           \/ o.op = "resume" /\ ResumeDone
           \/ o.op = "pump" /\ PumpDone(o)
           \/ /\ o.op \in {"accept", "finish", "fail"}
              /\ ScheduleAfter(<<>>) /\ UNCHANGED <<host, history, left>>
    /\ UNCHANGED <<store, open>>

-------------------------------------------------------------------------------
(* What the sessions do (external), and the handlers of what they signal. *)

SessionEvent == UNCHANGED <<store, open, run, busy, error, attempt, inTurn, briefed>>

\* The process answered.  Codex and DSH know the conversation by then; Claude
\* knows one it was told to resume, and states a new one when a turn opens.
SessionReady(s) ==
    /\ Settled /\ host[s].status = "starting"
    /\ \/ /\ host' = [host EXCEPT ![s].status = "idle",
                                  ![s].known = @ \/ s \notin left.claude \/ host[s].resumed # NoConversation]
          /\ UNCHANGED <<made, left>>
       \/ /\ host[s].resumed # NoConversation /\ ~host[s].known
          /\ Fault("mismatch")
          /\ made' = [made EXCEPT ![s] = @ + 1]
          /\ host' = [host EXCEPT ![s].status = "idle", ![s].known = TRUE, ![s].conv = made[s] + 1]
    /\ ScheduleAfter(<<>>)
    /\ SessionEvent

\* The process exits, or could not be started.
SessionExits(s) ==
    /\ Settled /\ host[s].status \in {"starting", "idle", "working"}
    /\ Fault("exit")
    /\ host' = [host EXCEPT ![s].status = "exited"]
    /\ ScheduleAfter(<<>>)
    /\ SessionEvent /\ UNCHANGED made

\* A provider update restarts a session that has no active work in place, under
\* a new epoch.  Prompts the provider had not begun are gone with the process.
SessionRestarts(s) ==
    /\ Settled /\ host[s].status = "idle" /\ host[s].known /\ ~Occupied(s)
    /\ Fault("update")
    /\ host' = [host EXCEPT ![s].status = "starting", ![s].epoch = @ + 1,
                            ![s].begun = host[s].turns]
    /\ ScheduleAfter(<<>>)
    /\ SessionEvent /\ UNCHANGED made

\* Claude's init line, first thing in its first turn, names the conversation.
IdentityReported(s) ==
    /\ Settled /\ host[s].status = "idle" /\ Outstanding(s) /\ ~host[s].known
    /\ host' = [host EXCEPT ![s].known = TRUE]
    /\ ScheduleAfter(<<>>)
    /\ SessionEvent /\ UNCHANGED <<made, left>>

\* A signal counts for the live node, under the epoch it was sent with.
Heard(s) == host[s].live # NoNode /\ host[s].liveEpoch = host[s].epoch

\* on_execution, Accepted: the provider began the oldest turn sent to it and
\* named it.  The runtime takes it for the live node's, whichever it is.
TurnAccepted(s) ==
    /\ Settled /\ host[s].status = "idle" /\ Outstanding(s) /\ host[s].known
    /\ host' = [host EXCEPT ![s].status = "working", ![s].begun = @ + 1]
    /\ ScheduleAfter(IF Heard(s)
                     THEN <<[op |-> "accept", node |-> host[s].live,
                             epoch |-> host[s].epoch, turn |-> host[s].begun + 1]>>
                     ELSE <<>>)
    /\ SessionEvent /\ UNCHANGED <<made, left>>

\* Mutant of TurnFinished: the host keeps waiting for the turn that ended.
TurnFinishedStillLive(s, ok) ==
    /\ Settled /\ host[s].status = "working"
    /\ host' = [host EXCEPT ![s].status = "idle"]
    /\ ScheduleAfter(IF Heard(s)
                     THEN <<[op |-> "finish", node |-> host[s].live, epoch |-> host[s].epoch,
                             turn |-> host[s].begun, ok |-> ok, attempt |-> attempt[host[s].live]]>>
                     ELSE <<>>)
    /\ SessionEvent /\ UNCHANGED <<made, left>>

\* on_execution, Finished, for a turn that ended well or with an error.  What is
\* written is what the session shows under the number of its last prompt.
TurnFinished(s, ok) ==
    /\ Settled /\ host[s].status = "working"
    /\ LET done == [host[s] EXCEPT !.status = "idle"]
       IN  host' = [host EXCEPT ![s] = IF Heard(s) THEN Released(done) ELSE done]
    /\ ScheduleAfter(IF Heard(s)
                     THEN <<[op |-> "finish", node |-> host[s].live, epoch |-> host[s].epoch,
                             turn |-> host[s].begun, ok |-> ok, attempt |-> attempt[host[s].live]]>>
                     ELSE <<>>)
    /\ SessionEvent /\ UNCHANGED <<made, left>>

\* The oldest turn sent is over before it was named: the session hears of an
\* error, and no Accepted or Finished signal follows.
NeverBegins(s) ==
    /\ Settled /\ host[s].status = "idle" /\ Outstanding(s)
    /\ host' = [host EXCEPT ![s].begun = @ + 1]
    /\ ScheduleAfter(<<>>)
    /\ SessionEvent /\ UNCHANGED made

\* Claude's error result before any line stated an identity.
TurnFailsUnnamed(s) == s \in left.claude /\ Fault("unnamed") /\ NeverBegins(s)

\* Codex answers turn/start with an error, or the router's deadline for it does;
\* DSH answers session/prompt with one.
TurnRefused(s) == s \notin left.claude /\ Fault("refused") /\ NeverBegins(s)

-------------------------------------------------------------------------------
(* The user, the end of the program and the next start. *)

\* The transcripts of the running turns are captured at the click.
UserStop ==
    /\ Settled /\ IsLive(run) /\ left.stops > 0
    /\ \E running \in ListedSlots({s \in Slot : host[s].live # NoNode}) :
          Enqueue([op |-> "stop",
                   captured |-> [i \in DOMAIN running |->
                       [node |-> host[running[i]].live, attempt |-> attempt[host[running[i]].live]]]])
    /\ left' = [left EXCEPT !.stops = @ - 1]
    /\ UNCHANGED <<store, open, run, busy, error, host, history>>

\* An exited session would fail its next node again, so it is dropped.
UserResume ==
    /\ Settled /\ IsResumable(run) /\ left.resumes > 0
    /\ host' = [s \in Slot |-> IF host[s].status = "exited" THEN NoHost ELSE host[s]]
    /\ Enqueue([op |-> "resume"])
    /\ left' = [left EXCEPT !.resumes = @ - 1]
    /\ UNCHANGED <<store, open, run, busy, error, history>>

\* The process ends, or the tab closes and the entity is released: sessions,
\* queue and memory copies are gone, what was written stays.  When only the tab
\* closes, an operation that holds the store still writes what it has to, with
\* the owner lock held against the next open(): the files are those of a Close
\* after its last write.
Close ==
    /\ Settled /\ Fault("crash")
    /\ open' = FALSE
    /\ value' = disk /\ run' = disk /\ latched' = FALSE
    /\ pending' = <<>> /\ busy' = Idle /\ scheduled' = FALSE /\ again' = FALSE /\ error' = FALSE
    /\ host' = [s \in Slot |-> NoHost]
    /\ inTurn' = [n \in Node |-> FALSE]
    /\ UNCHANGED <<disk, outputs, transcripts, attempt, briefed, made>>

\* open(): a run saved as going is marked interrupted before it is installed.
Open ==
    /\ ~open
    /\ disk' = Interrupt(disk) /\ value' = disk' /\ run' = disk'
    /\ open' = TRUE
    /\ ScheduleAfter(<<>>)
    /\ UNCHANGED <<latched, outputs, transcripts, busy, error, host, history, left>>

\* The interruption could not be saved: the run stays closed.
OpenFails ==
    /\ ~open /\ IsLive(disk) /\ Fault("write")
    /\ disk' \in {disk, Interrupt(disk)}
    /\ value' = disk' /\ run' = disk'
    /\ UNCHANGED <<latched, outputs, transcripts, open, queue, busy, error, host, history>>

-------------------------------------------------------------------------------
\* start(): the store is created with a new record and the first look queued.
Init ==
    /\ disk = NewRecord /\ value = NewRecord /\ run = NewRecord
    /\ latched = FALSE /\ open = TRUE /\ error = FALSE
    /\ outputs = [n \in Node |-> 0] /\ transcripts = [n \in Node |-> 0]
    /\ pending = <<PumpOp>> /\ busy = Idle /\ scheduled = TRUE /\ again = FALSE
    /\ host = [s \in Slot |-> NoHost]
    /\ attempt = [n \in Node |-> 0] /\ inTurn = [n \in Node |-> FALSE]
    /\ briefed = [s \in Slot |-> {}] /\ made = [s \in Slot |-> 0]
    /\ left \in Worlds

Next ==
    \/ Pump
    \/ StartOperation
    \/ StoreStep
    \/ WriteFails
    \/ StoreDone
    \/ \E s \in Slot :
          \/ SessionReady(s)
          \/ SessionExits(s)
          \/ SessionRestarts(s)
          \/ IdentityReported(s)
          \/ TurnAccepted(s)
          \/ \E ok \in BOOLEAN : TurnFinished(s, ok)
          \/ TurnFailsUnnamed(s)
          \/ TurnRefused(s)
    \/ UserStop
    \/ UserResume
    \/ Close
    \/ Open
    \/ OpenFails

Spec == Init /\ [][Next]_vars

\* The executor runs what is queued, and the providers answer: a session that
\* was started gets ready, a turn that was sent begins and ends, unless one of
\* the faults of the world comes first.
Fairness ==
    /\ WF_vars(Pump) /\ WF_vars(StartOperation) /\ WF_vars(StoreDone)
    /\ WF_vars(StoreStep)
    /\ \A s \in Slot :
          /\ WF_vars(SessionReady(s))
          /\ WF_vars(IdentityReported(s))
          /\ WF_vars(TurnAccepted(s))
          /\ WF_vars(\E ok \in BOOLEAN : TurnFinished(s, ok))

FairSpec == Spec /\ Fairness

-------------------------------------------------------------------------------
(* Properties. *)

HostType ==
    [status : {"none", "starting", "idle", "working", "exited"},
     epoch : Epoch \cup {NoEpoch}, turns : Turn \cup {0}, begun : Turn \cup {0},
     conv : Conversation \cup {NoConversation}, known : BOOLEAN,
     resumed : Conversation \cup {NoConversation},
     live : Node \cup {NoNode}, liveEpoch : Epoch \cup {NoEpoch}]

\* Records, hosts and counters keep their shape and stay within the bounds.
TypeOK ==
    /\ disk \in RunRecords /\ value \in RunRecords /\ run \in RunRecords
    /\ host \in [Slot -> HostType]
    /\ outputs \in [Node -> Attempt \cup {0}] /\ transcripts \in [Node -> Attempt \cup {0}]
    /\ attempt \in [Node -> Attempt \cup {0}]
    /\ {latched, open, scheduled, again, error} \subseteq BOOLEAN

\* An operation that decides what becomes of n: its send is being applied, or
\* its end is being recorded.
Decides(o, n) ==
    \/ o.op \in {"finish", "fail"} /\ o.node = n
    \/ o = busy.op /\ o.op = "send" /\ o.node = n

Queued == {pending[i] : i \in DOMAIN pending} \cup {busy.op}
              \cup {w.do : w \in {v \in {busy.todo[i] : i \in DOMAIN busy.todo} : v.write = "commit"}}

\* "Committed before the prompt is sent, so a crash can never leave a sent
\* prompt without a record" (run.rs:83): a turn the runtime waits for is in
\* flight, in the record it installed, under the epoch it was sent with.
LiveIsRecorded ==
    \A s \in Slot : host[s].live # NoNode =>
        /\ IsInFlight(run, host[s].live)
        /\ run.nodes[host[s].live].epoch = host[s].liveEpoch
        /\ SlotOf[host[s].live] = s

\* A turn sent to s can be over before it was named (TurnFailsUnnamed,
\* TurnRefused), or gone with an update before it began (SessionRestarts).
MayGoSilent(s) ==
    IF s \in left.claude THEN "unnamed" \in left.kinds
                         ELSE {"refused", "update"} \cap left.kinds # {}

\* The turn the runtime waits for did: no signal of it will come.
Silent(s) ==
    /\ host[s].live # NoNode /\ host[s].status \in {"starting", "idle"}
    /\ ~Outstanding(s) /\ MayGoSilent(s)

\* A turn of s is sent, runs, or went with its session.
AtWork(s) ==
    \/ host[s].status = "idle" /\ Outstanding(s)
    \/ host[s].status \in {"working", "exited"}

\* Nothing stays in flight by itself: a node the record says is running is what
\* its slot's session works on (or died on, which the next look records), or
\* the operation that ends it is queued, or its turn went silent.  A write that
\* failed (and shows as an error) can break this.
NoOrphanNode ==
    open /\ ~error /\ busy.ok =>
        \A n \in InFlight(value) :
            \/ host[SlotOf[n]].live = n /\ (AtWork(SlotOf[n]) \/ Silent(SlotOf[n]))
            \/ \E o \in Queued : Decides(o, n)

\* The files a completed node shows hold what its session showed under the prompt
\* sent last for it, which completed it: no crash, stop or resume mixes attempts.
CompletedShowsItsTurn ==
    \A n \in Node : IsCompleted(disk, n) =>
        outputs[n] = attempt[n] /\ transcripts[n] = attempt[n]

\* "When this is the first node sent in its slot's conversation and the slot
\* has a role, the role SHALL precede the composed text" (spec.md:102): no
\* conversation works on a node without having been given the role.  Only Claude,
\* whose identity is saved after accept() has recorded the slot as opened, can
\* lose the conversation in between: if its session or the program ends there, the
\* role was given to the lost conversation and not to the one that follows.
\* A prompt gave the role when it was sent: only an accepted turn records its slot
\* as opened, so after a refused one the next prompt says it again.
RoleDelivered ==
    \A s \in Slot : host[s].status = "working" =>
        \/ host[s].conv \in briefed[s]
        \/ s \in left.claude /\ {"crash", "exit"} \cap left.kinds # {} /\ briefed[s] # {}

\* While the store works, what it holds is what a later open() reads
\* (snapshot_store.rs:65); after a failed write it takes no change at all.
DiskMatchesStore == open /\ ~latched => disk = value

\* The saved record changes as OrchestrationRun allows, and in no other way.
Abstract == INSTANCE OrchestrationRun
    WITH rec <- disk, Output <- Attempt, NoOutput <- 0

ImplementsRun == Abstract!Spec

\* A run that is going ends, is closed, or shows an error (a write that failed):
\* no wakeup is lost, nothing is left waiting.
RunEnds == (open /\ IsLive(run)) ~> (~open \/ ~IsLive(run) \/ error)

\* The same, unless a slot waits for a turn that will send no signal.
RunEndsUnlessSilent ==
    (open /\ IsLive(run)) ~> (~open \/ ~IsLive(run) \/ error \/ \E s \in Slot : Silent(s))

===============================================================================
