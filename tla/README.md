# A TLA+ verification project for NiumaTerm

NiumaTerm is a native terminal and agent application. Most of its code is user
interface, a terminal engine and adapters for agent providers. The parts with a
protocol of their own, where several actors share state and something can fail
between two steps, are the subject of this project:

- **orchestration**: a graph of agent tasks, run by several agent sessions at
  once, saved to disk after every change so that it survives a crash and can be
  stopped and resumed;
- **agent sessions**: the child process an agent runs in, the app-server several
  Codex tabs share, and what becomes of a prompt between the composer, the
  server and the transcript;
- **the remote channel**: the output of a terminal session shown on another
  device, with flow control, one queue per channel, fragments and a heartbeat.

Paths below are relative to `src/`; `orchestration/mod.rs` alone means
`crates/app/src/agent_tab/orchestration/mod.rs`, `input.rs` and `requests.rs`
those of `crates/agent/src/subprocess/`, `app_server/` is
`crates/agent/src/codex/app_server/`, `delivery.rs` and `controller/mod.rs` are in
`crates/agent/src/session/`, `stream.rs` and `link.rs` in `crates/remote/src/`.

## 1. Inventory

### Orchestration

| part | code | state | operations |
|---|---|---|---|
| definition and graph | `crates/agent/src/orchestration/graph.rs` | none: `Graph::new` turns a definition into a checked graph (order, ancestor masks, slots) or a list of errors | `Graph::new`, `topological_order` |
| run record | `.../orchestration/run.rs` | `RunRecord`: run state, a `NodeRun` per node (state, session epoch, turn), a `SlotRun` per slot (conversation, opened) | `begin_send`, `accept`, `complete`, `fail`, `stop`, `interrupt`, `resume`, `record_conversation`, `refresh_state` |
| scheduler | `.../orchestration/schedule.rs` | none | `schedule`: what to send and which slots to prepare |
| run store | `.../orchestration/store.rs`, `crates/agent/src/snapshot_store.rs` | snapshot file, its memory copy, the `failed` latch; prompt, output and transcript files | `create`, `update`/`commit`, `save_prompt`, `save_output`, `save_transcript` |
| runtime | `orchestration/mod.rs` | installed copy of the record, queue of operations, store (or the task that holds it), `scheduled`, `refresh_again`, a host per slot | `start`, `open`, `queue`/`start_next`/`with_store`, `schedule`, `pump`, `send`, `submit`, `on_execution`, `stop`, `resume`, `close` |
| slot host | `orchestration/slot.rs` | session, the conversation it resumed, the node it works on and under which epoch | `observe` |

How they interact: all handlers run on the main thread. A change of the record
is an operation put on a queue; one at a time takes the store to a background
task, writes files and commits the snapshot, and its continuation on the main
thread installs the new copy and does what follows (submits a prompt,
interrupts turns). A *pump* operation looks at all slots, saves what it found,
starts sessions and queues sends. Session events, clicks and the crash or
closing of the program fall between any of these steps.

What is hard: several store operations lie between the look that chose a node
and the prompt that is sent; the record alone does not check dependencies when
a node is sent; a failed snapshot write may or may not have reached the disk; a
crash can fall between the files of a completion and the commit that records
it; wakeups are coalesced; a provider may exit, restart under a new epoch or
report another conversation than asked for.

What makes it correct: nothing runs on unfinished work, a slot's conversation
works on one node at a time, the parallel limit holds, the run's state is true
of its nodes; a sent prompt is in the record; nothing stays in flight with
nobody working on it; a completed node shows its own turn's files; the saved
record only ever changes as the record's rules allow; a run that is going ends.

### Agent sessions

| part | code | state | operations |
|---|---|---|---|
| child process | `crates/agent/src/subprocess/mod.rs`, `input.rs` | input queue with tickets, the process and its tree, a writer, a reader and an exit task | `write_line`, `write_tracked`, `InputTicket::cancel`, `abort`, `shutdown`, drop |
| deadline timer | `requests.rs` | next deadline, stopped, the task's permit | `TimerHandle::set`, `stop`, `run_deadlines` |
| Codex host | `app_server/host/mod.rs` | the slot of the shared host (starting, weak reference), generations | `acquire`, `start`, `register`, `send`, `shutdown` |
| Codex router | `app_server/host/router.rs` | sessions, roots, owners of threads, messages held for a thread without an owner, pending requests, server requests | `prepare_outgoing`, `route_response`, `route_notification`, `route_server_request`, `claim_descendants`, `expire_requests`, `detach`, `on_stdout_closed` |
| Codex session | `app_server/mod.rs`, `control.rs`, `conversation.rs` | current turn, control operations | `send_user_message_with_skill`, `interrupt`, `on_response`, `on_host_exit` |
| delivery and controller | `delivery.rs`, `controller/mod.rs`, `lifecycle.rs` | queue of prompts, turn number, recoverable prompt, opening prompt, status, pending interrupt | `submit`, `interrupt_from_user`, `turn_started`, `start_item`, `turn_completed`, `failed`, `publish_confirmed` |

How they interact: a session's requests are queued to the child process's
writer task with a ticket; the reader task hands each line to the router, which
finds the tab it is for under one lock; the deadline task takes back what
expired. A tab handles what it is handed on its own thread. A timeout may cancel
a request that is still queued, and must be right about it.

What is hard: a look and a wait separated by the release of a lock (queue,
timer); cancelling against writing; a reply against its deadline; a tab that
leaves while another joins; messages that arrive before anybody owns their
thread; a steer that races the end of the turn it is for, the stop button and
its own deadline; echoes that are matched by text.

What makes it correct: what was cancelled is not read, what is read is in order;
a stopped process is gone and its end is announced; a request is answered once,
and truly; a thread's traffic reaches its owner in order; one host serves, and
ends when nobody uses it; no prompt is read twice, lost from view, or started
after the user stopped it.

### Remote channel

| part | code | state | operations |
|---|---|---|---|
| stream flow | `stream.rs` | `FlowState`, `pending` bytes, `closed` | `attach`, `on_output`, `enqueue`, `checkpoint_request`, `sent`, `close`, the exit notice |
| channel queue | `link.rs` | queue, `queued` bytes, drain notice, lock of control transfers | `send`, `send_bounded`, `send_chunked_control`, `ControlChunks::push` |
| pump | `link.rs`, `crates/remote_core/src/frame.rs` | outbound message, deadline, misses, reassembly per stream | the pump's branches, `send_frames`, `encode_message`, `Reassembler::push` |
| PTY loop | `crates/terminal/src/termio/mod.rs` | subscribers, messages | `on_pty_chunk`, `Msg::Subscribe`, `Msg::Checkpoint` |

The PTY loop pushes output into the queue, the pump drains it and reports back.
Atomics are changed one at a time, and the state's mutex covers only part of
each side. It is correct when the backlog is exact and bounded, the view never
sees a gap, a view that dropped output is given a checkpoint later, senders that
wait for room get it, transfers are not mixed, messages of several frames arrive
whole beside probes, and both ends notice a network that went silent.

### Everything else

`PROJECT.json` lists every component with the reason for those not modelled:
restore, branches and rewind, agent teams, the DeepSeek Harness host, agent
binary updates, input history, the orchestration editor, remote host, client and
relay, pairing and encryption, the terminal engine, the self-updater, workspace
and UI, the mobile bindings, vendored code.

## 2. Modules

    OrchestrationGraph         the checked graph, as constants with assumptions
      RunRecord                the record's operations and the scheduler, as operators
        OrchestrationRun       abstract specification of a run
          MCOrchestrationRun       instance for TLC
          OrchestrationRunProofs   theorems
        OrchestrationRuntime   the program; INSTANCEs OrchestrationRun
          MCOrchestrationRuntime   instances for TLC
          OrchestrationRuntimeProofs   theorems
    GraphValidation            Graph::new, step by step
      MCGraphValidation            the definitions it is run on
    AgentProcess               a child process and its three tasks
      AgentProcessProofs           theorems
    DeadlineTimer              the task that expires requests
      DeadlineTimerProofs          theorem
    CodexHost                  one app-server for several tabs
      CodexHostProofs              theorems
    CodexRouter                its requests, threads and tabs
      MCCodexRouter                the plans it is run under
      CodexRouterProofs            theorems
    PromptDelivery             a tab's prompts, its server and its transcript
      MCPromptDelivery             instance for TLC
      PromptDeliveryProofs         theorems
    StreamFlow                 flow control of one remote view
      StreamFlowProofs             theorems
    SendQueue                  a channel's queue and its senders
      MCSendQueue                  instance for TLC
    ChannelPump                both pumps of a channel
      MCChannelPump                instance for TLC

**OrchestrationGraph** has no state. Its assumptions (`AncestorsClosed`,
`OrderTopological`, `SlotOrdered`, ...) are what `Graph::new` verified. The
proofs use them; `GraphValidation!VerdictExact` contains that the algorithm
delivers them (`AcceptedGraph`).

**RunRecord** has one operator per method of `RunRecord` in `run.rs`, each with
a `Can...` operator for the method's early returns; called where it does not
apply, the operator returns the record unchanged, as the method returns false.
Failure texts and times are left out. `DispatchSend` and `DispatchPrepare` are
the two results of `schedule`; the counting loop of the code is expressed by how
many ready nodes come before a node in the order (`Taken`).

**OrchestrationRun** is what a run promises: the durable record and the output
files, one action per committed change. Its guards are the record's own plus
what the caller owes it: only ready nodes are sent, within the limit, and a node
is completed after its output was saved. That the program pays what it owes is
the refinement `ImplementsRun`, proved as `RunImplemented`.

**OrchestrationRuntime** is the program. Its variables are those of
`OrchestrationRuntime` and `SnapshotStore`, a `host` per slot that joins the
`SlotHost` with what its session does, and history variables for the
properties. Actions:

| action | code |
|---|---|
| `Pump` | `pump`: the look, its commits or straight to `after` |
| `StartOperation` | `start_next` + `with_store` for any other operation |
| `StoreStep`, `WriteFails` | one file write or commit of the background task, or its failure |
| `StoreDone` | the continuation of `with_store` and the operation's own `done` |
| `SessionReady/Exits/Restarts`, `IdentityReported` | what a session does, and the look it schedules |
| `NeverBegins`, as `TurnFailsUnnamed` or `TurnRefused` | a turn that was sent is over before it was named: an error in the session, and a look |
| `TurnAccepted`, `TurnFinished` | `on_execution` |
| `UserStop`, `UserResume` | `stop`, `resume` |
| `Close`, `Open`, `OpenFails` | the program or tab ends; `open` |

Modelling decisions:

- `start_next` runs at the end of each handler. The model makes `Pump` and
  `StartOperation` actions of their own, and `Settled` keeps the main thread
  from taking another event before they ran, which is the same order.
- An operation's writes are a list worked off one at a time (`busy.todo`): a
  crash or another main-thread event may fall between any two. A commit is
  atomic (write to a temporary file, rename), a failed one may have landed.
- `Close` stands for a crash and for closing the tab. When only the tab closes,
  a store operation in progress still finishes, holding the directory's owner
  lock against the next `open`; its files are those of a later `Close`.
- Sessions are external actors that do what the code in `src/` can observe:
  Codex and DSH name the conversation when ready, Claude in its first turn.
- `submit` returns when the prompt is queued to the provider, not when the
  provider has taken it (`app_server/mod.rs:508`). A host therefore counts the
  turns sent (`turns`) and those begun or given up (`begun`); between the two a
  turn is `Outstanding` and the session still says that it is idle. Claude alone
  counts such a prompt as active work (`Occupied`), so only Claude's slot is
  neither taken for ready nor updated meanwhile. A stop can interrupt no turn
  that has not begun (`app_server/mod.rs:589`); such a turn begins all the same.
- A turn that never begins leaves the runtime waiting: `Silent` says that a slot
  waits for such a turn, `MayGoSilent` which faults of the world can cause it.
- An update restarts an idle session under a new epoch, and the prompts that its
  process had not begun are gone; an update that fails and leaves the session
  stopped is not modelled.
- A profile that is missing is found at the look; that it disappears between
  the look and `start_slot` (`orchestration/mod.rs:520`) is not modelled.

**GraphValidation** runs `Graph::new` as a state machine: `Read` (names,
duplicates, unknown references), `Take` (one step of Kahn's sort), `SortEnds`,
`Follow` (one step of the walk that names a cycle), `Relate` (one node's
ancestor mask), `Judge` (template and slot rules). Texts that must not be blank
are one flag. Ids are numbers, and masks sets of indices; `MaxNodes` stands for
`MAX_NODES` (32, the width of the mask).

**AgentProcess** has the three tasks of `JsonLineProcess` as program counters,
the queue under its lock, the wakeup permit of `Notify`, and a pipe in each
direction. `Recv` and `Notified` are the two halves of the receiver's loop, so
that a submission, a cancellation or the drop of the sender may fall between
them. The owner writes, cancels, aborts, and shuts down with a deadline; the
CLI reads, prints, stops reading, exits, and may run under a shim (`root`) that
exits before it. Splitting of lines and kinds of decoding errors are left out.

**DeadlineTimer** is the table of deadlines with its timer task: `Look`,
`Suspend` (the task has released the lock and now waits), `SleepEnds`, `Expire`,
against `Add`, `Finish` and `Stop` from other threads.

**CodexHost** is the life of the shared process: `Acquire` (find a live host,
join a start, or begin one), `Polled`/`Started`/`Cancel` of the future, `Spawn`
and the initialize answer, `Register`, `Detach` and `ShutdownHost`, `ProcessEnds`.
The step between finding a host and registering with it is a step of the model.

**CodexRouter** is the router of one host. Each request goes through
`SendStart`, `PrepareOutgoing`, `Write` and `AttachInput` as in `CodexHost::send`,
with its deadline (`ExpireRequests`) anywhere in between. `OnNotification`,
`OnAsk`, `OnResponse` are the reader's handling of a line, atomic under the lock;
what it hands to tabs after the lock is in `handing` and delivered by `HandOver`.
A `plan` chosen at the start says which requests exist, which may expire, which
are retired, whether the process may end and how much the server says.

**PromptDelivery** joins `MessageDelivery` and the controller's turn handlers
with a Codex session's steering and a server, over a FIFO each way.
`SubmitStarts` and `SubmitSteers` are the two outcomes of a send; `TurnStarted`,
`Echo`, `Output`, `TurnCompleted`, `SteerAdmitted`, `SteerRefused`,
`SteerTimesOut`, `SteerNotSent` and `HostExited` handle what comes back. Prompts are
model values with a text; only equality of texts matters. The server is an
environment: it admits a steer for the turn that runs, refuses another, reads
admitted inputs one at a time and echoes each.

**StreamFlow** has the PTY loop (`loop`: where it is inside a callback) and the
pump (`sending`). `Look`/`Decide` are `on_output` with the mutex held across the
load of the backlog; `Count` and `Put` are `enqueue`, after the mutex was
released; `HookCount` and `HookCheck` are `sent`, which reads the backlog before
it takes the mutex. Output is counted in bytes, so a frame is an interval and a
gap or a repetition shows. Memory order: the counters are relaxed atomics used
only through read-modify-write and through loads compared with thresholds; the
model takes them as sequentially consistent, which the queue and the mutex give
for the pairs that matter (a frame is reported only after it was received).

**SendQueue** has plain senders, senders that wait for room and transfers of
several chunks, at the granularity of the atomics: `Begin`, `Register`, `Check`,
`Wake`, `PushBounded`; `CountPlain`, `PushPlain`; `Lock`, `Unlock`, and `Abort` for a
task that is dropped in the middle. The pump takes and sends, and the peer
assembles chunks (`Assemble`).

**ChannelPump** has two ends, each in its `select` or inside `send_frames`, and
sockets of bounded capacity. `Receive`, `SendNext`, `Probe` and `Deadline` are the
branches, `SendFrame` one frame written; time passes only as far as the timer
branch needs it.

## 3. Runs

| run | instance | shows |
|---|---|---|
| `run` | diamond plus one, 5 nodes, 4 slots, limit 2 | the record and the scheduler by themselves: every operation in every order |
| `runtime` | 3 nodes, 2 slots, one joining the other two; five worlds, fair | the runtime's safety, `ImplementsRun`, and that a run ends unless a turn of it goes silent |
| `silent` | 2 nodes in one slot; two worlds: Claude with an unnamed failure, another agent with a refused turn; fair | two disagreements between code and documentation, below |
| `graph` | 3 nodes with every pair of dependency lists (the third also repeats or names unknown ids), 4 nodes with up to 2 dependencies each, odd cases | acceptance and rejection are exact, the order is the earliest-first one, cycles named are cycles |
| `stream` | marks 4 and 2, chunks of 1 or 3, checkpoints of 1 or 4, 8 units of output, all faults, fair | exact, bounded backlog; no gap except after a failed checkpoint; the view catches up |
| `process` | two inputs, one cancellable, pipe of 1, a child under a shim, fair | cancellation, order, stop, end and wakeup of the child process |
| `timer` | three requests, timeouts 1 and 2, time to 4 | the timer never oversleeps |
| `codex_router` | two tabs, a thread and its descendant, three requests, a server request; five plans, fair | tables, order, single and true answers, and that a request settles |
| `codex_host` | three tabs, three generations of hosts, cancellations, fair | one serving host; waiters are served; no orphan |
| `send_queue` | one plain and one waiting sender, two transfers that may be dropped, limits 3 and 2, fair | transfers whole, the limit, no lost drain |
| `pump` | one end sends a two-frame, a one-frame and a three-frame message, sockets of 2, one probe, silence, fair | reassembly, silence, delivery |
| `delivery` | three prompts, two alike, one slow steer, one stop, an exit, fair | what becomes of a prompt |

Each passing property has a mutant: a definition next to the one it alters,
named in `PROJECT.json`, under which TLC finds the property violated.

**Bounds.** In `runtime`, a *world* fixes which slots run Claude, which faults
may happen and how many, and the stops and resumes: (1) named agents, one fault
of any kind, one resume; (2) Claude in one slot with a crash, an exit or an
unnamed failure, one resume; (3) and (4) a stop and a resume, with Claude in one
slot or in the other, so that turns of either kind of agent may begin after the
stop; (5) crashes and failing writes, two of them. A fault and a resume are the smallest numbers at
which a fault can meet the recovery from another; two slots with a join have
reuse of a conversation, parallel turns and a dependency across slots; three
ready nodes with a limit of two exceed the limit. `Attempt` (the turns of one
node) is one more than the resumes of a world, so it cuts nothing off. In
`stream`, `MaxOutput` of 8 with a high mark of 4 lets a view fall behind, resync and
fall behind again; chunks of 3 cross both marks at once, and a checkpoint of 4 is as large as the high mark, where the
two bounds of `BacklogCapped` differ; `MaxQueued` 7 is reached by a backlog, a checkpoint and
another user's message. In `codex_router`, the plans are: two tabs want one
thread that is closed and opened again; deadlines, retirement and the end of the
process; a descendant that speaks and asks under a parent two tabs want; the
same under a tab that leaves; three notifications around the claim. In
`send_queue` a plain and a bounded message of 2 units each exceed the limit of 3, so the
channel does close as `behind`, and the bounded limit of 2 is reached by one sender. In `pump` a
message of three frames exceeds what the socket holds. In `delivery` three
prompts are the fewest at which two of one text can be separated by another; for
more of them there is the proof of all three safety properties.
`CHECK_DEADLOCK FALSE` is set because runs end, definitions are judged, bounded
output ends, processes exit and tabs close.

**Fairness.** All of it is weak.

- `runtime`, `silent`: the executor's steps (queued work runs, file writes return)
  and what providers do (a started session gets ready, states its identity, begins
  and ends a turn), unless one of the faults of the world comes first: a turn may
  be answered with an error instead. Faults, users and crashes have no fairness. A
  provider that answers nothing at all is outside the assumption: the application
  has no timeout for a turn that runs, and the user stops the run.
  `RunEndsUnlessSilent` leaves out the runs in which a slot waits for a turn that
  will send no signal; that those do not end is what `silent` shows.
- `stream`: the pump and the loop's callbacks and messages; none for output,
  faults or detaching.
- `process`, `codex_router`, `codex_host`, `send_queue`, `pump`: the tasks of the
  program and, in `pump`, its clock; deadlines of requests that a plan lets
  pass. Children, servers, owners and networks have none, except that a socket
  that is not silent carries frames.
- `delivery`: the tab's handlers, and, as an assumption on the environment, a
  server that takes its messages and reads what it has admitted. Nothing makes
  it speak or complete a turn.

**Findings.** The orchestration specification says of a node that fails, "meaning its turn
ends with an error, its slot's session cannot start, or its turn is rejected", that it is
marked failed and ends the run (`openspec/specs/agent-orchestration/spec.md:136`). Run
`silent` has `RunEnds` violated in two ways, each by itself:

- A Claude turn that ends with an error before any line stated an identity produces no
  finish signal (`claude_code/stream_json/mod.rs:1364`).
- Codex answers `turn/start` with an error, or the router's deadline does. The send
  returned `StartedTurn` as soon as the request was queued and tracks no id
  (`app_server/mod.rs:508`), so the answer becomes a non-fatal error event
  (`app_server/mod.rs:1039`, `1289`). A DeepSeek `session/prompt` that is refused fares the
  same (`dsh/session/mod.rs:951`).

In both the node stays `Sending`, the host waits for it, the session is idle, and
nothing is queued: the run goes on for ever.

**What the properties had to allow for.** These came up as counterexamples and
are stated as exceptions of the property concerned; they are worth knowing:

1. A node whose session exited is recorded as failed without its transcript
   (`orchestration/mod.rs:504`); `CompletedShowsItsTurn` speaks of completed nodes.
2. `accept` commits `opened` before a late (Claude) identity is saved; if the
   session or the program ends in between, a fresh conversation is sent its
   first node without the slot's role (`run.rs:248`, `RoleDelivered`). The property
   counts the role as given when the prompt with it was sent.
3. A resync checkpoint that fails leaves the view live over missing output
   (`stream.rs:177`, `ViewExact`).
4. `sent` (`stream.rs:184`) compares a backlog read before the mutex was taken,
   so a resync can start while the backlog is again near the high mark, or while
   the previous checkpoint is still in it. The bound that holds is the high mark
   plus one checkpoint, or the low mark plus two, whichever is more
   (`BacklogBounded`). That the first does not hold by itself shows only with
   checkpoints larger than the distance of the marks.
5. `claim_descendants` hands held messages over after it released the lock, and
   the reader may overtake it (`host/router.rs:610`): `RootOrder` speaks of root
   threads only, and says nothing of a descendant whose held messages are
   overtaken. It counts what was lost over all tabs together: a tab that leaves a
   thread and opens it again has missed what another tab was given in between.
   (An earlier form asked each tab by itself to have no gap. The run's three
   requests never show one; the attempt to prove it did.)
6. A tab that found the host just before the last tab left may register with a
   host that is shutting down (`host/mod.rs:98`), and its request is lost with the
   host. `OneServing` counts hosts that are not expected to end, so it does not
   speak of that request. A tab of the model acquires a host once.
7. An end that waits in `send_frames` for room in its socket neither receives nor
   looks at its timer (`link.rs:466`): `IdleNoticesSilence` excepts it. In `pump`
   one end sends data, and the messages of different streams do not interleave.
8. The timer branch may be taken while the answer lies in the receive buffer, so
   an answered probe can count as missed (`link.rs:488`).
9. `published_prompt` is one slot, and is given up before its own echo in three
   ways: a second `turn/start` replaces it, the echo of a steered prompt of the same
   text is taken for it, and the end of the turn clears it. The echo that comes
   later may then take a queued prompt of that text before its time, against the
   comment at `delivery.rs:210` ("Its echo must not consume a later queued message
   with identical text"), or leave one queued past its own. `QueueIsWaiting` is
   stated for histories without this (`~crossed`). An earlier form excepted only the
   second `turn/start`. It held on the run, whose three prompts are one too few, and
   is false: with prompts 2 and 3 admitted and unread when the turn of prompt 1 ends,
   and a new turn opened with the text of prompt 3, the echo of prompt 3 is taken for
   that of the opening prompt. The attempt to prove it found this.
10. A steered prompt lost to a stop, a deadline or a refusal that names another
    turn stays at the front of the queue and keeps later echoes from being
    recognised (`delivery.rs:220`): `EveryPromptIsShown` and `QueueIsWaiting` name
    this exception (`lost`). The host's exit publishes what is left.

11. A slot may wait for a turn that will send no signal (`Silent`): a turn that
    failed unnamed or was refused (the findings above), or, for an agent other than
    Claude, a prompt that was sent when an update restarted the session, which
    still counted as idle. `NoOrphanNode` and `RunEndsUnlessSilent` except it, in
    the worlds that have the fault (`MayGoSilent`).
12. A stop interrupts no turn whose beginning was not announced
    (`app_server/mod.rs:589`). Resumed in that moment, the slot may be sent its next
    node, and the beginning of the old turn is taken for that of the new one, whose
    node then completes with the old turn's answer. `CompletedShowsItsTurn` compares
    files by the prompt sent last, as the code does, and does not tell the two apart.
13. `NoOrphanNode` excludes runs in which a write failed and was reported: the
    Finished handler clears `live` first (`orchestration/mod.rs:754`), so the node
    then stays in flight until the user stops the run.
14. The end of a process tree is one step of `AgentProcess` (`EndTree`): a child that
    outlives its parent's kill for a moment is not seen.

## 4. Proofs

Eight modules hold theorems, each about one component and for every value of its
constants that satisfies the named assumptions. `TLC` checks every property of
this table on the instance of its run as well, where a run checks it, and every
inductive invariant was checked on the run's instance before it was proved.

| module | theorem | property |
|---|---|---|
| `OrchestrationRunProofs` | `TypeCorrect` | `TypeOK` |
| | `DependenciesRespected` | `AncestorsCompleted` |
| | `OneNodePerConversation` | `SlotExclusive` |
| | `ParallelLimitKept` | `ParallelBound` |
| | `RunStateTruthful` | `StateMatchesNodes` |
| | `CompletedHasOutput` | `OutputSaved` |
| | `CompletionKept` | `CompletedIsFinal` (of steps) |
| | `FailureStopsSending` | `NoStartAfterFailure` (of steps) |
| `OrchestrationRuntimeProofs` | `TurnsAreRecorded` | `LiveIsRecorded` |
| | `DiskIsTheStore` | `DiskMatchesStore` |
| | `FilesAreOfTheTurn` | `CompletedShowsItsTurn` |
| | `RunImplemented` | `ImplementsRun` (the refinement) |
| | `NothingIsOrphaned` | `NoOrphanNode` |
| | `RoleIsDelivered` | `RoleDelivered` |
| `AgentProcessProofs` | `CancelledIsNeverWritten` | `CancelHolds` |
| | `InputIsInOrder` | `ReadInOrder` |
| | `ShutdownEndsTheTree` | `StoppedIsGone` |
| `DeadlineTimerProofs` | `NeverOversleeps` | `SleepsNoLonger` |
| `CodexHostProofs` | `HostTypes` | `TypeOK` |
| | `NeverTwoServing` | `OneServing` |
| `CodexRouterProofs` | `TablesStayTogether` | `TablesAgree` |
| | `AnsweredOnce` | `OneAnswer` |
| | `RootsInOrder` | `RootOrder` |
| `PromptDeliveryProofs` | `DeliveredOnce` | `ReadAndKeptOnce` |
| | `StopIsFinal` | `StopHolds` |
| | `QueueShowsWhatWaits` | `QueueIsWaiting` |
| `StreamFlowProofs` | `ViewIsExact` | `ViewExact` |
| | `BacklogIsBounded` | `BacklogBounded` |

None of these properties is inductive as it stands. The strengthening of each,
and why its parts are needed:

**`OrchestrationRunProofs`**: `Inv == TypeOK /\ AncestorsCompleted /\ ParallelBound
/\ StateMatchesNodes /\ OutputSaved`. A node is sent when its *direct*
dependencies are completed, and only `AncestorsCompleted` for those gives the
ancestors further away (with `AncestorsClosed`). `SlotExclusive` follows from
`AncestorsCompleted` and `SlotOrdered`: of two nodes in one slot one is an
ancestor of the other and so completed. `ParallelBound` needs that no step but a
send adds a node in flight (`InFlightStep`). `NoStartAfterFailure` needs
`StateMatchesNodes`: with a failed node the run is not `Running`, and only then
does `begin_send` act. `NodesFinite` is used for cardinalities only.

**`OrchestrationRuntimeProofs`**: `LiveIsRecorded` could be broken by a queued
send that begins the node again, a queued finish or failure that ends it, or by
the operation at work, whose copies of the record are older or newer than the
installed one. `RuntimeInv` says why none does: a look is queued once and last,
and nothing behind a send concerns its node (`QueueOrder`); what the operation at
work still writes is its own commit or what a look found (`BusyWork`); a live node
is in flight in the installed record *and* in the store, but for the moment after
a stop was saved (`LiveTurns`, `StopSaved`); a saved send is in flight (`Begun`);
and the three copies of the record agree where they must (`Installed`,
`QuietRecord`, `DiskMatchesStore`). `FilesInv` adds what relates the files to the
record: every queued finish, every turn a stop captured and every write still to
come is of its node's last attempt (`Fresh`), no stop waits behind a send of a
node it captured (`StopOrder`), and a completion is committed when both files are
of its attempt (`FilesFirst`). That the walks of the code visit finitely many
slots needs `SlotsFinite`.

`RunImplemented` is the refinement: the saved record and the outputs change only by
steps of `OrchestrationRun`. The record's operations do not look at the graph
(`begin_send` tests that the node waits and the run goes), so what the scheduler
saw when it decided must still hold when its change is committed, after whatever
was queued in between. `SchedInv` says that it does. The nodes a queued send needs
are completed in the store, and completion is final; a failure without an epoch is
of a node that needed only completed ones; whatever else is queued carries the
epoch, turn and attempt its abstract step is for (`Paid`). The nodes in flight in
the store, with those whose send is queued, at work or decided by the look in
progress, are at most `MaxParallel` (`Room`): a look is made only when the looks
before it were worked off, and counts what they left. Turns are counted from 1
(`Numbered`), a node in flight has an epoch (`Timed`), and what it rests on is completed
(`Founded`), so that no two nodes of a slot are in flight. The theorem assumes
`Unbounded`: `Epoch`, `Turn`, `Attempt` and `Conversation` hold every number the
program can count to. `TLC` gives these sets a few elements and the abstract
specification draws from them, so with smaller sets an id beyond the bound would
have no abstract step; the code bounds none of them. With the assumptions on
`Epoch` and the none-values `Unbounded` is satisfied by the positive naturals.

By this theorem the theorems of `OrchestrationRunProofs` speak of the saved run of
the program: whatever the queue, the failures and the restarts, a node that runs
or ran has its ancestors completed, two nodes never share a conversation at once,
the parallel limit holds, a completed node has its output on disk and stays
completed.

`NothingIsOrphaned`: for a node in flight something that ends it must still be to
come, or its turn went silent by one of the faults `MayGoSilent` names. `OrphanInv`
follows the node through its turn (`CaredFor`): its send has just been saved; its
slot waits for it and a turn is sent, runs, died with its session or may have gone
silent (`HostsLive`); or the failure or finish that ends it is queued or at work,
under the epoch the node is in flight under. That a finish ends the node needs more
than its presence, since `complete` (`run.rs:255`) ignores a turn the record does not
know: `TurnKnown` says that the record knows the turn, or that the accept that names
it comes first. Accepts of earlier turns are never behind a send (`AcceptOrder`), a
saved stop left nothing in flight (`StopQuiet`), a change that is due is written
unless the error shows (`StoreWorks`, `CommitLast`), and a look starts only slots
without a session (`StartsAbsent`).

`RoleIsDelivered`: the record remembers of a slot only *that* it was opened, and
which conversation it had. `RoleInv` says that a slot recorded as opened was given
its role, in memory and on disk, and in the conversation the record names unless it
runs Claude (`OpenedGiven`); that queued sends which leave the role out, and queued
accepts, are of such slots, and a send goes to a session whose conversation is saved
(`QueueTold`, `SavesFirst`, `LookSaves`); that a session with a turn sent or
at work was given it, one that resumes does so with the saved conversation, and a Claude slot no crash or exit
can interrupt keeps one conversation (`HostTold`). The proof needs that an id given
to a conversation is never the one that means none: `ConversationsNumbered`.

**`AgentProcessProofs`**: the properties speak of the two ends of the path, the
tickets and what the CLI has read. `ProcessInv` says where each batch is: the
queued ones are those in `pending`, the started ones are read, in the pipe or with
the writer, all in the order of acceptance, and a writer that ended while the CLI
still reads has left nothing behind (`OrderInv`); a process that is gone has no
tree (`Tree`).

**`DeadlineTimerProofs`**: `SleepsNoLonger` says nothing of a task between its look
and its wait. `TimerInv` adds that outside the callback the timer is set to the
table's earliest deadline (`Armed`), that a sleeping task sleeps to exactly that
(`Sleeping`), and that one about to wait holds a permit or still the right instant
(`Suspending`).

**`CodexHostProofs`**: an acquisition looks at the slot, so `HostInv` says that the
slot knows every process that serves: it is the one being started, or the one the
slot refers to and some tab holds (`SlotKnows`, `Starts`), and the tabs of a host
are its sessions (`Sessions`), since `detach` decides by them who is the last.

**`CodexRouterProofs`**: `TablesAgree` and `OneAnswer` are broken by a reply that comes
too late.
`RouterInv` adds that a route, and a send under way, has its tab (`Registered`);
what is asked of a tab or held for one the server still waits for, and no answer
is ever held (`Tables`); a request has one answer at most, in some hand or with
its tab, and none while its route is open (`Once`); an input is queued once and
only while its ticket says so (`Tickets`); and a request reported as not sent was
cancelled, wherever the report is on its way (`Unsent`). A plan is arbitrary: the
proof does not depend on the five of the run. `RootOrder` speaks of the inboxes, and
what a claim will hand over is not there yet. `OrderInv` follows a root thread's
notifications all the way (`OnWay`): those given to any tab, those in the reader's
hand and those held in `early_messages` together have nothing lost within an opening;
the last one said is among them, or a close came after all of them (`Latest`), so the
next one follows; the hand and the held list are each in order, of the present
opening, and later than what was given (`Coming`); and never do both have some of the
thread, which is why a claim cannot be overtaken. Besides, what is held for a thread
is its own (`OwnEvents`), no other hand has a root thread's (`Elsewhere`), and an
answer is not from a later opening than the present (`AnswersPast`), which gives
`Fresh` when the next notification arrives.

**`PromptDeliveryProofs`**: a refusal in the mail can start a prompt again, so
`DeliveryInv` counts it among the prompt's places: a prompt is in at most one of a
start or steer on its way up, a refusal on its way down, the admitted inputs, and
what the server has read (`OnePlace`); transcript and queue share nothing (`Kept`);
whatever names a prompt names one the user sent (`Origins`); a steer that may
still be retried was neither retried nor stopped (`Retries`). `QueueShowsWhatWaits`
compares what the tab has taken from its queue with what it was told, and an echo
takes only the front of the queue: so the server must echo in the order of the
queue. `WaitInv` says that it will (`Line`): of two queued prompts the first is
`Ahead` of the second wherever they are, in the mail, with the server, on the way up,
or about to be started again by a refusal, behind a second that was read or refused
as well. Besides, a queued prompt is somewhere or over (`Placed`); each prompt is
echoed once, after it was read (`EchoOnce`); the tab hears of a turn once and, after
a refusal for want of a turn, knows of none (`Turns`); `published_prompt` is the one
opening prompt not yet echoed (`Opened`); and the two halves of the property hold by
the count of prompts per text (`Counted`).

**`StreamFlowProofs`**: what the view is given was decided by the loop several
steps before, and the backlog is read and changed by two threads. `FlowInv` adds
that one checkpoint is asked for at a time and the state tells whether the loop is
at output or at a checkpoint (`Asked`); that what either side has *read* of the
backlog bounds what it is by the time it acts (`Capped`); that the counter is the
sum of the bytes in the queue, on the socket and about to be put (`Counted`); and
that until a checkpoint fails each frame of output continues the frame before it,
from the view through socket and queue to the loop (`Exact`). The sum over the
queue is a recursive function, and what it is for a longer or shorter queue is
proved by taking the shortest prefix that has no partial sums (`SumsExist`,
`BytesAre`): the library's induction theorems cannot be used here, because they
take an operator, but a least element of a set of numbers (`LeastNumber`, from
`NatLessThanWellFounded`) serves as well.

Each proof has a lemma per action or group of actions and, under it, a step per
conjunct the action can disturb; facts about sequences and finite sets that
several of them need are lemmas at the head of the module. `Types` in these
modules is a `TypeOK` without the bounds that only make the state space finite.

Some definitions were restated so that they can be reasoned about, with the same
meaning: the order of reading (`ReadInOrder`) by positions, the withdrawal of a
queued input (`Without`, `SteerNotSent`) by `RemoveAt`, the walks of a look
(`ListedNodes`, `ListedSlots`) and of `CancelInputs` as any list that satisfies the
order, not as one computed by a fold.

**Only model-checked:**

- liveness (`RunEndsUnlessSilent`, `CatchesUp`, `EndIsAnnounced`, `QueueDrains`, `Settles`,
  `WaitersServed`, `NoOrphanHost`, `Finishes`, `IdleNoticesSilence`, `Delivered`,
  `EveryPromptIsShown`): fairness and `ENABLED` are beyond the prover;
- `TransfersWhole`, `WholeAndInOrder`: orders and counts over several queues at once;
- `VerdictExact` and `CycleIsReal` of graph validation, whose reference definitions are
  recursive operators;
- the `TypeOK` of the modules without proofs documents the variables.

## 5. Plan

Done: the graph, the record, the runtime and its refinement, the child process and
its timer, the Codex host and router, prompt delivery, the stream flow, the
channel's queue and pump; proofs for all of these but the last two. Next, in this
order:

1. `SendQueue` and `ChannelPump`: whole transfers and whole messages, in the style of
   `StreamFlowProofs!Exact`.
2. An abstract specification of the signals `OrchestrationRuntime` relies on,
   shown to be implemented by the session lifecycle and the controller.
3. The agent update transaction; remote host and client; agent teams.

## 6. Not modelled

`PROJECT.json` gives the reason per component. In short: restore, branches,
teams, updates and the remote host are protocols still to be modelled; the
DeepSeek host repeats the sharing of the Codex host over HTTP; the `PendingInbox`
policy of `delivery.rs` (`snapshot`, `removed`, `promoted`) needs the DeepSeek
session with it; commands, questions and approvals of the controller do not touch
the queue of prompts. Cryptography, the terminal engine, rendering, the
self-updater, the mobile bindings and vendored code are data transformations,
platform I/O or third-party code, and by far the largest part of the repository.
