---------------------------- MODULE AgentProcess ----------------------------
(***************************************************************************)
(* JsonLineProcess: an agent CLI with piped stdio, and the queue its input *)
(* passes through.                                                         *)
(*                                                                         *)
(* Source: crates/agent/src/subprocess/{mod,input}.rs                      *)
(*                                                                         *)
(* Five parties interleave: the owner of the JsonLineProcess value, the    *)
(* holders of input tickets, and the writer, reader and exit tasks.  The   *)
(* command is often a shim that starts the real CLI, so the root process   *)
(* (whose exit is observed) and the CLI (which holds the pipes) are        *)
(* separate here.  The stderr task only forwards lines and is left out.    *)
(***************************************************************************)
EXTENDS Naturals, Sequences, FiniteSets, SequencesExt

CONSTANTS
    Input,        \* the batches the owner may submit
    Required,     \* those sent by write_line, whose refusal ends the process
    PipeCapacity, \* batches the stdin pipe holds before a write blocks
    MaxOutput,    \* bound: lines the CLI prints
    NoInput       \* no batch

ASSUME ProcessAssumption ==
    /\ Required \subseteq Input
    /\ PipeCapacity \in Nat \ {0}
    /\ MaxOutput \in Nat
    /\ NoInput \notin Input

VARIABLES
    ticket,     \* per batch: the ticket's state, "new" before submission
    pending,    \* QueueState.pending
    senderOpen, receiverOpen,
    permit,     \* the stored permit of Queue.ready
    writer,     \* the writer task
    batch,      \* the batch the writer has started
    kill,       \* the cancellation token
    stdin,      \* JsonLineProcess.stdin is Some
    call,       \* the batch of a write_tracked that has passed has_stdin
    pipe,       \* batches in the stdin pipe
    stdinRead,  \* the CLI still has its end of stdin open
    received,   \* batches the CLI has read, in order
    sawEof,     \* the CLI has read the end of its input
    root, cli,  \* the processes
    exitTask,   \* the task that owns the child and the job
    out,        \* lines in the stdout pipe
    printed,    \* lines printed so far
    reader,     \* the reader task
    started,    \* the reader has seen a protocol object
    shut,       \* the future returned by shutdown
    accepted,   \* batches submit_tracked accepted, in order
    told        \* batches whose cancel() returned true

queueVars == <<ticket, pending, senderOpen, receiverOpen, permit>>
writerVars == <<writer, batch>>
pipeVars == <<pipe, stdinRead, received, sawEof>>
treeVars == <<root, cli, exitTask>>
outVars == <<out, printed, reader, started>>
ownerVars == <<stdin, call, shut>>
vars == <<queueVars, writerVars, pipeVars, treeVars, outVars, ownerVars,
          kill, accepted, told>>

WriterOpen == writer # "done"   \* the writer's end of the stdin pipe
Line == {"object", "notice", "invalid"}

TypeOK ==
    /\ ticket \in [Input -> {"new", "queued", "started", "cancelled", "refused"}]
    /\ pending \in Seq(Input)
    /\ senderOpen \in BOOLEAN /\ receiverOpen \in BOOLEAN /\ permit \in BOOLEAN
    /\ writer \in {"look", "idle", "wait", "write", "drop", "done"}
    /\ batch \in Input \cup {NoInput}
    /\ kill \in BOOLEAN /\ stdin \in BOOLEAN
    /\ call \in Input \cup {NoInput}
    /\ pipe \in Seq(Input) /\ Len(pipe) <= PipeCapacity
    /\ stdinRead \in BOOLEAN /\ sawEof \in BOOLEAN
    /\ received \in Seq(Input)
    /\ root \in {"running", "exited"} /\ cli \in {"running", "exited"}
    /\ exitTask \in {"select", "drop", "wait", "done"}
    /\ out \in Seq(Line) /\ printed \in 0..MaxOutput
    /\ reader \in {"read", "fail", "closed", "done"}
    /\ started \in BOOLEAN
    /\ shut \in {"none", "grace", "graceForced", "forced", "ok", "err"}
    /\ accepted \in Seq(Input) /\ told \subseteq Input

Init ==
    /\ ticket = [i \in Input |-> "new"]
    /\ pending = <<>> /\ senderOpen = TRUE /\ receiverOpen = TRUE
    /\ permit = FALSE
    /\ writer = "look" /\ batch = NoInput
    /\ kill = FALSE /\ stdin = TRUE /\ call = NoInput
    /\ pipe = <<>> /\ stdinRead = TRUE /\ received = <<>> /\ sawEof = FALSE
    /\ root = "running" /\ cli = "running" /\ exitTask = "select"
    /\ out = <<>> /\ printed = 0 /\ reader = "read" /\ started = FALSE
    /\ shut = "none" /\ accepted = <<>> /\ told = {}

-----------------------------------------------------------------------------
(* The owner.  It holds the value mutably, so its calls are one at a time.  *)

HasStdin == stdin /\ ~kill

(* stdin.take(): the InputQueue is dropped.  A task that waits keeps no     *)
(* permit: the notification ends its wait instead.                          *)
NotifyOne ==
    IF writer = "wait" THEN writer' = "look" /\ permit' = permit
                       ELSE writer' = writer /\ permit' = TRUE

DropSender ==
    /\ stdin' = FALSE /\ senderOpen' = FALSE
    /\ IF stdin THEN NotifyOne ELSE UNCHANGED <<writer, permit>>

Abort == DropSender /\ kill' = TRUE

(* write_tracked up to its check; the writer may cancel the token between   *)
(* this and the submission.                                                 *)
WriteCall(i) ==
    /\ call = NoInput /\ ticket[i] = "new"
    /\ IF HasStdin
          THEN call' = i /\ UNCHANGED <<ticket, stdin, senderOpen, writer, permit, kill>>
          ELSE /\ ticket' = [ticket EXCEPT ![i] = "refused"]
               /\ call' = call
               /\ IF i \in Required THEN Abort
                  ELSE UNCHANGED <<stdin, senderOpen, writer, permit, kill>>
    /\ UNCHANGED <<pending, receiverOpen, batch, pipeVars, treeVars, outVars,
                   shut, accepted, told>>

SubmitAccepted ==
    /\ receiverOpen
    /\ pending' = Append(pending, call)
    /\ ticket' = [ticket EXCEPT ![call] = "queued"]
    /\ accepted' = Append(accepted, call)
    /\ NotifyOne
    /\ UNCHANGED <<kill, stdin, senderOpen>>

SubmitRefused ==
    /\ ~receiverOpen
    /\ ticket' = [ticket EXCEPT ![call] = "refused"]
    /\ Abort
    /\ UNCHANGED <<pending, accepted>>

SubmitTracked ==
    /\ call # NoInput /\ call' = NoInput
    /\ SubmitAccepted \/ SubmitRefused
    /\ UNCHANGED <<receiverOpen, batch, pipeVars, treeVars, outVars, shut, told>>

OwnerAborts ==
    /\ call = NoInput /\ shut = "none" /\ (stdin \/ ~kill)
    /\ Abort
    /\ UNCHANGED <<ticket, pending, receiverOpen, batch, call, pipeVars,
                   treeVars, outVars, shut, accepted, told>>

(* shutdown(wait, force); dropping the value is shutdown with force.        *)
Shutdown(force) ==
    /\ call = NoInput
    /\ shut = "none" \/ (shut = "err" /\ force)
    /\ DropSender
    /\ shut' = IF force THEN "graceForced" ELSE "grace"
    /\ UNCHANGED <<ticket, pending, receiverOpen, batch, call, pipeVars,
                   treeVars, outVars, kill, accepted, told>>

(* The future: the wait ends with the exit or, at any later time, with the  *)
(* timeout.                                                                 *)
ShutdownSeesExit ==
    /\ shut \in {"grace", "graceForced", "forced"} /\ exitTask = "done"
    /\ shut' = "ok"
    /\ UNCHANGED <<queueVars, writerVars, pipeVars, treeVars, outVars, stdin,
                   call, kill, accepted, told>>

ShutdownTimesOut ==
    /\ shut \in {"grace", "graceForced"}
    /\ IF shut = "grace" THEN shut' = "err" /\ kill' = kill
                         ELSE shut' = "forced" /\ kill' = TRUE
    /\ UNCHANGED <<queueVars, writerVars, pipeVars, treeVars, outVars, stdin,
                   call, accepted, told>>

-----------------------------------------------------------------------------
(* InputTicket::cancel, by any holder, in one critical section.             *)

(* position and remove: the first entry with this ticket, if any.           *)
Without(s, i) ==
    IF \E k \in DOMAIN s : s[k] = i
       THEN RemoveAt(s, CHOOSE k \in DOMAIN s : s[k] = i) ELSE s

MutMayCancel(i) == ticket[i] \in {"queued", "started", "cancelled"}

MayCancel(i) == ticket[i] \in {"queued", "cancelled"}

Cancel(i) ==
    /\ MayCancel(i) /\ i \notin told
    /\ pending' = Without(pending, i)
    /\ ticket' = [ticket EXCEPT ![i] = "cancelled"]
    /\ told' = told \cup {i}
    /\ UNCHANGED <<senderOpen, receiverOpen, permit, writerVars, pipeVars,
                   treeVars, outVars, ownerVars, kill, accepted>>

-----------------------------------------------------------------------------
(* The writer task.                                                         *)

(* One turn of recv's loop under the queue's lock, and the wait that        *)
(* follows it when there is nothing to take.                                *)
MutEndOfInput == ~senderOpen

EndOfInput == pending = <<>> /\ ~senderOpen

Recv ==
    /\ writer = "look"
    /\ \/ /\ pending # <<>>
          /\ batch' = Head(pending) /\ pending' = Tail(pending)
          /\ ticket' = [ticket EXCEPT ![Head(pending)] = "started"]
          /\ writer' = "write"
       \/ /\ EndOfInput
          /\ writer' = "drop" /\ UNCHANGED <<batch, pending, ticket>>
       \/ /\ pending = <<>> /\ senderOpen
          /\ writer' = "idle" /\ UNCHANGED <<batch, pending, ticket>>
    /\ UNCHANGED <<senderOpen, receiverOpen, permit, pipeVars, treeVars, outVars,
                   ownerVars, kill, accepted, told>>

(* ready.notified().await, after the lock is released: a stored permit ends *)
(* the wait at once.                                                        *)
MutNotified ==
    /\ writer = "idle"
    /\ writer' = "wait" /\ permit' = FALSE
    /\ UNCHANGED <<ticket, pending, senderOpen, receiverOpen, batch, pipeVars,
                   treeVars, outVars, ownerVars, kill, accepted, told>>

Notified ==
    /\ writer = "idle"
    /\ writer' = (IF permit THEN "look" ELSE "wait")
    /\ permit' = FALSE
    /\ UNCHANGED <<ticket, pending, senderOpen, receiverOpen, batch, pipeVars,
                   treeVars, outVars, ownerVars, kill, accepted, told>>

(* write_all and flush: blocks while the pipe is full.                      *)
Write ==
    /\ writer = "write" /\ stdinRead /\ Len(pipe) < PipeCapacity
    /\ pipe' = Append(pipe, batch)
    /\ writer' = "look" /\ batch' = NoInput
    /\ UNCHANGED <<queueVars, stdinRead, received, sawEof, treeVars, outVars,
                   ownerVars, kill, accepted, told>>

(* The CLI's end is closed.                                                 *)
WriteFails ==
    /\ writer = "write" /\ ~stdinRead
    /\ writer' = "drop" /\ batch' = NoInput /\ kill' = TRUE
    /\ UNCHANGED <<queueVars, pipeVars, treeVars, outVars, ownerVars, accepted, told>>

(* The task ends: InputReceiver::drop, and the pipe's end with it.          *)
DropReceiver ==
    /\ writer = "drop" /\ writer' = "done"
    /\ receiverOpen' = FALSE
    /\ pending' = <<>>
    /\ ticket' = [i \in Input |-> IF ticket[i] = "queued" THEN "cancelled" ELSE ticket[i]]
    /\ UNCHANGED <<senderOpen, permit, batch, pipeVars, treeVars, outVars,
                   ownerVars, kill, accepted, told>>

-----------------------------------------------------------------------------
(* The processes, outside this program.                                     *)

CliReads ==
    /\ cli = "running" /\ stdinRead
    /\ \/ /\ pipe # <<>>
          /\ received' = Append(received, Head(pipe)) /\ pipe' = Tail(pipe)
          /\ sawEof' = sawEof
       \/ /\ pipe = <<>> /\ ~WriterOpen /\ ~sawEof
          /\ sawEof' = TRUE /\ UNCHANGED <<received, pipe>>
    /\ UNCHANGED <<queueVars, writerVars, stdinRead, treeVars, outVars, ownerVars,
                   kill, accepted, told>>

CliClosesStdin ==
    /\ cli = "running" /\ stdinRead
    /\ stdinRead' = FALSE /\ pipe' = <<>>
    /\ UNCHANGED <<queueVars, writerVars, received, sawEof, treeVars, outVars,
                   ownerVars, kill, accepted, told>>

CliPrints(line) ==
    /\ cli = "running" /\ printed < MaxOutput
    /\ out' = Append(out, line) /\ printed' = printed + 1
    /\ UNCHANGED <<queueVars, writerVars, pipeVars, treeVars, reader, started,
                   ownerVars, kill, accepted, told>>

CliExits ==
    /\ cli = "running" /\ cli' = "exited"
    /\ stdinRead' = FALSE /\ pipe' = <<>>
    /\ UNCHANGED <<queueVars, writerVars, received, sawEof, root, exitTask,
                   outVars, ownerVars, kill, accepted, told>>

(* A shim ends after its CLI, or alone.                                     *)
RootExits ==
    /\ root = "running" /\ root' = "exited"
    /\ UNCHANGED <<queueVars, writerVars, pipeVars, cli, exitTask, outVars,
                   ownerVars, kill, accepted, told>>

-----------------------------------------------------------------------------
(* The exit task.                                                           *)

MutSeesEnd ==
    /\ exitTask = "select" /\ kill
    /\ exitTask' = "drop"
    /\ UNCHANGED <<queueVars, writerVars, pipeVars, root, cli, outVars, ownerVars,
                   kill, accepted, told>>

SeesEnd ==
    /\ exitTask = "select" /\ (root = "exited" \/ kill)
    /\ exitTask' = "drop"
    /\ UNCHANGED <<queueVars, writerVars, pipeVars, root, cli, outVars, ownerVars,
                   kill, accepted, told>>

MutEndTree == root' = "exited" /\ UNCHANGED <<cli, stdinRead, pipe>>

(* drop(job) ends what is left of the tree.                                 *)
EndTree == root' = "exited" /\ cli' = "exited" /\ stdinRead' = FALSE /\ pipe' = <<>>

DropJob ==
    /\ exitTask = "drop" /\ exitTask' = "wait"
    /\ EndTree
    /\ UNCHANGED <<queueVars, writerVars, received, sawEof, outVars, ownerVars,
                   kill, accepted, told>>

SendExited ==
    /\ exitTask = "wait" /\ root = "exited"
    /\ exitTask' = "done"
    /\ UNCHANGED <<queueVars, writerVars, pipeVars, root, cli, outVars, ownerVars,
                   kill, accepted, told>>

-----------------------------------------------------------------------------
(* The reader task.                                                         *)

(* read_messages on one line: plain notices are accepted only before the    *)
(* first object.                                                            *)
ReadLine ==
    /\ reader = "read" /\ out # <<>>
    /\ out' = Tail(out)
    /\ started' = (started \/ Head(out) = "object")
    /\ reader' = IF Head(out) = "object" \/ (Head(out) = "notice" /\ ~started)
                    THEN "read" ELSE "fail"
    /\ UNCHANGED <<queueVars, writerVars, pipeVars, treeVars, printed, ownerVars,
                   kill, accepted, told>>

ReadEof ==
    /\ reader = "read" /\ out = <<>> /\ cli = "exited"
    /\ reader' = "closed"
    /\ UNCHANGED <<queueVars, writerVars, pipeVars, treeVars, out, printed,
                   started, ownerVars, kill, accepted, told>>

(* The failure is delivered and the tree ended.                             *)
ReadFails ==
    /\ reader = "fail" /\ reader' = "closed"
    /\ kill' = TRUE
    /\ UNCHANGED <<queueVars, writerVars, pipeVars, treeVars, out, printed,
                   started, ownerVars, accepted, told>>

OnStdoutClosed ==
    /\ reader = "closed" /\ reader' = "done"
    /\ UNCHANGED <<queueVars, writerVars, pipeVars, treeVars, out, printed,
                   started, ownerVars, kill, accepted, told>>
-----------------------------------------------------------------------------

Next ==
    \/ \E i \in Input : WriteCall(i) \/ Cancel(i)
    \/ SubmitTracked \/ OwnerAborts
    \/ \E force \in BOOLEAN : Shutdown(force)
    \/ ShutdownSeesExit \/ ShutdownTimesOut
    \/ Recv \/ Notified \/ Write \/ WriteFails \/ DropReceiver
    \/ CliReads \/ CliClosesStdin \/ CliExits \/ RootExits
    \/ \E line \in Line : CliPrints(line)
    \/ SeesEnd \/ DropJob \/ SendExited
    \/ ReadLine \/ ReadEof \/ ReadFails \/ OnStdoutClosed

Spec == Init /\ [][Next]_vars

(* The runtime polls every task that is ready, an owner inside write_tracked *)
(* finishes it, and a timeout fires.  Nothing is assumed of the processes:   *)
(* they may hang, ignore their input, or never exit.                         *)
Fairness ==
    /\ WF_vars(SubmitTracked)
    /\ WF_vars(ShutdownSeesExit) /\ WF_vars(ShutdownTimesOut)
    /\ WF_vars(Recv) /\ WF_vars(Notified) /\ WF_vars(Write)
    /\ WF_vars(WriteFails) /\ WF_vars(DropReceiver)
    /\ WF_vars(SeesEnd) /\ WF_vars(DropJob) /\ WF_vars(SendExited)
    /\ WF_vars(ReadLine) /\ WF_vars(ReadEof) /\ WF_vars(ReadFails)
    /\ WF_vars(OnStdoutClosed)

FairSpec == Spec /\ Fairness

-----------------------------------------------------------------------------
(* Properties.                                                              *)

Elements(s) == {s[k] : k \in DOMAIN s}
Written == Elements(received) \cup Elements(pipe) \cup {batch}

(* "Cancellation removes the pending payload while holding the same lock    *)
(* used to start writes" (input.rs:47): a batch whose cancel() answered     *)
(* true is never written, whatever the writer was doing.                    *)
CancelHolds == told \cap Written = {}

(* What the CLI reads comes in the order in which it was accepted, each     *)
(* batch once, and nothing is skipped but what a holder cancelled.  Closing *)
(* the input is the graceful shutdown signal: a CLI that reads the end has  *)
(* read every batch that was accepted and that its holder did not cancel,   *)
(* even when shutdown came while batches were still queued.                 *)
Before(s, i, j) == \E a, b \in DOMAIN s : a < b /\ s[a] = i /\ s[b] = j

ReadInOrder ==
    /\ \A j, k \in DOMAIN received : j < k =>
          received[j] # received[k] /\ Before(accepted, received[j], received[k])
    /\ \A i \in Elements(accepted) \ told, r \in Elements(received) :
          Before(accepted, i, r) => i \in Elements(received)
    /\ Elements(received) \subseteq Elements(accepted)
    /\ sawEof => Elements(accepted) \ told \subseteq Elements(received)

(* A shutdown that reports success leaves no process of the tree behind,    *)
(* the CLI under an exited shim included; an update replaces the binary     *)
(* after it.                                                                *)
StoppedIsGone == shut = "ok" => root = "exited" /\ cli = "exited"

(* No wakeup is lost between the writer's empty check and its wait, from a  *)
(* submission or from the sender's end: accepted batches leave the queue    *)
(* unless the CLI has stopped reading and its pipe is full.                 *)
PipeFull == writer = "write" /\ stdinRead /\ Len(pipe) = PipeCapacity
Waiting == {i \in Input : ticket[i] = "queued"}
QueueDrains == Waiting # {} ~> Waiting = {} \/ PipeFull

(* However the process ends - killed by any party, its CLI or its shim gone,*)
(* its output unreadable - the reader announces the end, even if the CLI    *)
(* itself would have hung.                                                  *)
EndIsAnnounced == kill \/ root = "exited" \/ cli = "exited" ~> reader = "done"

====
