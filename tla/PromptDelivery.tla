--------------------------- MODULE PromptDelivery ---------------------------
(***************************************************************************)
(* What becomes of a prompt between the composer and the transcript of a   *)
(* Codex tab: admission, steering, the provider's echo, the stop button,   *)
(* recovery and the host's end.                                            *)
(*                                                                         *)
(* Source: crates/agent/src/session/delivery.rs, the turn handlers of      *)
(* session/controller/mod.rs, session/lifecycle.rs and the steering of     *)
(* codex/app_server/{mod,control,conversation}.rs.                         *)
(*                                                                         *)
(* The tab and the server run side by side, with a FIFO in each direction. *)
(* The tab's handlers run on one thread, each to its end.  A prompt's text *)
(* matters only by what it equals, so prompts are model values and Text    *)
(* says which of them read the same.                                       *)
(***************************************************************************)
EXTENDS Naturals, Sequences, FiniteSets, SequencesExt

CONSTANTS
    Prompt,         \* the prompts the user may submit
    Text,           \* [Prompt -> texts]
    NoText,
    MaxInterrupts,  \* bound: times the user presses stop
    Slow,           \* bound: the steers that may outlive their deadline
    MayExit         \* whether the host may stop

ASSUME DeliveryAssumption ==
    /\ DOMAIN Text = Prompt /\ NoText \notin {Text[p] : p \in Prompt}
    /\ MaxInterrupts \in Nat /\ Slow \subseteq Prompt /\ MayExit \in BOOLEAN

VARIABLES
    turn, active,  \* MessageDelivery.turn, active
    unanswered,    \* the turn whose prompt can be recovered, or 0
    pending,       \* prompts accepted behind a running turn
    opening,       \* published_prompt
    shown,         \* the transcript's user messages
    status,        \* SessionRuntime.status
    stopAsked,     \* pending_interrupt, or 0
    marked,        \* the turns shown as interrupted
    current,       \* ThreadState.current_turn: the server's turn, or 0
    op,            \* per prompt, its steer in ControlState: "none", "retry", "plain"
    up, down,      \* messages to the server and to the tab
    running,       \* the server's turn, or 0
    nextTurn,      \* the number of the server's next turn
    waiting,       \* the server's admitted inputs, not yet read
    spoke,         \* the running turn has produced output
    presses,       \* times stop was pressed
    taken,         \* history: inputs the server has read, in order
    steered,       \* history: prompts sent into a running turn
    echoed,        \* history: prompts whose echo the tab has processed
    stopped,       \* history: prompts a stop has taken the retry from
    lost,          \* history: prompts no server will read any more
    restarted,     \* history: prompts sent again as a new turn
    crossed        \* history: published_prompt was given up before its own echo

delivery == <<turn, active, unanswered, pending, opening, shown>>
runtime == <<status, stopAsked, marked>>
codex == <<current, op>>
server == <<running, nextTurn, waiting, spoke, taken>>
history == <<steered, echoed, stopped, lost, restarted, crossed>>
vars == <<delivery, runtime, codex, up, down, server, presses, history>>

TypeOK ==
    /\ turn \in Nat /\ active \in BOOLEAN /\ unanswered \in 0..turn
    /\ pending \in Seq(Prompt) /\ shown \in Seq(Prompt)
    /\ opening \in {Text[p] : p \in Prompt} \cup {NoText}
    /\ status \in {"Idle", "Running", "Exited"} /\ stopAsked \in 0..turn
    /\ current \in Nat /\ op \in [Prompt -> {"none", "retry", "plain"}]
    /\ running \in Nat /\ nextTurn \in Nat /\ waiting \in Seq(Prompt) /\ spoke \in BOOLEAN

Init ==
    /\ turn = 0 /\ active = FALSE /\ unanswered = 0
    /\ pending = <<>> /\ opening = NoText /\ shown = <<>>
    /\ status = "Idle" /\ stopAsked = 0 /\ marked = {}
    /\ current = 0 /\ op = [p \in Prompt |-> "none"]
    /\ up = <<>> /\ down = <<>>
    /\ running = 0 /\ nextTurn = 1 /\ waiting = <<>> /\ spoke = FALSE /\ taken = <<>>
    /\ presses = 0
    /\ steered = {} /\ echoed = {} /\ stopped = {} /\ lost = {} /\ restarted = {} /\ crossed = FALSE

Accepted == ToSet(shown) \cup ToSet(pending)
Start(p) == [kind |-> "start", prompt |-> p]
Steer(p, id) == [kind |-> "steer", prompt |-> p, turn |-> id]
Stop(id) == [kind |-> "stop", turn |-> id]

-----------------------------------------------------------------------------
(* The user.                                                                *)

BeginTurn == turn' = turn + 1 /\ active' = TRUE

(* send_user_message_with_skill with no current turn, and MessageDelivery's *)
(* StartedTurn.  A send the queue refuses changes nothing.                  *)
SubmitStarts(p) ==
    /\ status # "Exited" /\ p \notin Accepted /\ current = 0
    /\ up' = Append(up, Start(p))
    /\ BeginTurn
    /\ opening' = Text[p] /\ unanswered' = turn + 1
    /\ shown' = Append(shown, p)
    /\ crossed' = (crossed \/ opening # NoText)
    /\ UNCHANGED <<pending, runtime, codex, down, server, presses, steered, echoed,
                   stopped, lost, restarted>>

SubmitSteers(p) ==
    /\ status # "Exited" /\ p \notin Accepted /\ current # 0
    /\ up' = Append(up, Steer(p, current))
    /\ op' = [op EXCEPT ![p] = "retry"]
    /\ pending' = Append(pending, p)
    /\ steered' = steered \cup {p}
    /\ UNCHANGED <<turn, active, unanswered, opening, shown, runtime, current, down,
                   server, presses, echoed, stopped, lost, restarted, crossed>>

MutCancelSteeringRetries == op' = op
CancelSteeringRetries == op' = [p \in Prompt |-> IF op[p] = "retry" THEN "plain" ELSE op[p]]

(* interrupt_from_user: the prompt of a turn that has shown nothing goes    *)
(* back to the composer, and its provisional turn is closed.  The server is *)
(* told only if it has named its turn.                                      *)
Interrupt ==
    /\ status # "Exited" /\ presses < MaxInterrupts /\ presses' = presses + 1
    /\ stopAsked' = IF active THEN turn ELSE stopAsked
    /\ active' = (active /\ unanswered # turn)
    /\ unanswered' = 0
    /\ IF current # 0
          THEN /\ up' = Append(up, Stop(current))
               /\ CancelSteeringRetries
               /\ stopped' = stopped \cup {p \in Prompt : op[p] = "retry"}
          ELSE UNCHANGED <<up, op, stopped>>
    /\ UNCHANGED <<turn, pending, opening, shown, status, marked, current, down,
                   server, steered, echoed, lost, restarted, crossed>>

-----------------------------------------------------------------------------
(* The tab handles the next message.                                        *)

Receive(kind) == down # <<>> /\ Head(down).kind = kind /\ down' = Tail(down)

VisibleOutput == unanswered' = IF unanswered = turn THEN 0 ELSE unanswered

TurnStarted ==
    /\ Receive("started")
    /\ current' = Head(down).turn
    /\ status' = "Running"
    /\ IF active THEN UNCHANGED <<turn, active>> ELSE BeginTurn
    /\ UNCHANGED <<unanswered, pending, opening, shown, stopAsked, marked, op, up,
                   server, presses, history>>

MutOpeningEcho(p) == FALSE
OpeningEcho(p) == opening = Text[p]

FrontEcho(p) == pending # <<>> /\ Text[Head(pending)] = Text[p]

(* start_item of a user message, and echoed: the echo of the prompt that    *)
(* opened the turn is recognised first, then the front of the queue.        *)
Echo ==
    /\ Receive("echo")
    /\ LET p == Head(down).prompt IN
        /\ echoed' = echoed \cup {p}
        /\ crossed' = (crossed \/ (OpeningEcho(p) /\ p \in steered))
        /\ IF OpeningEcho(p)
              THEN opening' = NoText /\ UNCHANGED <<pending, shown>>
           ELSE IF FrontEcho(p)
              THEN /\ shown' = Append(shown, Head(pending))
                   /\ pending' = Tail(pending) /\ opening' = opening
           ELSE UNCHANGED <<opening, pending, shown>>
    /\ UNCHANGED <<turn, active, unanswered, runtime, codex, up, server, presses,
                   steered, stopped, lost, restarted>>

(* An item other than a user message, or an error the session goes on from. *)
Output ==
    /\ Receive("output")
    /\ VisibleOutput
    /\ UNCHANGED <<turn, active, pending, opening, shown, runtime, codex, up, server,
                   presses, history>>

TurnCompleted ==
    /\ Receive("completed")
    /\ current' = 0
    /\ stopAsked' = 0
    /\ marked' = IF stopAsked = turn /\ turn # 0 THEN marked \cup {turn} ELSE marked
    /\ status' = IF status = "Running" THEN "Idle" ELSE status
    /\ active' = FALSE /\ unanswered' = 0 /\ opening' = NoText
    /\ crossed' = (crossed \/ opening # NoText)
    /\ UNCHANGED <<turn, pending, shown, op, up, server, presses, steered, echoed, stopped,
                   lost, restarted>>

SteerAdmitted ==
    /\ Receive("admitted")
    /\ op' = [op EXCEPT ![Head(down).prompt] = "none"]
    /\ UNCHANGED <<delivery, runtime, current, up, server, presses, history>>

MutRetry(p) == UNCHANGED <<up, restarted, unanswered, lost>>

(* on_response of a steer: an explicit refusal for want of a turn is the    *)
(* only one that sends the input again, as a new turn, and the queue entry  *)
(* stays.  Any other failure is shown as an error.                          *)
Retry(p) ==
    /\ up' = Append(up, Start(p))
    /\ restarted' = restarted \cup {p}
    /\ UNCHANGED <<unanswered, lost>>

GiveUp(p, unread) ==
    /\ VisibleOutput
    /\ lost' = IF unread THEN lost \cup {p} ELSE lost
    /\ UNCHANGED <<up, restarted>>

SteerRefused ==
    /\ Receive("refused")
    /\ LET m == Head(down) IN
        /\ op' = [op EXCEPT ![m.prompt] = "none"]
        /\ CASE op[m.prompt] = "none" -> UNCHANGED <<unanswered, up, restarted>>
                                         /\ lost' = lost \cup {m.prompt}
             [] op[m.prompt] = "retry" /\ m.noTurn -> Retry(m.prompt)
             [] OTHER -> GiveUp(m.prompt, TRUE)
    /\ UNCHANGED <<turn, active, pending, opening, shown, runtime, current, server,
                   presses, steered, echoed, stopped, crossed>>

(* The router's deadline: the steer is taken back if it is still queued     *)
(* (CodexRouter), and its answer is an error; what the server says later is *)
(* dropped.                                                                 *)
MutTimedOut(p) == IF op[p] = "retry" THEN Retry(p) ELSE GiveUp(p, FALSE)
TimedOut(p) == GiveUp(p, FALSE)

SteerTimesOut(p) ==
    /\ p \in Slow /\ op[p] # "none" /\ status # "Exited"
    /\ op' = [op EXCEPT ![p] = "none"]
    /\ TimedOut(p)
    /\ UNCHANGED <<turn, active, pending, opening, shown, runtime, current, down, server,
                   presses, steered, echoed, stopped, crossed>>

(* As SteerTimesOut, for an input that never left.                          *)
SteerNotSent(p) ==
    /\ p \in Slow /\ op[p] # "none" /\ status # "Exited"
    /\ op' = [op EXCEPT ![p] = "none"]
    /\ \E k \in DOMAIN up : up[k].kind = "steer" /\ up[k].prompt = p /\ up' = RemoveAt(up, k)
    /\ VisibleOutput
    /\ lost' = lost \cup {p}
    /\ UNCHANGED <<turn, active, pending, opening, shown, runtime, current, down, server,
                   presses, steered, echoed, stopped, restarted, crossed>>

Published == shown \o pending

(* on_host_exit, failed(fatal) and publish_confirmed: what was accepted is  *)
(* written to the transcript before the diagnostic.                         *)
HostExited ==
    /\ Receive("exit")
    /\ status' = "Exited" /\ current' = 0 /\ op' = [p \in Prompt |-> "none"]
    /\ active' = FALSE /\ unanswered' = 0
    /\ shown' = Published /\ pending' = <<>>
    /\ UNCHANGED <<turn, opening, stopAsked, marked, up, server, presses, history>>

-----------------------------------------------------------------------------
(* The server, outside this program: it admits a steer of the turn that is  *)
(* running, reads admitted inputs one at a time, in this turn or one it     *)
(* opens for them, and echoes each as it reads it.                          *)

Send(m) == down' = Append(down, m)
Serving == status # "Exited" /\ ~(\E k \in DOMAIN down : down[k].kind = "exit")
Take(kind) == Serving /\ up # <<>> /\ Head(up).kind = kind /\ up' = Tail(up)
tab == <<delivery, runtime, codex, presses>>

Reads(p) ==
    /\ taken' = Append(taken, p)
    /\ down' = down \o (IF running = 0 THEN <<[kind |-> "started", turn |-> nextTurn]>> ELSE <<>>)
                    \o <<[kind |-> "echo", prompt |-> p]>>
    /\ running' = IF running = 0 THEN nextTurn ELSE running
    /\ nextTurn' = IF running = 0 THEN nextTurn + 1 ELSE nextTurn
    /\ spoke' = (running # 0 /\ spoke)

ServerStarts ==
    /\ Take("start")
    /\ LET p == Head(up).prompt IN
         IF running = 0 /\ waiting = <<>>
            THEN Reads(p) /\ waiting' = waiting
            ELSE waiting' = Append(waiting, p) /\ UNCHANGED <<running, nextTurn, spoke, taken, down>>
    /\ UNCHANGED <<tab, history>>

ServerSteers ==
    /\ Take("steer")
    /\ LET m == Head(up) IN
         IF running = m.turn
            THEN waiting' = Append(waiting, m.prompt) /\ Send([kind |-> "admitted", prompt |-> m.prompt])
            ELSE /\ Send([kind |-> "refused", prompt |-> m.prompt, noTurn |-> running = 0])
                 /\ waiting' = waiting
    /\ UNCHANGED <<tab, running, nextTurn, spoke, taken, history>>

(* A stopped turn drops what it has not read.                               *)
ServerStops ==
    /\ Take("stop")
    /\ IF running = Head(up).turn
          THEN /\ Send([kind |-> "completed"]) /\ running' = 0 /\ waiting' = <<>>
               /\ lost' = lost \cup ToSet(waiting)
          ELSE Send([kind |-> "output"]) /\ UNCHANGED <<running, waiting, lost>>
    /\ UNCHANGED <<tab, nextTurn, spoke, taken, steered, echoed, stopped, restarted,
                   crossed>>

ServerReads ==
    /\ Serving /\ waiting # <<>>
    /\ Reads(Head(waiting)) /\ waiting' = Tail(waiting)
    /\ UNCHANGED <<tab, up, history>>

ServerSpeaks ==
    /\ Serving /\ running # 0 /\ ~spoke /\ spoke' = TRUE
    /\ Send([kind |-> "output"])
    /\ UNCHANGED <<tab, up, running, nextTurn, waiting, taken, history>>

ServerCompletes ==
    /\ Serving /\ running # 0 /\ running' = 0
    /\ Send([kind |-> "completed"])
    /\ UNCHANGED <<tab, up, nextTurn, waiting, spoke, taken, history>>

ServerExits ==
    /\ Serving /\ MayExit
    /\ Send([kind |-> "exit"])
    /\ UNCHANGED <<tab, up, server, history>>

-----------------------------------------------------------------------------

TabHandles ==
    TurnStarted \/ Echo \/ Output \/ TurnCompleted \/ SteerAdmitted \/ SteerRefused \/ HostExited

Next ==
    \/ \E p \in Prompt : SubmitStarts(p) \/ SubmitSteers(p) \/ SteerTimesOut(p) \/ SteerNotSent(p)
    \/ Interrupt \/ TabHandles
    \/ ServerStarts \/ ServerSteers \/ ServerStops \/ ServerReads \/ ServerSpeaks
    \/ ServerCompletes \/ ServerExits

Spec == Init /\ [][Next]_vars

(* The tab handles what it is sent, and the server, an assumption on the    *)
(* environment, takes its messages and reads what it has admitted.          *)
Fairness ==
    /\ WF_vars(TabHandles)
    /\ WF_vars(ServerStarts \/ ServerSteers \/ ServerStops) /\ WF_vars(ServerReads)

FairSpec == Spec /\ Fairness

-----------------------------------------------------------------------------
(* Properties.                                                              *)

Once(s) == \A j, k \in DOMAIN s : s[j] = s[k] => j = k

(* "Starting it again is safe only for this explicit refusal, never for a   *)
(* timeout whose delivery outcome is unknown" (codex/app_server/mod.rs:981):*)
(* the server reads no prompt twice, and the transcript and the queue       *)
(* together hold every accepted prompt once, to the end of the host and     *)
(* past it.                                                                 *)
ReadAndKeptOnce ==
    /\ Once(taken) /\ Once(shown \o pending)
    /\ ToSet(taken) \cup echoed \cup stopped \cup lost \cup restarted \subseteq Accepted

(* "An explicit stop must not be undone by a late steering refusal"         *)
(* (codex/app_server/mod.rs:606): a prompt that was being steered into the  *)
(* turn the user stopped does not open a turn of its own afterwards.        *)
StopHolds == restarted \cap stopped = {}

(* The queue above the composer holds "prompts the harness accepted and has *)
(* not started" (controller/mod.rs:764), as long as each opening prompt was *)
(* recognised by its own echo.  Not early: the transcript has no more       *)
(* steered prompts of a text than the server has echoed.  Not late: a       *)
(* prompt is still queued after its echo only if one accepted before it was *)
(* lost.                                                                    *)
Alike(ps, p) == {q \in ps : Text[q] = Text[p]}
NotEarly ==
    \A p \in steered : Cardinality(Alike(steered \cap ToSet(shown), p))
                          <= Cardinality(Alike(steered \cap echoed, p))
NotLate ==
    \A k \in DOMAIN pending : pending[k] \in echoed =>
        lost \cap (ToSet(shown) \cup {pending[j] : j \in 1..(k - 1)}) # {}
QueueIsWaiting == status # "Exited" /\ ~crossed => NotEarly /\ NotLate

(* Once the user has submitted the last one, every accepted prompt reaches  *)
(* the transcript, however its steer races the turn's end - unless one was  *)
(* lost to a stop, a deadline or a refusal that names another turn.         *)
EveryPromptIsShown == <>[](Accepted \subseteq ToSet(shown) \/ lost # {})
====
