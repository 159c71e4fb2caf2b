----------------------------- MODULE CodexHost ------------------------------
(***************************************************************************)
(* How Codex tabs come to share one app-server process: acquiring it,      *)
(* starting it once for all who wait, and stopping it with its last tab.   *)
(*                                                                         *)
(* Source: crates/agent/src/codex/app_server/host/mod.rs, and the ends of  *)
(* a session in crates/agent/src/codex/app_server/mod.rs                   *)
(*                                                                         *)
(* Tabs start on runtime threads and leave on others, so they interleave   *)
(* between every lock.  One launch (one HostSlot) is modelled; launches do *)
(* not meet.  Each tab sends one request.                                  *)
(***************************************************************************)
EXTENDS Naturals, FiniteSets

CONSTANTS
    Tab,
    MaxHosts,   \* bound: processes started
    Cancels     \* whether an acquisition may be cancelled

ASSUME HostAssumption == MaxHosts \in Nat \ {0} /\ Cancels \in BOOLEAN

Host == 1..MaxHosts
NoHost == 0

VARIABLES
    slot,      \* SharedHost: Idle with a weak reference, or Starting
    used,      \* hosts started so far
    start,     \* per host: the shared start future
    alive,     \* per host: Router.alive
    stdin,     \* per host: the process's input is open
    expected,  \* per host: expected_shutdown
    pc,        \* per tab
    at,        \* per tab: the host it waits for or holds
    sessions,  \* per host: Router.sessions
    request    \* per tab: its one request

hostVars == <<used, start, alive, stdin, expected>>
vars == <<slot, hostVars, pc, at, sessions, request>>

Idle(g) == [kind |-> "idle", host |-> g]
Starting(g) == [kind |-> "starting", host |-> g]

TypeOK ==
    /\ slot \in [kind : {"idle", "starting"}, host : Host \cup {NoHost}]
    /\ used \in 0..MaxHosts
    /\ start \in [Host -> {"none", "spawn", "init", "ready", "ok", "failed"}]
    /\ alive \in [Host -> BOOLEAN] /\ stdin \in [Host -> BOOLEAN]
    /\ expected \in [Host -> BOOLEAN]
    /\ pc \in [Tab -> {"idle", "wait", "got", "open", "last", "left", "failed"}]
    /\ at \in [Tab -> Host \cup {NoHost}]
    /\ \A t \in Tab : at[t] # NoHost <=> pc[t] \in {"wait", "got", "open", "last"}
    /\ sessions \in [Host -> SUBSET Tab]
    /\ request \in [Tab -> {"none", "pending", "answered", "rejected", "exit", "lost"}]

Init ==
    /\ slot = Idle(NoHost) /\ used = 0
    /\ start = [g \in Host |-> "none"]
    /\ alive = [g \in Host |-> FALSE] /\ stdin = [g \in Host |-> FALSE]
    /\ expected = [g \in Host |-> FALSE]
    /\ pc = [t \in Tab |-> "idle"] /\ at = [t \in Tab |-> NoHost]
    /\ sessions = [g \in Host |-> {}]
    /\ request = [t \in Tab |-> "none"]

(* Who holds the host's Arc: tabs, and the finished future while somebody   *)
(* still has it.                                                            *)
Held(g) == \E t \in Tab : at[t] = g /\ pc[t] \in {"wait", "got", "open", "last"}

-----------------------------------------------------------------------------
(* acquire.                                                                 *)

Found ==
    /\ slot.kind = "idle" /\ slot.host # NoHost
    /\ Held(slot.host) /\ alive[slot.host]

(* Under the slot's lock: take the running host, join the start in progress *)
(* or begin one.                                                            *)
MutJoins == FALSE
Joins == slot.kind = "starting"

Acquire(t) ==
    /\ pc[t] = "idle"
    /\ \/ /\ Found
          /\ pc' = [pc EXCEPT ![t] = "got"] /\ at' = [at EXCEPT ![t] = slot.host]
          /\ UNCHANGED <<slot, hostVars>>
       \/ /\ ~Found /\ Joins
          /\ pc' = [pc EXCEPT ![t] = "wait"] /\ at' = [at EXCEPT ![t] = slot.host]
          /\ UNCHANGED <<slot, hostVars>>
       \/ /\ ~Found /\ ~Joins /\ used < MaxHosts
          /\ used' = used + 1
          /\ slot' = Starting(used + 1)
          /\ start' = [start EXCEPT ![used + 1] = "spawn"]
          /\ pc' = [pc EXCEPT ![t] = "wait"] /\ at' = [at EXCEPT ![t] = used + 1]
          /\ UNCHANGED <<alive, stdin, expected>>
    /\ UNCHANGED <<sessions, request>>

(* The shared future runs only while some tab polls it.                     *)
Polled(g) == \E t \in Tab : pc[t] = "wait" /\ at[t] = g

Spawn(g) ==
    /\ start[g] = "spawn" /\ Polled(g)
    /\ \/ /\ start' = [start EXCEPT ![g] = "init"]
          /\ alive' = [alive EXCEPT ![g] = TRUE] /\ stdin' = [stdin EXCEPT ![g] = TRUE]
       \/ start' = [start EXCEPT ![g] = "failed"] /\ UNCHANGED <<alive, stdin>>
    /\ UNCHANGED <<slot, used, expected, pc, at, sessions, request>>

(* The server's answer to initialize, kept in the oneshot channel whether or*)
(* not anybody polls.                                                       *)
InitAnswer(g) ==
    /\ start[g] = "init" /\ alive[g]
    /\ start' = [start EXCEPT ![g] = "ready"]
    /\ UNCHANGED <<slot, used, alive, stdin, expected, pc, at, sessions, request>>

(* start() returns the host, which the "initialized" line can still refuse. *)
StartDone(g) ==
    /\ start[g] = "ready" /\ Polled(g)
    /\ start' = [start EXCEPT ![g] = "ok"]
    /\ UNCHANGED <<slot, used, alive, stdin, expected, pc, at, sessions, request>>

MutStartFails(g) ==
    /\ start[g] = "ready" /\ Polled(g)
    /\ start' = [start EXCEPT ![g] = "failed"]
    /\ expected' = [expected EXCEPT ![g] = TRUE]
    /\ stdin' = [stdin EXCEPT ![g] = FALSE]
    /\ UNCHANGED <<slot, used, alive, pc, at, sessions, request>>

(* An error answer, the timeout, the process's end or a refused line: the   *)
(* half-built host is dropped, which shuts it down.                         *)
StartFails(g) ==
    /\ start[g] \in {"init", "ready"} /\ Polled(g)
    /\ start' = [start EXCEPT ![g] = "failed"]
    /\ expected' = [expected EXCEPT ![g] = TRUE]
    /\ stdin' = [stdin EXCEPT ![g] = FALSE]
    /\ UNCHANGED <<slot, used, alive, pc, at, sessions, request>>

(* After the await: the first to lock the slot again records the result.    *)
Records(g) == slot = Starting(g)

Started(t) ==
    /\ pc[t] = "wait" /\ start[at[t]] \in {"ok", "failed"}
    /\ LET g == at[t]  ok == start[g] = "ok" IN
        /\ slot' = IF Records(g) THEN Idle(IF ok THEN g ELSE NoHost) ELSE slot
        /\ pc' = [pc EXCEPT ![t] = IF ok THEN "got" ELSE "failed"]
        /\ at' = [at EXCEPT ![t] = IF ok THEN g ELSE NoHost]
    /\ UNCHANGED <<hostVars, sessions, request>>

(* The acquisition is cancelled; a start nobody polls stays in the slot.    *)
Cancel(t) ==
    /\ Cancels /\ pc[t] = "wait" /\ start[at[t]] \in {"spawn", "init", "ready"}
    /\ pc' = [pc EXCEPT ![t] = "left"] /\ at' = [at EXCEPT ![t] = NoHost]
    /\ UNCHANGED <<slot, hostVars, sessions, request>>

-----------------------------------------------------------------------------
(* A session on its host.                                                   *)

Register(t) ==
    /\ pc[t] = "got"
    /\ pc' = [pc EXCEPT ![t] = "open"]
    /\ sessions' = [sessions EXCEPT ![at[t]] = @ \cup {t}]
    /\ UNCHANGED <<slot, hostVars, at, request>>

(* host.send: refused locally once the host is known to be gone.            *)
Send(t) ==
    /\ pc[t] = "open" /\ request[t] = "none"
    /\ request' = [request EXCEPT ![t] =
                     IF alive[at[t]] /\ stdin[at[t]] THEN "pending" ELSE "rejected"]
    /\ UNCHANGED <<slot, hostVars, pc, at, sessions>>

Answer(t) ==
    /\ pc[t] = "open" /\ request[t] = "pending" /\ alive[at[t]]
    /\ request' = [request EXCEPT ![t] = "answered"]
    /\ UNCHANGED <<slot, hostVars, pc, at, sessions>>

(* Session::shutdown up to host.detach, which says whether it was the last. *)
Detach(t) ==
    /\ pc[t] = "open"
    /\ LET g == at[t]  rest == sessions[at[t]] \ {t} IN
        /\ sessions' = [sessions EXCEPT ![g] = rest]
        /\ pc' = [pc EXCEPT ![t] = IF rest = {} THEN "last" ELSE "left"]
        /\ at' = [at EXCEPT ![t] = IF rest = {} THEN g ELSE NoHost]
    /\ request' = [request EXCEPT ![t] = IF @ = "pending" THEN "none" ELSE @]
    /\ UNCHANGED <<slot, hostVars>>

MutShutdownHost(t) ==
    /\ pc[t] = "last"
    /\ UNCHANGED <<expected, stdin>>
    /\ pc' = [pc EXCEPT ![t] = "left"] /\ at' = [at EXCEPT ![t] = NoHost]
    /\ UNCHANGED <<slot, used, start, alive, sessions, request>>

(* host.shutdown, and the end of this tab's Arc.                            *)
ShutdownHost(t) ==
    /\ pc[t] = "last"
    /\ expected' = [expected EXCEPT ![at[t]] = TRUE]
    /\ stdin' = [stdin EXCEPT ![at[t]] = FALSE]
    /\ pc' = [pc EXCEPT ![t] = "left"] /\ at' = [at EXCEPT ![t] = NoHost]
    /\ UNCHANGED <<slot, used, start, alive, sessions, request>>

(* What on_stdout_closed does to a tab's request: the route is cleared, and *)
(* the tab is told of the end only when nobody asked for it.                *)
Notice(t) == IF expected[at[t]] THEN "lost" ELSE "exit"

(* The process ends, by itself or because its input closed.                 *)
ProcessEnds(g) ==
    /\ alive[g]
    /\ alive' = [alive EXCEPT ![g] = FALSE]
    /\ request' = [t \in Tab |-> IF t \in sessions[g] /\ request[t] = "pending"
                                  THEN Notice(t) ELSE request[t]]
    /\ UNCHANGED <<slot, used, start, stdin, expected, pc, at, sessions>>

Next ==
    \/ \E t \in Tab : Acquire(t) \/ Started(t) \/ Cancel(t) \/ Register(t)
                      \/ Send(t) \/ Answer(t) \/ Detach(t) \/ ShutdownHost(t)
    \/ \E g \in Host : Spawn(g) \/ InitAnswer(g) \/ StartDone(g)
                       \/ StartFails(g) \/ ProcessEnds(g)

Spec == Init /\ [][Next]_vars

(* Threads go on, the start times out, and a process whose input is closed  *)
(* is ended (JsonLineProcess::shutdown with force).                         *)
Fairness ==
    /\ \A t \in Tab : WF_vars(Started(t)) /\ WF_vars(Register(t)) /\ WF_vars(Send(t))
                      /\ WF_vars(ShutdownHost(t))
    /\ \A g \in Host : WF_vars(Spawn(g)) /\ WF_vars(StartDone(g))
                       /\ WF_vars(StartFails(g))
                       /\ WF_vars(~stdin[g] /\ ProcessEnds(g))

FairSpec == Spec /\ Fairness

-----------------------------------------------------------------------------
(* Properties.                                                              *)

(* "Concurrent acquisitions of the same launch await one startup result"    *)
(* (mod.rs:40): never two serving processes for one launch, even when a     *)
(* host dies while late acquirers still record the start that made it, or   *)
(* the initiator is cancelled half-way.                                     *)
OneServing == Cardinality({g \in Host : alive[g] /\ ~expected[g]}) <= 1

(* A tab that waits for a start gets its result, also when the tab that     *)
(* began the start has gone.                                                *)
WaitersServed == \A t \in Tab : pc[t] = "wait" ~> pc[t] # "wait"

(* A process no tab holds and no start still owns is ended.                 *)
NoOrphanHost ==
    \A g \in Host : alive[g] /\ ~Held(g) /\ slot # Starting(g)
                     ~> ~alive[g] \/ Held(g)

====
