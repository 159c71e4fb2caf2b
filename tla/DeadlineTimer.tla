--------------------------- MODULE DeadlineTimer ----------------------------
(***************************************************************************)
(* The task that expires requests: a timer set to the earliest deadline    *)
(* of a table of requests, and the callback that takes what is overdue.    *)
(*                                                                         *)
(* Source: crates/agent/src/subprocess/requests.rs, and the table's side   *)
(* in crates/agent/src/codex/app_server/host/router.rs                     *)
(*                                                                         *)
(* The table has its own lock; the timer is set while that lock is held,   *)
(* so adding, finishing and expiring each set it in the same step.  The    *)
(* worker reads the timer, suspends and runs the callback in steps of its  *)
(* own.                                                                    *)
(***************************************************************************)
EXTENDS Naturals, FiniteSets, FiniteSetsExt

CONSTANTS
    Request,
    Timeout,   \* the timeouts of the request classes
    MaxTime    \* bound: instants

ASSUME TimerAssumption ==
    /\ Timeout \subseteq Nat \ {0} /\ MaxTime \in Nat
    /\ \A d \in Timeout : d <= MaxTime

Never == MaxTime + 1   \* no deadline

VARIABLES
    now,
    deadline,  \* per request in the table: its deadline; Never when not in it
    fresh,     \* requests not sent yet
    next,      \* State.next
    stopped,   \* State.stopped
    permit,    \* the stored permit of Shared.changed
    worker,    \* run_deadlines
    until      \* the instant a suspended worker sleeps until

vars == <<now, deadline, fresh, next, stopped, permit, worker, until>>

Instant == 0..Never

TypeOK ==
    /\ now \in 0..MaxTime
    /\ deadline \in [Request -> Instant] /\ fresh \subseteq Request
    /\ \A r \in fresh : deadline[r] = Never
    /\ next \in Instant /\ until \in Instant
    /\ stopped \in BOOLEAN /\ permit \in BOOLEAN
    /\ worker \in {"look", "suspend", "wait", "call", "done"}

Init ==
    /\ now = 0 /\ deadline = [r \in Request |-> Never] /\ fresh = Request
    /\ next = Never /\ stopped = FALSE /\ permit = FALSE
    /\ worker = "look" /\ until = Never

Earliest(d) == Min({d[r] : r \in Request} \cup {Never})

(* Notify::notify_one.                                                      *)
NotifyOne ==
    IF worker = "wait" THEN worker' = "look" /\ permit' = permit
                       ELSE worker' = worker /\ permit' = TRUE

(* TimerHandle::set.                                                        *)
Set(to) ==
    IF ~stopped /\ next # to
       THEN next' = to /\ NotifyOne
       ELSE UNCHANGED <<next, worker, permit>>

(* The table's side: prepare_outgoing adds, a reply removes; both then      *)
(* refresh_timer.                                                           *)
Refresh(d) == deadline' = d /\ Set(Earliest(d))

Add(r, class) ==
    /\ r \in fresh /\ now + class <= MaxTime
    /\ fresh' = fresh \ {r}
    /\ Refresh([deadline EXCEPT ![r] = now + class])
    /\ UNCHANGED <<now, stopped, until>>

Finish(r) ==
    /\ deadline[r] # Never
    /\ Refresh([deadline EXCEPT ![r] = Never])
    /\ UNCHANGED <<now, fresh, stopped, until>>

(* DeadlineTimer::drop.                                                     *)
Stop ==
    /\ ~stopped /\ stopped' = TRUE /\ NotifyOne
    /\ UNCHANGED <<now, deadline, fresh, next, until>>

Tick ==
    /\ now < MaxTime /\ now' = now + 1
    /\ UNCHANGED <<deadline, fresh, next, stopped, permit, worker, until>>

-----------------------------------------------------------------------------
(* run_deadlines.                                                           *)

(* The look under the lock: an expired deadline is taken out.               *)
Look ==
    /\ worker = "look"
    /\ \/ stopped /\ worker' = "done" /\ UNCHANGED <<next, until>>
       \/ ~stopped /\ next <= now /\ next' = Never /\ worker' = "call" /\ until' = until
       \/ ~stopped /\ next > now /\ until' = next /\ worker' = "suspend" /\ next' = next
    /\ UNCHANGED <<now, deadline, fresh, stopped, permit>>

MutSuspend ==
    /\ worker = "suspend"
    /\ permit' = FALSE /\ worker' = "wait"
    /\ UNCHANGED <<now, deadline, fresh, next, stopped, until>>

(* notified().await, or the select with the sleep: a stored permit ends the *)
(* wait at once.                                                            *)
Suspend ==
    /\ worker = "suspend"
    /\ permit' = FALSE
    /\ worker' = IF permit THEN "look" ELSE "wait"
    /\ UNCHANGED <<now, deadline, fresh, next, stopped, until>>

SleepEnds ==
    /\ worker = "wait" /\ until <= now /\ worker' = "look"
    /\ UNCHANGED <<now, deadline, fresh, next, stopped, permit, until>>

(* The callback, expire_requests: what is overdue leaves the table and the  *)
(* timer is set again.                                                      *)
Expire ==
    /\ worker = "call"
    /\ LET d == [r \in Request |-> IF deadline[r] <= now THEN Never ELSE deadline[r]]
       IN  /\ deadline' = d
           /\ worker' = "look"
           /\ IF ~stopped /\ next # Earliest(d)
                 THEN next' = Earliest(d) /\ permit' = TRUE
                 ELSE UNCHANGED <<next, permit>>
    /\ UNCHANGED <<now, fresh, stopped, until>>

Next ==
    \/ \E r \in Request : Finish(r) \/ \E class \in Timeout : Add(r, class)
    \/ Stop \/ Tick \/ Look \/ Suspend \/ SleepEnds \/ Expire

Spec == Init /\ [][Next]_vars

-----------------------------------------------------------------------------

(* A worker that sleeps has seen the last change, whichever order adds,     *)
(* replies, expiries and the stop came in and wherever they fell between its*)
(* look and its wait: it never sleeps past the earliest deadline in the     *)
(* table, nor through a stop.                                               *)
SleepsNoLonger == worker = "wait" => ~stopped /\ until = Earliest(deadline)
====
