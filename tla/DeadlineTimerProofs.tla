------------------------ MODULE DeadlineTimerProofs -------------------------
(***************************************************************************)
(* The deadline timer never oversleeps, for every set of requests, every   *)
(* set of timeouts and every bound on time.                                *)
(*                                                                         *)
(* SleepsNoLonger says nothing of a worker that has looked and is about to *)
(* wait, nor of what the timer is set to, so it is not inductive.  TimerInv*)
(* adds both: outside the callback the timer is set to the table's earliest*)
(* deadline, and a worker about to wait either has a permit stored or still*)
(* holds the instant the timer is set to.                                  *)
(***************************************************************************)
EXTENDS DeadlineTimer, TLAPS

Armed == ~stopped /\ worker # "call" => next = Earliest(deadline)
Sleeping == worker = "wait" => ~stopped /\ until = next
Suspending == worker = "suspend" => permit \/ (~stopped /\ until = next)
TimerInv == Armed /\ Sleeping /\ Suspending

(* A table without deadlines has Never as its earliest.                     *)
LEMMA EarliestOfNone == Earliest([r \in Request |-> Never]) = Never
<1> DEFINE none == [r \in Request |-> Never]
<1> DEFINE S == {none[q] : q \in Request} \cup {Never}
<1>1. S = {Never}
  OBVIOUS
<1>2. Never \in Nat
  BY TimerAssumption DEF Never
<1>3. \E x \in {Never} : \A y \in {Never} : x =< y
  BY <1>2
<1>4. Min({Never}) \in {Never}
  BY <1>3 DEF Min
<1> QED
  BY <1>1, <1>4 DEF Earliest

(* What notify_one does to a worker: no worker waits afterwards, and one    *)
(* about to wait has a permit.                                              *)
LEMMA NotifyWakes ==
    ASSUME NotifyOne
    PROVE  /\ worker' # "wait"
           /\ worker' = "suspend" => permit' = TRUE
           /\ worker' = "call" <=> worker = "call"
  BY DEF NotifyOne

(* Refreshing the timer for a changed table keeps the invariant, whatever   *)
(* the worker is doing.                                                     *)
LEMMA RefreshKeeps ==
    ASSUME TimerInv, NEW d, Refresh(d), stopped' = stopped, until' = until
    PROVE  TimerInv'
<1>1. CASE ~stopped /\ next # Earliest(d)
  <2>1. next' = Earliest(d) /\ deadline' = d /\ NotifyOne
    BY <1>1 DEF Refresh, Set
  <2>2. Armed'
    BY <2>1 DEF Armed, Earliest
  <2> QED
    BY <2>1, <2>2, NotifyWakes DEF TimerInv, Sleeping, Suspending
<1>2. CASE stopped \/ next = Earliest(d)
  <2>1. UNCHANGED <<next, worker, permit>> /\ deadline' = d
    BY <1>2 DEF Refresh, Set
  <2>2. Armed'
    BY <1>2, <2>1 DEF Armed, Earliest
  <2> QED
    BY <2>1, <2>2 DEF TimerInv, Sleeping, Suspending
<1> QED
  BY <1>1, <1>2

(* The timer is armed before anything is sent.                              *)
LEMMA InitTimer == Init => TimerInv
  BY EarliestOfNone DEF Init, TimerInv, Armed, Sleeping, Suspending

(* Every step keeps the invariant.                                          *)
LEMMA StepTimer == TimerInv /\ [Next]_vars => TimerInv'
<1> SUFFICES ASSUME TimerInv, [Next]_vars PROVE TimerInv'
  OBVIOUS
<1> USE DEF TimerInv
<1>1. ASSUME NEW r \in Request, NEW class \in Timeout, Add(r, class) PROVE TimerInv'
  BY <1>1, RefreshKeeps DEF Add
<1>2. ASSUME NEW r \in Request, Finish(r) PROVE TimerInv'
  BY <1>2, RefreshKeeps DEF Finish
<1>3. CASE Stop
  BY <1>3, NotifyWakes DEF Stop, Armed, Sleeping, Suspending
<1>4. CASE Tick
  BY <1>4 DEF Tick, Armed, Sleeping, Suspending, Earliest
<1>5. CASE Look
  BY <1>5 DEF Look, Armed, Sleeping, Suspending, Earliest
<1>6. CASE Suspend
  BY <1>6 DEF Suspend, Armed, Sleeping, Suspending, Earliest
<1>7. CASE SleepEnds
  BY <1>7 DEF SleepEnds, Armed, Sleeping, Suspending, Earliest
<1>8. CASE Expire
  <2>1. worker' = "look" /\ stopped' = stopped
    BY <1>8 DEF Expire
  <2>2. ~stopped => next' = Earliest(deadline')
    BY <1>8 DEF Expire
  <2>3. Armed'
    BY <2>1, <2>2 DEF Armed, Earliest
  <2> QED
    BY <2>1, <2>3 DEF Sleeping, Suspending
<1>9. CASE UNCHANGED vars
  BY <1>9 DEF vars, Armed, Sleeping, Suspending, Earliest
<1> QED
  BY <1>1, <1>2, <1>3, <1>4, <1>5, <1>6, <1>7, <1>8, <1>9 DEF Next

(* A sleeping worker wakes no later than the earliest deadline of the table *)
(* and never sleeps through a stop: no set, drop or expiry is lost between  *)
(* its look under the lock and its wait.                                    *)
THEOREM NeverOversleeps == Spec => []SleepsNoLonger
<1>1. TimerInv => SleepsNoLonger
  BY DEF TimerInv, Armed, Sleeping, SleepsNoLonger
<1> QED
  BY <1>1, InitTimer, StepTimer, PTL DEF Spec
====
