--------------------------- MODULE CodexHostProofs ---------------------------
(***************************************************************************)
(* One launch never has two serving Codex processes, for every set of tabs *)
(* and every number of processes started one after the other.              *)
(*                                                                         *)
(* OneServing says nothing of the slot, which is what an acquisition looks *)
(* at, so it is not inductive.  HostInv says that the slot knows every     *)
(* process that serves: it is the one being started, or the one the slot   *)
(* refers to and some tab holds.  The weak reference in the slot can only  *)
(* fail to upgrade once the last tab has gone, and by then the process has *)
(* been told to stop; for that, the tabs of a host must be its sessions    *)
(* (Detach decides by them who is the last).                               *)
(***************************************************************************)
EXTENDS CodexHost, FiniteSetTheorems, TLAPS

Serves(g) == alive[g] /\ ~expected[g]

SlotKnows == \A g \in Host : Serves(g) => slot = Starting(g) \/ (slot = Idle(g) /\ Held(g))

(* A start in progress is the slot's; what the slot refers to has started.  *)
Starts ==
    /\ \A g \in Host : start[g] \in {"spawn", "init", "ready"} => slot = Starting(g)
    /\ slot.kind = "starting" => slot = Starting(slot.host) /\ slot.host \in Host
    /\ \A g \in Host : slot = Idle(g) => start[g] = "ok"
    /\ \A g \in Host : start[g] = "failed" => ~Serves(g)
    /\ \A g \in Host : g > used => start[g] = "none"
    /\ \A g \in Host : start[g] \in {"none", "spawn"} => ~alive[g]

(* The sessions of a host are the tabs that have opened one on it.          *)
Sessions ==
    \A g \in Host : sessions[g] = {t \in Tab : pc[t] = "open" /\ at[t] = g}

HostInv == TypeOK /\ SlotKnows /\ Starts /\ Sessions

(* The states of the start, of the slot and of the tabs have their types.   *)
LEMMA StepTypes == HostInv /\ [Next]_vars => TypeOK'
<1> SUFFICES ASSUME HostInv, [Next]_vars PROVE TypeOK'
  OBVIOUS
<1>a. NoHost \notin Host
  BY HostAssumption DEF NoHost, Host
<1> USE <1>a DEF TypeOK, HostInv, Idle, Starting, hostVars
<1>1. ASSUME NEW t \in Tab, Acquire(t) PROVE TypeOK'
  <2>1. CASE Found \/ Joins
    <3>1. slot.host \in Host
      BY <2>1 DEF Starts, Joins, Found
    <3>2. \E p \in {"got", "wait"} : pc' = [pc EXCEPT ![t] = p]
      BY <1>1, <2>1 DEF Acquire
    <3>3. /\ at' = [at EXCEPT ![t] = slot.host]
          /\ UNCHANGED <<slot, used, start, alive, stdin, expected, sessions, request>>
      BY <1>1, <2>1 DEF Acquire
    <3> QED
      BY <3>1, <3>2, <3>3
  <2>2. CASE ~Found /\ ~Joins
    <3>1. used + 1 \in Host /\ used' \in 0..MaxHosts
      BY <1>1, <2>2, HostAssumption DEF Acquire, Host
    <3>2. /\ slot' = Starting(used + 1) /\ start' = [start EXCEPT ![used + 1] = "spawn"]
          /\ pc' = [pc EXCEPT ![t] = "wait"] /\ at' = [at EXCEPT ![t] = used + 1]
          /\ UNCHANGED <<alive, stdin, expected, sessions, request>>
      BY <1>1, <2>2 DEF Acquire
    <3> QED
      BY <3>1, <3>2
  <2> QED
    BY <2>1, <2>2
<1>2. ASSUME NEW t \in Tab, Started(t) PROVE TypeOK'
  BY <1>2 DEF Started
<1>3. ASSUME NEW t \in Tab, Cancel(t) PROVE TypeOK'
  BY <1>3 DEF Cancel
<1>4. ASSUME NEW t \in Tab, Register(t) PROVE TypeOK'
  BY <1>4 DEF Register
<1>5. ASSUME NEW t \in Tab, Send(t) \/ Answer(t) PROVE TypeOK'
  <2>1. \E q \in {"pending", "rejected", "answered"} : request' = [request EXCEPT ![t] = q]
    BY <1>5 DEF Send, Answer
  <2>2. UNCHANGED <<slot, used, start, alive, stdin, expected, pc, at, sessions>>
    BY <1>5 DEF Send, Answer
  <2> QED
    BY <2>1, <2>2
<1>6. ASSUME NEW t \in Tab, Detach(t) PROVE TypeOK'
  BY <1>6 DEF Detach
<1>7. ASSUME NEW t \in Tab, ShutdownHost(t) PROVE TypeOK'
  BY <1>7 DEF ShutdownHost
<1>8. ASSUME NEW g \in Host, Spawn(g) PROVE TypeOK'
  BY <1>8 DEF Spawn
<1>9. ASSUME NEW g \in Host, InitAnswer(g) \/ StartDone(g) PROVE TypeOK'
  BY <1>9 DEF InitAnswer, StartDone
<1>10. ASSUME NEW g \in Host, StartFails(g) PROVE TypeOK'
  BY <1>10 DEF StartFails
<1>11. ASSUME NEW g \in Host, ProcessEnds(g) PROVE TypeOK'
  BY <1>11 DEF ProcessEnds, Notice
<1>12. CASE UNCHANGED vars
  BY <1>12 DEF vars
<1> QED
  BY <1>1, <1>2, <1>3, <1>4, <1>5, <1>6, <1>7, <1>8, <1>9, <1>10, <1>11, <1>12 DEF Next

(* What an acquisition does when it finds no host and no start.             *)
LEMMA BeginsStart ==
    ASSUME HostInv, NEW t \in Tab, Acquire(t), ~Found, ~Joins
    PROVE  /\ used + 1 \in Host /\ used' = used + 1
           /\ slot' = Starting(used + 1) /\ slot # Starting(used + 1) /\ slot.kind = "idle"
           /\ start' = [start EXCEPT ![used + 1] = "spawn"]
           /\ pc[t] = "idle" /\ pc' = [pc EXCEPT ![t] = "wait"]
           /\ at' = [at EXCEPT ![t] = used + 1]
           /\ UNCHANGED <<alive, stdin, expected, sessions, request>>
           /\ \A g \in Host : ~Serves(g)
<1> USE DEF HostInv
<1>1. slot.kind = "idle" /\ slot = Idle(slot.host)
  BY DEF TypeOK, Joins, Idle
<1>2. ASSUME NEW g \in Host PROVE ~Serves(g)
  <2>1. Serves(g) => slot = Idle(g) /\ Held(g)
    BY <1>1 DEF SlotKnows, Starting
  <2>2. slot = Idle(g) => slot.kind = "idle" /\ slot.host = g /\ g # NoHost
    BY HostAssumption DEF Idle, Host, NoHost
  <2> QED
    BY <2>1, <2>2 DEF Found, Serves
<1>3. used + 1 \in Host
  BY HostAssumption DEF Acquire, Host, TypeOK
<1> QED
  BY <1>1, <1>2, <1>3 DEF Acquire, Starting

(* Starts come one at a time, and the slot refers only to a host that has   *)
(* started.                                                                 *)
LEMMA StepStarts == HostInv /\ [Next]_vars => Starts'
<1> SUFFICES ASSUME HostInv, [Next]_vars PROVE Starts'
  OBVIOUS
<1>a. NoHost \notin Host
  BY HostAssumption DEF NoHost, Host
<1> USE <1>a DEF HostInv, TypeOK, Starts, Serves, Idle, Starting, hostVars
<1>1. ASSUME NEW t \in Tab, Acquire(t) PROVE Starts'
  <2>1. CASE Found \/ Joins
    <3>1. UNCHANGED <<slot, used, start, alive, stdin, expected>>
      BY <1>1, <2>1 DEF Acquire
    <3> QED
      BY <3>1
  <2>2. CASE ~Found /\ ~Joins
    <3>1. /\ used + 1 \in Host /\ used' = used + 1 /\ slot.kind = "idle"
          /\ slot' = [kind |-> "starting", host |-> used + 1]
          /\ start' = [start EXCEPT ![used + 1] = "spawn"]
          /\ UNCHANGED <<alive, stdin, expected>>
      BY <1>1, <2>2, BeginsStart
    <3>2. start[used + 1] = "none"
      BY <3>1, HostAssumption DEF Host
    <3>3. \A g \in Host : start[g] \notin {"spawn", "init", "ready"}
      BY <3>1
    <3>4. \A g \in Host : start'[g] = IF g = used + 1 THEN "spawn" ELSE start[g]
      BY <3>1
    <3>5. \A g \in Host : g > used' => g > used /\ g # used + 1
      BY <3>1, HostAssumption DEF Host
    <3> QED
      BY <3>1, <3>2, <3>3, <3>4, <3>5
  <2> QED
    BY <2>1, <2>2
<1>2. ASSUME NEW t \in Tab, Started(t) PROVE Starts'
  <2>1. at[t] \in Host /\ start[at[t]] \in {"ok", "failed"}
    BY <1>2 DEF Started
  <2>2. UNCHANGED <<used, start, alive, stdin, expected>>
    BY <1>2 DEF Started
  <2>3. CASE Records(at[t])
    <3>1. slot' = Idle(IF start[at[t]] = "ok" THEN at[t] ELSE NoHost)
      BY <1>2, <2>3 DEF Started
    <3>2. \A g \in Host : slot = Starting(g) => g = at[t]
      BY <2>3 DEF Records
    <3> QED
      BY <2>1, <2>2, <3>1, <3>2
  <2>4. CASE ~Records(at[t])
    BY <1>2, <2>2, <2>4 DEF Started
  <2> QED
    BY <2>3, <2>4
<1>3. ASSUME NEW t \in Tab, \/ Cancel(t) \/ Register(t) \/ Send(t) \/ Answer(t) \/ Detach(t)
      PROVE  Starts'
  BY <1>3 DEF Cancel, Register, Send, Answer, Detach
<1>4. ASSUME NEW t \in Tab, ShutdownHost(t) PROVE Starts'
  BY <1>4 DEF ShutdownHost
<1>5. ASSUME NEW g \in Host, Spawn(g) PROVE Starts'
  BY <1>5 DEF Spawn
<1>6. ASSUME NEW g \in Host, InitAnswer(g) \/ StartDone(g) PROVE Starts'
  BY <1>6 DEF InitAnswer, StartDone
<1>7. ASSUME NEW g \in Host, StartFails(g) PROVE Starts'
  BY <1>7 DEF StartFails
<1>8. ASSUME NEW g \in Host, ProcessEnds(g) PROVE Starts'
  BY <1>8 DEF ProcessEnds
<1>9. CASE UNCHANGED vars
  BY <1>9 DEF vars
<1> QED
  BY <1>1, <1>2, <1>3, <1>4, <1>5, <1>6, <1>7, <1>8, <1>9 DEF Next

(* The sessions of a host stay the tabs that are open on it.                *)
LEMMA StepSessions == HostInv /\ [Next]_vars => Sessions'
<1> SUFFICES ASSUME HostInv, [Next]_vars PROVE Sessions'
  OBVIOUS
<1> USE DEF HostInv, TypeOK, Sessions, hostVars
<1>1. ASSUME NEW t \in Tab,
             Acquire(t) \/ Started(t) \/ Cancel(t) \/ ShutdownHost(t)
      PROVE  Sessions'
  <2>1. pc[t] # "open" /\ pc'[t] # "open" /\ sessions' = sessions
    BY <1>1 DEF Acquire, Started, Cancel, ShutdownHost
  <2>2. \A q \in Tab \ {t} : pc'[q] = pc[q] /\ at'[q] = at[q]
    BY <1>1 DEF Acquire, Started, Cancel, ShutdownHost
  <2> QED
    BY <2>1, <2>2
<1>2. ASSUME NEW t \in Tab, Register(t) PROVE Sessions'
  BY <1>2 DEF Register
<1>3. ASSUME NEW t \in Tab, Detach(t) PROVE Sessions'
  BY <1>3 DEF Detach
<1>4. ASSUME NEW t \in Tab, Send(t) \/ Answer(t) PROVE Sessions'
  BY <1>4 DEF Send, Answer
<1>5. ASSUME NEW g \in Host,
             Spawn(g) \/ InitAnswer(g) \/ StartDone(g) \/ StartFails(g) \/ ProcessEnds(g)
      PROVE  Sessions'
  BY <1>5 DEF Spawn, InitAnswer, StartDone, StartFails, ProcessEnds
<1>6. CASE UNCHANGED vars
  BY <1>6 DEF vars
<1> QED
  BY <1>1, <1>2, <1>3, <1>4, <1>5, <1>6 DEF Next

(* A step that neither makes a host serve nor takes one from the slot or    *)
(* from its tabs keeps the slot informed.                                   *)
LEMMA SlotStays ==
    ASSUME SlotKnows, slot' = slot,
           \A g \in Host : Serves(g)' => Serves(g),
           \A g \in Host : Serves(g)' /\ Held(g) => Held(g)'
    PROVE  SlotKnows'
  BY DEF SlotKnows, Idle, Starting

(* The slot keeps knowing every process that serves.                        *)
LEMMA StepSlot == HostInv /\ [Next]_vars => SlotKnows'
<1> SUFFICES ASSUME HostInv, [Next]_vars PROVE SlotKnows'
  OBVIOUS
<1>a. NoHost \notin Host
  BY HostAssumption DEF NoHost, Host
<1> USE <1>a DEF HostInv, TypeOK, hostVars
<1>1. ASSUME NEW t \in Tab, Acquire(t) PROVE SlotKnows'
  <2>1. CASE Found \/ Joins
    <3>1. /\ pc[t] = "idle" /\ UNCHANGED <<slot, alive, expected>>
          /\ \A q \in Tab \ {t} : pc'[q] = pc[q] /\ at'[q] = at[q]
      BY <1>1, <2>1 DEF Acquire
    <3> QED
      BY <3>1, SlotStays DEF Serves, Held
  <2>2. CASE ~Found /\ ~Joins
    BY <1>1, <2>2, BeginsStart DEF SlotKnows, Serves
  <2> QED
    BY <2>1, <2>2
<1>2. ASSUME NEW t \in Tab, Started(t) PROVE SlotKnows'
  <2>0. PICK h \in Host : h = at[t]
    BY <1>2 DEF Started
  <2>1. /\ at[t] = h /\ start[h] \in {"ok", "failed"} /\ pc[t] = "wait"
        /\ UNCHANGED <<alive, expected, start>>
        /\ \A q \in Tab \ {t} : pc'[q] = pc[q] /\ at'[q] = at[q]
    BY <1>2, <2>0 DEF Started
  <2>2. start[h] = "ok" => pc'[t] = "got" /\ at'[t] = h
    BY <1>2, <2>0 DEF Started
  <2>3. start[h] = "failed" => ~Serves(h)
    BY <2>1 DEF Starts
  <2>4. \A g \in Host : Serves(g) /\ Held(g) => Held(g)'
    BY <2>1, <2>2, <2>3 DEF Held
  <2>5. CASE Records(h)
    <3>1. slot' = Idle(IF start[h] = "ok" THEN h ELSE NoHost)
      BY <1>2, <2>0, <2>5 DEF Started
    <3>2. \A g \in Host : Serves(g) => g = h
      BY <2>5 DEF SlotKnows, Records, Starting, Idle
    <3>3. start[h] = "ok" => Held(h)'
      BY <2>1, <2>2 DEF Held
    <3>4. \A g \in Host : Serves(g)' => g = h /\ start[h] = "ok"
      BY <2>1, <2>3, <3>2 DEF Serves
    <3> QED
      BY <3>1, <3>3, <3>4 DEF SlotKnows
  <2>6. CASE ~Records(h)
    <3>1. slot' = slot
      BY <1>2, <2>0, <2>6 DEF Started
    <3> QED
      BY <2>1, <2>4, <3>1, SlotStays DEF Serves
  <2> QED
    BY <2>5, <2>6
<1>3. ASSUME NEW t \in Tab, Cancel(t) PROVE SlotKnows'
  <2>1. /\ start[at[t]] \in {"spawn", "init", "ready"} /\ at[t] \in Host
        /\ UNCHANGED <<slot, alive, expected>>
        /\ \A q \in Tab \ {t} : pc'[q] = pc[q] /\ at'[q] = at[q]
    BY <1>3 DEF Cancel
  <2>2. slot = Starting(at[t])
    BY <2>1 DEF Starts
  <2> QED
    BY <2>1, <2>2 DEF SlotKnows, Serves, Starting, Idle
<1>4. ASSUME NEW t \in Tab, Register(t) \/ Send(t) \/ Answer(t) PROVE SlotKnows'
  <2>1. /\ UNCHANGED <<slot, alive, expected, at>>
        /\ \A q \in Tab : pc'[q] = pc[q] \/ pc'[q] = "open"
    BY <1>4 DEF Register, Send, Answer
  <2> QED
    BY <2>1, SlotStays DEF Serves, Held
<1>5. ASSUME NEW t \in Tab, Detach(t) PROVE SlotKnows'
  <2>1. PICK h \in Host : h = at[t]
    BY <1>5 DEF Detach
  <2>2. /\ UNCHANGED <<slot, alive, expected>> /\ pc[t] = "open"
        /\ \A q \in Tab \ {t} : pc'[q] = pc[q] /\ at'[q] = at[q]
    BY <1>5 DEF Detach
  <2>3. sessions[h] \ {t} = {} => pc'[t] = "last" /\ at'[t] = h
    BY <1>5, <2>1 DEF Detach
  <2>4. \A q \in sessions[h] \ {t} : q \in Tab /\ pc[q] = "open" /\ at[q] = h
    BY DEF Sessions
  <2>5. Held(h)'
    BY <2>2, <2>3, <2>4 DEF Held
  <2>6. \A g \in Host : Held(g) => Held(g)'
    BY <2>1, <2>2, <2>5 DEF Held
  <2> QED
    BY <2>2, <2>6, SlotStays DEF Serves
<1>6. ASSUME NEW t \in Tab, ShutdownHost(t) PROVE SlotKnows'
  <2>1. /\ UNCHANGED <<slot, alive>> /\ expected' = [expected EXCEPT ![at[t]] = TRUE]
        /\ \A q \in Tab \ {t} : pc'[q] = pc[q] /\ at'[q] = at[q]
    BY <1>6 DEF ShutdownHost
  <2> QED
    BY <2>1, SlotStays DEF Serves, Held
<1>7. ASSUME NEW g \in Host, Spawn(g) PROVE SlotKnows'
  <2>1. slot = Starting(g) /\ UNCHANGED <<slot, expected, pc, at>>
    BY <1>7 DEF Spawn, Starts
  <2>2. \A k \in Host \ {g} : alive'[k] = alive[k]
    BY <1>7 DEF Spawn
  <2> QED
    BY <2>1, <2>2 DEF SlotKnows, Serves, Held, Starting, Idle
<1>8. ASSUME NEW g \in Host, InitAnswer(g) \/ StartDone(g) PROVE SlotKnows'
  BY <1>8, SlotStays DEF InitAnswer, StartDone, Serves, Held
<1>9. ASSUME NEW g \in Host, StartFails(g) PROVE SlotKnows'
  BY <1>9, SlotStays DEF StartFails, Serves, Held
<1>10. ASSUME NEW g \in Host, ProcessEnds(g) PROVE SlotKnows'
  BY <1>10, SlotStays DEF ProcessEnds, Serves, Held
<1>11. CASE UNCHANGED vars
  BY <1>11, SlotStays DEF vars, Serves, Held
<1> QED
  BY <1>1, <1>2, <1>3, <1>4, <1>5, <1>6, <1>7, <1>8, <1>9, <1>10, <1>11 DEF Next

-----------------------------------------------------------------------------

(* Nothing runs at first.                                                   *)
LEMMA InitHost == Init => HostInv
<1>1. NoHost \notin Host /\ 0 \in 0..MaxHosts
  BY HostAssumption DEF NoHost, Host
<1> QED
  BY <1>1, HostAssumption DEF Init, HostInv, TypeOK, SlotKnows, Starts, Sessions, Serves, Idle,
     Starting, Host, NoHost

(* The invariant holds in every reachable state.                            *)
LEMMA HostInvariant == Spec => []HostInv
<1>1. HostInv /\ [Next]_vars => HostInv'
  BY StepTypes, StepStarts, StepSessions, StepSlot DEF HostInv
<1> QED
  BY <1>1, InitHost, PTL DEF Spec

(* The slot, the starts and the tabs keep their types.                      *)
THEOREM HostTypes == Spec => []TypeOK
<1>1. HostInv => TypeOK
  BY DEF HostInv
<1> QED
  BY <1>1, HostInvariant, PTL

(* One launch has at most one serving process at a time, whoever began its  *)
(* start, cancelled it, left or came while it ended.                        *)
THEOREM NeverTwoServing == Spec => []OneServing
<1>1. HostInv => OneServing
  <2> SUFFICES ASSUME HostInv PROVE OneServing
    OBVIOUS
  <2> DEFINE S == {g \in Host : alive[g] /\ ~expected[g]}
  <2>1. \A g, h \in S : g = h
    BY DEF HostInv, SlotKnows, Serves, Starting, Idle
  <2>2. CASE S = {}
    BY <2>2, FS_EmptySet DEF OneServing
  <2>3. CASE \E g \in S : S = {g}
    BY <2>3, FS_Singleton DEF OneServing
  <2> QED
    BY <2>1, <2>2, <2>3
<1> QED
  BY <1>1, HostInvariant, PTL
====
