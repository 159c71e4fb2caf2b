------------------------- MODULE AgentProcessProofs -------------------------
(***************************************************************************)
(* The agent subprocess, for every set of batches, every pipe capacity and *)
(* every amount of output: a batch whose cancellation was confirmed is     *)
(* never written, the CLI reads the accepted batches in order and without  *)
(* a gap, and a shutdown that reports success has ended the whole tree.    *)
(*                                                                         *)
(* The three properties speak of the two ends of the path (the tickets and *)
(* what the CLI has read) and say nothing of the batches on their way.     *)
(* ProcessInv says where each batch is: the queued ones are those in       *)
(* pending, the started ones are read, in the pipe or with the writer as   *)
(* long as the CLI reads at all, all of them in the order of acceptance;   *)
(* and a writer that ends while the CLI still reads has left nothing       *)
(* behind, since only the owner's close of the queue ended it.             *)
(***************************************************************************)
EXTENDS AgentProcess, SequenceTheorems, TLAPS

(* The types of the batches' places.                                        *)
BatchTypes ==
    /\ ticket \in [Input -> {"new", "queued", "started", "cancelled", "refused"}]
    /\ pending \in Seq(Input) /\ pipe \in Seq(Input) /\ received \in Seq(Input)
    /\ accepted \in Seq(Input) /\ told \subseteq Input
    /\ batch \in Input \cup {NoInput} /\ call \in Input \cup {NoInput}
    /\ batch # NoInput <=> writer = "write"

(* Cancelled with the queue and not by a holder.                            *)
Dropped(i) == ticket[i] = "cancelled" /\ i \notin told

Sorted(s, log) == \A j, k \in DOMAIN s : j < k => Before(log, s[j], s[k])

Once(s) == \A a, b \in DOMAIN s : s[a] = s[b] => a = b

Tickets ==
    /\ \A i \in Input : ticket[i] \in {"queued", "started", "cancelled"} <=> i \in Elements(accepted)
    /\ \A i \in told : ticket[i] = "cancelled"
    /\ \A i \in Input : ticket[i] = "queued" <=> i \in Elements(pending)
    /\ \A i \in Elements(received) \cup Elements(pipe) : ticket[i] = "started"
    /\ batch # NoInput => ticket[batch] = "started"
    /\ call # NoInput => ticket[call] = "new"

Order ==
    /\ Sorted(pending, accepted) /\ Sorted(pipe, accepted) /\ Sorted(received, accepted)
    /\ \A r \in Elements(received), p \in Elements(pipe) : Before(accepted, r, p)
    /\ batch # NoInput => \A r \in Elements(received) \cup Elements(pipe) : Before(accepted, r, batch)
    /\ \A i, j \in Input :
         ticket[i] = "started" /\ (ticket[j] = "queued" \/ Dropped(j)) => Before(accepted, i, j)

Complete ==
    /\ stdinRead => \A i \in Input : ticket[i] = "started" =>
                      i \in Elements(received) \cup Elements(pipe) \cup {batch}
    /\ \A i \in Elements(accepted) \ told, r \in Elements(received) :
         Before(accepted, i, r) => i \in Elements(received)

Ends ==
    /\ receiverOpen <=> writer # "done"
    /\ ~senderOpen => call = NoInput
    /\ stdin => senderOpen
    /\ ~stdinRead => pipe = <<>>
    /\ \A i \in Input : Dropped(i) => writer = "done"
    /\ writer \in {"drop", "done"} /\ stdinRead =>
          ~senderOpen /\ \A i \in Input : ticket[i] # "queued" /\ ~Dropped(i)
    /\ sawEof => /\ writer = "done" /\ ~senderOpen
                 /\ Elements(accepted) \ told \subseteq Elements(received)

Tree ==
    /\ shut = "ok" => exitTask = "done"
    /\ exitTask \in {"wait", "done"} => root = "exited" /\ cli = "exited"

OrderInv == Once(accepted) /\ Tickets /\ Order /\ Complete /\ Ends

ProcessInv == BatchTypes /\ OrderInv /\ Tree

-----------------------------------------------------------------------------
(* Sequences.                                                               *)

(* What a batch appended to a queue adds.                                   *)
LEMMA AppendAdds ==
    ASSUME NEW S, NEW s \in Seq(S), NEW x \in S
    PROVE  /\ Append(s, x) \in Seq(S) /\ Len(Append(s, x)) = Len(s) + 1
           /\ \A k \in DOMAIN s : k \in DOMAIN Append(s, x) /\ Append(s, x)[k] = s[k]
           /\ \A k \in DOMAIN Append(s, x) :
                k \in DOMAIN s \/ (k = Len(s) + 1 /\ Append(s, x)[k] = x)
           /\ Elements(Append(s, x)) = Elements(s) \cup {x}
<1> DEFINE t == Append(s, x)
<1>1. /\ t \in Seq(S) /\ Len(t) = Len(s) + 1
      /\ \A k \in 1..Len(s) : t[k] = s[k]
      /\ t[Len(s) + 1] = x
  OBVIOUS
<1>2. Len(s) \in Nat /\ DOMAIN s = 1..Len(s) /\ DOMAIN t = 1..(Len(s) + 1)
  BY <1>1
<1> HIDE DEF t
<1>3. \A k \in DOMAIN t : k \in DOMAIN s \/ (k = Len(s) + 1 /\ t[k] = x)
  BY <1>1, <1>2
<1>4. \A k \in DOMAIN s : k \in DOMAIN t /\ t[k] = s[k]
  BY <1>1, <1>2
<1>5. Elements(t) \subseteq Elements(s) \cup {x}
  BY <1>3, <1>4 DEF Elements
<1>6. Elements(s) \cup {x} \subseteq Elements(t)
  BY <1>1, <1>2, <1>4 DEF Elements
<1> QED
  BY <1>1, <1>3, <1>4, <1>5, <1>6 DEF t

(* What taking the front of a queue leaves.                                 *)
LEMMA FrontLeaves ==
    ASSUME NEW S, NEW s \in Seq(S), s # <<>>
    PROVE  /\ Head(s) \in S /\ Tail(s) \in Seq(S) /\ Len(Tail(s)) = Len(s) - 1
           /\ Len(s) \in Nat /\ DOMAIN s = 1..Len(s) /\ Head(s) = s[1] /\ 1 \in DOMAIN s
           /\ \A k \in DOMAIN Tail(s) : k \in Nat \ {0} /\ k + 1 \in DOMAIN s /\ Tail(s)[k] = s[k + 1]
           /\ Elements(s) = Elements(Tail(s)) \cup {Head(s)}
<1> DEFINE t == Tail(s)
<1>1. /\ t \in Seq(S) /\ Len(t) = Len(s) - 1 /\ Head(s) \in S /\ Head(s) = s[1]
      /\ Len(s) \in Nat /\ Len(s) # 0
      /\ \A k \in 1..(Len(s) - 1) : t[k] = s[k + 1]
  BY HeadTailProperties
<1>2. DOMAIN s = 1..Len(s) /\ DOMAIN t = 1..(Len(s) - 1)
  BY <1>1
<1> HIDE DEF t
<1>3. \A k \in DOMAIN t : k \in Nat \ {0} /\ k + 1 \in DOMAIN s /\ t[k] = s[k + 1]
  BY <1>1, <1>2
<1>4. Elements(t) \cup {Head(s)} \subseteq Elements(s)
  BY <1>1, <1>2, <1>3 DEF Elements
<1>5. \A k \in DOMAIN s : k = 1 \/ (k - 1 \in DOMAIN t /\ s[k] = t[k - 1])
  BY <1>1, <1>2
<1>6. Elements(s) \subseteq Elements(t) \cup {Head(s)}
  BY <1>1, <1>5 DEF Elements
<1> QED
  BY <1>1, <1>2, <1>3, <1>4, <1>6 DEF t

(* What removing one entry leaves: the others, in their order.              *)
LEMMA RemoveLeaves ==
    ASSUME NEW S, NEW s \in Seq(S), NEW k \in DOMAIN s
    PROVE  /\ RemoveAt(s, k) \in Seq(S) /\ Len(RemoveAt(s, k)) = Len(s) - 1
           /\ Len(s) \in Nat \ {0} /\ DOMAIN s = 1..Len(s)
           /\ \A j \in 1..(Len(s) - 1) :
                RemoveAt(s, k)[j] = IF j < k THEN s[j] ELSE s[j + 1]
<1>1. Len(s) \in Nat \ {0} /\ k \in 1..Len(s) /\ DOMAIN s = 1..Len(s)
  OBVIOUS
<1>2. \A j \in 1..Len(s) : s[j] \in S
  BY <1>1
<1>3. PICK n \in Nat \ {0} : n = Len(s)
  BY <1>1
<1>4. PICK l : l = SubSeq(s, 1, k - 1)
  OBVIOUS
<1>5. PICK r : r = SubSeq(s, k + 1, n)
  OBVIOUS
<1>6. l \in Seq(S) /\ Len(l) = k - 1 /\ \A j \in 1..(k - 1) : l[j] = s[j]
  <2>1. 1 \in Int /\ k - 1 \in Int /\ \A j \in 1..(k - 1) : s[j] \in S
    BY <1>1, <1>2
  <2>2. /\ l \in Seq(S) /\ Len(l) = (IF 1 <= k - 1 THEN (k - 1) - 1 + 1 ELSE 0)
        /\ \A j \in 1..((k - 1) - 1 + 1) : l[j] = s[1 + j - 1]
    BY <1>4, <2>1, SubSeqProperties
  <2> QED
    BY <1>1, <2>2
<1>7. r \in Seq(S) /\ Len(r) = n - k /\ \A j \in 1..(n - k) : r[j] = s[k + j]
  <2>1. k + 1 \in Int /\ n \in Int /\ \A j \in (k + 1)..n : s[j] \in S
    BY <1>1, <1>2, <1>3
  <2>2. /\ r \in Seq(S) /\ Len(r) = (IF k + 1 <= n THEN n - (k + 1) + 1 ELSE 0)
        /\ \A j \in 1..(n - (k + 1) + 1) : r[j] = s[(k + 1) + j - 1]
    BY <1>5, <2>1, SubSeqProperties
  <2>3. \A j \in 1..(n - k) : j \in 1..(n - (k + 1) + 1) /\ (k + 1) + j - 1 = k + j
    BY <1>1, <1>3
  <2>4. (IF k + 1 <= n THEN n - (k + 1) + 1 ELSE 0) = n - k
    BY <1>1, <1>3
  <2> QED
    BY <2>2, <2>3, <2>4
<1>8. PICK c : c = l \o r /\ c = RemoveAt(s, k)
  BY <1>3, <1>4, <1>5 DEF RemoveAt
<1>9. /\ c \in Seq(S) /\ Len(c) = n - 1
      /\ \A j \in 1..(n - 1) : c[j] = IF j <= k - 1 THEN l[j] ELSE r[j - (k - 1)]
  <2>1. l \in Seq(S) /\ r \in Seq(S) /\ Len(l) = k - 1 /\ Len(r) = n - k
    BY <1>6, <1>7
  <2>2. /\ l \o r \in Seq(S) /\ Len(l \o r) = Len(l) + Len(r)
        /\ \A j \in 1..(Len(l) + Len(r)) :
             (l \o r)[j] = IF j <= Len(l) THEN l[j] ELSE r[j - Len(l)]
    BY <2>1, ConcatProperties, Zenon
  <2>3. /\ c \in Seq(S) /\ Len(c) = Len(l) + Len(r)
        /\ \A j \in 1..(Len(l) + Len(r)) :
             c[j] = IF j <= Len(l) THEN l[j] ELSE r[j - Len(l)]
    BY <1>8, <2>2, Zenon
  <2>4. (k - 1) + (n - k) = n - 1
    BY <1>1, <1>3
  <2> QED
    BY <2>1, <2>3, <2>4
<1>10. ASSUME NEW j \in 1..(n - 1)
       PROVE  c[j] = IF j < k THEN s[j] ELSE s[j + 1]
  <2>1. CASE j < k
    <3>1. j <= k - 1 /\ j \in 1..(k - 1)
      BY <1>1, <1>3, <2>1
    <3> QED
      BY <1>6, <1>9, <2>1, <3>1
  <2>2. CASE ~(j < k)
    <3>1. j - (k - 1) \in 1..(n - k) /\ k + (j - (k - 1)) = j + 1 /\ ~(j <= k - 1)
      BY <1>1, <1>3, <2>2
    <3> QED
      BY <1>7, <1>9, <2>2, <3>1
  <2> QED
    BY <2>1, <2>2
<1> QED
  BY <1>1, <1>3, <1>8, <1>9, <1>10

(* A batch taken out of a queue that holds each batch once.                 *)
LEMMA WithoutLeaves ==
    ASSUME NEW S, NEW s \in Seq(S), NEW i,
           \A a, b \in DOMAIN s : s[a] = s[b] => a = b
    PROVE  /\ Without(s, i) \in Seq(S)
           /\ Elements(Without(s, i)) = Elements(s) \ {i}
           /\ \A log : Sorted(s, log) => Sorted(Without(s, i), log)
<1>1. CASE \A k \in DOMAIN s : s[k] # i
  BY <1>1 DEF Without, Elements
<1>2. CASE \E k \in DOMAIN s : s[k] = i
  <2> DEFINE k == CHOOSE q \in DOMAIN s : s[q] = i
  <2> DEFINE t == RemoveAt(s, k)
  <2> DEFINE n == Len(s)
  <2>1. k \in DOMAIN s /\ s[k] = i /\ Without(s, i) = t
    BY <1>2 DEF Without
  <2> HIDE DEF k
  <2>2. /\ t \in Seq(S) /\ Len(t) = n - 1 /\ n \in Nat \ {0} /\ DOMAIN s = 1..n
        /\ \A j \in 1..(n - 1) : t[j] = IF j < k THEN s[j] ELSE s[j + 1]
    BY <2>1, RemoveLeaves
  <2> HIDE DEF t, n
  <2>3. DOMAIN t = 1..(n - 1)
    BY <2>2
  <2>4. \A j \in DOMAIN t : t[j] \in Elements(s) /\ t[j] # i
    <3> SUFFICES ASSUME NEW j \in 1..(n - 1) PROVE t[j] \in Elements(s) /\ t[j] # i
      BY <2>3
    <3>1. PICK q \in DOMAIN s : t[j] = s[q] /\ q # k
      <4>1. CASE j < k
        BY <2>2, <4>1
      <4>2. CASE ~(j < k)
        <5>1. j + 1 \in 1..n /\ j + 1 # k
          BY <2>1, <2>2, <4>2
        <5> QED
          BY <2>2, <4>2, <5>1
      <4> QED
        BY <4>1, <4>2
    <3> QED
      BY <2>1, <3>1 DEF Elements
  <2>5. \A j \in DOMAIN s : j # k => s[j] \in Elements(t)
    <3> SUFFICES ASSUME NEW j \in DOMAIN s, j # k PROVE \E q \in DOMAIN t : t[q] = s[j]
      BY DEF Elements
    <3>1. CASE j < k
      BY <2>1, <2>2, <2>3, <3>1
    <3>2. CASE j > k
      <4>1. j - 1 \in 1..(n - 1) /\ ~(j - 1 < k) /\ (j - 1) + 1 = j
        BY <2>1, <2>2, <3>2
      <4> QED
        BY <2>2, <2>3, <4>1
    <3> QED
      BY <2>1, <2>2, <3>1, <3>2
  <2>6. Elements(t) = Elements(s) \ {i}
    BY <2>1, <2>4, <2>5 DEF Elements
  <2>7. ASSUME NEW log, Sorted(s, log) PROVE Sorted(t, log)
    <3> SUFFICES ASSUME NEW a \in DOMAIN t, NEW b \in DOMAIN t, a < b
                 PROVE  Before(log, t[a], t[b])
      BY DEF Sorted
    <3> DEFINE u(c) == IF c < k THEN c ELSE c + 1
    <3>1. u(a) \in DOMAIN s /\ u(b) \in DOMAIN s /\ u(a) < u(b)
      BY <2>1, <2>2, <2>3
    <3>2. t[a] = s[u(a)] /\ t[b] = s[u(b)]
      BY <2>2, <2>3
    <3> QED
      BY <2>7, <3>1, <3>2 DEF Sorted
  <2> QED
    BY <2>1, <2>2, <2>6, <2>7
<1> QED
  BY <1>1, <1>2

-----------------------------------------------------------------------------
(* The order of acceptance.                                                 *)

(* In a log that holds each batch once, "before" is a strict total order.   *)
LEMMA BeforeIsOrder ==
    ASSUME NEW S, NEW log \in Seq(S), Once(log)
    PROVE  /\ \A i : ~Before(log, i, i)
           /\ \A i, j : ~(Before(log, i, j) /\ Before(log, j, i))
           /\ \A i, j \in Elements(log) : i = j \/ Before(log, i, j) \/ Before(log, j, i)
           /\ \A i, j : Before(log, i, j) => i \in Elements(log) /\ j \in Elements(log)
<1>1. Len(log) \in Nat /\ DOMAIN log = 1..Len(log)
  OBVIOUS
<1> QED
  BY <1>1 DEF Before, Once, Elements

(* A batch accepted last comes after every other, and moves none.           *)
LEMMA BeforeGrows ==
    ASSUME NEW S, NEW log \in Seq(S), NEW x \in S
    PROVE  /\ \A i, j : Before(log, i, j) => Before(Append(log, x), i, j)
           /\ \A i \in Elements(log) : Before(Append(log, x), i, x)
           /\ \A i, j : Before(Append(log, x), i, j) /\ j # x => Before(log, i, j)
           /\ Once(log) /\ x \notin Elements(log) => Once(Append(log, x))
           /\ \A s : Sorted(s, log) => Sorted(s, Append(log, x))
<1> DEFINE t == Append(log, x)
<1>1. /\ t \in Seq(S) /\ Len(t) = Len(log) + 1
      /\ \A k \in DOMAIN log : k \in DOMAIN t /\ t[k] = log[k]
      /\ \A k \in DOMAIN t : k \in DOMAIN log \/ (k = Len(log) + 1 /\ t[k] = x)
  BY AppendAdds
<1>2. /\ Len(log) \in Nat /\ DOMAIN log = 1..Len(log) /\ DOMAIN t = 1..(Len(log) + 1)
      /\ t[Len(log) + 1] = x
  BY <1>1
<1> HIDE DEF t
<1>3. \A i, j : Before(log, i, j) => Before(t, i, j)
  BY <1>1 DEF Before
<1>4. \A i \in Elements(log) : Before(t, i, x)
  BY <1>1, <1>2 DEF Before, Elements
<1>5. \A i, j : Before(t, i, j) /\ j # x => Before(log, i, j)
  BY <1>1, <1>2 DEF Before
<1>6. Once(log) /\ x \notin Elements(log) => Once(t)
  BY <1>1, <1>2 DEF Once, Elements
<1>7. \A s : Sorted(s, log) => Sorted(s, t)
  BY <1>3 DEF Sorted
<1> QED
  BY <1>3, <1>4, <1>5, <1>6, <1>7 DEF t

(* A sorted queue stays sorted behind a batch that comes after all of it.   *)
LEMMA SortedAppend ==
    ASSUME NEW S, NEW s \in Seq(S), NEW x \in S, NEW log,
           Sorted(s, log), \A e \in Elements(s) : Before(log, e, x)
    PROVE  Sorted(Append(s, x), log)
<1>1. Len(s) \in Nat /\ DOMAIN s = 1..Len(s)
  OBVIOUS
<1> QED
  BY <1>1, AppendAdds DEF Sorted, Elements

(* The front of a sorted queue comes before the rest, which is sorted.      *)
LEMMA SortedFront ==
    ASSUME NEW S, NEW s \in Seq(S), s # <<>>, NEW log, Sorted(s, log)
    PROVE  /\ Sorted(Tail(s), log)
           /\ \A e \in Elements(Tail(s)) : Before(log, Head(s), e)
  BY FrontLeaves DEF Sorted, Elements

(* A sorted queue holds each batch once.                                    *)
LEMMA SortedOnce ==
    ASSUME NEW S, NEW log \in Seq(S), Once(log), NEW s \in Seq(S), Sorted(s, log)
    PROVE  \A a, b \in DOMAIN s : s[a] = s[b] => a = b
<1>1. Len(s) \in Nat /\ DOMAIN s = 1..Len(s)
  OBVIOUS
<1> QED
  BY <1>1, BeforeIsOrder DEF Sorted

-----------------------------------------------------------------------------
(* Types and the process tree.                                              *)

(* Cancelling keeps the queue a sequence of batches.                        *)
LEMMA WithoutIsSeq ==
    ASSUME NEW S, NEW s \in Seq(S), NEW i
    PROVE  Without(s, i) \in Seq(S)
  BY RemoveLeaves DEF Without

(* A notification wakes a waiting writer and disturbs no other.             *)
LEMMA NotifyWakes ==
    ASSUME NotifyOne \/ DropSender \/ Abort
    PROVE  \A w \in {"write", "drop", "done"} : writer' = w <=> writer = w
  BY DEF NotifyOne, DropSender, Abort

(* Every step keeps batches what they are, wherever they are.               *)
LEMMA StepBatchTypes == BatchTypes /\ [Next]_vars => BatchTypes'
<1> SUFFICES ASSUME BatchTypes, [Next]_vars PROVE BatchTypes'
  OBVIOUS
<1> USE DEF BatchTypes
<1>1. ASSUME NEW i \in Input, WriteCall(i) PROVE BatchTypes'
  BY <1>1 DEF WriteCall, pipeVars, Abort, DropSender, NotifyOne
<1>2. ASSUME NEW i \in Input, Cancel(i) PROVE BatchTypes'
  BY <1>2, WithoutIsSeq DEF Cancel, writerVars, pipeVars, ownerVars
<1>3. CASE SubmitTracked
  <2>1. call \in Input
    BY <1>3 DEF SubmitTracked
  <2>2. CASE SubmitAccepted
    BY <1>3, <2>1, <2>2, AppendAdds DEF SubmitTracked, SubmitAccepted, NotifyOne, pipeVars
  <2>3. CASE SubmitRefused
    BY <1>3, <2>1, <2>3 DEF SubmitTracked, SubmitRefused, Abort, DropSender, NotifyOne, pipeVars
  <2> QED
    BY <1>3, <2>2, <2>3 DEF SubmitTracked
<1>4. CASE Recv
  <2>1. CASE pending # <<>>
    <3>1. Head(pending) \in Input /\ Tail(pending) \in Seq(Input)
      BY <2>1, FrontLeaves
    <3>2. /\ batch' = Head(pending) /\ pending' = Tail(pending) /\ writer' = "write"
          /\ ticket' = [ticket EXCEPT ![Head(pending)] = "started"]
          /\ UNCHANGED <<pipe, received, accepted, told, call>>
      BY <1>4, <2>1 DEF Recv, pipeVars, ownerVars, EndOfInput
    <3> QED
      BY <3>1, <3>2, ProcessAssumption
  <2> QED
    BY <1>4, <2>1 DEF Recv, pipeVars, ownerVars, EndOfInput
<1>5. CASE Write
  <2>1. batch \in Input
    BY <1>5 DEF Write
  <2> QED
    BY <1>5, <2>1, AppendAdds, ProcessAssumption DEF Write, queueVars, ownerVars
<1>6. CASE CliReads
  <2>1. CASE pipe # <<>>
    <3>1. /\ Head(pipe) \in Input /\ Tail(pipe) \in Seq(Input)
          /\ Append(received, Head(pipe)) \in Seq(Input)
      BY <2>1, FrontLeaves, AppendAdds
    <3> QED
      BY <1>6, <2>1, <3>1 DEF CliReads, queueVars, writerVars, ownerVars
  <2> QED
    BY <1>6, <2>1 DEF CliReads, queueVars, writerVars, ownerVars
<1>7. CASE CliClosesStdin \/ CliExits \/ DropJob
  <2>1. pipe' = <<>> /\ UNCHANGED <<ticket, pending, received, accepted, told, call, writerVars>>
    BY <1>7 DEF CliClosesStdin, CliExits, DropJob, EndTree, queueVars, ownerVars
  <2> QED
    BY <2>1 DEF writerVars
<1>8. CASE OwnerAborts \/ \E force \in BOOLEAN : Shutdown(force)
  <2>1. UNCHANGED <<ticket, pending, pipe, received, accepted, told, call, batch>>
    BY <1>8 DEF OwnerAborts, Shutdown, pipeVars
  <2>2. DropSender
    BY <1>8 DEF OwnerAborts, Shutdown, Abort
  <2> QED
    BY <2>1, <2>2, NotifyWakes
<1>9. CASE Notified \/ WriteFails \/ DropReceiver
  <2>1. CASE Notified \/ WriteFails
    BY <2>1, ProcessAssumption DEF Notified, WriteFails, queueVars, pipeVars, ownerVars
  <2>2. CASE DropReceiver
    BY <2>2 DEF DropReceiver, pipeVars, ownerVars
  <2> QED
    BY <1>9, <2>1, <2>2
<1>10. CASE \/ ShutdownSeesExit \/ ShutdownTimesOut \/ RootExits \/ SeesEnd \/ SendExited
            \/ ReadLine \/ ReadEof \/ ReadFails \/ OnStdoutClosed \/ UNCHANGED vars
            \/ \E line \in Line : CliPrints(line)
  BY <1>10 DEF ShutdownSeesExit, ShutdownTimesOut, RootExits, SeesEnd, SendExited, ReadLine,
               ReadEof, ReadFails, OnStdoutClosed, CliPrints, vars, queueVars, writerVars,
               pipeVars, ownerVars
<1> QED
  BY <1>1, <1>2, <1>3, <1>4, <1>5, <1>6, <1>7, <1>8, <1>9, <1>10 DEF Next

(* Every step keeps what the exit task has ended ended.                     *)
LEMMA StepTree == Tree /\ [Next]_vars => Tree'
  BY DEF Tree, Next, vars, queueVars, writerVars, pipeVars, treeVars, outVars, ownerVars,
         WriteCall, Cancel, SubmitTracked, OwnerAborts, Shutdown, ShutdownSeesExit,
         ShutdownTimesOut, Recv, Notified, Write, WriteFails, DropReceiver, CliReads,
         CliClosesStdin, CliExits, RootExits, CliPrints, SeesEnd, DropJob, EndTree, SendExited,
         ReadLine, ReadEof, ReadFails, OnStdoutClosed

-----------------------------------------------------------------------------
(* The places of the batches.                                               *)

placeVars == <<ticket, pending, batch, pipe, received, accepted, told, call, writer,
               senderOpen, receiverOpen, stdin, stdinRead, sawEof>>

(* Facts that hold whenever the invariant does, for the steps below.        *)
LEMMA Places ==
    ASSUME BatchTypes, OrderInv
    PROVE  /\ \A i : i \in Elements(accepted) => i \in Input
           /\ \A i : i \in Elements(pending) => i \in Input
           /\ \A i : i \in Elements(pipe) => i \in Input
           /\ \A i : i \in Elements(received) => i \in Input
           /\ \A i : ~Before(accepted, i, i)
           /\ \A i, j : ~(Before(accepted, i, j) /\ Before(accepted, j, i))
           /\ \A i, j \in Elements(accepted) :
                i = j \/ Before(accepted, i, j) \/ Before(accepted, j, i)
           /\ \A i, j : Before(accepted, i, j) => i \in Elements(accepted) /\ j \in Elements(accepted)
<1>1. \A s \in Seq(Input) : \A i \in Elements(s) : i \in Input
  BY DEF Elements
<1> QED
  BY <1>1, BeforeIsOrder DEF BatchTypes, OrderInv

(* Nothing is anywhere at first.                                            *)
LEMMA InitOrder == Init => OrderInv
<1>1. Elements(<<>>) = {}
  BY DEF Elements
<1> QED
  BY <1>1, ProcessAssumption DEF Init, OrderInv, Once, Tickets, Order, Complete, Ends, Sorted, Dropped

(* A step that moves no batch.                                              *)
LEMMA QuietOrder == OrderInv /\ UNCHANGED placeVars => OrderInv'
  BY DEF OrderInv, Once, Tickets, Order, Complete, Ends, Sorted, Dropped, placeVars, Before, Elements

(* The owner closes the queue.                                              *)
LEMMA CloseOrder ==
    ASSUME OrderInv, call = NoInput, DropSender,
           UNCHANGED <<ticket, pending, batch, pipe, received, accepted, told, call,
                       receiverOpen, stdinRead, sawEof>>
    PROVE  OrderInv'
<1>1. ~senderOpen' /\ ~stdin' /\ \A w \in {"write", "drop", "done"} : writer' = w <=> writer = w
  BY NotifyWakes DEF DropSender
<1>2. Once(accepted') /\ Tickets' /\ Order' /\ Complete'
  BY DEF OrderInv, Once, Tickets, Order, Complete, Sorted, Dropped, Before, Elements
<1>3. Ends'
  BY <1>1 DEF OrderInv, Ends, Dropped, Elements
<1> QED
  BY <1>2, <1>3 DEF OrderInv

(* write_tracked reaches the queue, or is refused before it.                *)
LEMMA CallOrder ==
    ASSUME BatchTypes, OrderInv, NEW i \in Input, WriteCall(i)
    PROVE  OrderInv'
<1>1. /\ ticket[i] = "new" /\ call = NoInput
      /\ UNCHANGED <<pending, receiverOpen, batch, pipe, received, stdinRead, sawEof,
                     accepted, told>>
  BY DEF WriteCall, pipeVars
<1>2. CASE HasStdin
  <2>1. call' = i /\ UNCHANGED <<ticket, stdin, senderOpen, writer>>
    BY <1>2 DEF WriteCall
  <2>2. senderOpen
    BY <1>2 DEF HasStdin, OrderInv, Ends
  <2>3. Once(accepted') /\ Tickets' /\ Order' /\ Complete'
    BY <1>1, <2>1 DEF OrderInv, Once, Tickets, Order, Complete, Sorted, Dropped, Before, Elements
  <2>4. Ends'
    BY <1>1, <2>1, <2>2 DEF OrderInv, Ends, Dropped, Elements
  <2> QED
    BY <2>3, <2>4 DEF OrderInv
<1>3. CASE ~HasStdin
  <2>1. /\ ticket' = [ticket EXCEPT ![i] = "refused"] /\ call' = call
        /\ DropSender \/ UNCHANGED <<stdin, senderOpen, writer>>
    BY <1>3 DEF WriteCall, Abort
  <2>2. /\ senderOpen' => senderOpen
        /\ stdin' => senderOpen'
        /\ \A w \in {"write", "drop", "done"} : writer' = w <=> writer = w
    <3>1. CASE DropSender
      BY <3>1, NotifyWakes DEF DropSender
    <3>2. CASE UNCHANGED <<stdin, senderOpen, writer>>
      BY <3>2 DEF OrderInv, Ends
    <3> QED
      BY <2>1, <3>1, <3>2
  <2>3. \A j \in Input : ticket'[j] = IF j = i THEN "refused" ELSE ticket[j]
    BY <2>1 DEF BatchTypes
  <2>4. /\ Elements(pending') = Elements(pending) /\ Elements(pipe') = Elements(pipe)
        /\ Elements(received') = Elements(received) /\ Elements(accepted') = Elements(accepted)
    BY <1>1 DEF Elements
  <2>5. Tickets'
    BY <1>1, <2>1, <2>3, <2>4, Places DEF OrderInv, Tickets, BatchTypes
  <2>6. Once(accepted') /\ Order'
    BY <1>1, <2>3 DEF OrderInv, Once, Order, Sorted, Dropped, Before, Elements
  <2>7. Complete'
    BY <1>1, <2>3, <2>4 DEF OrderInv, Complete, Before
  <2>8. Ends'
    BY <1>1, <2>1, <2>2, <2>3, <2>4 DEF OrderInv, Ends, Dropped
  <2> QED
    BY <2>5, <2>6, <2>7, <2>8 DEF OrderInv
<1> QED
  BY <1>2, <1>3

(* A batch enters the queue, behind everything accepted.                    *)
LEMMA AcceptOrder ==
    ASSUME BatchTypes, OrderInv, SubmitTracked, SubmitAccepted
    PROVE  OrderInv'
<1>1. /\ call \in Input /\ call' = NoInput /\ receiverOpen /\ receiverOpen' = receiverOpen
      /\ pending' = Append(pending, call) /\ accepted' = Append(accepted, call)
      /\ ticket' = [ticket EXCEPT ![call] = "queued"]
      /\ UNCHANGED <<batch, pipe, received, stdinRead, sawEof, told, stdin, senderOpen>>
  BY DEF SubmitTracked, SubmitAccepted, BatchTypes, pipeVars
<1>2. \A w \in {"write", "drop", "done"} : writer' = w <=> writer = w
  BY NotifyWakes DEF SubmitAccepted
<1>3. ticket[call] = "new" /\ call \notin Elements(accepted)
  BY <1>1, ProcessAssumption DEF OrderInv, Tickets
<1>4. /\ Elements(pending') = Elements(pending) \cup {call}
      /\ Elements(accepted') = Elements(accepted) \cup {call}
  BY <1>1, AppendAdds DEF BatchTypes
<1>5. Elements(pipe') = Elements(pipe) /\ Elements(received') = Elements(received)
  BY <1>1 DEF Elements
<1>6. /\ \A i, j : Before(accepted, i, j) => Before(accepted', i, j)
      /\ \A i \in Elements(accepted) : Before(accepted', i, call)
      /\ \A i, j : Before(accepted', i, j) /\ j # call => Before(accepted, i, j)
      /\ Once(accepted')
      /\ \A s : Sorted(s, accepted) => Sorted(s, accepted')
  BY <1>1, <1>3, BeforeGrows DEF BatchTypes, OrderInv
<1>7. \A i \in Input : ticket'[i] = IF i = call THEN "queued" ELSE ticket[i]
  BY <1>1 DEF BatchTypes
<1>8. Tickets'
  <2>1. /\ call \notin Elements(pending) \cup Elements(pipe) \cup Elements(received) \cup told
        /\ call # batch \/ batch = NoInput
    BY <1>1, <1>3, Places DEF OrderInv, Tickets
  <2>2. \A i \in Input : ticket'[i] \in {"queued", "started", "cancelled"} <=> i \in Elements(accepted')
    BY <1>1, <1>4, <1>7 DEF OrderInv, Tickets
  <2>3. \A i \in Input : ticket'[i] = "queued" <=> i \in Elements(pending')
    BY <1>1, <1>4, <1>7 DEF OrderInv, Tickets
  <2>4. \A i \in told' : ticket'[i] = "cancelled"
    BY <1>1, <1>7, <2>1 DEF OrderInv, Tickets, BatchTypes
  <2>5. \A i \in Elements(received') \cup Elements(pipe') : ticket'[i] = "started"
    BY <1>5, <1>7, <2>1, Places DEF OrderInv, Tickets
  <2>6. batch' # NoInput => ticket'[batch'] = "started"
    BY <1>1, <1>7, <2>1 DEF OrderInv, Tickets, BatchTypes
  <2> QED
    BY <1>1, <2>2, <2>3, <2>4, <2>5, <2>6 DEF Tickets
<1>9. Order'
  <2>1. \A e \in Elements(pending) : Before(accepted', e, call)
    BY <1>6, Places DEF OrderInv, Tickets
  <2>2. Sorted(pending', accepted') /\ Sorted(pipe', accepted') /\ Sorted(received', accepted')
    <3>1. Sorted(pending, accepted') /\ Sorted(pipe, accepted') /\ Sorted(received, accepted')
      BY <1>6 DEF OrderInv, Order
    <3>2. Sorted(Append(pending, call), accepted')
      BY <1>1, <2>1, <3>1, SortedAppend DEF BatchTypes
    <3> QED
      BY <1>1, <3>1, <3>2
  <2>3. /\ \A r \in Elements(received'), p \in Elements(pipe') : Before(accepted', r, p)
        /\ batch' # NoInput => \A r \in Elements(received') \cup Elements(pipe') :
                                  Before(accepted', r, batch')
    BY <1>1, <1>5, <1>6 DEF OrderInv, Order
  <2>4. ASSUME NEW i \in Input, NEW j \in Input, ticket'[i] = "started",
               ticket'[j] = "queued" \/ Dropped(j)'
        PROVE  Before(accepted', i, j)
    <3>1. i # call /\ ticket[i] = "started" /\ i \in Elements(accepted)
      BY <1>7, <2>4 DEF OrderInv, Tickets
    <3>2. CASE j = call
      BY <1>6, <3>1, <3>2
    <3>3. CASE j # call
      <4>1. ticket[j] = "queued" \/ Dropped(j)
        BY <1>1, <1>7, <2>4, <3>3 DEF Dropped
      <4>2. Before(accepted, i, j)
        BY <3>1, <4>1 DEF OrderInv, Order
      <4> QED
        BY <1>6, <4>2
    <3> QED
      BY <3>2, <3>3
  <2> QED
    BY <2>2, <2>3, <2>4 DEF Order
<1>10. Complete'
  BY <1>1, <1>3, <1>4, <1>5, <1>6, <1>7, Places DEF OrderInv, Complete, Tickets
<1>11. Ends'
  BY <1>1, <1>2, <1>7, ProcessAssumption DEF OrderInv, Ends, Dropped
<1> QED
  BY <1>6, <1>8, <1>9, <1>10, <1>11 DEF OrderInv

(* A batch the closed queue refuses.                                        *)
LEMMA RefuseOrder ==
    ASSUME BatchTypes, OrderInv, SubmitTracked, SubmitRefused
    PROVE  OrderInv'
<1>1. /\ call \in Input /\ call' = NoInput /\ receiverOpen' = receiverOpen
      /\ ticket' = [ticket EXCEPT ![call] = "refused"]
      /\ ~stdin' /\ ~senderOpen'
      /\ UNCHANGED <<pending, batch, pipe, received, accepted, stdinRead, sawEof, told>>
  BY DEF SubmitTracked, SubmitRefused, BatchTypes, pipeVars, Abort, DropSender
<1>2. \A w \in {"write", "drop", "done"} : writer' = w <=> writer = w
  BY NotifyWakes DEF SubmitRefused
<1>3. \A j \in Input : ticket'[j] = IF j = call THEN "refused" ELSE ticket[j]
  BY <1>1 DEF BatchTypes
<1>4. ticket[call] = "new"
  BY <1>1, ProcessAssumption DEF OrderInv, Tickets
<1>5. Tickets'
  BY <1>1, <1>3, <1>4, Places DEF OrderInv, Tickets, BatchTypes
<1>6. Order'
  BY <1>1, <1>3, <1>4 DEF OrderInv, Order, Dropped
<1>7. Complete'
  BY <1>1, <1>3, <1>4 DEF OrderInv, Complete
<1>8. Ends'
  BY <1>1, <1>2, <1>3 DEF OrderInv, Ends, Dropped
<1> QED
  BY <1>1, <1>5, <1>6, <1>7, <1>8 DEF OrderInv

(* A holder cancels a batch that has not started.                           *)
LEMMA CancelOrder ==
    ASSUME BatchTypes, OrderInv, NEW c \in Input, Cancel(c)
    PROVE  OrderInv'
<1>1. /\ ticket[c] \in {"queued", "cancelled"}
      /\ ticket' = [ticket EXCEPT ![c] = "cancelled"] /\ told' = told \cup {c}
      /\ pending' = Without(pending, c)
      /\ UNCHANGED <<batch, pipe, received, accepted, call, writer, senderOpen,
                     receiverOpen, stdin, stdinRead, sawEof>>
  BY DEF Cancel, MayCancel, writerVars, pipeVars, ownerVars
<1>2. \A j \in Input : ticket'[j] = IF j = c THEN "cancelled" ELSE ticket[j]
  BY <1>1 DEF BatchTypes
<1>3. \A j \in Input : j # c => (Dropped(j)' <=> Dropped(j))
  BY <1>1, <1>2 DEF Dropped
<1>4. ~Dropped(c)'
  BY <1>1 DEF Dropped
<1>5. /\ Elements(pending') = Elements(pending) \ {c}
      /\ Sorted(pending', accepted)
  <2>1. \A a, b \in DOMAIN pending : pending[a] = pending[b] => a = b
    BY SortedOnce DEF OrderInv, Order, BatchTypes
  <2> QED
    BY <1>1, <2>1, WithoutLeaves DEF OrderInv, Order, BatchTypes
<1>6. Tickets'
  BY <1>1, <1>2, <1>5, Places DEF OrderInv, Tickets, BatchTypes
<1>7. Order'
  BY <1>1, <1>2, <1>3, <1>4, <1>5 DEF OrderInv, Order
<1>8. Complete'
  BY <1>1, <1>2 DEF OrderInv, Complete
<1>9. Ends'
  BY <1>1, <1>2, <1>3, <1>4 DEF OrderInv, Ends
<1> QED
  BY <1>1, <1>6, <1>7, <1>8, <1>9 DEF OrderInv

(* The writer starts the front of the queue.                                *)
LEMMA RecvOrder ==
    ASSUME BatchTypes, OrderInv, Recv
    PROVE  OrderInv'
<1>1. /\ writer = "look"
      /\ UNCHANGED <<pipe, received, accepted, told, call, senderOpen, receiverOpen,
                     stdin, stdinRead, sawEof>>
  BY DEF Recv, pipeVars, ownerVars
<1>2. CASE pending = <<>>
  <2>1. /\ UNCHANGED <<batch, pending, ticket>>
        /\ (writer' = "drop" /\ ~senderOpen) \/ writer' = "idle"
    BY <1>2 DEF Recv, EndOfInput
  <2>2. \A i \in Input : ticket[i] # "queued" /\ ~Dropped(i)
    <3>1. Elements(pending) = {}
      BY <1>2 DEF Elements
    <3> QED
      BY <1>1, <3>1 DEF OrderInv, Tickets, Ends
  <2>3. Tickets' /\ Order' /\ Complete'
    BY <1>1, <2>1 DEF OrderInv, Tickets, Order, Complete, Dropped
  <2>4. Ends'
    BY <1>1, <2>1, <2>2 DEF OrderInv, Ends, Dropped
  <2> QED
    BY <1>1, <2>3, <2>4 DEF OrderInv
<1>3. CASE pending # <<>>
  <2> DEFINE h == Head(pending)
  <2>1. /\ batch' = h /\ pending' = Tail(pending) /\ writer' = "write"
        /\ ticket' = [ticket EXCEPT ![h] = "started"]
    BY <1>3 DEF Recv, EndOfInput
  <2>2. /\ h \in Input /\ Tail(pending) \in Seq(Input)
        /\ Elements(pending) = Elements(pending') \cup {h}
    BY <1>3, <2>1, FrontLeaves DEF BatchTypes
  <2>3. /\ Sorted(pending', accepted)
        /\ \A e \in Elements(pending') : Before(accepted, h, e)
    BY <1>3, <2>1, SortedFront DEF OrderInv, Order, BatchTypes
  <2> HIDE DEF h
  <2>4. \A j \in Input : ticket'[j] = IF j = h THEN "started" ELSE ticket[j]
    BY <2>1, <2>2 DEF BatchTypes
  <2>5. ticket[h] = "queued" /\ h \notin Elements(pending') /\ batch = NoInput
    BY <1>1, <2>2, <2>3, Places DEF OrderInv, Tickets, BatchTypes
  <2>6. \A j \in Input : ~Dropped(j) /\ ~Dropped(j)'
    BY <1>1, <2>4 DEF OrderInv, Ends, Dropped
  <2>7. Tickets'
    BY <1>1, <2>1, <2>2, <2>4, <2>5, Places DEF OrderInv, Tickets, BatchTypes
  <2>8. \A r \in Elements(received) \cup Elements(pipe) : Before(accepted, r, h)
    BY <2>2, <2>5, Places DEF OrderInv, Tickets, Order
  <2>9. ASSUME NEW i \in Input, NEW j \in Input, ticket'[i] = "started", ticket'[j] = "queued"
        PROVE  Before(accepted, i, j)
    <3>1. j # h /\ ticket[j] = "queued" /\ j \in Elements(pending')
      BY <2>2, <2>4, <2>9 DEF OrderInv, Tickets
    <3>2. CASE i = h
      BY <2>3, <3>1, <3>2
    <3>3. CASE i # h
      BY <2>4, <2>9, <3>1, <3>3 DEF OrderInv, Order
    <3> QED
      BY <3>2, <3>3
  <2>10. Order'
    BY <1>1, <2>1, <2>3, <2>6, <2>8, <2>9 DEF OrderInv, Order
  <2>11. Complete'
    BY <1>1, <2>1, <2>4, <2>5, ProcessAssumption DEF OrderInv, Complete
  <2>12. Ends'
    BY <1>1, <2>1, <2>4, <2>6 DEF OrderInv, Ends
  <2> QED
    BY <1>1, <2>7, <2>10, <2>11, <2>12 DEF OrderInv
<1> QED
  BY <1>2, <1>3

(* The writer puts its batch in the pipe.                                   *)
LEMMA WriteOrder ==
    ASSUME BatchTypes, OrderInv, Write
    PROVE  OrderInv'
<1>1. /\ writer = "write" /\ batch \in Input /\ stdinRead
      /\ pipe' = Append(pipe, batch) /\ writer' = "look" /\ batch' = NoInput
      /\ UNCHANGED <<ticket, pending, received, accepted, told, call, senderOpen,
                     receiverOpen, stdin, stdinRead, sawEof>>
  BY DEF Write, BatchTypes, queueVars, ownerVars
<1>2. Elements(pipe') = Elements(pipe) \cup {batch} /\ batch # NoInput
  BY <1>1, AppendAdds, ProcessAssumption DEF BatchTypes
<1>3. Sorted(pipe', accepted)
  BY <1>1, <1>2, SortedAppend DEF OrderInv, Order, BatchTypes
<1>4. Tickets'
  BY <1>1, <1>2 DEF OrderInv, Tickets
<1>5. Order'
  BY <1>1, <1>2, <1>3 DEF OrderInv, Order, Dropped
<1>6. Complete'
  BY <1>1, <1>2 DEF OrderInv, Complete
<1>7. Ends'
  BY <1>1 DEF OrderInv, Ends, Dropped
<1> QED
  BY <1>1, <1>4, <1>5, <1>6, <1>7 DEF OrderInv

(* The write fails, because the CLI no longer reads.                        *)
LEMMA WriteFailsOrder ==
    ASSUME BatchTypes, OrderInv, WriteFails
    PROVE  OrderInv'
<1>1. /\ writer = "write" /\ ~stdinRead /\ writer' = "drop" /\ batch' = NoInput
      /\ UNCHANGED <<ticket, pending, pipe, received, accepted, told, call, senderOpen,
                     receiverOpen, stdin, stdinRead, sawEof>>
  BY DEF WriteFails, queueVars, pipeVars, ownerVars
<1>2. Tickets' /\ Order' /\ Complete'
  BY <1>1 DEF OrderInv, Tickets, Order, Complete, Dropped
<1>3. Ends'
  BY <1>1 DEF OrderInv, Ends, Dropped
<1> QED
  BY <1>1, <1>2, <1>3 DEF OrderInv

(* The writer ends and cancels what is queued.                              *)
LEMMA DropOrder ==
    ASSUME BatchTypes, OrderInv, DropReceiver
    PROVE  OrderInv'
<1>1. /\ writer = "drop" /\ writer' = "done" /\ ~receiverOpen' /\ pending' = <<>>
      /\ UNCHANGED <<batch, pipe, received, accepted, told, call, senderOpen, stdin,
                     stdinRead, sawEof>>
  BY DEF DropReceiver, pipeVars, ownerVars
<1>2. \A i \in Input : ticket'[i] = IF ticket[i] = "queued" THEN "cancelled" ELSE ticket[i]
  BY DEF DropReceiver
<1>3. \A i \in Input : Dropped(i)' <=> ticket[i] = "queued" \/ Dropped(i)
  BY <1>1, <1>2 DEF Dropped, OrderInv, Tickets
<1>4. Elements(pending') = {} /\ Sorted(pending', accepted)
  BY <1>1 DEF Elements, Sorted
<1>5. Tickets'
  BY <1>1, <1>2, <1>4, Places DEF OrderInv, Tickets, BatchTypes
<1>6. Order'
  BY <1>1, <1>2, <1>3, <1>4 DEF OrderInv, Order
<1>7. Complete'
  BY <1>1, <1>2 DEF OrderInv, Complete
<1>8. Ends'
  BY <1>1, <1>2, <1>3 DEF OrderInv, Ends
<1> QED
  BY <1>1, <1>5, <1>6, <1>7, <1>8 DEF OrderInv

(* The CLI reads a batch, or the end of its input.                          *)
LEMMA ReadOrder ==
    ASSUME BatchTypes, OrderInv, CliReads
    PROVE  OrderInv'
<1>1. /\ stdinRead
      /\ UNCHANGED <<ticket, pending, batch, accepted, told, call, writer, senderOpen,
                     receiverOpen, stdin, stdinRead>>
  BY DEF CliReads, queueVars, writerVars, ownerVars
<1>2. CASE pipe # <<>>
  <2> DEFINE h == Head(pipe)
  <2>1. received' = Append(received, h) /\ pipe' = Tail(pipe) /\ sawEof' = sawEof
    BY <1>2 DEF CliReads
  <2>2. /\ h \in Input /\ pipe' \in Seq(Input) /\ Elements(pipe) = Elements(pipe') \cup {h}
    BY <1>2, <2>1, FrontLeaves DEF BatchTypes
  <2>3. /\ Sorted(pipe', accepted)
        /\ \A e \in Elements(pipe') : Before(accepted, h, e)
    BY <1>2, <2>1, SortedFront DEF OrderInv, Order, BatchTypes
  <2> HIDE DEF h
  <2>4. Elements(received') = Elements(received) \cup {h}
    BY <2>1, <2>2, AppendAdds DEF BatchTypes
  <2>5. Sorted(received', accepted)
    BY <2>1, <2>2, SortedAppend DEF OrderInv, Order, BatchTypes
  <2>6. Tickets'
    BY <1>1, <2>2, <2>4 DEF OrderInv, Tickets
  <2>7. Order'
    BY <1>1, <2>2, <2>3, <2>4, <2>5 DEF OrderInv, Order, Dropped
  <2>8. ASSUME NEW i \in Elements(accepted), i \notin told, Before(accepted, i, h)
        PROVE  i \in Elements(received')
    <3>1. ticket[h] = "started" /\ i \in Input
      BY <2>2, Places DEF OrderInv, Tickets
    <3>2. ticket[i] = "started"
      BY <2>2, <2>8, <3>1, Places DEF OrderInv, Tickets, Order, Dropped
    <3>3. i \in Elements(received) \cup Elements(pipe) \cup {batch}
      BY <1>1, <3>1, <3>2 DEF OrderInv, Complete
    <3>4. i # h /\ i \notin Elements(pipe')
      BY <2>3, <2>8, Places
    <3>5. i # batch
      BY <2>2, <2>8, <3>1, Places, ProcessAssumption DEF OrderInv, Order
    <3> QED
      BY <2>2, <2>4, <3>3, <3>4, <3>5
  <2>9. Complete'
    BY <1>1, <2>2, <2>4, <2>8 DEF OrderInv, Complete
  <2>10. Ends'
    BY <1>1, <2>1, <2>4 DEF OrderInv, Ends, Dropped
  <2> QED
    BY <1>1, <2>6, <2>7, <2>9, <2>10 DEF OrderInv
<1>3. CASE pipe = <<>>
  <2>1. writer = "done" /\ UNCHANGED <<received, pipe>>
    BY <1>3 DEF CliReads, WriterOpen
  <2>2. Tickets' /\ Order' /\ Complete'
    BY <1>1, <2>1 DEF OrderInv, Tickets, Order, Complete, Dropped
  <2>3. batch = NoInput /\ Elements(pipe) = {}
    BY <1>3, <2>1 DEF BatchTypes, Elements
  <2>4. \A i \in Elements(accepted) \ told : i \in Elements(received)
    <3>1. SUFFICES ASSUME NEW i \in Elements(accepted), i \notin told
                   PROVE  i \in Elements(received)
      OBVIOUS
    <3>2. i \in Input /\ ticket[i] = "started"
      BY <1>1, <2>1, <3>1, Places DEF OrderInv, Tickets, Ends, Dropped
    <3> QED
      BY <1>1, <2>3, <3>2, ProcessAssumption DEF OrderInv, Complete
  <2>5. Ends'
    BY <1>1, <2>1, <2>4 DEF OrderInv, Ends, Dropped
  <2> QED
    BY <1>1, <2>2, <2>5 DEF OrderInv
<1> QED
  BY <1>2, <1>3

(* The CLI stops reading: what is in the pipe is lost.                      *)
LEMMA ClosedOrder ==
    ASSUME BatchTypes, OrderInv, CliClosesStdin \/ CliExits \/ DropJob
    PROVE  OrderInv'
<1>1. /\ ~stdinRead' /\ pipe' = <<>>
      /\ UNCHANGED <<ticket, pending, batch, received, accepted, told, call, writer,
                     senderOpen, receiverOpen, stdin, sawEof>>
  BY DEF CliClosesStdin, CliExits, DropJob, EndTree, queueVars, writerVars, ownerVars
<1>2. Elements(pipe') = {} /\ Sorted(pipe', accepted)
  BY <1>1 DEF Elements, Sorted
<1>3. Tickets' /\ Order'
  BY <1>1, <1>2 DEF OrderInv, Tickets, Order, Dropped
<1>4. Complete' /\ Ends'
  BY <1>1 DEF OrderInv, Complete, Ends, Dropped
<1> QED
  BY <1>1, <1>3, <1>4 DEF OrderInv

(* Every step keeps the invariant.                                          *)
LEMMA StepOrder == BatchTypes /\ OrderInv /\ [Next]_vars => OrderInv'
<1> SUFFICES ASSUME BatchTypes, OrderInv, [Next]_vars PROVE OrderInv'
  OBVIOUS
<1>1. CASE OwnerAborts \/ \E force \in BOOLEAN : Shutdown(force)
  BY <1>1, CloseOrder DEF OwnerAborts, Shutdown, Abort, pipeVars
<1>2. CASE SubmitTracked
  BY <1>2, AcceptOrder, RefuseOrder DEF SubmitTracked
<1>3. CASE Notified
  <2>1. /\ writer \notin {"write", "drop", "done"} /\ writer' \notin {"write", "drop", "done"}
        /\ UNCHANGED <<ticket, pending, batch, pipe, received, accepted, told, call,
                       senderOpen, receiverOpen, stdin, stdinRead, sawEof>>
    BY <1>3 DEF Notified, pipeVars, ownerVars
  <2>2. Tickets' /\ Order' /\ Complete'
    BY <2>1 DEF OrderInv, Tickets, Order, Complete, Dropped
  <2>3. Ends'
    BY <2>1 DEF OrderInv, Ends, Dropped
  <2> QED
    BY <2>1, <2>2, <2>3 DEF OrderInv
<1>4. CASE \/ ShutdownSeesExit \/ ShutdownTimesOut \/ RootExits \/ SeesEnd \/ SendExited
           \/ ReadLine \/ ReadEof \/ ReadFails \/ OnStdoutClosed \/ UNCHANGED vars
           \/ \E line \in Line : CliPrints(line)
  <2>1. UNCHANGED placeVars
    BY <1>4 DEF ShutdownSeesExit, ShutdownTimesOut, RootExits, SeesEnd, SendExited, ReadLine,
                ReadEof, ReadFails, OnStdoutClosed, CliPrints, vars, queueVars, writerVars,
                pipeVars, ownerVars, placeVars
  <2> QED
    BY <2>1, QuietOrder
<1> QED
  BY <1>1, <1>2, <1>3, <1>4, CallOrder, CancelOrder, RecvOrder, WriteOrder, WriteFailsOrder,
     DropOrder, ReadOrder, ClosedOrder DEF Next

-----------------------------------------------------------------------------
(* The properties of the agent subprocess.                                  *)

(* The invariant holds in every reachable state.                            *)
LEMMA ProcessInvariant == Spec => []ProcessInv
<1>1. Init => ProcessInv
  BY InitOrder, ProcessAssumption DEF Init, ProcessInv, BatchTypes, Tree
<1>2. ProcessInv /\ [Next]_vars => ProcessInv'
  BY StepBatchTypes, StepOrder, StepTree DEF ProcessInv
<1> QED
  BY <1>1, <1>2, PTL DEF Spec

(* A batch whose cancel() answered true is never written: it is not in the  *)
(* writer's hand, in the pipe or read, at that moment or later.             *)
THEOREM CancelledIsNeverWritten == Spec => []CancelHolds
<1>1. ProcessInv => CancelHolds
  <2> SUFFICES ASSUME ProcessInv, NEW i \in told, i \in Written PROVE FALSE
    BY DEF CancelHolds
  <2>1. ticket[i] = "cancelled" /\ i \in Input
    BY DEF ProcessInv, OrderInv, Tickets, BatchTypes
  <2>2. i \in Elements(received) \cup Elements(pipe) => ticket[i] = "started"
    BY DEF ProcessInv, OrderInv, Tickets
  <2>3. i = batch => ticket[i] = "started"
    BY <2>1, ProcessAssumption DEF ProcessInv, OrderInv, Tickets
  <2> QED
    BY <2>1, <2>2, <2>3 DEF Written
<1> QED
  BY <1>1, ProcessInvariant, PTL

(* The CLI reads the accepted batches in order, once each, skipping only    *)
(* cancelled ones; and when it reads the end of its input it has read all   *)
(* the others.                                                              *)
THEOREM InputIsInOrder == Spec => []ReadInOrder
<1>1. ProcessInv => ReadInOrder
  <2> SUFFICES ASSUME ProcessInv PROVE ReadInOrder
    OBVIOUS
  <2>1. \A j, k \in DOMAIN received : j < k =>
          received[j] # received[k] /\ Before(accepted, received[j], received[k])
    BY Places DEF ProcessInv, OrderInv, Order, Sorted
  <2>2. Elements(received) \subseteq Elements(accepted)
    BY Places DEF ProcessInv, OrderInv, Tickets
  <2> QED
    BY <2>1, <2>2 DEF ProcessInv, OrderInv, Complete, Ends, ReadInOrder
<1> QED
  BY <1>1, ProcessInvariant, PTL

(* A shutdown that reports success leaves neither the root process nor the  *)
(* CLI behind it.                                                           *)
THEOREM ShutdownEndsTheTree == Spec => []StoppedIsGone
<1>1. ProcessInv => StoppedIsGone
  BY DEF ProcessInv, Tree, StoppedIsGone
<1> QED
  BY <1>1, ProcessInvariant, PTL
====
