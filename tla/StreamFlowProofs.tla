--------------------------- MODULE StreamFlowProofs ---------------------------
(***************************************************************************)
(* The backlog of one remote view and what the view is shown, for every    *)
(* output, every size of chunk and checkpoint, and every pair of marks.    *)
(*                                                                         *)
(* Neither property is inductive.  ViewExact speaks of what the view has,  *)
(* and what it is given next was decided by the loop several steps before; *)
(* BacklogBounded speaks of a count that two threads read and change in    *)
(* steps of their own.  FlowInv adds that                                  *)
(*   Asked    one checkpoint is asked for at a time, and the state tells   *)
(*            whether the loop is at output or at a checkpoint;            *)
(*   Capped   what the loop and the pump have read of the backlog bounds   *)
(*            what it is by the time they act on it;                       *)
(*   Counted  the backlog is what is queued, on the socket or about to be  *)
(*            put;                                                         *)
(*   Exact    unless a checkpoint failed, every frame of output in the     *)
(*            queue continues the frame of the view before it, and the     *)
(*            queue ends where the loop will go on.                        *)
(***************************************************************************)
EXTENDS StreamFlow, SequenceTheorems, WellFoundedInduction, TLAPS

-------------------------------------------------------------------------------
(* The invariant. *)

Frames == [kind : {"output", "checkpoint", "exit", "other"}, from : Int, to : Int, size : Nat]

LoopAt ==
    {Idle}
    \cup [at : {"look"}, size : ChunkSizes]
    \cup [at : {"decide"}, size : ChunkSizes, seen : Int]
    \cup [at : {"count", "put"}, frame : Frames]
    \cup [at : {"live"}]

PumpAt ==
    {Idle}
    \cup [at : {"send", "hook"}, frame : Frames]
    \cup [at : {"check"}, left : Int]

Types ==
    /\ produced \in Int /\ view \in Int /\ pending \in Int
    /\ state \in {"Live", "Dropping", "Resyncing"}
    /\ messages \in Seq({"Subscribe", "Checkpoint"})
    /\ loop \in LoopAt /\ sending \in PumpAt
    /\ queue \in Seq(Frames)
    /\ {failed, torn, channel, subscribed} \subseteq BOOLEAN

\* The loop works on output, or on a checkpoint.
OnOutput == loop.at = "decide" \/ (loop.at \in {"count", "put"} /\ loop.frame.kind = "output")

OnCheckpoint == loop.at = "live" \/ (loop.at \in {"count", "put"} /\ loop.frame.kind = "checkpoint")

\* One checkpoint is asked for at a time, and the state says which of the two
\* the loop may be at.
Asked ==
    /\ messages = <<>> \/ (Len(messages) = 1 /\ state = "Resyncing" /\ ~OnCheckpoint)
    /\ OnCheckpoint => state = "Resyncing"
    /\ OnOutput => state = "Live"
    /\ loop.at \in {"count", "put"} => Hooked(loop.frame)

\* A checkpoint is still to be counted.
ToCome == messages # <<>> \/ (loop.at = "count" /\ loop.frame.kind = "checkpoint")

Mild == pending <= HighWater \/ \E size \in CheckpointSizes : pending < LowWater + size

Capped ==
    /\ BacklogCapped
    /\ ToCome => Mild
    /\ sending.at = "check" /\ sending.left < LowWater =>
           IF ToCome THEN pending < LowWater ELSE Mild
    /\ loop.at = "decide" => pending <= loop.seen
    /\ loop.at = "count" =>
           IF loop.frame.kind = "output"
           THEN pending + loop.frame.size <= HighWater
           ELSE loop.frame.size \in CheckpointSizes

\* The count is what is outstanding, and what is on the socket is of a channel
\* that is open.
Counted ==
    /\ sending.at \in {"send", "hook"} => channel
    /\ sending.at = "hook" => Hooked(sending.frame)
    /\ channel => pending = Outstanding

\* What the view will have been shown once the frame being sent is applied.
Ahead == IF sending.at = "send" /\ Hooked(sending.frame) THEN sending.frame.to ELSE view

\* A view at `v` that is shown the first n frames of q is at p.
Reaches(v, q, n, p) ==
    \/ \E j \in 1..n : Hooked(q[j]) /\ q[j].to = p /\ \A i \in (j + 1)..n : ~Hooked(q[i])
    \/ v = p /\ \A i \in 1..n : ~Hooked(q[i])

LinesUp(v, q) == \A k \in 1..Len(q) : q[k].kind = "output" => Reaches(v, q, k - 1, q[k].from)

Ends(p) == Reaches(Ahead, queue, Len(queue), p)

\* Where the queue ends, by where the loop is.
Position ==
    /\ loop.at = "idle" /\ state = "Live" /\ subscribed => Ends(produced)
    /\ loop.at = "look" /\ state = "Live" => Ends(produced - loop.size)
    /\ loop.at = "decide" => Ends(produced - loop.size)
    /\ loop.at \in {"count", "put"} => loop.frame.to = produced
    /\ loop.at \in {"count", "put"} /\ loop.frame.kind = "output" => Ends(loop.frame.from)
    /\ loop.at = "live" => Ends(produced)

Exact ==
    /\ ~torn
    /\ sending.at = "send" /\ sending.frame.kind = "output" => sending.frame.from = view
    /\ channel => LinesUp(Ahead, queue) /\ Position

FlowInv == Types /\ Asked /\ Capped /\ Counted /\ (~failed => Exact)

-------------------------------------------------------------------------------
(* The queue of the channel. *)

(* What a frame put at the end of the queue keeps and adds.                 *)
LEMMA QueueGrows ==
    ASSUME NEW q \in Seq(Frames), NEW f \in Frames
    PROVE  /\ q \o <<f>> \in Seq(Frames)
           /\ Len(q) \in Nat /\ Len(q \o <<f>>) = Len(q) + 1
           /\ \A i \in 1..Len(q) : (q \o <<f>>)[i] = q[i]
           /\ (q \o <<f>>)[Len(q) + 1] = f
OBVIOUS

(* What taking the first frame of the queue leaves.                         *)
LEMMA QueueShrinks ==
    ASSUME NEW q \in Seq(Frames), q # <<>>
    PROVE  /\ Tail(q) \in Seq(Frames) /\ Head(q) \in Frames /\ Head(q) = q[1]
           /\ Len(q) \in Nat \ {0} /\ Len(Tail(q)) = Len(q) - 1
           /\ \A i \in 1..(Len(q) - 1) : Tail(q)[i] = q[i + 1]
OBVIOUS

\* What a view reaches is decided by the frames it is shown.
LEMMA ReachesByPrefix ==
    ASSUME NEW v, NEW p, NEW q, NEW r, NEW n \in Nat,
           \A i \in 1..n : r[i] = q[i],
           Reaches(v, q, n, p)
    PROVE  Reaches(v, r, n, p)
<1>1. CASE \E j \in 1..n : Hooked(q[j]) /\ q[j].to = p /\ \A i \in (j + 1)..n : ~Hooked(q[i])
  <2>1. PICK j \in 1..n : Hooked(q[j]) /\ q[j].to = p /\ \A i \in (j + 1)..n : ~Hooked(q[i])
    BY <1>1
  <2>2. \A i \in (j + 1)..n : i \in 1..n
    OBVIOUS
  <2>3. Hooked(r[j]) /\ r[j].to = p /\ \A i \in (j + 1)..n : ~Hooked(r[i])
    BY <2>1, <2>2
  <2> QED BY <2>3 DEF Reaches
<1>2. CASE v = p /\ \A i \in 1..n : ~Hooked(q[i])
  BY <1>2 DEF Reaches
<1> QED BY <1>1, <1>2 DEF Reaches

\* A frame at the end of the queue moves where it ends, if it is of the view.
LEMMA AppendReaches ==
    ASSUME NEW q \in Seq(Frames), NEW f \in Frames, NEW v, NEW p
    PROVE  /\ Hooked(f) => Reaches(v, q \o <<f>>, Len(q \o <<f>>), f.to)
           /\ ~Hooked(f) /\ Reaches(v, q, Len(q), p) => Reaches(v, q \o <<f>>, Len(q \o <<f>>), p)
<1> DEFINE n == Len(q)
           r == q \o <<f>>
<1>1. /\ n \in Nat /\ Len(r) = n + 1
      /\ \A i \in 1..n : r[i] = q[i]
      /\ r[n + 1] = f
  BY QueueGrows
<1> HIDE DEF r
<1>2. ASSUME Hooked(f) PROVE Reaches(v, r, n + 1, f.to)
  <2>1. n + 1 \in 1..(n + 1) /\ \A i \in ((n + 1) + 1)..(n + 1) : FALSE
    BY <1>1
  <2> QED BY <1>1, <1>2, <2>1 DEF Reaches
<1>3. ASSUME ~Hooked(f), Reaches(v, q, n, p) PROVE Reaches(v, r, n + 1, p)
  <2>1. Reaches(v, r, n, p)
    BY <1>1, <1>3, ReachesByPrefix
  <2>2. \A i \in Int : i <= n + 1 /\ ~(i <= n) => i = n + 1
    BY <1>1
  <2>3. ASSUME NEW j \in 1..n, Hooked(r[j]), r[j].to = p, \A i \in (j + 1)..n : ~Hooked(r[i])
        PROVE  Reaches(v, r, n + 1, p)
    <3>1. \A i \in (j + 1)..(n + 1) : ~Hooked(r[i])
      BY <1>1, <1>3, <2>2, <2>3
    <3>2. j \in 1..(n + 1)
      BY <1>1
    <3> QED BY <3>1, <3>2, <2>3 DEF Reaches
  <2>4. ASSUME v = p, \A i \in 1..n : ~Hooked(r[i])
        PROVE  Reaches(v, r, n + 1, p)
    <3>1. \A i \in 1..(n + 1) : ~Hooked(r[i])
      BY <1>1, <1>3, <2>2, <2>4
    <3> QED BY <3>1, <2>4 DEF Reaches
  <2> QED BY <2>1, <2>3, <2>4 DEF Reaches
<1>4. (Hooked(f) => Reaches(v, r, Len(r), f.to))
      /\ (~Hooked(f) /\ Reaches(v, q, n, p) => Reaches(v, r, Len(r), p))
  BY <1>1, <1>2, <1>3
<1> QED BY <1>4 DEF r

(* A frame that begins where the queue ends leaves the queue lined up.      *)
LEMMA AppendLinesUp ==
    ASSUME NEW q \in Seq(Frames), NEW f \in Frames, NEW v,
           LinesUp(v, q),
           f.kind = "output" => Reaches(v, q, Len(q), f.from)
    PROVE  LinesUp(v, q \o <<f>>)
<1> DEFINE n == Len(q)
           r == q \o <<f>>
<1>1. /\ n \in Nat /\ Len(r) = n + 1
      /\ \A i \in 1..n : r[i] = q[i]
      /\ r[n + 1] = f
  BY QueueGrows
<1> HIDE DEF r
<1>2. ASSUME NEW k \in 1..Len(r), r[k].kind = "output"
      PROVE  Reaches(v, r, k - 1, r[k].from)
  <2>1. CASE k = n + 1
    <3>1. k - 1 = n /\ r[k] = f
      BY <1>1, <2>1
    <3> QED BY <1>1, <1>2, <3>1, ReachesByPrefix
  <2>2. CASE k # n + 1
    <3>1. k \in 1..n /\ k - 1 \in Nat /\ r[k] = q[k] /\ \A i \in 1..(k - 1) : r[i] = q[i]
      BY <1>1, <2>2
    <3>2. Reaches(v, q, k - 1, q[k].from)
      BY <1>2, <3>1 DEF LinesUp
    <3>3. Reaches(v, r, k - 1, q[k].from)
      BY <3>1, <3>2, ReachesByPrefix
    <3> QED BY <3>1, <3>3
  <2> QED BY <2>1, <2>2
<1>3. LinesUp(v, r)
  BY <1>2 DEF LinesUp
<1> QED BY <1>3 DEF r

\* The frame the pump takes is one the view is ahead by.
LEMMA TailReaches ==
    ASSUME NEW q \in Seq(Frames), q # <<>>, NEW v, NEW p,
           NEW n \in 1..Len(q), Reaches(v, q, n, p)
    PROVE  Reaches(IF Hooked(Head(q)) THEN Head(q).to ELSE v, Tail(q), n - 1, p)
<1> DEFINE w == IF Hooked(Head(q)) THEN Head(q).to ELSE v
           r == Tail(q)
<1>1. /\ Head(q) = q[1] /\ Len(q) \in Nat
      /\ \A i \in 1..(Len(q) - 1) : r[i] = q[i + 1]
  BY QueueShrinks
<1>2. n - 1 \in Nat /\ \A i \in 1..(n - 1) : r[i] = q[i + 1]
  BY <1>1
<1> HIDE DEF r
<1>3. ASSUME NEW j \in 1..n, Hooked(q[j]), q[j].to = p, \A i \in (j + 1)..n : ~Hooked(q[i])
      PROVE  Reaches(w, r, n - 1, p)
  <2>1. CASE j = 1
    <3>1. w = p
      BY <1>1, <1>3, <2>1
    <3>2. \A i \in 1..(n - 1) : ~Hooked(r[i])
      BY <1>2, <1>3, <2>1
    <3> QED BY <3>1, <3>2 DEF Reaches
  <2>2. CASE j # 1
    <3>1. j - 1 \in 1..(n - 1) /\ r[j - 1] = q[j]
      BY <1>2, <2>2
    <3>2. \A i \in ((j - 1) + 1)..(n - 1) : ~Hooked(r[i])
      BY <1>2, <1>3, <2>2
    <3> QED BY <3>1, <3>2, <1>3 DEF Reaches
  <2> QED BY <2>1, <2>2
<1>4. ASSUME v = p, \A i \in 1..n : ~Hooked(q[i])
      PROVE  Reaches(w, r, n - 1, p)
  <2>1. w = p
    BY <1>1, <1>4
  <2>2. \A i \in 1..(n - 1) : ~Hooked(r[i])
    BY <1>2, <1>4
  <2> QED BY <2>1, <2>2 DEF Reaches
<1>5. Reaches(w, r, n - 1, p)
  BY <1>3, <1>4 DEF Reaches
<1> QED BY <1>5 DEF r

(* Taking the first frame, and moving the view to its end when it is output *)
(* or a checkpoint, leaves the rest lined up.                               *)
LEMMA TailLinesUp ==
    ASSUME NEW q \in Seq(Frames), q # <<>>, NEW v, LinesUp(v, q)
    PROVE  LinesUp(IF Hooked(Head(q)) THEN Head(q).to ELSE v, Tail(q))
<1> DEFINE w == IF Hooked(Head(q)) THEN Head(q).to ELSE v
           r == Tail(q)
<1>1. /\ Len(q) \in Nat /\ Len(r) = Len(q) - 1
      /\ \A i \in 1..(Len(q) - 1) : r[i] = q[i + 1]
  BY QueueShrinks
<1>2. ASSUME NEW k \in 1..Len(r), r[k].kind = "output"
      PROVE  Reaches(w, r, k - 1, r[k].from)
  <2>1. k + 1 \in 1..Len(q) /\ k \in 1..Len(q) /\ (k + 1) - 1 = k /\ r[k] = q[k + 1]
    BY <1>1
  <2>2. Reaches(v, q, k, q[k + 1].from)
    BY <1>2, <2>1 DEF LinesUp
  <2>3. Reaches(w, r, k - 1, q[k + 1].from)
    BY <2>1, <2>2, TailReaches
  <2> QED BY <2>1, <2>3
<1> QED BY <1>2 DEF LinesUp

-------------------------------------------------------------------------------
(* The bytes of a queue: a sum by recursion on its length.  The library's  *)
(* induction takes a predicate, which no backend here can instantiate; its *)
(* well-founded minimum takes a set, and does: the least place at which    *)
(* two sums differ.                                                        *)

(* A set of natural numbers that is not empty has a least element. This is  *)
(* the form of induction the proofs below use.                              *)
LEMMA LeastNumber ==
    ASSUME NEW T, T \subseteq Nat, T # {}
    PROVE  \E x \in T : \A y \in T : x <= y
<1> DEFINE Less == {ss \in Nat \X Nat : ss[1] < ss[2]}
<1>1. IsWellFoundedOn(Less, Nat)
  BY NatLessThanWellFounded DEF OpToRel
<1>2. \A x, y \in Nat : x < y => <<x, y>> \in Less
  OBVIOUS
<1> HIDE DEF Less
<1>3. PICK x \in T : \A y \in T : ~(<<y, x>> \in Less)
  BY <1>1, WFMin, Zenon
<1>4. ASSUME NEW y \in T PROVE x <= y
  <2>1. x \in Nat /\ y \in Nat /\ ~(y < x)
    BY <1>2, <1>3, <1>4
  <2> QED BY <2>1
<1> QED BY <1>3, <1>4

(* What a frame counts for in the backlog is a number.                      *)
LEMMA SizesAre == \A f \in Frames : Size(f) \in Nat
BY DEF Frames, Size

\* sum[k] is what the first k of the first n frames take.
Sums(sum, q, n) ==
    /\ sum \in [0..n -> Int]
    /\ sum[0] = 0
    /\ \A k \in 1..n : sum[k] = sum[k - 1] + Size(q[k])

(* Every queue has its partial sums: otherwise there would be a shortest    *)
(* prefix that has none.                                                    *)
LEMMA SumsExist ==
    ASSUME NEW q \in Seq(Frames)
    PROVE  \E sum : Sums(sum, q, Len(q))
<1>1. Len(q) \in Nat /\ \A k \in 1..Len(q) : Size(q[k]) \in Int
  BY SizesAre
<1> DEFINE T == {n \in 0..Len(q) : ~\E sum : Sums(sum, q, n)}
<1>2. ASSUME T # {} PROVE FALSE
  <2>1. PICK n \in T : \A m \in T : n <= m
    <3>1. T \subseteq Nat
      BY <1>1
    <3> HIDE DEF T
    <3> QED BY <1>2, <3>1, LeastNumber
  <2>2. n \in 0..Len(q) /\ ~\E sum : Sums(sum, q, n)
    BY <2>1
  <2>3. CASE n = 0
    <3>1. Sums([k \in 0..0 |-> 0], q, 0)
      BY DEF Sums
    <3> QED BY <2>2, <2>3, <3>1
  <2>4. CASE n # 0
    <3>1. n - 1 \in 0..Len(q) /\ n - 1 \notin T /\ n \in 1..Len(q)
      BY <1>1, <2>1, <2>2, <2>4
    <3>2. PICK sum : Sums(sum, q, n - 1)
      BY <3>1
    <3> DEFINE next == [k \in 0..n |-> IF k = n THEN sum[n - 1] + Size(q[n]) ELSE sum[k]]
    <3>3. \A k \in 0..n : next[k] = IF k = n THEN sum[n - 1] + Size(q[n]) ELSE sum[k]
      OBVIOUS
    <3>4. next \in [0..n -> Int]
      <4>1. \A k \in 0..n : k # n => k \in 0..(n - 1)
        BY <2>2
      <4>2. n - 1 \in 0..(n - 1) /\ sum[n - 1] \in Int /\ Size(q[n]) \in Int
        BY <1>1, <3>1, <3>2 DEF Sums
      <4> QED BY <3>2, <4>1, <4>2 DEF Sums
    <3>5. next[0] = 0
      BY <2>2, <2>4, <3>2 DEF Sums
    <3>6. ASSUME NEW k \in 1..n PROVE next[k] = next[k - 1] + Size(q[k])
      <4>1. k \in 0..n /\ k - 1 \in 0..n /\ k - 1 # n
        BY <2>2
      <4> QED BY <3>2, <3>3, <4>1, <2>2 DEF Sums
    <3>7. Sums(next, q, n)
      BY <3>4, <3>5, <3>6 DEF Sums
    <3> QED BY <2>2, <3>7
  <2> QED BY <2>3, <2>4
<1>3. Len(q) \in 0..Len(q)
  BY <1>1
<1> QED BY <1>2, <1>3

(* Bytes is the last of the partial sums.                                   *)
LEMMA BytesAre ==
    ASSUME NEW q \in Seq(Frames), NEW sum, Sums(sum, q, Len(q))
    PROVE  Bytes(q) = sum[Len(q)]
<1> DEFINE n == Len(q)
           upTo == CHOOSE g : g = [k \in 0..n |-> IF k = 0 THEN 0 ELSE g[k - 1] + Size(q[k])]
<1>1. Bytes(q) = upTo[n]
  BY DEF Bytes
<1>2. n \in Nat
  OBVIOUS
<1>3. sum = [k \in 0..n |-> IF k = 0 THEN 0 ELSE sum[k - 1] + Size(q[k])]
  <2>1. \A k \in 0..n : sum[k] = IF k = 0 THEN 0 ELSE sum[k - 1] + Size(q[k])
    BY <1>2 DEF Sums
  <2> QED BY <2>1 DEF Sums
<1>4. upTo = [k \in 0..n |-> IF k = 0 THEN 0 ELSE upTo[k - 1] + Size(q[k])]
  BY <1>3
<1> HIDE DEF upTo
<1>5. ASSUME NEW k \in 0..n, upTo[k] # sum[k] PROVE FALSE
  <2> DEFINE T == {m \in 0..n : upTo[m] # sum[m]}
  <2>1. PICK m \in T : \A l \in T : m <= l
    <3>1. T \subseteq Nat /\ T # {}
      BY <1>2, <1>5
    <3> HIDE DEF T
    <3> QED BY <3>1, LeastNumber
  <2>2. m \in 0..n /\ upTo[m] # sum[m]
    BY <2>1
  <2>3. CASE m = 0
    BY <1>4, <2>2, <2>3 DEF Sums
  <2>4. CASE m # 0
    <3>1. m \in 1..n /\ m - 1 \in 0..n /\ m - 1 \notin T
      BY <1>2, <2>1, <2>2, <2>4
    <3>2. upTo[m - 1] = sum[m - 1]
      BY <3>1
    <3>3. upTo[m] = upTo[m - 1] + Size(q[m])
      BY <1>4, <2>2, <2>4
    <3>4. sum[m] = sum[m - 1] + Size(q[m])
      BY <3>1 DEF Sums
    <3> QED BY <2>2, <3>2, <3>3, <3>4
  <2> QED BY <2>3, <2>4
<1>6. n \in 0..n
  BY <1>2
<1> QED BY <1>1, <1>5, <1>6

(* An empty queue holds no bytes.                                           *)
LEMMA BytesOfNone == Bytes(<<>>) = 0
<1>1. <<>> \in Seq(Frames) /\ Len(<<>>) = 0
  OBVIOUS
<1>2. Sums([k \in 0..0 |-> 0], <<>>, 0)
  BY DEF Sums
<1>3. Bytes(<<>>) = [k \in 0..0 |-> 0][0]
  BY <1>1, <1>2, BytesAre
<1> QED BY <1>3

(* A frame at the end of a queue adds its bytes.                            *)
LEMMA BytesGrow ==
    ASSUME NEW q \in Seq(Frames), NEW f \in Frames
    PROVE  Bytes(q) \in Int /\ Bytes(q \o <<f>>) = Bytes(q) + Size(f)
<1> DEFINE n == Len(q)
           r == q \o <<f>>
<1>1. /\ r \in Seq(Frames) /\ n \in Nat /\ Len(r) = n + 1
      /\ \A i \in 1..n : r[i] = q[i]
      /\ r[n + 1] = f
  BY QueueGrows
<1> HIDE DEF r
<1>2. PICK sum : Sums(sum, q, n)
  BY SumsExist
<1>3. Bytes(q) = sum[n] /\ sum[n] \in Int
  BY <1>1, <1>2, BytesAre DEF Sums
<1> DEFINE next == [k \in 0..(n + 1) |-> IF k = n + 1 THEN sum[n] + Size(f) ELSE sum[k]]
<1>4. \A k \in 0..(n + 1) : next[k] = IF k = n + 1 THEN sum[n] + Size(f) ELSE sum[k]
  OBVIOUS
<1>5. Sums(next, r, n + 1)
  <2>1. next \in [0..(n + 1) -> Int]
    <3>1. \A k \in 0..(n + 1) : k # n + 1 => k \in 0..n
      BY <1>1
    <3> QED BY <1>2, <1>3, <3>1, SizesAre DEF Sums
  <2>2. next[0] = 0
    BY <1>1, <1>2, <1>4 DEF Sums
  <2>3. ASSUME NEW k \in 1..(n + 1) PROVE next[k] = next[k - 1] + Size(r[k])
    <3>1. k \in 0..(n + 1) /\ k - 1 \in 0..(n + 1) /\ k - 1 # n + 1
      BY <1>1
    <3>2. CASE k = n + 1
      BY <1>1, <1>4, <3>1, <3>2
    <3>3. CASE k # n + 1
      <4>1. k \in 1..n /\ r[k] = q[k]
        BY <1>1, <3>3
      <4> QED BY <1>2, <1>4, <3>1, <3>3, <4>1 DEF Sums
    <3> QED BY <3>2, <3>3
  <2> HIDE DEF next
  <2> QED BY <2>1, <2>2, <2>3 DEF Sums
<1>6. Bytes(r) = next[n + 1]
  <2> HIDE DEF next
  <2> QED BY <1>1, <1>5, BytesAre
<1>7. next[n + 1] = sum[n] + Size(f)
  BY <1>1, <1>4
<1> QED BY <1>3, <1>6, <1>7 DEF r

(* The bytes of a queue are those of its first frame and of the rest.       *)
LEMMA BytesShrink ==
    ASSUME NEW q \in Seq(Frames), q # <<>>
    PROVE  Bytes(q) = Size(Head(q)) + Bytes(Tail(q))
<1> DEFINE n == Len(q)
           r == Tail(q)
<1>1. /\ r \in Seq(Frames) /\ n \in Nat \ {0} /\ Len(r) = n - 1
      /\ Head(q) \in Frames /\ Head(q) = q[1]
      /\ \A i \in 1..(n - 1) : r[i] = q[i + 1]
  BY QueueShrinks
<1> HIDE DEF r
<1>2. PICK sum : Sums(sum, q, n)
  BY SumsExist
<1>3. Bytes(q) = sum[n] /\ \A k \in 0..n : sum[k] \in Int
  BY <1>2, BytesAre DEF Sums
<1>4. sum[1] = Size(Head(q))
  <2>1. 1 \in 1..n /\ 1 - 1 = 0
    BY <1>1
  <2>2. sum[1] = sum[0] + Size(q[1]) /\ sum[0] = 0
    BY <1>2, <2>1 DEF Sums
  <2> QED BY <1>1, <2>2, SizesAre
<1> DEFINE next == [k \in 0..(n - 1) |-> sum[k + 1] - sum[1]]
<1>5. \A k \in 0..(n - 1) : k + 1 \in 0..n /\ 1 \in 0..n
  BY <1>1
<1>6. Sums(next, r, n - 1)
  <2>1. next \in [0..(n - 1) -> Int] /\ next[0] = 0
    <3>1. 0 \in 0..(n - 1)
      BY <1>1
    <3> QED BY <1>3, <1>5, <3>1
  <2>2. ASSUME NEW k \in 1..(n - 1) PROVE next[k] = next[k - 1] + Size(r[k])
    <3>1. k \in 0..(n - 1) /\ k - 1 \in 0..(n - 1) /\ k + 1 \in 1..n /\ k \in 0..n /\ (k - 1) + 1 = k
          /\ (k + 1) - 1 = k
      BY <1>1
    <3>2. next[k] = sum[k + 1] - sum[1] /\ next[k - 1] = sum[k] - sum[1]
      BY <3>1
    <3>3. sum[k + 1] = sum[k] + Size(q[k + 1]) /\ r[k] = q[k + 1] /\ q[k + 1] \in Frames
      BY <1>1, <1>2, <3>1 DEF Sums
    <3>4. sum[k] \in Int /\ sum[1] \in Int /\ Size(q[k + 1]) \in Int
      BY <1>3, <1>5, <3>1, <3>3, SizesAre
    <3> HIDE DEF next
    <3> QED BY <3>2, <3>3, <3>4
  <2> HIDE DEF next
  <2> QED BY <2>1, <2>2 DEF Sums
<1>7. Bytes(r) = next[n - 1]
  <2> HIDE DEF next
  <2> QED BY <1>1, <1>6, BytesAre
<1>8. next[n - 1] = sum[n] - sum[1] /\ sum[n] \in Int /\ sum[1] \in Int
  <2>1. n - 1 \in 0..(n - 1) /\ (n - 1) + 1 = n /\ n \in 0..n /\ 1 \in 0..n
    BY <1>1
  <2> QED BY <1>3, <2>1
<1>9. Bytes(q) = Size(Head(q)) + Bytes(r)
  <2> HIDE DEF next
  <2> QED BY <1>3, <1>4, <1>7, <1>8
<1> QED BY <1>9 DEF r

(* The exit notice is a frame without a drain hook.                         *)
LEMMA ExitIsFrame == Exit \in Frames /\ ~Hooked(Exit) /\ Exit.kind = "exit"
BY DEF Exit, Frame, Frames, Hooked

\* The notice of a sink that is let go is a frame of the view no hook counts.
LEMMA NoticeQueues ==
    ASSUME queue \in Seq(Frames), ExitNotice
    PROVE  queue' = queue \/ (channel /\ queue' = queue \o <<Exit>>)
BY DEF ExitNotice, Queued

-------------------------------------------------------------------------------
(* Types. *)

(* The exit notice leaves the queue a sequence of frames.                   *)
LEMMA NoticeTypes ==
    ASSUME queue \in Seq(Frames), ExitNotice
    PROVE  queue' \in Seq(Frames)
BY NoticeQueues, ExitIsFrame, QueueGrows

(* What Types says of the program counters of the loop and the pump.        *)
LEMMA PlacesAre ==
    ASSUME Types
    PROVE  /\ loop.at \in {"idle", "look", "decide", "count", "put", "live"}
           /\ loop.at = "idle" <=> loop = Idle
           /\ loop.at = "look" => loop.size \in ChunkSizes
           /\ loop.at = "decide" => loop.size \in ChunkSizes /\ loop.seen \in Int
           /\ loop.at \in {"count", "put"} => loop.frame \in Frames
           /\ sending.at \in {"idle", "send", "hook", "check"}
           /\ sending.at = "idle" <=> sending = Idle
           /\ sending.at \in {"send", "hook"} => sending.frame \in Frames
           /\ sending.at = "check" => sending.left \in Int
BY DEF Types, LoopAt, PumpAt, Idle

(* The marks and the sizes are integers, and no chunk exceeds the high      *)
(* mark.                                                                    *)
LEMMA IntsAre ==
    /\ ChunkSizes \subseteq Int /\ CheckpointSizes \subseteq Int
    /\ HighWater \in Int /\ LowWater \in Int
    /\ \A n \in ChunkSizes : n \in Nat /\ n <= HighWater
    /\ \A n \in CheckpointSizes : n \in Nat \ {0}
BY ChunksFit, Marks

(* The frames the loop and the pump's other users build are frames.         *)
LEMMA FramesAre ==
    /\ \A f \in Frames : /\ f.kind \in {"output", "checkpoint", "exit", "other"}
                         /\ f.from \in Int /\ f.to \in Int /\ f.size \in Nat
    /\ \A n \in ChunkSizes, p \in Int : Frame("output", p - n, p, n) \in Frames
    /\ \A n \in CheckpointSizes, p \in Int : Frame("checkpoint", 0, p, n) \in Frames
    /\ Frame("other", 0, 0, 1) \in Frames
<1> USE IntsAre DEF Frame, Frames
<1>1. \A f \in Frames : /\ f.kind \in {"output", "checkpoint", "exit", "other"}
                        /\ f.from \in Int /\ f.to \in Int /\ f.size \in Nat
  OBVIOUS
<1>2. \A n \in ChunkSizes, p \in Int : Frame("output", p - n, p, n) \in Frames
  OBVIOUS
<1>3. \A n \in CheckpointSizes, p \in Int : Frame("checkpoint", 0, p, n) \in Frames
  OBVIOUS
<1>4. Frame("other", 0, 0, 1) \in Frames
  OBVIOUS
<1> QED BY <1>1, <1>2, <1>3, <1>4

(* Every step keeps the types.                                              *)
LEMMA TypesHold ==
    ASSUME Types, [Next]_vars
    PROVE  Types'
<1> USE PlacesAre, IntsAre
<1>t. /\ produced \in Int /\ view \in Int /\ pending \in Int
      /\ state \in {"Live", "Dropping", "Resyncing"}
      /\ messages \in Seq({"Subscribe", "Checkpoint"})
      /\ loop \in LoopAt /\ sending \in PumpAt
      /\ queue \in Seq(Frames)
      /\ failed \in BOOLEAN /\ torn \in BOOLEAN /\ channel \in BOOLEAN /\ subscribed \in BOOLEAN
  BY DEF Types
<1>i. Idle \in LoopAt /\ Idle \in PumpAt /\ [at |-> "live"] \in LoopAt
  BY DEF LoopAt, PumpAt
<1>m. \A m \in Seq({"Subscribe", "Checkpoint"}) :
         /\ Append(m, "Checkpoint") \in Seq({"Subscribe", "Checkpoint"})
         /\ m # <<>> => Tail(m) \in Seq({"Subscribe", "Checkpoint"})
  OBVIOUS
<1>e. <<>> \in Seq({"Subscribe", "Checkpoint"}) /\ <<>> \in Seq(Frames)
  OBVIOUS
<1> USE <1>t, <1>i
<1>1. ASSUME NEW n \in ChunkSizes, Parse(n) PROVE Types'
  BY <1>1 DEF Parse, Types, LoopAt, flowVars, channelVars
<1>2. CASE LookGone
  BY <1>2, NoticeTypes DEF LookGone, Types, flowVars
<1>3. CASE Look
  <2>1. loop' \in LoopAt
    BY <1>3 DEF Look, LoopAt
  <2> QED BY <1>3, <2>1 DEF Look, Types, loopVars, channelVars
<1>4. CASE Decide
  <2>1. loop.size \in ChunkSizes
    BY <1>4 DEF Decide
  <2>2. Frame("output", produced - loop.size, produced, loop.size) \in Frames
    BY <2>1, FramesAre
  <2>3. loop' \in LoopAt
    BY <1>4, <2>2 DEF Decide, LoopAt
  <2> QED BY <1>4, <2>3 DEF Decide, Types, loopVars, channelVars
<1>5. CASE Count
  <2>1. loop.frame \in Frames /\ loop.frame.size \in Nat
    BY <1>5, FramesAre DEF Count
  <2>2. loop' = [at |-> "put", frame |-> loop.frame]
    BY <1>5 DEF Count, LoopAt, Idle
  <2>3. loop' \in LoopAt
    BY <2>1, <2>2 DEF LoopAt
  <2> QED BY <1>5, <2>1, <2>3 DEF Count, Types, loopVars
<1>6. CASE Put
  <2>1. queue' \in Seq(Frames)
    BY <1>6, QueueGrows DEF Put, Queued
  <2> QED BY <1>6, <2>1 DEF Put, Types, flowVars
<1>7. ASSUME NEW size \in CheckpointSizes, Checkpoint(size) PROVE Types'
  <2>1. Frame("checkpoint", 0, produced, size) \in Frames
    BY FramesAre
  <2>2. loop' \in LoopAt
    BY <1>7, <2>1 DEF Checkpoint, LoopAt
  <2> QED BY <1>7, <2>2, <1>m DEF Checkpoint, Types, flowVars, channelVars
<1>8. CASE CheckpointFails
  <2>1. queue' \in Seq(Frames)
    BY <1>8, NoticeTypes DEF CheckpointFails
  <2> QED BY <1>8, <2>1, <1>m DEF CheckpointFails, Types, flowVars
<1>9. CASE GoLive
  BY <1>9 DEF GoLive, Types, loopVars, channelVars
<1>10. CASE ShellExits
  <2>1. queue' \in Seq(Frames)
    BY <1>10, NoticeTypes DEF ShellExits
  <2> QED BY <1>10, <2>1, <1>e DEF ShellExits, Types, flowVars
<1>11. CASE Receive
  <2>1. CASE CloseChannel
    <3>1. sending' \in PumpAt /\ queue' \in Seq(Frames) /\ channel' \in BOOLEAN
      BY <2>1, <1>e DEF CloseChannel
    <3> QED BY <1>11, <3>1 DEF Receive, Types, loopVars, flowVars
  <2>2. CASE sending' = [at |-> "send", frame |-> Head(queue)] /\ queue' = Tail(queue) /\ channel' = channel
    <3>1. Head(queue) \in Frames /\ queue' \in Seq(Frames)
      BY <1>11, <2>2, QueueShrinks DEF Receive
    <3>2. sending' \in PumpAt
      BY <2>2, <3>1 DEF PumpAt
    <3> QED BY <1>11, <2>2, <3>1, <3>2 DEF Receive, Types, loopVars, flowVars
  <2> QED BY <1>11, <2>1, <2>2 DEF Receive
<1>12. CASE Sent
  <2>1. sending.frame \in Frames /\ sending.frame.to \in Int
    BY <1>12, FramesAre DEF Sent
  <2>2. sending' \in PumpAt
    BY <1>12, <2>1 DEF Sent, PumpAt
  <2>3. view' \in Int /\ torn' \in BOOLEAN
    BY <1>12, <2>1 DEF Sent
  <2> QED BY <1>12, <2>2, <2>3 DEF Sent, Types, loopVars, flowVars
<1>13. CASE HookCount
  <2>1. pending' \in Int /\ sending' = [at |-> "check", left |-> pending']
    BY <1>13, FramesAre DEF HookCount
  <2>2. sending' \in PumpAt
    BY <2>1 DEF PumpAt
  <2> QED BY <1>13, <2>1, <2>2 DEF HookCount, Types, loopVars
<1>14. CASE HookCheck
  <2>1. state' \in {"Live", "Dropping", "Resyncing"} /\ messages' \in Seq({"Subscribe", "Checkpoint"})
    BY <1>14, <1>m DEF HookCheck
  <2> QED BY <1>14, <2>1 DEF HookCheck, Types
<1>15. CASE ChannelFails
  BY <1>15, <1>e DEF ChannelFails, CloseChannel, Types, loopVars, flowVars
<1>16. CASE SendOther
  <2>1. queue' \in Seq(Frames)
    BY <1>16, QueueGrows, FramesAre DEF SendOther, Queued
  <2> QED BY <1>16, <2>1 DEF SendOther, Types, loopVars, flowVars
<1>17. CASE Detach
  BY <1>17 DEF Detach, Types, loopVars, channelVars
<1>18. CASE UNCHANGED vars
  BY <1>18 DEF vars, Types, loopVars, flowVars, channelVars
<1> QED
  BY <1>1, <1>2, <1>3, <1>4, <1>5, <1>6, <1>7, <1>8, <1>9, <1>10, <1>11, <1>12, <1>13,
     <1>14, <1>15, <1>16, <1>17, <1>18
  DEF Next, LoopStep, PumpStep

-------------------------------------------------------------------------------
(* One checkpoint at a time. *)

(* At most one checkpoint is asked for or under way, and the flow state     *)
(* says so: every step keeps it.                                            *)
LEMMA AskedHolds ==
    ASSUME Types, Asked, [Next]_vars
    PROVE  Asked'
<1> USE PlacesAre DEF Asked, OnOutput, OnCheckpoint
<1>t. /\ state \in {"Live", "Dropping", "Resyncing"}
      /\ messages \in Seq({"Subscribe", "Checkpoint"})
  BY DEF Types
<1>m. /\ Len(messages) = 1 => Tail(messages) = <<>>
      /\ Len(Append(<<>>, "Checkpoint")) = 1
  <2>1. ASSUME Len(messages) = 1 PROVE Tail(messages) = <<>>
    <3>1. Tail(messages) \in Seq({"Subscribe", "Checkpoint"}) /\ Len(Tail(messages)) = 0
      BY <1>t, <2>1
    <3> QED BY <3>1, EmptySeq
  <2>2. Append(<<>>, "Checkpoint") = <<"Checkpoint">>
    OBVIOUS
  <2> QED BY <2>1, <2>2
<1>1. ASSUME NEW n \in ChunkSizes, Parse(n) PROVE Asked'
  BY <1>1 DEF Parse, flowVars, Idle
<1>2. CASE LookGone
  BY <1>2 DEF LookGone, flowVars, Idle
<1>3. CASE Look
  BY <1>3 DEF Look, loopVars, Idle
<1>4. CASE Decide
  BY <1>4 DEF Decide, loopVars, Idle, Hooked, Frame
<1>5. CASE Count
  <2>1. loop' = [at |-> "put", frame |-> loop.frame]
    BY <1>5 DEF Count, LoopAt, Idle, Types
  <2> QED BY <1>5, <2>1 DEF Count, loopVars, Hooked
<1>6. CASE Put
  BY <1>6 DEF Put, flowVars, Idle, Hooked
<1>7. ASSUME NEW size \in CheckpointSizes, Checkpoint(size) PROVE Asked'
  BY <1>7, <1>m DEF Checkpoint, flowVars, Frame, Hooked
<1>8. CASE CheckpointFails
  BY <1>8, <1>m DEF CheckpointFails, flowVars
<1>9. CASE GoLive
  BY <1>9 DEF GoLive, loopVars, Idle
<1>10. CASE ShellExits
  BY <1>10 DEF ShellExits, flowVars
<1>11. CASE Receive
  BY <1>11 DEF Receive, loopVars, flowVars
<1>12. CASE Sent
  BY <1>12 DEF Sent, loopVars, flowVars
<1>13. CASE HookCount
  BY <1>13 DEF HookCount, loopVars
<1>14. CASE HookCheck
  BY <1>14, <1>m DEF HookCheck
<1>15. CASE ChannelFails
  BY <1>15 DEF ChannelFails, loopVars, flowVars
<1>16. CASE SendOther
  BY <1>16 DEF SendOther, loopVars, flowVars
<1>17. CASE Detach
  BY <1>17 DEF Detach, loopVars
<1>18. CASE UNCHANGED vars
  BY <1>18 DEF vars, loopVars, flowVars
<1> QED
  BY <1>1, <1>2, <1>3, <1>4, <1>5, <1>6, <1>7, <1>8, <1>9, <1>10, <1>11, <1>12, <1>13,
     <1>14, <1>15, <1>16, <1>17, <1>18
  DEF Next, LoopStep, PumpStep

-------------------------------------------------------------------------------
(* The backlog. *)

\* Nothing of it is lost as the backlog drains.
LEMMA CappedFalls ==
    ASSUME pending \in Int, pending' \in Int, pending' <= pending
    PROVE  /\ BacklogCapped => BacklogCapped'
           /\ Mild => Mild'
           /\ pending < LowWater => pending' < LowWater
<1> USE IntsAre
<1>1. \A size \in CheckpointSizes :
         /\ pending <= HighWater + size => pending' <= HighWater + size
         /\ pending < LowWater + 2 * size => pending' < LowWater + 2 * size
         /\ pending < LowWater + size => pending' < LowWater + size
  OBVIOUS
<1>2. /\ pending <= HighWater => pending' <= HighWater
      /\ pending < LowWater => pending' < LowWater
  OBVIOUS
<1>3. ASSUME BacklogCapped PROVE BacklogCapped'
  BY <1>1, <1>3, Zenon DEF BacklogCapped
<1>4. ASSUME Mild PROVE Mild'
  BY <1>1, <1>2, <1>4, Zenon DEF Mild
<1> QED BY <1>2, <1>3, <1>4

(* A backlog below the low mark is mild: a checkpoint may still be added.   *)
LEMMA LowIsMild ==
    ASSUME pending \in Int, pending < LowWater
    PROVE  Mild
BY IntsAre, Marks DEF Mild

\* A checkpoint is put on a backlog that is one checkpoint over the mark at most.
LEMMA CheckpointAdds ==
    ASSUME pending \in Int, Mild,
           NEW size \in CheckpointSizes, pending' = pending + size
    PROVE  BacklogCapped'
<1> USE IntsAre
<1>1. CASE pending <= HighWater
  <2>1. pending' <= HighWater + size
    BY <1>1
  <2> QED BY <2>1, Zenon DEF BacklogCapped
<1>2. ASSUME NEW before \in CheckpointSizes, pending < LowWater + before
      PROVE  BacklogCapped'
  <2>1. CASE before <= size
    <3>1. pending' < LowWater + 2 * size
      BY <1>2, <2>1
    <3> QED BY <3>1, Zenon DEF BacklogCapped
  <2>2. CASE ~(before <= size)
    <3>1. pending' < LowWater + 2 * before
      BY <1>2, <2>2
    <3> QED BY <3>1, Zenon DEF BacklogCapped
  <2> QED BY <2>1, <2>2
<1> QED BY <1>1, <1>2 DEF Mild

(* The backlog stays capped: it grows only by output that was decided on    *)
(* while it fitted and by a checkpoint, and a second checkpoint can meet a  *)
(* first only when the backlog is low.                                      *)
LEMMA CappedHolds ==
    ASSUME Types, Types', Asked, Asked', Capped, [Next]_vars
    PROVE  Capped'
<1> USE PlacesAre, IntsAre
<1>t. pending \in Int /\ pending' \in Int
  BY DEF Types
<1> USE <1>t
<1>a. /\ OnCheckpoint => ~OnOutput
      /\ ToCome => state = "Resyncing"
      /\ state # "Live" => ~OnOutput
  BY DEF Asked, ToCome, OnCheckpoint
\* What a step that leaves the backlog and the loop's place alone has to show.
<1>k. ASSUME pending' = pending, loop' = loop, messages' = messages,
             sending' = sending \/ sending'.at # "check"
      PROVE  Capped'
  BY <1>k DEF Capped, BacklogCapped, ToCome, Mild
<1>1. ASSUME NEW n \in ChunkSizes, Parse(n) PROVE Capped'
  BY <1>1 DEF Parse, flowVars, channelVars, Idle, Capped, BacklogCapped, ToCome, Mild
<1>2. CASE LookGone
  BY <1>2 DEF LookGone, flowVars, Idle, Capped, BacklogCapped, ToCome, Mild
<1>3. CASE Look
  BY <1>3 DEF Look, loopVars, channelVars, Idle, Capped, BacklogCapped, ToCome, Mild
<1>4. CASE Decide
  <2>1. BacklogCapped' /\ (ToCome' => ToCome) /\ (Mild => Mild')
    BY <1>4 DEF Decide, loopVars, channelVars, Idle, Frame, Capped, BacklogCapped, ToCome, Mild
  <2>2. ToCome' <=> ToCome
    BY <1>4 DEF Decide, loopVars, Idle, Frame, ToCome
  <2>3. loop'.at = "count" => /\ loop'.frame.kind = "output"
                              /\ pending' + loop'.frame.size <= HighWater
    <3>1. loop.at = "decide" /\ loop.size \in Int /\ loop.seen \in Int /\ pending' = pending
          /\ pending <= loop.seen
      BY <1>4 DEF Decide, Capped
    <3>2. loop'.at = "count" =>
             /\ loop.seen + loop.size <= HighWater
             /\ loop'.frame = Frame("output", produced - loop.size, produced, loop.size)
      BY <1>4 DEF Decide, Idle
    <3>3. loop.seen + loop.size <= HighWater => pending' + loop.size <= HighWater
      BY <3>1
    <3> QED BY <3>2, <3>3 DEF Frame
  <2>4. sending' = sending /\ loop'.at # "decide" /\ pending' = pending
    BY <1>4 DEF Decide, channelVars, Idle
  <2> QED BY <2>1, <2>2, <2>3, <2>4 DEF Capped
<1>5. CASE Count
  <2>1. loop' = [at |-> "put", frame |-> loop.frame] /\ sending' = sending /\ messages' = messages
        /\ pending' = pending + loop.frame.size /\ loop.at = "count"
    BY <1>5 DEF Count, LoopAt, Idle, Types, loopVars
  <2>2. loop.frame.kind = "checkpoint" => messages = <<>>
    BY <2>1 DEF Asked, OnCheckpoint
  <2>3. CASE loop.frame.kind = "output"
    <3>1. pending' <= HighWater
      BY <2>1, <2>3 DEF Capped
    <3>2. Mild' /\ BacklogCapped'
      <4>1. PICK size \in CheckpointSizes : TRUE
        BY Marks
      <4>2. pending' <= HighWater + size
        BY <3>1, <4>1
      <4> QED BY <3>1, <4>2, Zenon DEF Mild, BacklogCapped
    <3>3. ~ToCome'
      <4>1. messages = <<>>
        BY <2>1, <2>3 DEF Asked, OnOutput
      <4> QED BY <2>1, <4>1 DEF ToCome
    <3> QED BY <2>1, <3>2, <3>3 DEF Capped
  <2>4. CASE loop.frame.kind = "checkpoint"
    <3>1. ToCome /\ ~ToCome' /\ loop.frame.size \in CheckpointSizes
      BY <2>1, <2>2, <2>4 DEF ToCome, Capped
    <3>2. BacklogCapped'
      <4>1. Mild /\ pending' = pending + loop.frame.size
        BY <2>1, <3>1 DEF Capped
      <4>2. PICK size \in CheckpointSizes : size = loop.frame.size
        BY <3>1
      <4>3. pending' = pending + size
        BY <4>1, <4>2
      <4> QED BY <1>t, <4>1, <4>3, CheckpointAdds, Zenon
    <3>3. ASSUME sending.at = "check", sending.left < LowWater PROVE Mild'
      <4>1. pending < LowWater /\ pending' = pending + loop.frame.size
        BY <2>1, <3>1, <3>3 DEF Capped
      <4>2. PICK size \in CheckpointSizes : size = loop.frame.size
        BY <3>1, Zenon
      <4>3. pending' < LowWater + size
        <5>1. pending \in Int /\ LowWater \in Int /\ size \in Int /\ pending' = pending + size
          BY <1>t, <4>1, <4>2, IntsAre
        <5> QED BY <4>1, <5>1
      <4> QED BY <4>2, <4>3, Zenon DEF Mild
    <3> QED BY <2>1, <3>1, <3>2, <3>3 DEF Capped
  <2> QED BY <2>1, <2>3, <2>4 DEF Asked, Hooked
<1>6. CASE Put
  <2>1. pending' = pending /\ sending' = sending /\ (ToCome' <=> ToCome) /\ loop'.at \notin {"decide", "count"}
    BY <1>6 DEF Put, flowVars, Idle, ToCome
  <2> QED BY <2>1 DEF Capped, BacklogCapped, Mild
<1>7. ASSUME NEW size \in CheckpointSizes, Checkpoint(size) PROVE Capped'
  <2>1. ToCome /\ pending' = pending /\ sending' = sending /\ loop'.at = "count"
        /\ loop'.frame.kind = "checkpoint" /\ loop'.frame.size = size
    BY <1>7 DEF Checkpoint, flowVars, channelVars, Frame, ToCome
  <2> QED BY <2>1 DEF Capped, BacklogCapped, Mild, ToCome
<1>8. CASE CheckpointFails
  <2>1. ToCome /\ pending' = pending /\ sending' = sending /\ loop'.at = "live"
    BY <1>8 DEF CheckpointFails, flowVars, ToCome
  <2>2. sending.at = "check" /\ sending.left < LowWater => Mild
    BY <2>1, LowIsMild DEF Capped
  <2>3. ~ToCome'
    BY <1>8, <2>1 DEF CheckpointFails, ToCome, Asked, OnCheckpoint
  <2> QED BY <2>1, <2>2, <2>3 DEF Capped, BacklogCapped, Mild
<1>9. CASE GoLive
  BY <1>9 DEF GoLive, loopVars, channelVars, Idle, Capped, BacklogCapped, ToCome, Mild
<1>10. CASE ShellExits
  <2>1. pending' = pending /\ sending' = sending /\ loop' = loop /\ loop = Idle /\ ~ToCome'
    BY <1>10 DEF ShellExits, flowVars, ToCome, Idle
  <2>2. sending.at = "check" /\ sending.left < LowWater => Mild
    BY LowIsMild DEF Capped
  <2>3. BacklogCapped' /\ (Mild => Mild')
    BY <2>1, CappedFalls DEF Capped
  <2>4. loop'.at = "idle"
    BY <2>1 DEF Idle
  <2>5. sending'.at = "check" /\ sending'.left < LowWater => Mild'
    <3>1. sending.at = "check" /\ sending.left < LowWater => Mild'
      BY <2>2, <2>3
    <3> QED BY <2>1, <3>1
  <2>6. BacklogCapped'
    BY <2>3 DEF Capped
  <2> QED BY <2>1, <2>4, <2>5, <2>6 DEF Capped
<1>11. CASE Receive
  <2>1. /\ pending' = pending /\ loop' = loop /\ messages' = messages
        /\ sending' = Idle \/ sending' = [at |-> "send", frame |-> Head(queue)]
    BY <1>11 DEF Receive, CloseChannel, loopVars, flowVars
  <2>2. sending'.at # "check"
    BY <2>1 DEF Idle
  <2> QED BY <1>k, <2>1, <2>2
<1>12. CASE Sent
  BY <1>12, <1>k DEF Sent, loopVars, flowVars, Idle
<1>13. CASE HookCount
  <2>1. /\ pending' = pending - sending.frame.size /\ sending.frame.size \in Nat
        /\ sending' = [at |-> "check", left |-> pending']
        /\ loop' = loop /\ messages' = messages
    BY <1>13, FramesAre DEF HookCount, loopVars
  <2>2. pending' <= pending
    BY <2>1
  <2>3. BacklogCapped' /\ (ToCome' <=> ToCome) /\ (Mild => Mild')
    BY <2>1, <2>2, CappedFalls DEF Capped, ToCome
  <2>4. pending' < LowWater => Mild'
    BY Marks DEF Mild
  <2>5. loop.at = "decide" => pending' <= loop.seen
    BY <2>2 DEF Capped
  <2>6. loop.at = "count" /\ loop.frame.kind = "output" => pending' + loop.frame.size <= HighWater
    BY <2>2, FramesAre DEF Capped
  <2> QED BY <2>1, <2>3, <2>4, <2>5, <2>6 DEF Capped
<1>14. CASE HookCheck
  <2>1. pending' = pending /\ loop' = loop /\ sending' = Idle /\ sending.at = "check"
    BY <1>14 DEF HookCheck
  <2>2. CASE state = "Dropping" /\ sending.left < LowWater
    <3>1. Mild
      BY <2>1, <2>2, LowIsMild DEF Capped
    <3> QED BY <2>1, <3>1 DEF Capped, BacklogCapped, Mild, ToCome, Idle
  <2>3. CASE messages' = messages
    BY <2>1, <2>3, <1>k DEF Idle
  <2> QED BY <1>14, <2>2, <2>3 DEF HookCheck
<1>15. CASE ChannelFails
  BY <1>15, <1>k DEF ChannelFails, CloseChannel, loopVars, flowVars, Idle
<1>16. CASE SendOther
  BY <1>16, <1>k DEF SendOther, loopVars, flowVars
<1>17. CASE Detach
  BY <1>17, <1>k DEF Detach, loopVars, channelVars
<1>18. CASE UNCHANGED vars
  BY <1>18, <1>k DEF vars, loopVars, flowVars, channelVars
<1> QED
  BY <1>1, <1>2, <1>3, <1>4, <1>5, <1>6, <1>7, <1>8, <1>9, <1>10, <1>11, <1>12, <1>13,
     <1>14, <1>15, <1>16, <1>17, <1>18
  DEF Next, LoopStep, PumpStep

-------------------------------------------------------------------------------
(* The count of the backlog. *)

(* What is outstanding is a number, of three parts.                         *)
LEMMA OutstandingIs ==
    ASSUME Types
    PROVE  /\ Bytes(queue) \in Int /\ OnSocket \in Nat /\ ToPut \in Nat
           /\ Outstanding = Bytes(queue) + OnSocket + ToPut
<1>1. Bytes(queue) \in Int
  BY BytesGrow, ExitIsFrame DEF Types
<1>2. OnSocket \in Nat
  BY PlacesAre, SizesAre DEF OnSocket
<1>3. ToPut \in Nat
  BY PlacesAre, SizesAre DEF ToPut
<1> QED BY <1>1, <1>2, <1>3 DEF Outstanding

\* A step that moves nothing of the view's.
LEMMA NothingMoves ==
    ASSUME Types, Counted, channel' = channel, pending' = pending,
           Bytes(queue') = Bytes(queue), OnSocket' = OnSocket, ToPut' = ToPut,
           sending'.at \in {"send", "hook"} => channel,
           sending'.at = "hook" => Hooked(sending'.frame)
    PROVE  Counted'
<1>1. Outstanding' = Outstanding
  BY DEF Outstanding
<1> QED BY <1>1 DEF Counted

(* A frame without a drain hook adds nothing to the counted bytes.          *)
LEMMA OthersWeighNothing ==
    ASSUME queue \in Seq(Frames), NEW f \in Frames, ~Hooked(f), queue' = queue \o <<f>>
    PROVE  Bytes(queue') = Bytes(queue)
<1>1. Size(f) = 0
  BY DEF Size
<1> QED BY <1>1, BytesGrow

(* The exit notice adds nothing to the counted bytes.                       *)
LEMMA NoticeWeighsNothing ==
    ASSUME queue \in Seq(Frames), ExitNotice
    PROVE  Bytes(queue') = Bytes(queue)
BY NoticeQueues, ExitIsFrame, OthersWeighNothing

(* The atomic counter is what is in the queue, on the socket and about to   *)
(* be put: every step keeps it.                                             *)
LEMMA CountedHolds ==
    ASSUME Types, Types', Asked, Counted, [Next]_vars
    PROVE  Counted'
<1> USE PlacesAre
<1>t. queue \in Seq(Frames) /\ pending \in Int
  BY DEF Types
<1>s. sending' = sending => OnSocket' = OnSocket
  BY DEF OnSocket
<1>c. /\ sending.at \in {"send", "hook"} => channel
      /\ sending.at = "hook" => Hooked(sending.frame)
  BY DEF Counted
<1>1. ASSUME NEW n \in ChunkSizes, Parse(n) PROVE Counted'
  <2>1. ToPut' = ToPut
    BY <1>1 DEF Parse, ToPut, Idle
  <2> QED BY <1>1, <1>s, <1>c, <2>1, NothingMoves DEF Parse, flowVars, channelVars
<1>2. CASE LookGone
  <2>1. ToPut' = ToPut
    BY <1>2 DEF LookGone, ToPut, Idle
  <2>2. Bytes(queue') = Bytes(queue)
    BY <1>2, <1>t, NoticeWeighsNothing DEF LookGone
  <2> QED BY <1>2, <1>s, <1>c, <2>1, <2>2, NothingMoves DEF LookGone, flowVars
<1>3. CASE Look
  <2>1. ToPut' = ToPut
    BY <1>3 DEF Look, ToPut, Idle
  <2> QED BY <1>3, <1>s, <1>c, <2>1, NothingMoves DEF Look, channelVars
<1>4. CASE Decide
  <2>1. ToPut' = ToPut
    BY <1>4 DEF Decide, ToPut, Idle
  <2> QED BY <1>4, <1>s, <1>c, <2>1, NothingMoves DEF Decide, channelVars
<1>5. CASE Count
  <2>1. /\ sending' = sending /\ queue' = queue /\ channel' = channel
        /\ pending' = pending + loop.frame.size /\ loop.at = "count"
        /\ loop' = [at |-> "put", frame |-> loop.frame]
    BY <1>5 DEF Count, Types, LoopAt, Idle
  <2>2. ToPut = 0 /\ ToPut' = loop.frame.size
    BY <2>1 DEF ToPut, Size, Asked
  <2>3. loop.frame.size \in Nat
    BY <2>1, FramesAre
  <2>4. Outstanding' = Outstanding + loop.frame.size
    BY <1>s, <2>1, <2>2, <2>3, OutstandingIs DEF Outstanding
  <2> QED BY <1>c, <2>1, <2>4 DEF Counted
<1>6. CASE Put
  <2>1. /\ sending' = sending /\ channel' = channel /\ pending' = pending
        /\ loop.at = "put" /\ loop.frame \in Frames /\ loop'.at \in {"live", "idle"}
    BY <1>6 DEF Put, flowVars, Idle
  <2>2. ToPut = Size(loop.frame) /\ ToPut' = 0
    BY <2>1 DEF ToPut
  <2>3. ASSUME channel PROVE pending' = Outstanding'
    <3>1. queue' = queue \o <<loop.frame>>
      BY <1>6, <2>3 DEF Put, Queued
    <3>2. Bytes(queue') = Bytes(queue) + Size(loop.frame)
      BY <1>t, <2>1, <3>1, BytesGrow
    <3>3. Outstanding' = Outstanding
      BY <1>s, <2>1, <2>2, <3>2, OutstandingIs DEF Outstanding
    <3> QED BY <2>1, <2>3, <3>3 DEF Counted
  <2> QED BY <1>c, <2>1, <2>3 DEF Counted
<1>7. ASSUME NEW size \in CheckpointSizes, Checkpoint(size) PROVE Counted'
  <2>1. ToPut' = ToPut
    BY <1>7 DEF Checkpoint, ToPut, Idle
  <2> QED BY <1>7, <1>s, <1>c, <2>1, NothingMoves DEF Checkpoint, flowVars, channelVars
<1>8. CASE CheckpointFails
  <2>1. ToPut' = ToPut
    BY <1>8 DEF CheckpointFails, ToPut, Idle
  <2>2. Bytes(queue') = Bytes(queue)
    BY <1>8, <1>t, NoticeWeighsNothing DEF CheckpointFails
  <2> QED BY <1>8, <1>s, <1>c, <2>1, <2>2, NothingMoves DEF CheckpointFails, flowVars
<1>9. CASE GoLive
  <2>1. ToPut' = ToPut
    BY <1>9 DEF GoLive, ToPut, Idle
  <2> QED BY <1>9, <1>s, <1>c, <2>1, NothingMoves DEF GoLive, channelVars
<1>10. CASE ShellExits
  <2>1. ToPut' = ToPut
    BY <1>10 DEF ShellExits, ToPut
  <2>2. Bytes(queue') = Bytes(queue)
    BY <1>10, <1>t, NoticeWeighsNothing DEF ShellExits
  <2> QED BY <1>10, <1>s, <1>c, <2>1, <2>2, NothingMoves DEF ShellExits, flowVars
<1>11. CASE Receive
  <2>1. channel /\ queue # <<>> /\ sending = Idle /\ pending' = pending /\ loop' = loop
    BY <1>11 DEF Receive, flowVars
  <2>2. CASE CloseChannel
    BY <2>2 DEF CloseChannel, Counted, Idle
  <2>3. CASE sending' = [at |-> "send", frame |-> Head(queue)] /\ queue' = Tail(queue) /\ channel' = channel
    <3>1. OnSocket = 0 /\ OnSocket' = Size(Head(queue)) /\ ToPut' = ToPut
      BY <2>1, <2>3 DEF OnSocket, ToPut, Idle
    <3>2. Bytes(queue) = Size(Head(queue)) + Bytes(queue')
      BY <1>t, <2>1, <2>3, BytesShrink
    <3>3. Bytes(queue') \in Int /\ Size(Head(queue)) \in Int
      <4>1. Head(queue) \in Frames /\ queue' \in Seq(Frames)
        BY <1>t, <2>1, <2>3, QueueShrinks
      <4>2. Size(Head(queue)) \in Int
        BY <4>1, SizesAre
      <4>3. Bytes(queue') \in Int
        BY <4>1, BytesGrow, ExitIsFrame
      <4> QED BY <4>2, <4>3
    <3>4. Outstanding' = Outstanding
      BY <3>1, <3>2, <3>3, OutstandingIs DEF Outstanding
    <3> QED BY <2>1, <2>3, <3>4 DEF Counted
  <2> QED BY <1>11, <2>2, <2>3 DEF Receive
<1>12. CASE Sent
  <2>1. /\ channel' = channel /\ pending' = pending /\ queue' = queue /\ loop' = loop
        /\ sending.at = "send"
        /\ sending' = IF Hooked(sending.frame) THEN [at |-> "hook", frame |-> sending.frame] ELSE Idle
    BY <1>12 DEF Sent, flowVars
  <2>2. OnSocket' = OnSocket /\ ToPut' = ToPut
    BY <2>1 DEF OnSocket, ToPut, Size, Idle
  <2>3. /\ sending'.at \in {"send", "hook"} => channel
        /\ sending'.at = "hook" => Hooked(sending'.frame)
    BY <1>c, <2>1 DEF Idle
  <2>4. Bytes(queue') = Bytes(queue)
    BY <2>1
  <2> QED BY <2>1, <2>2, <2>3, <2>4, NothingMoves
<1>13. CASE HookCount
  <2>1. /\ channel' = channel /\ queue' = queue /\ loop' = loop /\ sending.at = "hook"
        /\ sending.frame \in Frames /\ pending' = pending - sending.frame.size /\ sending'.at = "check"
    BY <1>13 DEF HookCount
  <2>2. ASSUME Hooked(sending.frame) PROVE Counted'
    <3>1. OnSocket = sending.frame.size /\ OnSocket' = 0 /\ ToPut' = ToPut
      BY <2>1, <2>2 DEF OnSocket, ToPut, Size
    <3>2. Outstanding' = Outstanding - sending.frame.size
      BY <2>1, <3>1, OutstandingIs DEF Outstanding
    <3> QED BY <2>1, <3>2 DEF Counted
  <2>3. Hooked(sending.frame)
    BY <2>1 DEF Counted
  <2> QED BY <2>2, <2>3
<1>14. CASE HookCheck
  <2>1. OnSocket' = OnSocket /\ ToPut' = ToPut
    BY <1>14 DEF HookCheck, OnSocket, ToPut, Idle
  <2> QED BY <1>14, <1>c, <2>1, NothingMoves DEF HookCheck, Idle
<1>15. CASE ChannelFails
  BY <1>15 DEF ChannelFails, CloseChannel, Counted, Idle
<1>16. CASE SendOther
  <2>1. queue' = queue \o <<Frame("other", 0, 0, 1)>>
    BY <1>16 DEF SendOther, Queued
  <2>2. Frame("other", 0, 0, 1) \in Frames /\ ~Hooked(Frame("other", 0, 0, 1))
    BY FramesAre DEF Frame, Hooked
  <2>3. Bytes(queue') = Bytes(queue)
    BY <1>t, <2>1, <2>2, OthersWeighNothing
  <2>4. ToPut' = ToPut
    BY <1>16 DEF SendOther, ToPut
  <2> QED BY <1>16, <1>s, <1>c, <2>3, <2>4, NothingMoves DEF SendOther, flowVars
<1>17. CASE Detach
  <2>1. ToPut' = ToPut
    BY <1>17 DEF Detach, ToPut
  <2> QED BY <1>17, <1>s, <1>c, <2>1, NothingMoves DEF Detach, channelVars
<1>18. CASE UNCHANGED vars
  <2>1. ToPut' = ToPut
    BY <1>18 DEF vars, ToPut
  <2> QED BY <1>18, <1>s, <1>c, <2>1, NothingMoves DEF vars, flowVars, channelVars
<1> QED
  BY <1>1, <1>2, <1>3, <1>4, <1>5, <1>6, <1>7, <1>8, <1>9, <1>10, <1>11, <1>12, <1>13,
     <1>14, <1>15, <1>16, <1>17, <1>18
  DEF Next, LoopStep, PumpStep

-------------------------------------------------------------------------------
(* What the view is shown. *)

\* Where the queue ends, and that its output lines up, after a step.
Kept ==
    /\ LinesUp(Ahead, queue) => LinesUp(Ahead', queue')
    /\ \A p : Reaches(Ahead, queue, Len(queue), p) => Reaches(Ahead', queue', Len(queue'), p)

(* A step that leaves the queue and what is ahead of it alone keeps the     *)
(* queue lined up.                                                          *)
LEMMA SameQueue ==
    ASSUME queue' = queue, Ahead' = Ahead
    PROVE  Kept
BY DEF Kept

(* What is ahead of the queue depends on the pump and the view alone.       *)
LEMMA SameAhead ==
    ASSUME sending' = sending, view' = view
    PROVE  Ahead' = Ahead
BY DEF Ahead

\* A frame of others, or a notice, moves nothing.
LEMMA OtherFrame ==
    ASSUME queue \in Seq(Frames), NEW f \in Frames, ~Hooked(f),
           queue' = queue \o <<f>>, Ahead' = Ahead
    PROVE  Kept
<1>1. f.kind # "output"
  BY DEF Hooked
<1>2. LinesUp(Ahead, queue) => LinesUp(Ahead, queue \o <<f>>)
  BY <1>1, AppendLinesUp
<1>3. \A p : Reaches(Ahead, queue, Len(queue), p)
                 => Reaches(Ahead, queue \o <<f>>, Len(queue \o <<f>>), p)
  BY AppendReaches
<1> QED BY <1>2, <1>3 DEF Kept

(* The exit notice leaves the queue lined up.                               *)
LEMMA NoticeKeeps ==
    ASSUME queue \in Seq(Frames), ExitNotice, Ahead' = Ahead
    PROVE  Kept
<1>1. CASE queue' = queue
  BY <1>1, SameQueue
<1>2. CASE queue' = queue \o <<Exit>>
  BY <1>2, ExitIsFrame, OtherFrame
<1> QED BY <1>1, <1>2, NoticeQueues

\* The frame the pump takes: the view is ahead by it, and output continues what
\* the view has.
LEMMA TakenKeeps ==
    ASSUME Types, queue # <<>>, sending = Idle, LinesUp(Ahead, queue),
           sending' = [at |-> "send", frame |-> Head(queue)],
           queue' = Tail(queue), view' = view
    PROVE  /\ Kept
           /\ Head(queue).kind = "output" => Head(queue).from = view
<1>1. queue \in Seq(Frames)
  BY DEF Types
<1>2. Len(queue) \in Nat \ {0} /\ Head(queue) = queue[1] /\ Len(Tail(queue)) = Len(queue) - 1
  BY <1>1, QueueShrinks
<1>3. Ahead = view
  BY DEF Ahead, Idle
<1>4. Ahead' = IF Hooked(Head(queue)) THEN Head(queue).to ELSE Ahead
  BY <1>3 DEF Ahead
<1>5. LinesUp(Ahead', queue')
  BY <1>1, <1>4, TailLinesUp
<1>6. ASSUME NEW p, Reaches(Ahead, queue, Len(queue), p)
      PROVE  Reaches(Ahead', queue', Len(queue'), p)
  <2>1. Len(queue) \in 1..Len(queue)
    BY <1>2
  <2>2. Reaches(Ahead', Tail(queue), Len(queue) - 1, p)
    BY <1>1, <1>4, <1>6, <2>1, TailReaches
  <2> QED BY <1>2, <2>2
<1>7. ASSUME Head(queue).kind = "output" PROVE Head(queue).from = view
  <2>1. 1 \in 1..Len(queue) /\ 1 - 1 = 0
    BY <1>2
  <2>2. Reaches(Ahead, queue, 0, queue[1].from)
    BY <1>2, <1>7, <2>1 DEF LinesUp
  <2>3. Ahead = queue[1].from
    BY <2>2 DEF Reaches
  <2> QED BY <1>2, <1>3, <2>3
<1> QED BY <1>5, <1>6, <1>7 DEF Kept

\* A frame of the view is put where the queue ends.
LEMMA PutLinesUp ==
    ASSUME queue \in Seq(Frames), NEW f \in Frames, Hooked(f),
           queue' = queue \o <<f>>, Ahead' = Ahead, LinesUp(Ahead, queue),
           f.kind = "output" => Reaches(Ahead, queue, Len(queue), f.from)
    PROVE  LinesUp(Ahead', queue') /\ Reaches(Ahead', queue', Len(queue'), f.to)
<1>1. LinesUp(Ahead, queue \o <<f>>)
  BY AppendLinesUp
<1>2. Reaches(Ahead, queue \o <<f>>, Len(queue \o <<f>>), f.to)
  BY AppendReaches
<1> QED BY <1>1, <1>2

\* A step of the loop or of a third party.
LEMMA LoopKeepsExact ==
    ASSUME Exact, sending' = sending, view' = view, torn' = torn, channel' = channel,
           channel => LinesUp(Ahead', queue') /\ Position'
    PROVE  Exact'
BY DEF Exact

\* A step that leaves the loop where it is, and does not make the view Live.
LEMMA PositionKept ==
    ASSUME Position, Kept, loop' = loop, produced' = produced,
           subscribed' => subscribed, state' = "Live" => state = "Live"
    PROVE  Position'
BY DEF Position, Kept, Ends

(* Unless a checkpoint fails, every step keeps output and view exact: what  *)
(* the view shows, what is on the socket, in the queue and about to be put  *)
(* follow each other without gap or repetition.                             *)
LEMMA ExactHolds ==
    ASSUME Types, Types', Asked, Exact, [Next]_vars
    PROVE  ~failed' => Exact'
<1> USE PlacesAre, IntsAre
<1>t. queue \in Seq(Frames) /\ produced \in Int /\ produced' \in Int
  BY DEF Types
<1>p. channel => LinesUp(Ahead, queue) /\ Position
  BY DEF Exact
<1>1. ASSUME NEW n \in ChunkSizes, Parse(n) PROVE Exact'
  <2>1. sending' = sending /\ view' = view /\ torn' = torn /\ channel' = channel /\ queue' = queue
    BY <1>1 DEF Parse, channelVars
  <2>2. Kept
    BY <2>1, SameQueue, SameAhead
  <2>3. produced' - n = produced
    BY <1>1, <1>t DEF Parse
  <2>4. loop.at = "idle" /\ state' = state /\ subscribed' = subscribed
        /\ loop' = IF subscribed THEN [at |-> "look", size |-> n] ELSE Idle
    BY <1>1 DEF Parse, flowVars
  <2>5. ASSUME channel PROVE Position'
    <3>1. CASE subscribed
      <4>1. loop'.at = "look" /\ loop'.size = n
        BY <2>4, <3>1
      <4>2. state' = "Live" => Reaches(Ahead', queue', Len(queue'), produced' - n)
        BY <1>p, <2>2, <2>3, <2>4, <2>5, <3>1 DEF Position, Ends, Kept
      <4> QED BY <4>1, <4>2 DEF Position, Ends
    <3>2. CASE ~subscribed
      BY <2>4, <3>2 DEF Position, Idle
    <3> QED BY <3>1, <3>2
  <2> QED BY <1>p, <2>1, <2>2, <2>5, LoopKeepsExact DEF Kept
<1>2. CASE LookGone
  <2>1. sending' = sending /\ view' = view /\ torn' = torn /\ channel' = channel
    BY <1>2 DEF LookGone
  <2>2. Kept
    BY <1>2, <1>t, <2>1, SameAhead, NoticeKeeps DEF LookGone
  <2>3. Position'
    BY <1>2 DEF LookGone, Position, Idle
  <2> QED BY <1>p, <2>1, <2>2, <2>3, LoopKeepsExact DEF Kept
<1>3. CASE Look
  <2>1. sending' = sending /\ view' = view /\ torn' = torn /\ channel' = channel /\ queue' = queue
    BY <1>3 DEF Look, channelVars
  <2>2. Kept
    BY <2>1, SameQueue, SameAhead
  <2>3. loop.at = "look" /\ state' = state /\ produced' = produced
    BY <1>3 DEF Look, loopVars
  <2>4. ASSUME channel PROVE Position'
    <3>1. CASE state # "Live" /\ loop' = Idle
      BY <2>3, <3>1 DEF Position, Idle
    <3>2. CASE state = "Live" /\ loop' = [at |-> "decide", size |-> loop.size, seen |-> pending]
      <4>1. Reaches(Ahead', queue', Len(queue'), produced - loop.size)
        BY <1>p, <2>2, <2>3, <2>4, <3>2 DEF Position, Ends, Kept
      <4> QED BY <2>3, <3>2, <4>1 DEF Position, Ends
    <3> QED BY <1>3, <3>1, <3>2 DEF Look
  <2> QED BY <1>p, <2>1, <2>2, <2>4, LoopKeepsExact DEF Kept
<1>4. CASE Decide
  <2>1. sending' = sending /\ view' = view /\ torn' = torn /\ channel' = channel /\ queue' = queue
    BY <1>4 DEF Decide, channelVars
  <2>2. Kept
    BY <2>1, SameQueue, SameAhead
  <2>3. loop.at = "decide" /\ produced' = produced
    BY <1>4 DEF Decide, loopVars
  <2>4. ASSUME channel PROVE Position'
    <3>1. CASE state' = "Dropping" /\ loop' = Idle
      BY <3>1 DEF Position, Idle
    <3>2. CASE loop' = [at |-> "count", frame |-> Frame("output", produced - loop.size, produced, loop.size)]
      <4>1. Reaches(Ahead', queue', Len(queue'), produced - loop.size)
        BY <1>p, <2>2, <2>3, <2>4 DEF Position, Ends, Kept
      <4>2. loop'.at = "count" /\ loop'.frame.from = produced - loop.size
            /\ loop'.frame.to = produced'
        BY <2>3, <3>2 DEF Frame
      <4> QED BY <4>1, <4>2 DEF Position, Ends
    <3> QED BY <1>4, <3>1, <3>2 DEF Decide
  <2> QED BY <1>p, <2>1, <2>2, <2>4, LoopKeepsExact DEF Kept
<1>5. CASE Count
  <2>1. sending' = sending /\ view' = view /\ torn' = torn /\ channel' = channel /\ queue' = queue
        /\ produced' = produced
    BY <1>5 DEF Count, loopVars
  <2>2. Kept
    BY <2>1, SameQueue, SameAhead
  <2>3. loop.at = "count" /\ loop' = [at |-> "put", frame |-> loop.frame]
    BY <1>5 DEF Count, Types, LoopAt, Idle
  <2>4. ASSUME channel PROVE Position'
    BY <1>p, <2>1, <2>2, <2>3, <2>4 DEF Position, Ends, Kept
  <2> QED BY <1>p, <2>1, <2>2, <2>4, LoopKeepsExact DEF Kept
<1>6. CASE Put
  <2>1. sending' = sending /\ view' = view /\ torn' = torn /\ channel' = channel
        /\ produced' = produced
    BY <1>6 DEF Put
  <2>2. loop.at = "put" /\ loop.frame \in Frames /\ Hooked(loop.frame)
        /\ loop' = IF loop.frame.kind = "checkpoint" THEN [at |-> "live"] ELSE Idle
    BY <1>6 DEF Put, Asked
  <2>3. ASSUME channel PROVE LinesUp(Ahead', queue') /\ Position'
    <3>1. queue' = queue \o <<loop.frame>>
      BY <1>6, <2>3 DEF Put, Queued
    <3>2. /\ loop.frame.to = produced
          /\ loop.frame.kind = "output" => Reaches(Ahead, queue, Len(queue), loop.frame.from)
      BY <1>p, <2>2, <2>3 DEF Position, Ends
    <3>3. LinesUp(Ahead', queue') /\ Reaches(Ahead', queue', Len(queue'), loop.frame.to)
      BY <1>p, <1>t, <2>1, <2>2, <2>3, <3>1, <3>2, SameAhead, PutLinesUp
    <3>4. Reaches(Ahead', queue', Len(queue'), produced')
      BY <2>1, <3>2, <3>3
    <3>5. loop'.at \in {"live", "idle"}
      BY <2>2 DEF Idle
    <3> QED BY <3>3, <3>4, <3>5 DEF Position, Ends
  <2> QED BY <2>1, <2>3, LoopKeepsExact
<1>7. ASSUME NEW size \in CheckpointSizes, Checkpoint(size) PROVE Exact'
  <2>1. sending' = sending /\ view' = view /\ torn' = torn /\ channel' = channel /\ queue' = queue
    BY <1>7 DEF Checkpoint, channelVars
  <2>2. Kept
    BY <2>1, SameQueue, SameAhead
  <2>3. Position'
    BY <1>7 DEF Checkpoint, Position, Frame
  <2> QED BY <1>p, <2>1, <2>2, <2>3, LoopKeepsExact DEF Kept
<1>8. CASE CheckpointFails
  BY <1>8 DEF CheckpointFails
<1>9. CASE GoLive
  <2>1. sending' = sending /\ view' = view /\ torn' = torn /\ channel' = channel /\ queue' = queue
        /\ produced' = produced
    BY <1>9 DEF GoLive, channelVars, loopVars
  <2>2. Kept
    BY <2>1, SameQueue, SameAhead
  <2>3. loop.at = "live" /\ loop'.at = "idle"
    BY <1>9 DEF GoLive, Idle
  <2>4. ASSUME channel PROVE Position'
    BY <1>p, <2>1, <2>2, <2>3, <2>4 DEF Position, Ends, Kept
  <2> QED BY <1>p, <2>1, <2>2, <2>4, LoopKeepsExact DEF Kept
<1>10. CASE ShellExits
  <2>1. sending' = sending /\ view' = view /\ torn' = torn /\ channel' = channel
    BY <1>10 DEF ShellExits
  <2>2. Kept
    <3>1. CASE ExitNotice
      BY <1>t, <2>1, <3>1, SameAhead, NoticeKeeps
    <3>2. CASE queue' = queue
      BY <2>1, <3>2, SameQueue, SameAhead
    <3> QED BY <1>10, <3>1, <3>2 DEF ShellExits
  <2>3. Position'
    BY <1>10 DEF ShellExits, Position, Idle
  <2> QED BY <1>p, <2>1, <2>2, <2>3, LoopKeepsExact DEF Kept
<1>11. CASE Receive
  <2>1. /\ view' = view /\ torn' = torn /\ loop' = loop /\ produced' = produced
        /\ state' = state /\ subscribed' = subscribed
        /\ channel /\ sending = Idle /\ queue # <<>>
    BY <1>11 DEF Receive, loopVars, flowVars
  <2>2. CASE CloseChannel
    BY <2>1, <2>2 DEF CloseChannel, Exact, Idle
  <2>3. CASE sending' = [at |-> "send", frame |-> Head(queue)] /\ queue' = Tail(queue) /\ channel' = channel
    <3>1. Kept /\ (Head(queue).kind = "output" => Head(queue).from = view)
      BY <1>p, <2>1, <2>3, TakenKeeps
    <3>2. LinesUp(Ahead', queue') /\ Position'
      BY <1>p, <2>1, <3>1, PositionKept DEF Kept
    <3> QED BY <2>1, <2>3, <3>1, <3>2 DEF Exact
  <2> QED BY <1>11, <2>2, <2>3 DEF Receive
<1>12. CASE Sent
  <2>1. /\ channel' = channel /\ loop' = loop /\ produced' = produced /\ queue' = queue
        /\ state' = state /\ subscribed' = subscribed /\ sending.at = "send"
        /\ sending' = Idle \/ sending' = [at |-> "hook", frame |-> sending.frame]
    BY <1>12 DEF Sent, loopVars, flowVars
  <2>2. sending'.at # "send"
    BY <2>1 DEF Idle
  <2>3. Ahead' = Ahead
    <3>1. Ahead' = view'
      BY <2>2 DEF Ahead
    <3>2. view' = Ahead
      BY <1>12 DEF Sent, Ahead, Hooked
    <3> QED BY <3>1, <3>2
  <2>4. ~torn'
    BY <1>12 DEF Sent, Exact
  <2>5. Kept
    BY <2>1, <2>3, SameQueue
  <2>6. channel => LinesUp(Ahead', queue') /\ Position'
    BY <1>p, <2>1, <2>5, PositionKept DEF Kept
  <2> QED BY <2>1, <2>2, <2>4, <2>6 DEF Exact
<1>13. CASE HookCount
  <2>1. /\ channel' = channel /\ loop' = loop /\ produced' = produced /\ queue' = queue
        /\ state' = state /\ subscribed' = subscribed /\ view' = view /\ torn' = torn
        /\ sending.at = "hook" /\ sending'.at = "check"
    BY <1>13 DEF HookCount, loopVars
  <2>2. Ahead' = Ahead
    BY <2>1 DEF Ahead
  <2>3. Kept
    BY <2>1, <2>2, SameQueue
  <2>4. channel => LinesUp(Ahead', queue') /\ Position'
    BY <1>p, <2>1, <2>3, PositionKept DEF Kept
  <2> QED BY <2>1, <2>4 DEF Exact
<1>14. CASE HookCheck
  <2>1. /\ channel' = channel /\ loop' = loop /\ produced' = produced /\ queue' = queue
        /\ subscribed' = subscribed /\ view' = view /\ torn' = torn
        /\ state' = "Live" => state = "Live"
        /\ sending.at = "check" /\ sending'.at = "idle"
    BY <1>14 DEF HookCheck, Idle
  <2>2. Ahead' = Ahead
    BY <2>1 DEF Ahead
  <2>3. Kept
    BY <2>1, <2>2, SameQueue
  <2>4. channel => LinesUp(Ahead', queue') /\ Position'
    BY <1>p, <2>1, <2>3, PositionKept DEF Kept
  <2> QED BY <2>1, <2>4 DEF Exact
<1>15. CASE ChannelFails
  BY <1>15 DEF ChannelFails, CloseChannel, Exact, Idle
<1>16. CASE SendOther
  <2>1. /\ channel' = channel /\ channel /\ loop' = loop /\ produced' = produced
        /\ state' = state /\ subscribed' = subscribed /\ view' = view /\ torn' = torn
        /\ sending' = sending /\ queue' = queue \o <<Frame("other", 0, 0, 1)>>
    BY <1>16 DEF SendOther, Queued, loopVars, flowVars
  <2>2. Frame("other", 0, 0, 1) \in Frames /\ ~Hooked(Frame("other", 0, 0, 1))
    BY FramesAre DEF Frame, Hooked
  <2>3. Kept
    BY <1>t, <2>1, <2>2, SameAhead, OtherFrame
  <2>4. Position'
    BY <1>p, <2>1, <2>3, PositionKept
  <2> QED BY <1>p, <2>1, <2>3, <2>4, LoopKeepsExact DEF Kept
<1>17. CASE Detach
  <2>1. /\ channel' = channel /\ loop' = loop /\ produced' = produced /\ queue' = queue
        /\ state' = state /\ subscribed' = subscribed /\ view' = view /\ torn' = torn
        /\ sending' = sending
    BY <1>17 DEF Detach, loopVars, channelVars
  <2>2. Kept
    BY <2>1, SameAhead, SameQueue
  <2>3. channel => Position'
    BY <1>p, <2>1, <2>2, PositionKept
  <2> QED BY <1>p, <2>1, <2>2, <2>3, LoopKeepsExact DEF Kept
<1>18. CASE UNCHANGED vars
  BY <1>18 DEF vars, loopVars, flowVars, channelVars, Exact, Position, Ends, Ahead
<1> QED
  BY <1>1, <1>2, <1>3, <1>4, <1>5, <1>6, <1>7, <1>8, <1>9, <1>10, <1>11, <1>12, <1>13,
     <1>14, <1>15, <1>16, <1>17, <1>18
  DEF Next, LoopStep, PumpStep

-------------------------------------------------------------------------------
(* Theorems. *)

(* A stream that was just attached has nothing outstanding.                 *)
LEMMA InitFlow ==
    ASSUME Init
    PROVE  FlowInv
<1>1. Types
  <2>1. <<"Subscribe">> \in Seq({"Subscribe", "Checkpoint"}) /\ <<>> \in Seq(Frames)
    OBVIOUS
  <2>2. Idle \in LoopAt /\ Idle \in PumpAt
    BY DEF LoopAt, PumpAt
  <2>3. produced \in Int /\ view \in Int /\ pending \in Int
    BY DEF Init
  <2>4. /\ state = "Resyncing" /\ messages = <<"Subscribe">> /\ queue = <<>>
        /\ loop = Idle /\ sending = Idle
        /\ failed = FALSE /\ torn = FALSE /\ channel = TRUE /\ subscribed = FALSE
    BY DEF Init
  <2> QED BY <2>1, <2>2, <2>3, <2>4 DEF Types
<1>2. Asked /\ ~OnCheckpoint
  <2>1. Len(<<"Subscribe">>) = 1
    OBVIOUS
  <2> QED BY <2>1 DEF Init, Asked, OnOutput, OnCheckpoint, Idle
<1>3. Capped
  <2>1. pending = 0 /\ loop = Idle /\ sending = Idle
    BY DEF Init
  <2>2. pending <= HighWater
    BY <2>1, IntsAre, Marks
  <2>3. Mild /\ BacklogCapped
    <3>1. PICK size \in CheckpointSizes : TRUE
      BY Marks
    <3>2. pending <= HighWater + size
      BY <2>1, <2>2, IntsAre
    <3> QED BY <2>2, <3>1, <3>2, Zenon DEF Mild, BacklogCapped
  <2> QED BY <2>1, <2>3 DEF Capped, Idle
<1>4. Exact
  <2>1. queue = <<>> /\ Len(<<>>) = 0 /\ loop = Idle /\ sending = Idle /\ ~torn /\ state = "Resyncing"
    BY DEF Init
  <2>2. LinesUp(Ahead, queue)
    BY <2>1 DEF LinesUp
  <2> QED BY <2>1, <2>2 DEF Exact, Position, Idle
<1>5. Counted
  <2>1. queue = <<>> /\ pending = 0 /\ loop = Idle /\ sending = Idle
    BY DEF Init
  <2>2. OnSocket = 0 /\ ToPut = 0 /\ ~(sending.at \in {"send", "hook"})
    BY <2>1 DEF OnSocket, ToPut, Idle
  <2> QED BY <2>1, <2>2, BytesOfNone DEF Counted, Outstanding
<1> QED BY <1>1, <1>2, <1>3, <1>4, <1>5 DEF FlowInv

(* A checkpoint that failed stays a fault of the past.                      *)
LEMMA FailedStays ==
    ASSUME [Next]_vars, failed
    PROVE  failed'
BY DEF Next, vars, LoopStep, PumpStep, Parse, LookGone, Look, Decide, Count, Put, Checkpoint,
       CheckpointFails, GoLive, ShellExits, Receive, Sent, HookCount, HookCheck, ChannelFails,
       SendOther, Detach, loopVars

(* The inductive invariant of stream.rs holds: types, the checkpoint that   *)
(* was asked for, the cap and the count of the backlog, and, until a        *)
(* checkpoint fails, the exactness of the view.                             *)
THEOREM FlowInvHolds == Spec => []FlowInv
<1>1. Init => FlowInv
  BY InitFlow
<1>2. FlowInv /\ [Next]_vars => FlowInv'
  <2> SUFFICES ASSUME FlowInv, [Next]_vars PROVE FlowInv'
    OBVIOUS
  <2> USE DEF FlowInv
  <2>1. Types'
    BY TypesHold
  <2>2. Asked'
    BY AskedHolds
  <2>3. Capped'
    BY <2>1, <2>2, CappedHolds
  <2>4. Counted'
    BY <2>1, CountedHolds
  <2>5. ~failed' => Exact'
    BY <2>1, ExactHolds, FailedStays
  <2> QED BY <2>1, <2>2, <2>3, <2>4, <2>5
<1> QED BY <1>1, <1>2, PTL DEF Spec

(* Unless a resync checkpoint failed, the remote view never shows a gap or  *)
(* a repetition, for all marks, sizes and amounts of output, however the    *)
(* loop's and the pump's halves of stream.rs interleave.                    *)
THEOREM ViewIsExact == Spec => []ViewExact
<1>1. FlowInv => ViewExact
  BY DEF FlowInv, Exact, ViewExact
<1> QED BY <1>1, FlowInvHolds, PTL

(* The counter of stream.rs is exactly the bytes that were accepted and not *)
(* yet reported sent, and stays within the high mark and one checkpoint, or *)
(* the low mark and two, although sent reads it before it takes the mutex.  *)
THEOREM BacklogIsBounded == Spec => []BacklogBounded
<1>1. FlowInv => BacklogBounded
  BY DEF FlowInv, Capped, Counted, BacklogBounded
<1> QED BY <1>1, FlowInvHolds, PTL

===============================================================================
