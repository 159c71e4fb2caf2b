------------------------ MODULE PromptDeliveryProofs ------------------------
(***************************************************************************)
(* A prompt's way from the composer to the server, for every set of        *)
(* prompts, whatever they say, and every number of stops and deadlines:    *)
(* none is read twice, lost from view or sent again after a stop.          *)
(*                                                                         *)
(* ReadAndKeptOnce speaks of what the server has read and StopHolds of     *)
(* what was sent again; neither knows what is still on its way, and a      *)
(* refusal in the mail can send a prompt again.  DeliveryInv counts the    *)
(* refusal as one of the prompt's places:                                  *)
(*   OnePlace   a prompt is in at most one of: a start or a steer on its   *)
(*              way up, a refusal on its way down, the server's admitted   *)
(*              inputs, what the server has read;                          *)
(*   Kept       the transcript and the queue share nothing, and have each  *)
(*              prompt once;                                               *)
(*   Origins    whatever names a prompt names one the user sent;           *)
(*   Retries    a steer that may still be retried was neither retried nor  *)
(*              stopped.                                                   *)
(*                                                                         *)
(* QueueIsWaiting compares the queue with the echoes, so WaitInv adds the  *)
(* order in which prompts are heard of, wherever they are:                 *)
(*   Line       of two queued prompts the first is Ahead of the second: in *)
(*              the mail, at the server and on the way up, and past a      *)
(*              refusal that starts the first again behind the second,     *)
(*              which comes only when the second's turn is over;           *)
(*   Placed     a queued prompt is in one of those places, or over;        *)
(*   EchoOnce   a prompt is echoed once, after it was read;                *)
(*   Turns      the tab hears of each turn once, and after a refusal for   *)
(*              want of a turn knows of none that runs;                    *)
(*   Queued     what is queued was steered;                                *)
(*   Opened     published_prompt is the one opening prompt not yet echoed; *)
(*   Counted    the transcript has of each text as many steered prompts as *)
(*              were echoed, or fewer; a prompt queued past its echo is    *)
(*              behind a lost one;                                         *)
(*   Ended      nothing follows the host's end.                            *)
(***************************************************************************)
EXTENDS PromptDelivery, SequenceTheorems, FiniteSetTheorems, TLAPS

(* The messages in each direction.                                          *)
Ups ==
    [kind : {"start"}, prompt : Prompt]
        \cup [kind : {"steer"}, prompt : Prompt, turn : Nat]
        \cup [kind : {"stop"}, turn : Nat]

Downs ==
    [kind : {"started"}, turn : Nat]
        \cup [kind : {"echo", "admitted"}, prompt : Prompt]
        \cup [kind : {"refused"}, prompt : Prompt, noTurn : BOOLEAN]
        \cup [kind : {"completed", "output", "exit"}]

Types ==
    /\ up \in Seq(Ups) /\ down \in Seq(Downs)
    /\ shown \in Seq(Prompt) /\ pending \in Seq(Prompt)
    /\ waiting \in Seq(Prompt) /\ taken \in Seq(Prompt)
    /\ op \in [Prompt -> {"none", "retry", "plain"}]
    /\ current \in Nat /\ running \in Nat /\ nextTurn \in Nat

(* A message that may still bring the prompt to the server: the prompt      *)
(* itself, or the refusal that may send it again.                           *)
Holds(m, p) == m.kind \in {"start", "steer", "refused"} /\ m.prompt = p

Held(s) == {p \in Prompt : \E k \in DOMAIN s : Holds(s[k], p)}

Alone(s) == \A j, k \in DOMAIN s, p \in Prompt : Holds(s[j], p) /\ Holds(s[k], p) => j = k

(* A prompt is in one place on its way, and came from the user.             *)
OnePlace ==
    /\ Alone(up) /\ Alone(down) /\ Once(waiting) /\ Once(taken)
    /\ Held(up) \cap Held(down) = {}
    /\ ToSet(waiting) \cap ToSet(taken) = {}
    /\ (Held(up) \cup Held(down)) \cap (ToSet(waiting) \cup ToSet(taken)) = {}

Kept == Once(shown) /\ Once(pending) /\ ToSet(shown) \cap ToSet(pending) = {}

(* A prompt a message names.                                                *)
Named(s) == {p \in Prompt : \E k \in DOMAIN s : s[k].kind = "echo" /\ s[k].prompt = p}

Origins ==
    /\ Held(up) \cup Held(down) \cup Named(down) \cup ToSet(waiting) \cup ToSet(taken) \subseteq Accepted
    /\ echoed \cup stopped \cup lost \cup restarted \subseteq Accepted
    /\ \A p \in Prompt : op[p] # "none" => p \in Accepted

Retries ==
    /\ \A p \in Prompt : op[p] = "retry" => p \notin stopped \cup restarted
    /\ restarted \cap stopped = {}

DeliveryInv == Types /\ OnePlace /\ Kept /\ Origins /\ Retries

-----------------------------------------------------------------------------
(* Sequences.                                                               *)

(* What Append keeps and what it adds.                                      *)
LEMMA AppendAdds ==
    ASSUME NEW S, NEW s \in Seq(S), NEW x \in S
    PROVE  /\ Append(s, x) \in Seq(S) /\ Len(s) \in Nat
           /\ DOMAIN s = 1..Len(s) /\ DOMAIN Append(s, x) = 1..(Len(s) + 1)
           /\ \A k \in DOMAIN s : Append(s, x)[k] = s[k]
           /\ Append(s, x)[Len(s) + 1] = x
OBVIOUS

(* What Head and Tail take from a sequence and leave of it.                 *)
LEMMA TailLeaves ==
    ASSUME NEW S, NEW s \in Seq(S), s # <<>>
    PROVE  /\ Head(s) \in S /\ Head(s) = s[1] /\ Tail(s) \in Seq(S) /\ Len(s) \in Nat \ {0}
           /\ DOMAIN s = 1..Len(s) /\ DOMAIN Tail(s) = 1..(Len(s) - 1)
           /\ \A k \in 1..(Len(s) - 1) : Tail(s)[k] = s[k + 1]
OBVIOUS

(* What one more message, or prompt, holds.                                 *)
LEMMA HeldBehind ==
    ASSUME NEW S, NEW s \in Seq(S), NEW m \in S
    PROVE  /\ Append(s, m) \in Seq(S)
           /\ Held(Append(s, m)) = Held(s) \cup {p \in Prompt : Holds(m, p)}
           /\ Named(Append(s, m)) = Named(s) \cup {p \in Prompt : m.kind = "echo" /\ m.prompt = p}
           /\ Alone(s) /\ (\A p \in Prompt : Holds(m, p) => p \notin Held(s)) => Alone(Append(s, m))
<1> DEFINE t == Append(s, m)
           n == Len(s)
<1>1. /\ t \in Seq(S) /\ n \in Nat /\ DOMAIN s = 1..n /\ DOMAIN t = 1..(n + 1)
      /\ (\A k \in 1..n : t[k] = s[k]) /\ t[n + 1] = m
  BY AppendAdds
<1> HIDE DEF t, n
<1>2. \A k \in 1..(n + 1) : k \in 1..n \/ k = n + 1
  BY <1>1
<1>3. \A k \in 1..n : k \in 1..(n + 1)
  BY <1>1
<1>4. n + 1 \in 1..(n + 1)
  BY <1>1
<1>5. Held(t) = Held(s) \cup {p \in Prompt : Holds(m, p)}
  BY <1>1, <1>2, <1>3, <1>4 DEF Held
<1>6. Named(t) = Named(s) \cup {p \in Prompt : m.kind = "echo" /\ m.prompt = p}
  BY <1>1, <1>2, <1>3, <1>4 DEF Named
<1>7. Alone(s) /\ (\A p \in Prompt : Holds(m, p) => p \notin Held(s)) => Alone(t)
  BY <1>1, <1>2, <1>3, <1>4 DEF Held, Alone
<1> QED
  BY <1>1, <1>5, <1>6, <1>7 DEF t

(* Taking the first message of a connection takes the prompt it carries and *)
(* no other.                                                                *)
LEMMA HeldAfter ==
    ASSUME NEW S, NEW s \in Seq(S), s # <<>>
    PROVE  /\ Head(s) \in S /\ Tail(s) \in Seq(S)
           /\ Held(Tail(s)) \subseteq Held(s) /\ Named(Tail(s)) \subseteq Named(s)
           /\ \A p \in Prompt : Holds(Head(s), p) => p \in Held(s) /\ (Alone(s) => p \notin Held(Tail(s)))
           /\ \A p \in Prompt : Head(s).kind = "echo" /\ Head(s).prompt = p => p \in Named(s)
           /\ Alone(s) => Alone(Tail(s))
<1> DEFINE t == Tail(s)
           n == Len(s)
<1>1. /\ Head(s) \in S /\ Head(s) = s[1] /\ t \in Seq(S) /\ n \in Nat \ {0}
      /\ DOMAIN s = 1..n /\ DOMAIN t = 1..(n - 1) /\ \A k \in 1..(n - 1) : t[k] = s[k + 1]
  BY TailLeaves
<1> HIDE DEF t, n
<1>2. \A k \in 1..(n - 1) : k + 1 \in 1..n /\ k + 1 # 1
  BY <1>1
<1>3. \A j, k \in 1..(n - 1) : j + 1 = k + 1 => j = k
  BY <1>1
<1>4. 1 \in 1..n
  BY <1>1
<1>5. Held(t) \subseteq Held(s) /\ Named(t) \subseteq Named(s)
  BY <1>1, <1>2 DEF Held, Named
<1>6. \A p \in Prompt : Holds(Head(s), p) => p \in Held(s) /\ (Alone(s) => p \notin Held(t))
  BY <1>1, <1>2, <1>4 DEF Held, Alone
<1>7. \A p \in Prompt : Head(s).kind = "echo" /\ Head(s).prompt = p => p \in Named(s)
  BY <1>1, <1>4 DEF Named
<1>8. Alone(s) => Alone(t)
  <2> SUFFICES ASSUME Alone(s), NEW j \in 1..(n - 1), NEW k \in 1..(n - 1), NEW p \in Prompt,
                      Holds(s[j + 1], p), Holds(s[k + 1], p)
               PROVE  j = k
    BY <1>1 DEF Alone
  <2>1. j + 1 = k + 1
    BY <1>1, <1>2 DEF Alone
  <2> QED
    BY <1>3, <2>1
<1> QED
  BY <1>1, <1>5, <1>6, <1>7, <1>8 DEF t

(* A prompt that is new to a list may be put at its end.                    *)
LEMMA OnceBehind ==
    ASSUME NEW s \in Seq(Prompt), NEW p \in Prompt
    PROVE  /\ Append(s, p) \in Seq(Prompt)
           /\ ToSet(Append(s, p)) = ToSet(s) \cup {p}
           /\ Once(s) /\ p \notin ToSet(s) => Once(Append(s, p))
<1> DEFINE t == Append(s, p)
           n == Len(s)
<1>1. /\ t \in Seq(Prompt) /\ n \in Nat /\ DOMAIN s = 1..n /\ DOMAIN t = 1..(n + 1)
      /\ (\A k \in 1..n : t[k] = s[k]) /\ t[n + 1] = p
  BY AppendAdds
<1> HIDE DEF t, n
<1>2. \A k \in 1..(n + 1) : k \in 1..n \/ k = n + 1
  BY <1>1
<1>3. \A k \in 1..n : k \in 1..(n + 1)
  BY <1>1
<1>4. n + 1 \in 1..(n + 1)
  BY <1>1
<1>5. ToSet(t) = ToSet(s) \cup {p}
  BY <1>1, <1>2, <1>3, <1>4 DEF ToSet
<1>6. Once(s) /\ p \notin ToSet(s) => Once(t)
  BY <1>1, <1>2, <1>3, <1>4 DEF ToSet, Once
<1> QED
  BY <1>1, <1>5, <1>6 DEF t

(* Taking the first prompt of a list without repetition leaves none of it   *)
(* behind.                                                                  *)
LEMMA OnceAfter ==
    ASSUME NEW s \in Seq(Prompt), s # <<>>
    PROVE  /\ Head(s) \in Prompt /\ Tail(s) \in Seq(Prompt)
           /\ ToSet(s) = ToSet(Tail(s)) \cup {Head(s)}
           /\ Once(s) => Once(Tail(s)) /\ Head(s) \notin ToSet(Tail(s))
<1> DEFINE t == Tail(s)
           n == Len(s)
           h == Head(s)
<1>1. /\ h \in Prompt /\ h = s[1] /\ t \in Seq(Prompt) /\ n \in Nat \ {0}
      /\ DOMAIN s = 1..n /\ DOMAIN t = 1..(n - 1) /\ \A k \in 1..(n - 1) : t[k] = s[k + 1]
  BY TailLeaves
<1> HIDE DEF t, n, h
<1>2. \A k \in 1..(n - 1) : k + 1 \in 1..n /\ k + 1 # 1
  BY <1>1
<1>3. \A k \in 1..n : k = 1 \/ (k - 1 \in 1..(n - 1) /\ (k - 1) + 1 = k)
  BY <1>1
<1>4. 1 \in 1..n
  BY <1>1
<1>5. ToSet(s) \subseteq ToSet(t) \cup {h}
  <2> SUFFICES ASSUME NEW k \in 1..n PROVE s[k] \in ToSet(t) \cup {h}
    BY <1>1 DEF ToSet
  <2>1. CASE k = 1
    BY <1>1, <2>1
  <2>2. CASE k # 1
    <3>1. k - 1 \in 1..(n - 1) /\ t[k - 1] = s[k]
      BY <1>1, <1>3, <2>2
    <3> QED
      BY <1>1, <3>1 DEF ToSet
  <2> QED
    BY <2>1, <2>2
<1>6. ToSet(t) \cup {h} \subseteq ToSet(s)
  BY <1>1, <1>2, <1>4 DEF ToSet
<1>7. ASSUME Once(s) PROVE Once(t) /\ h \notin ToSet(t)
  <2>1. ASSUME NEW j \in 1..(n - 1), NEW k \in 1..(n - 1), s[j + 1] = s[k + 1] PROVE j = k
    <3>1. j + 1 = k + 1
      BY <1>1, <1>2, <1>7, <2>1 DEF Once
    <3> QED
      BY <1>1, <3>1
  <2>2. Once(t)
    BY <1>1, <2>1 DEF Once
  <2>3. ASSUME NEW k \in 1..(n - 1), t[k] = h PROVE FALSE
    <3>1. k + 1 \in 1..n /\ k + 1 # 1 /\ s[k + 1] = s[1]
      BY <1>1, <1>2, <2>3
    <3> QED
      BY <1>1, <1>4, <1>7, <3>1 DEF Once
  <2> QED
    BY <1>1, <2>2, <2>3 DEF ToSet
<1> QED
  BY <1>1, <1>5, <1>6, <1>7 DEF t, h

(* What removing one message leaves: the others, in their order.            *)
LEMMA RemoveLeaves ==
    ASSUME NEW S, NEW s \in Seq(S), NEW k \in DOMAIN s
    PROVE  /\ RemoveAt(s, k) \in Seq(S) /\ Len(RemoveAt(s, k)) = Len(s) - 1
           /\ Len(s) \in Nat \ {0} /\ DOMAIN s = 1..Len(s)
           /\ \A j \in 1..(Len(s) - 1) :
                RemoveAt(s, k)[j] = IF j < k THEN s[j] ELSE s[j + 1]
<1>1. Len(s) \in Nat \ {0} /\ k \in 1..Len(s) /\ DOMAIN s = 1..Len(s)
  OBVIOUS
<1>2. \A j \in 1..Len(s) : s[j] \in S
  BY <1>1
<1>3. PICK n \in Nat \ {0} : n = Len(s)
  BY <1>1
<1>4. PICK l : l = SubSeq(s, 1, k - 1)
  OBVIOUS
<1>5. PICK r : r = SubSeq(s, k + 1, n)
  OBVIOUS
<1>6. l \in Seq(S) /\ Len(l) = k - 1 /\ \A j \in 1..(k - 1) : l[j] = s[j]
  <2>1. 1 \in Int /\ k - 1 \in Int /\ \A j \in 1..(k - 1) : s[j] \in S
    BY <1>1, <1>2
  <2>2. /\ l \in Seq(S) /\ Len(l) = (IF 1 <= k - 1 THEN (k - 1) - 1 + 1 ELSE 0)
        /\ \A j \in 1..((k - 1) - 1 + 1) : l[j] = s[1 + j - 1]
    BY <1>4, <2>1, SubSeqProperties
  <2> QED
    BY <1>1, <2>2
<1>7. r \in Seq(S) /\ Len(r) = n - k /\ \A j \in 1..(n - k) : r[j] = s[k + j]
  <2>1. k + 1 \in Int /\ n \in Int /\ \A j \in (k + 1)..n : s[j] \in S
    BY <1>1, <1>2, <1>3
  <2>2. /\ r \in Seq(S) /\ Len(r) = (IF k + 1 <= n THEN n - (k + 1) + 1 ELSE 0)
        /\ \A j \in 1..(n - (k + 1) + 1) : r[j] = s[(k + 1) + j - 1]
    BY <1>5, <2>1, SubSeqProperties
  <2>3. \A j \in 1..(n - k) : j \in 1..(n - (k + 1) + 1) /\ (k + 1) + j - 1 = k + j
    BY <1>1, <1>3
  <2>4. (IF k + 1 <= n THEN n - (k + 1) + 1 ELSE 0) = n - k
    BY <1>1, <1>3
  <2> QED
    BY <2>2, <2>3, <2>4
<1>8. PICK c : c = l \o r /\ c = RemoveAt(s, k)
  BY <1>3, <1>4, <1>5 DEF RemoveAt
<1>9. /\ c \in Seq(S) /\ Len(c) = n - 1
      /\ \A j \in 1..(n - 1) : c[j] = IF j <= k - 1 THEN l[j] ELSE r[j - (k - 1)]
  <2>1. l \in Seq(S) /\ r \in Seq(S) /\ Len(l) = k - 1 /\ Len(r) = n - k
    BY <1>6, <1>7
  <2>2. /\ l \o r \in Seq(S) /\ Len(l \o r) = Len(l) + Len(r)
        /\ \A j \in 1..(Len(l) + Len(r)) :
             (l \o r)[j] = IF j <= Len(l) THEN l[j] ELSE r[j - Len(l)]
    BY <2>1, ConcatProperties, Zenon
  <2>3. /\ c \in Seq(S) /\ Len(c) = Len(l) + Len(r)
        /\ \A j \in 1..(Len(l) + Len(r)) :
             c[j] = IF j <= Len(l) THEN l[j] ELSE r[j - Len(l)]
    BY <1>8, <2>2, Zenon
  <2>4. (k - 1) + (n - k) = n - 1
    BY <1>1, <1>3
  <2> QED
    BY <2>1, <2>3, <2>4
<1>10. ASSUME NEW j \in 1..(n - 1)
       PROVE  c[j] = IF j < k THEN s[j] ELSE s[j + 1]
  <2>1. CASE j < k
    <3>1. j <= k - 1 /\ j \in 1..(k - 1)
      BY <1>1, <1>3, <2>1
    <3> QED
      BY <1>6, <1>9, <2>1, <3>1
  <2>2. CASE ~(j < k)
    <3>1. j - (k - 1) \in 1..(n - k) /\ k + (j - (k - 1)) = j + 1 /\ ~(j <= k - 1)
      BY <1>1, <1>3, <2>2
    <3> QED
      BY <1>7, <1>9, <2>2, <3>1
  <2> QED
    BY <2>1, <2>2
<1> QED
  BY <1>1, <1>3, <1>8, <1>9, <1>10

(* Taking a message back from the middle of a connection adds nothing to    *)
(* what it carries.                                                         *)
LEMMA HeldWithout ==
    ASSUME NEW S, NEW s \in Seq(S), NEW k \in DOMAIN s
    PROVE  /\ RemoveAt(s, k) \in Seq(S) /\ Held(RemoveAt(s, k)) \subseteq Held(s)
           /\ Alone(s) => Alone(RemoveAt(s, k))
<1> DEFINE t == RemoveAt(s, k)
           n == Len(s)
           From(j) == IF j < k THEN j ELSE j + 1
<1>1. /\ t \in Seq(S) /\ Len(t) = n - 1 /\ n \in Nat \ {0} /\ DOMAIN s = 1..n
      /\ \A j \in 1..(n - 1) : t[j] = s[From(j)]
  BY RemoveLeaves
<1>2. DOMAIN t = 1..(n - 1) /\ k \in 1..n
  BY <1>1
<1> HIDE DEF t, n
<1>3. \A j \in 1..(n - 1) : From(j) \in 1..n
  BY <1>1, <1>2
<1>4. \A i, j \in 1..(n - 1) : From(i) = From(j) => i = j
  BY <1>1, <1>2
<1> HIDE DEF From
<1>5. Held(t) \subseteq Held(s)
  BY <1>1, <1>2, <1>3 DEF Held
<1>6. Alone(s) => Alone(t)
  <2> SUFFICES ASSUME Alone(s), NEW i \in 1..(n - 1), NEW j \in 1..(n - 1), NEW p \in Prompt,
                      Holds(s[From(i)], p), Holds(s[From(j)], p)
               PROVE  i = j
    BY <1>1, <1>2 DEF Alone
  <2>1. From(i) = From(j)
    BY <1>1, <1>3 DEF Alone
  <2> QED
    BY <1>4, <2>1
<1> QED
  BY <1>1, <1>5, <1>6 DEF t

(* One more element, written as a concatenation.                            *)
LEMMA ConcatOne ==
    ASSUME NEW S, NEW s \in Seq(S), NEW m \in S
    PROVE  s \o <<m>> = Append(s, m) /\ s \o <<>> = s
OBVIOUS

(* The transcript followed by the queue holds each accepted prompt once.    *)
LEMMA Joined ==
    ASSUME NEW s \in Seq(Prompt), NEW t \in Seq(Prompt)
    PROVE  /\ s \o t \in Seq(Prompt) /\ ToSet(s \o t) = ToSet(s) \cup ToSet(t)
           /\ Once(s) /\ Once(t) /\ ToSet(s) \cap ToSet(t) = {} => Once(s \o t)
<1> DEFINE u == s \o t
           m == Len(s)
           n == Len(t)
<1>1. /\ u \in Seq(Prompt) /\ m \in Nat /\ n \in Nat
      /\ DOMAIN s = 1..m /\ DOMAIN t = 1..n /\ DOMAIN u = 1..(m + n)
      /\ \A i \in 1..(m + n) : u[i] = IF i <= m THEN s[i] ELSE t[i - m]
  <2>1. /\ u \in Seq(Prompt) /\ Len(u) = m + n
        /\ \A i \in 1..(m + n) : u[i] = IF i <= m THEN s[i] ELSE t[i - m]
    BY ConcatProperties, Zenon
  <2> HIDE DEF u
  <2> QED
    BY <2>1
<1> HIDE DEF u, m, n
<1>2. \A i \in 1..(m + n) : IF i <= m THEN i \in 1..m ELSE i - m \in 1..n
  BY <1>1
<1>3. (\A i \in 1..m : i \in 1..(m + n) /\ i <= m)
      /\ \A i \in 1..n : i + m \in 1..(m + n) /\ ~(i + m <= m) /\ (i + m) - m = i
  BY <1>1
<1>4. ToSet(u) \subseteq ToSet(s) \cup ToSet(t)
  BY <1>1, <1>2 DEF ToSet
<1>5. ToSet(s) \cup ToSet(t) \subseteq ToSet(u)
  <2>1. ASSUME NEW i \in 1..m PROVE \E k \in 1..(m + n) : u[k] = s[i]
    BY <1>1, <1>3
  <2>2. ASSUME NEW i \in 1..n PROVE \E k \in 1..(m + n) : u[k] = t[i]
    BY <1>1, <1>3
  <2>3. ToSet(s) \subseteq ToSet(u)
    BY <1>1, <2>1 DEF ToSet
  <2>4. ToSet(t) \subseteq ToSet(u)
    BY <1>1, <2>2 DEF ToSet
  <2> QED
    BY <2>3, <2>4
<1>6. ASSUME Once(s), Once(t), ToSet(s) \cap ToSet(t) = {} PROVE Once(u)
  <2> SUFFICES ASSUME NEW i \in 1..(m + n), NEW j \in 1..(m + n), u[i] = u[j] PROVE i = j
    BY <1>1 DEF Once
  <2>1. CASE i <= m /\ j <= m
    BY <1>1, <1>2, <1>6, <2>1 DEF Once
  <2>2. CASE ~(i <= m) /\ ~(j <= m)
    <3>1. i - m \in 1..n /\ j - m \in 1..n /\ t[i - m] = t[j - m]
      BY <1>1, <1>2, <2>2
    <3>2. i - m = j - m
      BY <1>1, <1>6, <3>1 DEF Once
    <3> QED
      BY <1>1, <3>2
  <2>3. CASE ~(i <= m <=> j <= m)
    <3>1. PICK a \in 1..m, b \in 1..n : s[a] = t[b]
      BY <1>1, <1>2, <2>3
    <3> QED
      BY <1>1, <1>6, <3>1 DEF ToSet
  <2> QED
    BY <2>1, <2>2, <2>3
<1> QED
  BY <1>1, <1>4, <1>5, <1>6 DEF u

-----------------------------------------------------------------------------
(* The messages.                                                            *)

(* What the tab writes are messages to the server, and which prompt each    *)
(* carries.                                                                 *)
LEMMA Kinds ==
    ASSUME NEW p \in Prompt, NEW id \in Nat
    PROVE  /\ Start(p) \in Ups /\ Steer(p, id) \in Ups /\ Stop(id) \in Ups
           /\ \A q : (Holds(Start(p), q) <=> q = p) /\ (Holds(Steer(p, id), q) <=> q = p) /\ ~Holds(Stop(id), q)
  BY DEF Ups, Start, Steer, Stop, Holds

Started(id) == [kind |-> "started", turn |-> id]
Echoes(p) == [kind |-> "echo", prompt |-> p]
Admitted(p) == [kind |-> "admitted", prompt |-> p]
Refused(p, b) == [kind |-> "refused", prompt |-> p, noTurn |-> b]

(* What the server writes are messages to the tab.                          *)
LEMMA Answers ==
    ASSUME NEW p \in Prompt, NEW id \in Nat, NEW b \in BOOLEAN, NEW k \in {"completed", "output", "exit"}
    PROVE  /\ Started(id) \in Downs /\ Echoes(p) \in Downs /\ Admitted(p) \in Downs
           /\ Refused(p, b) \in Downs /\ [kind |-> k] \in Downs
           /\ Started(id).kind = "started" /\ Echoes(p).kind = "echo" /\ Echoes(p).prompt = p
           /\ Admitted(p).kind = "admitted" /\ Refused(p, b).kind = "refused" /\ Refused(p, b).prompt = p
           /\ [kind |-> k].kind = k
  BY DEF Downs, Started, Echoes, Admitted, Refused

(* What a message of each kind carries.                                     *)
LEMMA Contents ==
    /\ \A m \in Ups : /\ m.kind \in {"start", "steer", "stop"}
                      /\ m.kind \in {"start", "steer"} => m.prompt \in Prompt
                      /\ m.kind \in {"steer", "stop"} => m.turn \in Nat
    /\ \A m \in Downs : /\ m.kind \in {"echo", "admitted", "refused"} => m.prompt \in Prompt
                        /\ m.kind = "started" => m.turn \in Nat
                        /\ m.kind = "refused" => m.noTurn \in BOOLEAN
  BY DEF Ups, Downs

(* Receiving a message of a kind takes its prompt, and only that, from the  *)
(* connection.                                                              *)
LEMMA Received ==
    ASSUME Types, NEW k, Receive(k)
    PROVE  /\ down' \in Seq(Downs) /\ Head(down) \in Downs /\ Head(down).kind = k
           /\ Held(down') \subseteq Held(down) /\ Named(down') \subseteq Named(down)
           /\ Alone(down) => Alone(down')
           /\ \A p \in Prompt : Holds(Head(down), p) =>
                 p \in Held(down) /\ (Alone(down) => p \notin Held(down'))
           /\ k = "echo" => Head(down).prompt \in Named(down)
<1>1. down \in Seq(Downs) /\ down # <<>> /\ Head(down).kind = k /\ down' = Tail(down)
  BY DEF Types, Receive
<1>2. /\ Head(down) \in Downs /\ Tail(down) \in Seq(Downs)
      /\ Held(Tail(down)) \subseteq Held(down) /\ Named(Tail(down)) \subseteq Named(down)
      /\ \A p \in Prompt : Holds(Head(down), p) =>
            p \in Held(down) /\ (Alone(down) => p \notin Held(Tail(down)))
      /\ \A p \in Prompt : Head(down).kind = "echo" /\ Head(down).prompt = p => p \in Named(down)
      /\ Alone(down) => Alone(Tail(down))
  BY <1>1, HeldAfter
<1>3. k = "echo" => Head(down).prompt \in Prompt
  BY <1>1, <1>2, Contents
<1> QED
  BY <1>1, <1>2, <1>3

(* The server takes the next message.                                       *)
LEMMA Taking ==
    ASSUME Types, NEW k, Take(k)
    PROVE  /\ up' \in Seq(Ups) /\ Head(up) \in Ups /\ Head(up).kind = k
           /\ Held(up') \subseteq Held(up)
           /\ Alone(up) => Alone(up')
           /\ \A p \in Prompt : Holds(Head(up), p) => p \in Held(up) /\ (Alone(up) => p \notin Held(up'))
<1>1. up \in Seq(Ups) /\ up # <<>> /\ Head(up).kind = k /\ up' = Tail(up)
  BY DEF Types, Take
<1>2. /\ Head(up) \in Ups /\ Tail(up) \in Seq(Ups)
      /\ Held(Tail(up)) \subseteq Held(up)
      /\ \A p \in Prompt : Holds(Head(up), p) =>
            p \in Held(up) /\ (Alone(up) => p \notin Held(Tail(up)))
      /\ Alone(up) => Alone(Tail(up))
  BY <1>1, HeldAfter
<1> QED
  BY <1>1, <1>2

(* A message from the server that carries nobody's chance to be read.       *)
LEMMA Sending ==
    ASSUME Types, NEW m \in Downs, down' = Append(down, m)
    PROVE  /\ down' \in Seq(Downs)
           /\ m.kind # "refused" => Held(down') = Held(down) /\ (Alone(down) => Alone(down'))
           /\ m.kind = "refused" => /\ Held(down') = Held(down) \cup {m.prompt}
                                    /\ Alone(down) /\ m.prompt \notin Held(down) => Alone(down')
           /\ m.kind # "echo" => Named(down') = Named(down)
           /\ m.kind = "echo" => Named(down') = Named(down) \cup {m.prompt}
<1>1. down \in Seq(Downs)
  BY DEF Types
<1>2. /\ Append(down, m) \in Seq(Downs)
      /\ Held(Append(down, m)) = Held(down) \cup {p \in Prompt : Holds(m, p)}
      /\ Named(Append(down, m)) = Named(down) \cup {p \in Prompt : m.kind = "echo" /\ m.prompt = p}
      /\ Alone(down) /\ (\A p \in Prompt : Holds(m, p) => p \notin Held(down)) => Alone(Append(down, m))
  BY <1>1, HeldBehind
<1>3. m.kind \notin {"start", "steer"} /\ (m.kind \in {"refused", "echo"} => m.prompt \in Prompt)
  BY DEF Downs
<1> QED
  BY <1>2, <1>3 DEF Holds

(* The tab's message, likewise.                                             *)
LEMMA Asking ==
    ASSUME Types, NEW m \in Ups, up' = Append(up, m)
    PROVE  /\ up' \in Seq(Ups)
           /\ m.kind = "stop" => Held(up') = Held(up) /\ (Alone(up) => Alone(up'))
           /\ m.kind # "stop" => /\ Held(up') = Held(up) \cup {m.prompt} /\ m.prompt \in Prompt
                                 /\ Alone(up) /\ m.prompt \notin Held(up) => Alone(up')
<1>1. up \in Seq(Ups)
  BY DEF Types
<1>2. /\ Append(up, m) \in Seq(Ups)
      /\ Held(Append(up, m)) = Held(up) \cup {p \in Prompt : Holds(m, p)}
      /\ Alone(up) /\ (\A p \in Prompt : Holds(m, p) => p \notin Held(up)) => Alone(Append(up, m))
  BY <1>1, HeldBehind
<1>3. m.kind \in {"start", "steer", "stop"} /\ (m.kind # "stop" => m.prompt \in Prompt)
  BY DEF Ups
<1> QED
  BY <1>2, <1>3 DEF Holds

(* A step that moves no prompt to another place, and at most loses some.    *)
LEMMA Fewer ==
    ASSUME DeliveryInv, Types', Kept', Accepted \subseteq Accepted',
           Alone(up'), Alone(down'), Held(up') \subseteq Held(up), Held(down') \subseteq Held(down),
           Named(down') \subseteq Named(down), taken' = taken, Once(waiting'),
           ToSet(waiting') \subseteq ToSet(waiting),
           echoed' \cup lost' \cup stopped' \subseteq Accepted', restarted' = restarted,
           \A p \in Prompt : op'[p] # "none" => op[p] # "none",
           \A p \in Prompt : op'[p] = "retry" => op[p] = "retry" /\ p \notin stopped',
           stopped' \cap restarted = {}
    PROVE  DeliveryInv'
<1>1. OnePlace'
  BY DEF DeliveryInv, OnePlace
<1>2. Origins'
  BY DEF DeliveryInv, Origins
<1>3. Retries'
  BY DEF DeliveryInv, Retries
<1> QED
  BY <1>1, <1>2, <1>3 DEF DeliveryInv

-----------------------------------------------------------------------------
(* The user.                                                                *)

(* A submission that opens a turn.                                          *)
LEMMA SubmitStartsStep ==
    ASSUME DeliveryInv, NEW p \in Prompt, SubmitStarts(p)
    PROVE  DeliveryInv'
<1>1. /\ p \notin Accepted /\ up' = Append(up, Start(p)) /\ shown' = Append(shown, p)
      /\ UNCHANGED <<pending, current, op, down, running, nextTurn, waiting, taken, echoed, stopped, lost,
                     restarted>>
  BY DEF SubmitStarts, codex, server
<1>2. Types /\ Start(p) \in Ups /\ Start(p).kind = "start" /\ Start(p).prompt = p
  BY Kinds DEF DeliveryInv, Start
<1>3. p \notin Held(up) \cup Held(down) \cup ToSet(waiting) \cup ToSet(taken) \cup ToSet(shown) \cup ToSet(pending)
  BY <1>1 DEF DeliveryInv, Origins, Accepted
<1>4. up' \in Seq(Ups) /\ Held(up') = Held(up) \cup {p} /\ Alone(up')
  BY <1>1, <1>2, <1>3, Asking DEF DeliveryInv, OnePlace
<1>5. /\ shown' \in Seq(Prompt) /\ ToSet(shown') = ToSet(shown) \cup {p} /\ Once(shown')
  BY <1>1, <1>2, <1>3, OnceBehind DEF DeliveryInv, Types, Kept
<1>6. Types' /\ Kept'
  BY <1>1, <1>2, <1>3, <1>4, <1>5 DEF DeliveryInv, Types, Kept
<1>7. OnePlace'
  BY <1>1, <1>3, <1>4 DEF DeliveryInv, OnePlace
<1>8. Accepted' = Accepted \cup {p}
  BY <1>1, <1>5 DEF Accepted
<1>9. Origins' /\ Retries'
  BY <1>1, <1>4, <1>8 DEF DeliveryInv, Origins, Retries
<1> QED
  BY <1>6, <1>7, <1>9 DEF DeliveryInv

(* A submission into the running turn.                                      *)
LEMMA SubmitSteersStep ==
    ASSUME DeliveryInv, NEW p \in Prompt, SubmitSteers(p)
    PROVE  DeliveryInv'
<1>1. /\ p \notin Accepted /\ up' = Append(up, Steer(p, current)) /\ pending' = Append(pending, p)
      /\ op' = [op EXCEPT ![p] = "retry"]
      /\ UNCHANGED <<shown, current, down, running, nextTurn, waiting, taken, echoed, stopped, lost, restarted>>
  BY DEF SubmitSteers, server
<1>2. /\ Types /\ Steer(p, current) \in Ups
      /\ Steer(p, current).kind = "steer" /\ Steer(p, current).prompt = p
  BY Kinds DEF DeliveryInv, Types, Steer
<1>3. p \notin Held(up) \cup Held(down) \cup ToSet(waiting) \cup ToSet(taken) \cup ToSet(shown) \cup ToSet(pending)
  BY <1>1 DEF DeliveryInv, Origins, Accepted
<1>4. up' \in Seq(Ups) /\ Held(up') = Held(up) \cup {p} /\ Alone(up')
  BY <1>1, <1>2, <1>3, Asking DEF DeliveryInv, OnePlace
<1>5. /\ pending' \in Seq(Prompt) /\ ToSet(pending') = ToSet(pending) \cup {p} /\ Once(pending')
  BY <1>1, <1>2, <1>3, OnceBehind DEF DeliveryInv, Types, Kept
<1>6. /\ op' \in [Prompt -> {"none", "retry", "plain"}]
      /\ \A q \in Prompt : q # p => op'[q] = op[q]
  BY <1>1, <1>2 DEF Types
<1>7. Types' /\ Kept'
  BY <1>1, <1>2, <1>3, <1>4, <1>5, <1>6 DEF DeliveryInv, Types, Kept
<1>8. OnePlace'
  BY <1>1, <1>3, <1>4 DEF DeliveryInv, OnePlace
<1>9. Accepted' = Accepted \cup {p}
  BY <1>1, <1>5 DEF Accepted
<1>10. Origins' /\ Retries'
  BY <1>1, <1>4, <1>6, <1>9 DEF DeliveryInv, Origins, Retries
<1> QED
  BY <1>7, <1>8, <1>10 DEF DeliveryInv

(* A steer that fails, and what a stop takes from the others.               *)
LEMMA InterruptStep ==
    ASSUME DeliveryInv, Interrupt
    PROVE  DeliveryInv'
<1>1. UNCHANGED <<shown, pending, current, down, running, nextTurn, waiting, taken, echoed, lost, restarted>>
  BY DEF Interrupt, server
<1>2. Types /\ Kept' /\ Accepted' = Accepted
  BY <1>1 DEF DeliveryInv, Kept, Accepted
<1>3. CASE current = 0
  <2>1. UNCHANGED <<up, op, stopped>>
    BY <1>3 DEF Interrupt
  <2>2. Types'
    BY <1>1, <1>2, <2>1 DEF Types
  <2> QED
    BY <1>1, <1>2, <2>1, <2>2, Fewer DEF DeliveryInv, OnePlace, Origins, Retries
<1>4. CASE current # 0
  <2>1. /\ up' = Append(up, Stop(current))
        /\ op' = [p \in Prompt |-> IF op[p] = "retry" THEN "plain" ELSE op[p]]
        /\ stopped' = stopped \cup {p \in Prompt : op[p] = "retry"}
    BY <1>4 DEF Interrupt, CancelSteeringRetries
  <2>2. Stop(current) \in Ups /\ Stop(current).kind = "stop"
    BY <1>2 DEF Types, Ups, Stop
  <2>3. up' \in Seq(Ups) /\ Held(up') = Held(up) /\ Alone(up')
    BY <1>2, <2>1, <2>2, Asking DEF DeliveryInv, OnePlace
  <2>4. /\ op' \in [Prompt -> {"none", "retry", "plain"}]
        /\ \A p \in Prompt : op'[p] # "retry" /\ (op'[p] # "none" => op[p] # "none")
    BY <1>2, <2>1 DEF Types
  <2>5. Types'
    BY <1>1, <1>2, <2>3, <2>4 DEF Types
  <2>6. stopped' \subseteq Accepted /\ stopped' \cap restarted = {}
    BY <2>1 DEF DeliveryInv, Origins, Retries
  <2> QED
    BY <1>1, <1>2, <2>3, <2>4, <2>5, <2>6, Fewer DEF DeliveryInv, OnePlace, Origins
<1> QED
  BY <1>3, <1>4

(* A steer whose deadline passed, or whose input was never sent.            *)
LEMMA SteerEndsStep ==
    ASSUME DeliveryInv, NEW p \in Prompt, SteerTimesOut(p) \/ SteerNotSent(p)
    PROVE  DeliveryInv'
<1>1. /\ op' = [op EXCEPT ![p] = "none"]
      /\ op[p] # "none" /\ lost' \subseteq lost \cup {p}
      /\ UNCHANGED <<shown, pending, current, down, running, nextTurn, waiting, taken, echoed, stopped, restarted>>
  BY DEF SteerTimesOut, TimedOut, GiveUp, SteerNotSent, server
<1>2. Types /\ Kept' /\ Accepted' = Accepted
  BY <1>1 DEF DeliveryInv, Kept, Accepted
<1>3. up' \in Seq(Ups) /\ Held(up') \subseteq Held(up) /\ Alone(up')
  <2>1. up \in Seq(Ups) /\ Alone(up)
    BY DEF DeliveryInv, Types, OnePlace
  <2>2. CASE SteerTimesOut(p)
    BY <2>1, <2>2 DEF SteerTimesOut, TimedOut, GiveUp
  <2>3. CASE SteerNotSent(p)
    <3>1. PICK k \in DOMAIN up : up' = RemoveAt(up, k)
      BY <2>3 DEF SteerNotSent
    <3> QED
      BY <2>1, <3>1, HeldWithout
  <2> QED
    BY <2>2, <2>3
<1>4. /\ op' \in [Prompt -> {"none", "retry", "plain"}]
      /\ \A q \in Prompt : op'[q] \in {op[q], "none"}
  BY <1>1, <1>2 DEF Types
<1>5. Types'
  BY <1>1, <1>2, <1>3, <1>4 DEF Types
<1>6. lost' \subseteq Accepted
  BY <1>1 DEF DeliveryInv, Origins
<1> QED
  BY <1>1, <1>2, <1>3, <1>4, <1>5, <1>6, Fewer DEF DeliveryInv, OnePlace, Origins, Retries

-----------------------------------------------------------------------------
(* The tab.                                                                 *)

(* A message that changes neither the transcript nor where a prompt is.     *)
LEMMA ToldStep ==
    ASSUME DeliveryInv, TurnStarted \/ Output \/ TurnCompleted \/ SteerAdmitted
    PROVE  DeliveryInv'
<1> DEFINE k == Head(down).kind
<1>1. /\ Receive(k) /\ k \in {"started", "output", "completed", "admitted"}
      /\ UNCHANGED <<shown, pending, up, running, nextTurn, waiting, taken, echoed, stopped, lost, restarted>>
  BY DEF TurnStarted, Output, TurnCompleted, SteerAdmitted, Receive, delivery, server, history
<1>2. Types /\ Kept' /\ Accepted' = Accepted
  BY <1>1 DEF DeliveryInv, Kept, Accepted
<1>3. /\ down' \in Seq(Downs) /\ Head(down) \in Downs /\ Held(down') \subseteq Held(down)
      /\ Named(down') \subseteq Named(down) /\ Alone(down')
  BY <1>1, <1>2, Received DEF DeliveryInv, OnePlace
<1>4. current' \in Nat
  BY <1>2, <1>3, Contents DEF TurnStarted, Output, TurnCompleted, SteerAdmitted, Types, codex, Receive
<1>5. op' \in [Prompt -> {"none", "retry", "plain"}] /\ \A p \in Prompt : op'[p] \in {op[p], "none"}
  BY <1>2 DEF TurnStarted, Output, TurnCompleted, SteerAdmitted, Types, codex
<1>6. Types'
  BY <1>1, <1>2, <1>3, <1>4, <1>5 DEF Types
<1> QED
  BY <1>1, <1>2, <1>3, <1>5, <1>6, Fewer DEF DeliveryInv, OnePlace, Origins, Retries

(* The echo takes the front of the queue to the end of the transcript, or   *)
(* leaves both alone.                                                       *)
LEMMA EchoStep ==
    ASSUME DeliveryInv, Echo
    PROVE  DeliveryInv'
<1>1. /\ Receive("echo") /\ echoed' = echoed \cup {Head(down).prompt}
      /\ UNCHANGED <<current, op, up, running, nextTurn, waiting, taken, stopped, lost, restarted>>
  BY DEF Echo, codex, server
<1>2. Types
  BY DEF DeliveryInv
<1>3. /\ down' \in Seq(Downs) /\ Held(down') \subseteq Held(down)
      /\ Named(down') \subseteq Named(down) /\ Alone(down') /\ Head(down).prompt \in Accepted
  BY <1>1, <1>2, Received DEF DeliveryInv, OnePlace, Origins
<1>4. /\ shown' \in Seq(Prompt) /\ pending' \in Seq(Prompt) /\ Kept' /\ Accepted' = Accepted
  <2>1. CASE UNCHANGED <<pending, shown>>
    BY <1>2, <2>1 DEF DeliveryInv, Types, Kept, Accepted
  <2>2. CASE ~UNCHANGED <<pending, shown>>
    <3>1. pending # <<>> /\ shown' = Append(shown, Head(pending)) /\ pending' = Tail(pending)
      BY <2>2 DEF Echo, FrontEcho
    <3>2. /\ Head(pending) \in Prompt /\ Tail(pending) \in Seq(Prompt)
          /\ ToSet(pending) = ToSet(Tail(pending)) \cup {Head(pending)}
          /\ Once(Tail(pending)) /\ Head(pending) \notin ToSet(Tail(pending))
      BY <1>2, <3>1, OnceAfter DEF DeliveryInv, Types, Kept
    <3>3. Head(pending) \notin ToSet(shown)
      BY <3>2 DEF DeliveryInv, Kept
    <3>4. /\ shown' \in Seq(Prompt) /\ ToSet(shown') = ToSet(shown) \cup {Head(pending)} /\ Once(shown')
      BY <1>2, <3>1, <3>2, <3>3, OnceBehind DEF DeliveryInv, Types, Kept
    <3> QED
      BY <3>1, <3>2, <3>3, <3>4 DEF DeliveryInv, Kept, Accepted
  <2> QED
    BY <2>1, <2>2
<1>5. Types'
  BY <1>1, <1>2, <1>3, <1>4 DEF Types
<1> QED
  BY <1>1, <1>3, <1>4, <1>5, Fewer DEF DeliveryInv, OnePlace, Origins, Retries

(* The host ended: what was queued is published and the session stops.      *)
LEMMA HostExitedStep ==
    ASSUME DeliveryInv, HostExited
    PROVE  DeliveryInv'
<1>1. /\ Receive("exit") /\ shown' = shown \o pending /\ pending' = <<>>
      /\ current' = 0 /\ op' = [p \in Prompt |-> "none"]
      /\ UNCHANGED <<up, running, nextTurn, waiting, taken, echoed, stopped, lost, restarted>>
  BY DEF HostExited, Published, server, history
<1>2. Types
  BY DEF DeliveryInv
<1>3. /\ down' \in Seq(Downs) /\ Held(down') \subseteq Held(down)
      /\ Named(down') \subseteq Named(down) /\ Alone(down')
  BY <1>1, <1>2, Received DEF DeliveryInv, OnePlace
<1>4. /\ shown' \in Seq(Prompt) /\ ToSet(shown') = ToSet(shown) \cup ToSet(pending) /\ Once(shown')
  BY <1>1, <1>2, Joined DEF DeliveryInv, Types, Kept
<1>5. <<>> \in Seq(Prompt) /\ ToSet(<<>>) = {} /\ Once(<<>>)
  BY DEF ToSet, Once
<1>6. Kept' /\ Accepted' = Accepted
  BY <1>1, <1>4, <1>5 DEF Kept, Accepted
<1>7. Types'
  BY <1>1, <1>2, <1>3, <1>4, <1>5 DEF Types
<1> QED
  BY <1>1, <1>3, <1>6, <1>7, Fewer DEF DeliveryInv, OnePlace, Origins, Retries

(* A refusal: the chance goes back into a start, or is lost.                *)
LEMMA SteerRefusedStep ==
    ASSUME DeliveryInv, SteerRefused
    PROVE  DeliveryInv'
<1> DEFINE m == Head(down)
           p == m.prompt
<1>1. /\ Receive("refused") /\ op' = [op EXCEPT ![p] = "none"]
      /\ UNCHANGED <<shown, pending, current, running, nextTurn, waiting, taken, echoed, stopped>>
  BY DEF SteerRefused, server
<1>2. Types /\ Kept' /\ Accepted' = Accepted
  BY <1>1 DEF DeliveryInv, Kept, Accepted
<1>3. /\ down' \in Seq(Downs) /\ m \in Downs /\ m.kind = "refused" /\ Held(down') \subseteq Held(down)
      /\ Named(down') \subseteq Named(down) /\ Alone(down')
      /\ \A q \in Prompt : Holds(m, q) => q \in Held(down) /\ q \notin Held(down')
  BY <1>1, <1>2, Received DEF DeliveryInv, OnePlace
<1>4. p \in Prompt /\ p \in Held(down) /\ p \notin Held(down') /\ p \in Accepted
  BY <1>3, Contents DEF Holds, DeliveryInv, Origins
<1>5. \/ op[p] = "retry" /\ up' = Append(up, Start(p)) /\ restarted' = restarted \cup {p} /\ lost' = lost
      \/ up' = up /\ restarted' = restarted /\ lost' \subseteq lost \cup {p}
  BY DEF SteerRefused, Retry, GiveUp
<1> HIDE DEF m, p
<1>6. op' \in [Prompt -> {"none", "retry", "plain"}] /\ op'[p] = "none" /\ \A q \in Prompt : q # p => op'[q] = op[q]
  BY <1>1, <1>2, <1>4 DEF Types
<1>7. CASE op[p] = "retry" /\ up' = Append(up, Start(p)) /\ restarted' = restarted \cup {p} /\ lost' = lost
  <2>1. Start(p) \in Ups /\ Start(p).kind = "start" /\ Start(p).prompt = p
    BY <1>4, Kinds DEF Start
  <2>2. p \notin Held(up) /\ p \notin ToSet(waiting) \cup ToSet(taken)
    BY <1>4 DEF DeliveryInv, OnePlace
  <2>3. up' \in Seq(Ups) /\ Held(up') = Held(up) \cup {p} /\ Alone(up')
    BY <1>2, <1>7, <2>1, <2>2, Asking DEF DeliveryInv, OnePlace
  <2>4. Types'
    BY <1>1, <1>2, <1>3, <1>6, <2>3 DEF Types
  <2>5. OnePlace'
    BY <1>1, <1>3, <1>4, <2>2, <2>3 DEF DeliveryInv, OnePlace
  <2>6. Origins'
    BY <1>1, <1>2, <1>3, <1>4, <1>6, <1>7, <2>3 DEF DeliveryInv, Origins
  <2>7. Retries'
    BY <1>1, <1>4, <1>6, <1>7 DEF DeliveryInv, Retries
  <2> QED
    BY <1>2, <2>4, <2>5, <2>6, <2>7 DEF DeliveryInv
<1>8. CASE up' = up /\ restarted' = restarted /\ lost' \subseteq lost \cup {p}
  <2>1. Types'
    BY <1>1, <1>2, <1>3, <1>6, <1>8 DEF Types
  <2>2. \A q \in Prompt : op'[q] \in {op[q], "none"}
    BY <1>6
  <2> QED
    BY <1>1, <1>2, <1>3, <1>4, <1>8, <2>1, <2>2, Fewer DEF DeliveryInv, OnePlace, Origins, Retries
<1> QED
  BY <1>5, <1>7, <1>8

-----------------------------------------------------------------------------
(* The server.                                                              *)

(* The server reads a prompt that nothing else holds.                       *)
LEMMA Reading ==
    ASSUME DeliveryInv, NEW p \in Prompt, Reads(p), p \notin ToSet(taken)
    PROVE  /\ down' \in Seq(Downs) /\ Held(down') = Held(down) /\ Alone(down')
           /\ Named(down') = Named(down) \cup {p}
           /\ taken' \in Seq(Prompt) /\ ToSet(taken') = ToSet(taken) \cup {p} /\ Once(taken')
           /\ running' \in Nat /\ nextTurn' \in Nat
<1>1. /\ taken' = Append(taken, p)
      /\ down' = down \o (IF running = 0 THEN <<Started(nextTurn)>> ELSE <<>>) \o <<Echoes(p)>>
      /\ running' = IF running = 0 THEN nextTurn ELSE running
      /\ nextTurn' = IF running = 0 THEN nextTurn + 1 ELSE nextTurn
  BY DEF Reads, Started, Echoes
<1>2. Types
  BY DEF DeliveryInv
<1>3. /\ Started(nextTurn) \in Downs /\ Echoes(p) \in Downs
      /\ Started(nextTurn).kind = "started" /\ Echoes(p).kind = "echo" /\ Echoes(p).prompt = p
  BY <1>2, Answers DEF Types
<1>4. PICK d : d = down \o (IF running = 0 THEN <<Started(nextTurn)>> ELSE <<>>)
  OBVIOUS
<1>5. d \in Seq(Downs) /\ Held(d) = Held(down) /\ Alone(d) /\ Named(d) = Named(down)
  <2>1. down \in Seq(Downs) /\ Alone(down)
    BY <1>2 DEF DeliveryInv, OnePlace, Types
  <2>2. CASE running = 0
    <3>1. d = Append(down, Started(nextTurn))
      BY <1>3, <1>4, <2>1, <2>2, ConcatOne
    <3>2. /\ Append(down, Started(nextTurn)) \in Seq(Downs)
          /\ Held(Append(down, Started(nextTurn))) = Held(down) \cup {q \in Prompt : Holds(Started(nextTurn), q)}
          /\ Named(Append(down, Started(nextTurn))) =
                Named(down) \cup {q \in Prompt : Started(nextTurn).kind = "echo" /\ Started(nextTurn).prompt = q}
          /\ (\A q \in Prompt : Holds(Started(nextTurn), q) => q \notin Held(down)) => Alone(Append(down, Started(nextTurn)))
      BY <1>3, <2>1, HeldBehind
    <3> QED
      BY <1>3, <3>1, <3>2 DEF Holds
  <2>3. CASE running # 0
    <3>1. d = down \o <<>>
      BY <1>4, <2>3
    <3>2. d = down
      BY <1>3, <2>1, <3>1, ConcatOne
    <3> QED
      BY <2>1, <3>2
  <2> QED
    BY <2>2, <2>3
<1>6. down' \in Seq(Downs) /\ Held(down') = Held(down) /\ Alone(down') /\ Named(down') = Named(down) \cup {p}
  <2>1. down' = Append(d, Echoes(p))
    BY <1>1, <1>3, <1>4, <1>5, ConcatOne
  <2>2. /\ Append(d, Echoes(p)) \in Seq(Downs)
        /\ Held(Append(d, Echoes(p))) = Held(d) \cup {q \in Prompt : Holds(Echoes(p), q)}
        /\ Named(Append(d, Echoes(p))) =
              Named(d) \cup {q \in Prompt : Echoes(p).kind = "echo" /\ Echoes(p).prompt = q}
        /\ (\A q \in Prompt : Holds(Echoes(p), q) => q \notin Held(d)) => Alone(Append(d, Echoes(p)))
    BY <1>3, <1>5, HeldBehind
  <2> QED
    BY <1>3, <1>5, <2>1, <2>2 DEF Holds
<1>7. /\ taken' \in Seq(Prompt) /\ ToSet(taken') = ToSet(taken) \cup {p} /\ Once(taken')
  BY <1>1, <1>2, OnceBehind DEF DeliveryInv, OnePlace, Types
<1>8. running' \in Nat /\ nextTurn' \in Nat
  BY <1>1, <1>2 DEF Types
<1> QED
  BY <1>6, <1>7, <1>8

(* The server takes a turn/start.                                           *)
LEMMA ServerStartsStep ==
    ASSUME DeliveryInv, ServerStarts
    PROVE  DeliveryInv'
<1> DEFINE p == Head(up).prompt
<1>1. /\ Take("start")
      /\ UNCHANGED <<shown, pending, current, op, echoed, stopped, lost, restarted>>
  BY DEF ServerStarts, tab, history, delivery, codex
<1>2. Types /\ Kept' /\ Accepted' = Accepted
  BY <1>1 DEF DeliveryInv, Kept, Accepted
<1>3. /\ up' \in Seq(Ups) /\ Head(up) \in Ups /\ Head(up).kind = "start" /\ Held(up') \subseteq Held(up) /\ Alone(up')
      /\ \A q \in Prompt : Holds(Head(up), q) => q \in Held(up) /\ q \notin Held(up')
  BY <1>1, <1>2, Taking DEF DeliveryInv, OnePlace
<1>4. p \in Prompt /\ p \in Held(up) /\ p \notin Held(up') /\ p \in Accepted
  BY <1>3, Contents DEF Holds, DeliveryInv, Origins
<1>5. p \notin Held(down) \cup ToSet(waiting) \cup ToSet(taken)
  BY <1>4 DEF DeliveryInv, OnePlace
<1>6. \/ Reads(p) /\ waiting' = waiting
      \/ waiting' = Append(waiting, p) /\ UNCHANGED <<running, nextTurn, taken, down>>
  BY DEF ServerStarts
<1> HIDE DEF p
<1>7. CASE Reads(p) /\ waiting' = waiting
  <2>1. /\ down' \in Seq(Downs) /\ Held(down') = Held(down) /\ Alone(down')
        /\ Named(down') = Named(down) \cup {p}
        /\ taken' \in Seq(Prompt) /\ ToSet(taken') = ToSet(taken) \cup {p} /\ Once(taken')
        /\ running' \in Nat /\ nextTurn' \in Nat
    BY <1>4, <1>5, <1>7, Reading
  <2>2. Types'
    BY <1>1, <1>2, <1>3, <1>7, <2>1 DEF Types
  <2>3. OnePlace'
    BY <1>3, <1>4, <1>5, <1>7, <2>1 DEF DeliveryInv, OnePlace
  <2>4. Origins' /\ Retries'
    BY <1>1, <1>2, <1>3, <1>4, <1>7, <2>1 DEF DeliveryInv, Origins, Retries
  <2> QED
    BY <1>2, <2>2, <2>3, <2>4 DEF DeliveryInv
<1>8. CASE waiting' = Append(waiting, p) /\ UNCHANGED <<running, nextTurn, taken, down>>
  <2>1. waiting' \in Seq(Prompt) /\ ToSet(waiting') = ToSet(waiting) \cup {p} /\ Once(waiting')
    BY <1>2, <1>4, <1>5, <1>8, OnceBehind DEF DeliveryInv, OnePlace, Types
  <2>2. Types'
    BY <1>1, <1>2, <1>3, <1>8, <2>1 DEF Types
  <2>3. OnePlace'
    BY <1>3, <1>4, <1>5, <1>8, <2>1 DEF DeliveryInv, OnePlace
  <2>4. Origins' /\ Retries'
    BY <1>1, <1>2, <1>3, <1>4, <1>8, <2>1 DEF DeliveryInv, Origins, Retries
  <2> QED
    BY <1>2, <2>2, <2>3, <2>4 DEF DeliveryInv
<1> QED
  BY <1>6, <1>7, <1>8

(* The server takes a steer, and admits or refuses it.                      *)
LEMMA ServerSteersStep ==
    ASSUME DeliveryInv, ServerSteers
    PROVE  DeliveryInv'
<1> DEFINE p == Head(up).prompt
<1>1. /\ Take("steer")
      /\ UNCHANGED <<shown, pending, current, op, echoed, stopped, lost, restarted, running, nextTurn, taken>>
  BY DEF ServerSteers, tab, history, delivery, codex
<1>2. Types /\ Kept' /\ Accepted' = Accepted
  BY <1>1 DEF DeliveryInv, Kept, Accepted
<1>3. /\ up' \in Seq(Ups) /\ Head(up) \in Ups /\ Head(up).kind = "steer" /\ Held(up') \subseteq Held(up) /\ Alone(up')
      /\ \A q \in Prompt : Holds(Head(up), q) => q \in Held(up) /\ q \notin Held(up')
  BY <1>1, <1>2, Taking DEF DeliveryInv, OnePlace
<1>4. p \in Prompt /\ p \in Held(up) /\ p \notin Held(up') /\ p \in Accepted
  BY <1>3, Contents DEF Holds, DeliveryInv, Origins
<1>5. p \notin Held(down) \cup ToSet(waiting) \cup ToSet(taken)
  BY <1>4 DEF DeliveryInv, OnePlace
<1>6. \/ waiting' = Append(waiting, p) /\ down' = Append(down, Admitted(p))
      \/ waiting' = waiting /\ down' = Append(down, Refused(p, running = 0))
  BY DEF ServerSteers, Send, Admitted, Refused
<1> HIDE DEF p
<1>7. /\ Admitted(p) \in Downs /\ Refused(p, running = 0) \in Downs
      /\ Admitted(p).kind = "admitted" /\ Refused(p, running = 0).kind = "refused" /\ Refused(p, running = 0).prompt = p
  BY <1>4, Answers
<1>8. CASE waiting' = Append(waiting, p) /\ down' = Append(down, Admitted(p))
  <2>1. waiting' \in Seq(Prompt) /\ ToSet(waiting') = ToSet(waiting) \cup {p} /\ Once(waiting')
    BY <1>2, <1>4, <1>5, <1>8, OnceBehind DEF DeliveryInv, OnePlace, Types
  <2>2. down' \in Seq(Downs) /\ Held(down') = Held(down) /\ Alone(down') /\ Named(down') = Named(down)
    BY <1>2, <1>7, <1>8, Sending DEF DeliveryInv, OnePlace
  <2>3. Types'
    BY <1>1, <1>2, <1>3, <2>1, <2>2 DEF Types
  <2>4. OnePlace'
    BY <1>1, <1>3, <1>4, <1>5, <2>1, <2>2 DEF DeliveryInv, OnePlace
  <2>5. Origins' /\ Retries'
    BY <1>1, <1>2, <1>3, <1>4, <2>1, <2>2 DEF DeliveryInv, Origins, Retries
  <2> QED
    BY <1>2, <2>3, <2>4, <2>5 DEF DeliveryInv
<1>9. CASE waiting' = waiting /\ down' = Append(down, Refused(p, running = 0))
  <2>1. down' \in Seq(Downs) /\ Held(down') = Held(down) \cup {p} /\ Alone(down') /\ Named(down') = Named(down)
    BY <1>2, <1>5, <1>7, <1>9, Sending DEF DeliveryInv, OnePlace
  <2>2. Types'
    BY <1>1, <1>2, <1>3, <1>9, <2>1 DEF Types
  <2>3. OnePlace'
    BY <1>1, <1>3, <1>4, <1>5, <1>9, <2>1 DEF DeliveryInv, OnePlace
  <2>4. Origins' /\ Retries'
    BY <1>1, <1>2, <1>3, <1>4, <1>9, <2>1 DEF DeliveryInv, Origins, Retries
  <2> QED
    BY <1>2, <2>2, <2>3, <2>4 DEF DeliveryInv
<1> QED
  BY <1>6, <1>8, <1>9

(* The model reads an admitted prompt, which the server echoes.             *)
LEMMA ServerReadsStep ==
    ASSUME DeliveryInv, ServerReads
    PROVE  DeliveryInv'
<1> DEFINE p == Head(waiting)
<1>1. /\ waiting # <<>> /\ Reads(p) /\ waiting' = Tail(waiting)
      /\ UNCHANGED <<shown, pending, current, op, up, echoed, stopped, lost, restarted>>
  BY DEF ServerReads, tab, history, delivery, codex
<1>2. Types /\ Kept' /\ Accepted' = Accepted
  BY <1>1 DEF DeliveryInv, Kept, Accepted
<1>3. /\ p \in Prompt /\ waiting' \in Seq(Prompt) /\ ToSet(waiting) = ToSet(waiting') \cup {p}
      /\ Once(waiting') /\ p \notin ToSet(waiting')
  BY <1>1, <1>2, OnceAfter DEF DeliveryInv, OnePlace, Types
<1> HIDE DEF p
<1>4. p \notin Held(up) \cup Held(down) \cup ToSet(taken) /\ p \in Accepted
  BY <1>3 DEF DeliveryInv, OnePlace, Origins
<1>5. /\ down' \in Seq(Downs) /\ Held(down') = Held(down) /\ Alone(down')
      /\ Named(down') = Named(down) \cup {p}
      /\ taken' \in Seq(Prompt) /\ ToSet(taken') = ToSet(taken) \cup {p} /\ Once(taken')
      /\ running' \in Nat /\ nextTurn' \in Nat
  BY <1>1, <1>3, <1>4, Reading
<1>6. Types'
  BY <1>1, <1>2, <1>3, <1>5 DEF Types
<1>7. OnePlace'
  BY <1>1, <1>3, <1>4, <1>5 DEF DeliveryInv, OnePlace
<1>8. Origins' /\ Retries'
  BY <1>1, <1>2, <1>3, <1>4, <1>5 DEF DeliveryInv, Origins, Retries
<1> QED
  BY <1>2, <1>6, <1>7, <1>8 DEF DeliveryInv

(* A server that stops, speaks, completes or exits moves no prompt.         *)
LEMMA ServerEndsStep ==
    ASSUME DeliveryInv, ServerStops \/ ServerSpeaks \/ ServerCompletes \/ ServerExits
    PROVE  DeliveryInv'
<1>1. UNCHANGED <<shown, pending, current, op, taken, nextTurn, echoed, stopped, restarted>>
  BY DEF ServerStops, ServerSpeaks, ServerCompletes, ServerExits, tab, history, delivery, codex, server
<1>2. Types /\ Kept' /\ Accepted' = Accepted
  BY <1>1 DEF DeliveryInv, Kept, Accepted
<1>3. \E k \in {"completed", "output", "exit"} : down' = Append(down, [kind |-> k])
  BY DEF ServerStops, ServerSpeaks, ServerCompletes, ServerExits, Send
<1>4. down' \in Seq(Downs) /\ Held(down') = Held(down) /\ Alone(down') /\ Named(down') = Named(down)
  <2>1. PICK k \in {"completed", "output", "exit"} : down' = Append(down, [kind |-> k])
    BY <1>3
  <2> DEFINE m == [kind |-> k]
  <2>2. m \in Downs /\ m.kind \notin {"refused", "echo"}
    BY <2>1 DEF Downs
  <2> HIDE DEF m
  <2>3. down' = Append(down, m)
    BY <2>1 DEF m
  <2> QED
    BY <1>2, <2>2, <2>3, Sending DEF DeliveryInv, OnePlace
<1>5. up' \in Seq(Ups) /\ Held(up') \subseteq Held(up) /\ Alone(up')
  <2>1. CASE ServerStops
    <3>1. Take("stop")
      BY <2>1 DEF ServerStops
    <3> QED
      BY <1>2, <3>1, Taking DEF DeliveryInv, OnePlace
  <2>2. CASE ServerSpeaks \/ ServerCompletes \/ ServerExits
    BY <1>2, <2>2 DEF ServerSpeaks, ServerCompletes, ServerExits, DeliveryInv, Types, OnePlace
  <2> QED
    BY <2>1, <2>2
<1>6. running' \in Nat
  BY <1>2 DEF ServerStops, ServerSpeaks, ServerCompletes, ServerExits, server, Types
<1>7. /\ waiting' \in {waiting, <<>>} /\ lost' \subseteq lost \cup ToSet(waiting)
  BY DEF ServerStops, ServerSpeaks, ServerCompletes, ServerExits, server, history
<1>8. waiting' \in Seq(Prompt) /\ Once(waiting') /\ ToSet(waiting') \subseteq ToSet(waiting)
  <2>1. waiting \in Seq(Prompt) /\ Once(waiting)
    BY DEF DeliveryInv, Types, OnePlace
  <2>2. <<>> \in Seq(Prompt) /\ ToSet(<<>>) = {} /\ Once(<<>>)
    BY DEF ToSet, Once
  <2> QED
    BY <1>7, <2>1, <2>2
<1>9. lost' \subseteq Accepted
  BY <1>7 DEF DeliveryInv, Origins
<1>10. Types'
  BY <1>1, <1>2, <1>4, <1>5, <1>6, <1>8 DEF Types
<1> QED
  BY <1>1, <1>2, <1>4, <1>5, <1>8, <1>9, <1>10, Fewer DEF DeliveryInv, Origins, Retries

-----------------------------------------------------------------------------

(* Nothing has been submitted.                                              *)
LEMMA InitDelivery == Init => DeliveryInv
<1> SUFFICES ASSUME Init PROVE DeliveryInv
  OBVIOUS
<1>1. Types
  BY DEF Init, Types
<1>2. /\ Held(<<>>) = {} /\ Named(<<>>) = {} /\ ToSet(<<>>) = {} /\ Once(<<>>) /\ Alone(<<>>)
  BY DEF Held, Named, ToSet, Once, Alone
<1>3. OnePlace /\ Kept
  BY <1>2 DEF Init, OnePlace, Kept
<1>4. Origins /\ Retries
  BY <1>2 DEF Init, Origins, Retries, Accepted
<1> QED
  BY <1>1, <1>3, <1>4 DEF DeliveryInv

(* Every step of the user, the tab and the server preserves DeliveryInv.    *)
LEMMA StepDelivery == DeliveryInv /\ [Next]_vars => DeliveryInv'
<1> SUFFICES ASSUME DeliveryInv, [Next]_vars PROVE DeliveryInv'
  OBVIOUS
<1>1. ASSUME NEW p \in Prompt, SubmitStarts(p) \/ SubmitSteers(p) \/ SteerTimesOut(p) \/ SteerNotSent(p)
      PROVE  DeliveryInv'
  BY <1>1, SubmitStartsStep, SubmitSteersStep, SteerEndsStep
<1>2. CASE Interrupt
  BY <1>2, InterruptStep
<1>3. CASE TabHandles
  BY <1>3, ToldStep, EchoStep, SteerRefusedStep, HostExitedStep DEF TabHandles
<1>4. CASE ServerStarts \/ ServerSteers \/ ServerReads
  BY <1>4, ServerStartsStep, ServerSteersStep, ServerReadsStep
<1>5. CASE ServerStops \/ ServerSpeaks \/ ServerCompletes \/ ServerExits
  BY <1>5, ServerEndsStep
<1>6. CASE UNCHANGED vars
  <2>1. UNCHANGED <<up, down, shown, pending, waiting, taken, op, current, running, nextTurn, echoed, stopped,
                    lost, restarted>>
    BY <1>6 DEF vars, delivery, codex, server, history
  <2> QED
    BY <2>1 DEF DeliveryInv, Types, OnePlace, Kept, Origins, Retries, Accepted
<1> QED
  BY <1>1, <1>2, <1>3, <1>4, <1>5, <1>6 DEF Next

(* Every prompt is in one place, from the composer to the server, in every  *)
(* reachable state.                                                         *)
LEMMA DeliveryInvariant == Spec => []DeliveryInv
  BY InitDelivery, StepDelivery, PTL DEF Spec

(* The server reads a prompt once at the most, however its steer is         *)
(* refused, timed out, taken back or started again, and the transcript and  *)
(* the queue hold every prompt the user sent, each once: what the server    *)
(* reads, echoes, loses or is sent again came from them.                    *)
THEOREM DeliveredOnce == Spec => []ReadAndKeptOnce
<1>1. DeliveryInv => ReadAndKeptOnce
  <2> SUFFICES ASSUME DeliveryInv PROVE ReadAndKeptOnce
    OBVIOUS
  <2>1. Once(shown \o pending)
    BY Joined DEF DeliveryInv, Types, Kept
  <2>2. ToSet(taken) \cup echoed \cup stopped \cup lost \cup restarted \subseteq Accepted
    BY DEF DeliveryInv, Origins
  <2>3. Once(taken)
    BY DEF DeliveryInv, OnePlace
  <2> QED
    BY <2>1, <2>2, <2>3 DEF ReadAndKeptOnce
<1> QED
  BY <1>1, DeliveryInvariant, PTL

(* A prompt whose retry the user's stop took away is never started again by *)
(* a refusal that comes later.                                              *)
THEOREM StopIsFinal == Spec => []StopHolds
<1>1. DeliveryInv => StopHolds
  BY DEF DeliveryInv, Retries, StopHolds
<1> QED
  BY <1>1, DeliveryInvariant, PTL

-----------------------------------------------------------------------------
(* The messages about a prompt, by what they mean for it.                   *)
EchoOf(p) == {m \in Downs : m.kind = "echo" /\ m.prompt = p}
RefusalOf(p) == {m \in Downs : m.kind = "refused" /\ m.prompt = p}
AgainOf(p) == {m \in RefusalOf(p) : m.noTurn /\ op[p] = "retry"}
ToldOf(p) == EchoOf(p) \cup (RefusalOf(p) \ AgainOf(p))
StartOf(p) == {m \in Ups : m.kind = "start" /\ m.prompt = p}
SteerOf(p) == {m \in Ups : m.kind = "steer" /\ m.prompt = p}
SendOf(p) == StartOf(p) \cup SteerOf(p)
LiveOf(p) == {m \in SteerOf(p) : m.turn = running}

(* One of the messages is on a connection; and none of B is there without   *)
(* one of A before it.                                                      *)
Has(s, A) == \E k \in DOMAIN s : s[k] \in A
Led(s, A, B) == \A e \in DOMAIN s : s[e] \in B => \E d \in DOMAIN s : d < e /\ s[d] \in A

(* Nothing more can be heard of the prompt, or it is in the tab's mail.     *)
Done(p) == p \in lost \cup echoed
Over(p) == Done(p) \/ Has(down, ToldOf(p))

(* Of two queued prompts the first is ahead of the second wherever the      *)
(* second is.  A start of the first may be behind a steer of the second     *)
(* only if the turn of that steer is over.                                  *)
Ahead(i, j) ==
    /\ j \in echoed => Done(i)
    /\ Done(i) \/ Led(down, ToldOf(i), EchoOf(j))
    /\ Over(i) \/ Led(waiting, {i}, {j})
    /\ Over(i) \/ i \in ToSet(waiting) \/ Led(up, StartOf(i), StartOf(j))
    /\ Over(i) \/ i \in ToSet(waiting) \/ Has(up, StartOf(i)) \/ Led(down, AgainOf(i), AgainOf(j))
    /\ \/ Over(i) \/ i \in ToSet(waiting) \/ Led(up, SendOf(i), SteerOf(j))
       \/ ~Has(up, LiveOf(j)) /\ (Has(up, StartOf(i)) \/ Has(down, AgainOf(i)))

Precedes(s, i, j) == \E a, b \in DOMAIN s : a < b /\ s[a] = i /\ s[b] = j

Line == \A i, j \in Prompt : Precedes(pending, i, j) => Ahead(i, j)

Place(p) == Over(p) \/ p \in ToSet(waiting) \/ Has(up, SendOf(p)) \/ Has(down, AgainOf(p))
Placed == \A p \in ToSet(pending) : Place(p)

(* The server reads a prompt once, so it is echoed once.                    *)
EchoAlone(s) ==
    \A j, k \in DOMAIN s : s[j].kind = "echo" /\ s[k].kind = "echo" /\ s[j].prompt = s[k].prompt => j = k
EchoOnce == EchoAlone(down) /\ Named(down) \cup echoed \subseteq ToSet(taken) /\ Named(down) \cap echoed = {}

(* Turns are numbered upwards, and the tab hears of each once.  After a     *)
(* refusal for want of a turn the tab knows of no turn that runs.           *)
IsStart(m) == m.kind = "started"
SteersBelow(s, n) == \A k \in DOMAIN s : s[k].kind = "steer" => s[k].turn # 0 /\ s[k].turn < n
StartsBelow(s, n, c) == \A k \in DOMAIN s : IsStart(s[k]) => s[k].turn # 0 /\ s[k].turn < n /\ s[k].turn # c
StartsOnce(s) == \A j, k \in DOMAIN s : IsStart(s[j]) /\ IsStart(s[k]) /\ s[j].turn = s[k].turn => j = k
ToldOfTurn(s, r) ==
    \A d \in DOMAIN s : s[d].kind = "refused" /\ s[d].noTurn =>
        r = 0 \/ \E e \in DOMAIN s : d < e /\ IsStart(s[e]) /\ s[e].turn = r
TurnsTold(s, n, c, r) == StartsBelow(s, n, c) /\ StartsOnce(s) /\ ToldOfTurn(s, r)
Turns ==
    /\ running < nextTurn /\ current < nextTurn
    /\ SteersBelow(up, nextTurn)
    /\ TurnsTold(down, nextTurn, current, running)

Queued == ToSet(pending) \subseteq steered /\ steered \subseteq Accepted

Clear == status # "Exited" /\ ~crossed
Opened ==
    Clear => /\ \A p \in Accepted \ steered : p \in echoed \/ opening = Text[p]
             /\ \A p, q \in Accepted \ steered : p \in echoed \/ q \in echoed \/ p = q

(* The transcript and the echoes, by their text; and a prompt is queued     *)
(* past its echo only behind one that was lost.                             *)
Counts ==
    /\ IsFiniteSet(ToSet(shown)) /\ IsFiniteSet(echoed)
    /\ \A p \in Prompt : Cardinality(Alike(steered \cap ToSet(shown), p))
                          <= Cardinality(Alike(steered \cap echoed, p))

Excuse(p) == \E q \in lost : q \in ToSet(shown) \/ Precedes(pending, q, p)
Excused == \A p \in ToSet(pending) \cap echoed : Excuse(p)

Counted == Clear => Counts /\ Excused

(* The host's end is the last the tab hears.                                *)
Ended ==
    /\ status = "Exited" => down = <<>>
    /\ \A k \in DOMAIN down : down[k].kind = "exit" => k = Len(down)

WaitInv == DeliveryInv /\ EchoOnce /\ Turns /\ Queued /\ Placed /\ Line /\ Opened /\ Counted /\ Ended

-----------------------------------------------------------------------------
(* What one more message adds to what a connection has.                     *)
LEMMA HasBehind ==
    ASSUME NEW S, NEW s \in Seq(S), NEW m \in S, NEW A, NEW B
    PROVE  /\ Has(Append(s, m), A) <=> Has(s, A) \/ m \in A
           /\ Led(s, A, B) /\ (m \in B => Has(s, A)) => Led(Append(s, m), A, B)
<1> DEFINE t == Append(s, m)
           n == Len(s)
<1>1. /\ n \in Nat /\ DOMAIN s = 1..n /\ DOMAIN t = 1..(n + 1)
      /\ (\A k \in 1..n : t[k] = s[k]) /\ t[n + 1] = m
  BY AppendAdds
<1> HIDE DEF t, n
<1>2. \A k \in 1..(n + 1) : k \in 1..n \/ k = n + 1
  BY <1>1
<1>3. \A k \in 1..n : k \in 1..(n + 1) /\ k < n + 1
  BY <1>1
<1>4. n + 1 \in 1..(n + 1)
  BY <1>1
<1>5. Has(t, A) <=> Has(s, A) \/ m \in A
  BY <1>1, <1>2, <1>3, <1>4, Zenon DEF Has
<1>6. ASSUME Led(s, A, B), m \in B => Has(s, A), NEW e \in 1..(n + 1), t[e] \in B
      PROVE  \E d \in 1..(n + 1) : d < e /\ t[d] \in A
  <2>1. CASE e \in 1..n
    BY <1>1, <1>3, <1>6, <2>1 DEF Led
  <2>2. CASE e = n + 1
    <3>1. PICK d \in 1..n : s[d] \in A
      BY <1>1, <1>6, <2>2 DEF Has
    <3> QED
      BY <1>1, <1>3, <2>2, <3>1
  <2> QED
    BY <1>2, <2>1, <2>2
<1>7. Led(s, A, B) /\ (m \in B => Has(s, A)) => Led(t, A, B)
  BY <1>1, <1>6 DEF Led
<1> QED
  BY <1>5, <1>7 DEF t

(* What is left once the first message is taken.                            *)
LEMMA HasAfter ==
    ASSUME NEW S, NEW s \in Seq(S), s # <<>>, NEW A, NEW B
    PROVE  /\ Has(s, A) <=> Head(s) \in A \/ Has(Tail(s), A)
           /\ Led(s, A, B) => Head(s) \notin B /\ (Head(s) \notin A => Led(Tail(s), A, B))
<1> DEFINE t == Tail(s)
           n == Len(s)
           h == Head(s)
<1>1. /\ h = s[1] /\ n \in Nat \ {0}
      /\ DOMAIN s = 1..n /\ DOMAIN t = 1..(n - 1) /\ \A k \in 1..(n - 1) : t[k] = s[k + 1]
  BY TailLeaves
<1> HIDE DEF t, n, h
<1>2. \A k \in 1..(n - 1) : k + 1 \in 1..n
  BY <1>1
<1>3. \A k \in 1..n : k = 1 \/ (k - 1 \in 1..(n - 1) /\ (k - 1) + 1 = k)
  BY <1>1
<1>4. 1 \in 1..n
  BY <1>1
<1>5. ASSUME NEW k \in 1..n, s[k] \in A PROVE h \in A \/ Has(t, A)
  <2>1. CASE k = 1
    BY <1>1, <1>5, <2>1
  <2>2. CASE k # 1
    <3>1. k - 1 \in 1..(n - 1) /\ t[k - 1] = s[k]
      BY <1>1, <1>3, <2>2
    <3> QED
      BY <1>1, <1>5, <3>1 DEF Has
  <2> QED
    BY <2>1, <2>2
<1>6. ASSUME h \in A \/ Has(t, A) PROVE Has(s, A)
  BY <1>1, <1>2, <1>4, <1>6 DEF Has
<1>7. Has(s, A) <=> h \in A \/ Has(t, A)
  BY <1>1, <1>5, <1>6 DEF Has
<1>8. ASSUME Led(s, A, B) PROVE h \notin B
  <2>1. \A d \in 1..n : ~(d < 1)
    BY <1>1
  <2> QED
    BY <1>1, <1>4, <1>8, <2>1 DEF Led
<1>9. ASSUME Led(s, A, B), h \notin A, NEW e \in 1..(n - 1), t[e] \in B
      PROVE  \E d \in 1..(n - 1) : d < e /\ t[d] \in A
  <2>1. PICK d \in 1..n : d < e + 1 /\ s[d] \in A
    BY <1>1, <1>2, <1>9 DEF Led
  <2>2. d # 1
    BY <1>1, <1>9, <2>1
  <2>3. d - 1 \in 1..(n - 1) /\ d - 1 < e /\ t[d - 1] = s[d]
    BY <1>1, <1>3, <2>1, <2>2
  <2> QED
    BY <2>1, <2>3
<1>10. Led(s, A, B) /\ h \notin A => Led(t, A, B)
  BY <1>1, <1>9 DEF Led
<1> QED
  BY <1>7, <1>8, <1>10 DEF t, h

(* What is left once a message is taken back.                               *)
LEMMA HasWithout ==
    ASSUME NEW S, NEW s \in Seq(S), NEW k \in DOMAIN s, NEW A, NEW B
    PROVE  /\ Has(RemoveAt(s, k), A) => Has(s, A)
           /\ s[k] \notin A => /\ Has(s, A) => Has(RemoveAt(s, k), A)
                               /\ Led(s, A, B) => Led(RemoveAt(s, k), A, B)
<1> DEFINE t == RemoveAt(s, k)
           n == Len(s)
           From(j) == IF j < k THEN j ELSE j + 1
           To(j) == IF j < k THEN j ELSE j - 1
<1>1. /\ t \in Seq(S) /\ Len(t) = n - 1 /\ n \in Nat \ {0} /\ DOMAIN s = 1..n
      /\ \A j \in 1..(n - 1) : t[j] = s[From(j)]
  BY RemoveLeaves
<1>2. DOMAIN t = 1..(n - 1) /\ k \in 1..n
  BY <1>1
<1> HIDE DEF t, n
<1>3. \A j \in 1..(n - 1) : From(j) \in 1..n
  BY <1>1, <1>2
<1>4. \A j \in 1..n : j # k => To(j) \in 1..(n - 1) /\ From(To(j)) = j
  BY <1>1, <1>2
<1>5. \A d \in 1..n, e \in 1..(n - 1) : d # k /\ d < From(e) => To(d) < e
  BY <1>1, <1>2
<1> HIDE DEF From, To
<1>6. Has(t, A) => Has(s, A)
  BY <1>1, <1>2, <1>3 DEF Has
<1>7. ASSUME s[k] \notin A, NEW d \in 1..n, s[d] \in A
      PROVE  To(d) \in 1..(n - 1) /\ t[To(d)] \in A /\ d # k
  BY <1>1, <1>4, <1>7
<1>8. s[k] \notin A /\ Has(s, A) => Has(t, A)
  BY <1>1, <1>2, <1>7 DEF Has
<1>9. ASSUME s[k] \notin A, Led(s, A, B), NEW e \in 1..(n - 1), t[e] \in B
      PROVE  \E d \in 1..(n - 1) : d < e /\ t[d] \in A
  <2>1. PICK d \in 1..n : d < From(e) /\ s[d] \in A
    BY <1>1, <1>3, <1>9 DEF Led
  <2>2. To(d) \in 1..(n - 1) /\ t[To(d)] \in A /\ d # k
    BY <1>7, <1>9, <2>1
  <2>3. To(d) < e
    BY <1>5, <2>1, <2>2
  <2> QED
    BY <2>2, <2>3
<1>10. s[k] \notin A /\ Led(s, A, B) => Led(t, A, B)
  BY <1>1, <1>2, <1>9 DEF Led
<1> QED
  BY <1>6, <1>8, <1>10 DEF t

Keeps(s, t, C) ==
    \A A, B \in SUBSET C : (Has(t, A) <=> Has(s, A)) /\ (Led(s, A, B) => Led(t, A, B))

LetterOf(p) == EchoOf(p) \cup RefusalOf(p)

(* More may lead and less need be led.                                      *)
LEMMA LedWeaker ==
    ASSUME NEW s, NEW A, NEW B, NEW C, NEW D, A \subseteq C, D \subseteq B
    PROVE  (Has(s, A) => Has(s, C)) /\ (Led(s, A, B) => Led(s, C, D))
  BY DEF Has, Led

(* What is not there needs no lead.                                         *)
LEMMA LedAbsent ==
    ASSUME NEW s, NEW A, NEW B, ~Has(s, B) PROVE Led(s, A, B)
  BY DEF Has, Led

(* What nothing leads is not there.                                         *)
LEMMA LedByNone ==
    ASSUME NEW s, NEW A, NEW B, ~Has(s, A), Led(s, A, B) PROVE ~Has(s, B)
  BY DEF Has, Led

(* A retry that is gone leaves a refusal that ends the matter.              *)
LEMMA RetryGone ==
    ASSUME NEW p \in Prompt, op'[p] = "retry" => op[p] = "retry"
    PROVE  /\ AgainOf(p)' \subseteq AgainOf(p) /\ ToldOf(p) \subseteq ToldOf(p)'
           /\ AgainOf(p) \subseteq AgainOf(p)' \cup ToldOf(p)'
           /\ AgainOf(p)' = AgainOf(p) \/ AgainOf(p)' = {}
           /\ AgainOf(p) \subseteq LetterOf(p) /\ ToldOf(p) \subseteq LetterOf(p)
           /\ AgainOf(p)' \subseteq LetterOf(p) /\ ToldOf(p)' \subseteq LetterOf(p)
<1>1. /\ AgainOf(p)' = {m \in RefusalOf(p) : m.noTurn /\ op'[p] = "retry"}
      /\ ToldOf(p)' = EchoOf(p) \cup (RefusalOf(p) \ AgainOf(p)')
  BY DEF AgainOf, ToldOf, RefusalOf, EchoOf
<1>2. AgainOf(p)' = AgainOf(p) \/ AgainOf(p)' = {}
  BY <1>1 DEF AgainOf
<1> QED
  BY <1>1, <1>2 DEF ToldOf, LetterOf, AgainOf

(* A step that moves no message of two prompts, and ends no prompt's wait   *)
(* but by ending the prompt, keeps the one ahead of the other.              *)
LEMMA CalmStep ==
    ASSUME NEW i \in Prompt, NEW j \in Prompt, Ahead(i, j),
           Keeps(down, down', LetterOf(i) \cup LetterOf(j)),
           Keeps(up, up', SendOf(i) \cup SendOf(j)),
           Over(i)' \/ (Led(waiting, {i}, {j}) => Led(waiting', {i}, {j})),
           i \in ToSet(waiting) => i \in ToSet(waiting') \/ Over(i)',
           Done(i) => Done(i)', j \in echoed' => j \in echoed \/ Done(i)',
           op'[i] = "retry" => op[i] = "retry", op'[j] = "retry" => op[j] = "retry",
           Has(up, LiveOf(j)') => Has(up, LiveOf(j))
    PROVE  Ahead(i, j)'
<1> DEFINE U == SendOf(i) \cup SendOf(j)
           D == LetterOf(i) \cup LetterOf(j)
<1>1. /\ StartOf(i) \in SUBSET U /\ StartOf(j) \in SUBSET U /\ SendOf(i) \in SUBSET U
      /\ SteerOf(j) \in SUBSET U /\ LiveOf(j)' \in SUBSET U
      /\ StartOf(i)' = StartOf(i) /\ StartOf(j)' = StartOf(j) /\ SendOf(i)' = SendOf(i)
      /\ SteerOf(j)' = SteerOf(j) /\ EchoOf(j)' = EchoOf(j) /\ EchoOf(j) \in SUBSET D
  BY DEF SendOf, LiveOf, SteerOf, StartOf, EchoOf, LetterOf
<1>2. /\ AgainOf(i)' \subseteq AgainOf(i) /\ ToldOf(i) \subseteq ToldOf(i)'
      /\ AgainOf(i) \subseteq AgainOf(i)' \cup ToldOf(i)'
      /\ AgainOf(i)' = AgainOf(i) \/ AgainOf(i)' = {}
      /\ AgainOf(i) \in SUBSET D /\ ToldOf(i) \in SUBSET D
      /\ AgainOf(i)' \in SUBSET D /\ ToldOf(i)' \in SUBSET D
  BY RetryGone
<1>3. AgainOf(j)' \subseteq AgainOf(j) /\ AgainOf(j) \in SUBSET D
  BY RetryGone
<1>4. Keeps(down, down', D) /\ Keeps(up, up', U)
  OBVIOUS
<1> HIDE DEF U, D
<1>5. Over(i) => Over(i)'
  <2>1. CASE Done(i)
    BY <2>1 DEF Over
  <2>2. CASE Has(down, ToldOf(i))
    <3>1. Has(down', ToldOf(i))
      BY <1>2, <1>4, <2>2 DEF Keeps
    <3>2. Has(down', ToldOf(i)')
      BY <1>2, <3>1, LedWeaker
    <3> QED
      BY <3>2 DEF Over
  <2> QED
    BY <2>1, <2>2 DEF Over
<1>6. Has(down, AgainOf(i)) => Has(down', AgainOf(i)') \/ Over(i)'
  <2> SUFFICES ASSUME Has(down, AgainOf(i)) PROVE Has(down', AgainOf(i)') \/ Has(down', ToldOf(i)')
    BY DEF Over
  <2>1. Has(down', AgainOf(i))
    BY <1>2, <1>4 DEF Keeps
  <2> QED
    BY <1>2, <2>1 DEF Has
<1>7. (j \in echoed => Done(i))'
  BY DEF Ahead
<1>8. (Done(i) \/ Led(down, ToldOf(i), EchoOf(j)))'
  <2>1. CASE Done(i)
    BY <2>1
  <2>2. CASE Led(down, ToldOf(i), EchoOf(j))
    <3>1. Led(down', ToldOf(i), EchoOf(j))
      BY <1>1, <1>2, <1>4, <2>2 DEF Keeps
    <3>2. Led(down', ToldOf(i)', EchoOf(j)')
      BY <1>1, <1>2, <3>1, LedWeaker
    <3> QED
      BY <3>2
  <2> QED
    BY <2>1, <2>2 DEF Ahead
<1>9. (Over(i) \/ Led(waiting, {i}, {j}))'
  <2>1. Over(i)' \/ Led(waiting, {i}, {j})
    BY <1>5 DEF Ahead
  <2> QED
    BY <2>1
<1>10. (Over(i) \/ i \in ToSet(waiting) \/ Led(up, StartOf(i), StartOf(j)))'
  <2>1. Over(i)' \/ i \in ToSet(waiting') \/ Led(up, StartOf(i), StartOf(j))
    BY <1>5 DEF Ahead
  <2>2. Led(up, StartOf(i), StartOf(j)) => Led(up', StartOf(i), StartOf(j))
    BY <1>1, <1>4 DEF Keeps
  <2> QED
    BY <1>1, <2>1, <2>2
<1>11. (Over(i) \/ i \in ToSet(waiting) \/ Has(up, StartOf(i)) \/ Led(down, AgainOf(i), AgainOf(j)))'
  <2> SUFFICES ASSUME ~Over(i)', i \notin ToSet(waiting'), ~Has(up', StartOf(i))
               PROVE  Led(down', AgainOf(i)', AgainOf(j)')
    BY <1>1
  <2>1. ~Has(up, StartOf(i))
    BY <1>1, <1>4 DEF Keeps
  <2>2. Led(down, AgainOf(i), AgainOf(j))
    BY <1>5, <2>1 DEF Ahead
  <2>3. CASE AgainOf(i)' = AgainOf(i)
    <3>1. Led(down', AgainOf(i), AgainOf(j))
      BY <1>2, <1>3, <1>4, <2>2 DEF Keeps
    <3> QED
      BY <1>3, <2>3, <3>1, LedWeaker
  <2>4. CASE AgainOf(i)' = {}
    <3>1. ~Has(down', AgainOf(i)')
      BY <2>4 DEF Has
    <3>2. ~Has(down, AgainOf(i))
      BY <1>6, <3>1
    <3>3. ~Has(down, AgainOf(j))
      BY <2>2, <3>2, LedByNone
    <3>4. ~Has(down', AgainOf(j))
      BY <1>3, <1>4, <3>3 DEF Keeps
    <3>5. ~Has(down', AgainOf(j)')
      BY <1>3, <3>4, LedWeaker
    <3> QED
      BY <3>5, LedAbsent
  <2> QED
    BY <1>2, <2>3, <2>4
<1>12. (\/ Over(i) \/ i \in ToSet(waiting) \/ Led(up, SendOf(i), SteerOf(j))
        \/ ~Has(up, LiveOf(j)) /\ (Has(up, StartOf(i)) \/ Has(down, AgainOf(i))))'
  <2> SUFFICES ASSUME ~Over(i)', i \notin ToSet(waiting')
               PROVE  \/ Led(up', SendOf(i), SteerOf(j))
                      \/ ~Has(up', LiveOf(j)') /\ (Has(up', StartOf(i)) \/ Has(down', AgainOf(i)'))
    BY <1>1
  <2>1. CASE Led(up, SendOf(i), SteerOf(j))
    BY <1>1, <1>4, <2>1 DEF Keeps
  <2>2. CASE ~Has(up, LiveOf(j)) /\ (Has(up, StartOf(i)) \/ Has(down, AgainOf(i)))
    <3>1. ~Has(up', LiveOf(j)')
      BY <1>1, <1>4, <2>2 DEF Keeps
    <3>2. Has(up', StartOf(i)) \/ Has(down', AgainOf(i)')
      BY <1>1, <1>4, <1>6, <2>2 DEF Keeps
    <3> QED
      BY <3>1, <3>2
  <2> QED
    BY <1>5, <2>1, <2>2 DEF Ahead
<1> QED
  BY <1>7, <1>8, <1>9, <1>10, <1>11, <1>12 DEF Ahead

(* What keeps.                                                              *)
LEMMA KeepsBehind ==
    ASSUME NEW S, NEW s \in Seq(S), NEW m \in S, NEW C, m \notin C
    PROVE  Keeps(s, Append(s, m), C)
<1> SUFFICES ASSUME NEW A \in SUBSET C, NEW B \in SUBSET C
             PROVE  (Has(Append(s, m), A) <=> Has(s, A)) /\ (Led(s, A, B) => Led(Append(s, m), A, B))
  BY DEF Keeps
<1>1. m \notin A /\ m \notin B
  OBVIOUS
<1> QED
  BY <1>1, HasBehind

(* So it is without a message of another kind at the head ...               *)
LEMMA KeepsAfter ==
    ASSUME NEW S, NEW s \in Seq(S), s # <<>>, NEW C, Head(s) \notin C
    PROVE  Keeps(s, Tail(s), C)
<1> SUFFICES ASSUME NEW A \in SUBSET C, NEW B \in SUBSET C
             PROVE  (Has(Tail(s), A) <=> Has(s, A)) /\ (Led(s, A, B) => Led(Tail(s), A, B))
  BY DEF Keeps
<1>1. Head(s) \notin A
  OBVIOUS
<1> QED
  BY <1>1, HasAfter

(* ... or one taken back.                                                   *)
LEMMA KeepsWithout ==
    ASSUME NEW S, NEW s \in Seq(S), NEW k \in DOMAIN s, NEW C, s[k] \notin C
    PROVE  Keeps(s, RemoveAt(s, k), C)
<1> SUFFICES ASSUME NEW A \in SUBSET C, NEW B \in SUBSET C
             PROVE  (Has(RemoveAt(s, k), A) <=> Has(s, A)) /\ (Led(s, A, B) => Led(RemoveAt(s, k), A, B))
  BY DEF Keeps
<1>1. s[k] \notin A
  OBVIOUS
<1> QED
  BY <1>1, HasWithout

(* Nothing moved, nothing lost.                                             *)
LEMMA KeepsSame == \A s, C : Keeps(s, s, C)
  BY DEF Keeps

(* A prompt's letters and its place.                                        *)
LEMMA Whereabouts ==
    ASSUME Types, NEW p \in Prompt
    PROVE  /\ Has(up, SendOf(p)) <=> p \in Held(up)
           /\ Has(up, StartOf(p)) \/ Has(up, SteerOf(p)) \/ Has(up, LiveOf(p)) => p \in Held(up)
           /\ Has(down, RefusalOf(p)) <=> p \in Held(down)
           /\ Has(down, EchoOf(p)) <=> p \in Named(down)
           /\ Has(down, AgainOf(p)) => p \in Held(down)
           /\ Has(down, ToldOf(p)) => p \in Held(down) \cup Named(down)
           /\ Has(waiting, {p}) <=> p \in ToSet(waiting)
<1>1. \A k \in DOMAIN up : up[k] \in Ups /\ (Holds(up[k], p) <=> up[k] \in SendOf(p))
  BY DEF Types, Holds, SendOf, StartOf, SteerOf, Ups
<1>2. \A k \in DOMAIN down : down[k] \in Downs /\ (Holds(down[k], p) <=> down[k] \in RefusalOf(p))
                             /\ (down[k].kind = "echo" /\ down[k].prompt = p <=> down[k] \in EchoOf(p))
  BY DEF Types, Holds, RefusalOf, EchoOf, Downs
<1>3. Has(up, SendOf(p)) <=> p \in Held(up)
  BY <1>1 DEF Has, Held
<1>4. Has(down, RefusalOf(p)) <=> p \in Held(down)
  BY <1>2 DEF Has, Held
<1>5. Has(down, EchoOf(p)) <=> p \in Named(down)
  BY <1>2 DEF Has, Named
<1>6. Has(waiting, {p}) <=> p \in ToSet(waiting)
  BY DEF Has, ToSet
<1>7. StartOf(p) \subseteq SendOf(p) /\ SteerOf(p) \subseteq SendOf(p) /\ LiveOf(p) \subseteq SendOf(p)
  BY DEF SendOf, LiveOf
<1>8. AgainOf(p) \subseteq RefusalOf(p) /\ ToldOf(p) \subseteq RefusalOf(p) \cup EchoOf(p)
  BY DEF AgainOf, ToldOf
<1>9. Has(up, StartOf(p)) \/ Has(up, SteerOf(p)) \/ Has(up, LiveOf(p)) => p \in Held(up)
  BY <1>3, <1>7 DEF Has
<1>10. Has(down, AgainOf(p)) => p \in Held(down)
  BY <1>4, <1>8 DEF Has
<1>11. Has(down, ToldOf(p)) => p \in Held(down) \cup Named(down)
  BY <1>4, <1>5, <1>8 DEF Has
<1> QED
  BY <1>3, <1>4, <1>5, <1>6, <1>9, <1>10, <1>11

(* A prompt in one place is in no other.                                    *)
LEMMA Elsewhere ==
    ASSUME DeliveryInv, EchoOnce, NEW p \in Prompt
    PROVE  /\ p \in Held(up) => p \notin Held(down) \cup Named(down) \cup ToSet(waiting) \cup echoed
           /\ p \in Held(down) => p \notin Held(up) \cup Named(down) \cup ToSet(waiting) \cup echoed
           /\ p \in ToSet(waiting) => p \notin Held(up) \cup Held(down) \cup Named(down) \cup echoed
  BY DEF DeliveryInv, OnePlace, EchoOnce

(* Where a prompt is, and all that is asked of what is ahead of it there.   *)
At(p, where) ==
    /\ where # "up" => p \notin Held(up)
    /\ where # "refused" => p \notin Held(down)
    /\ where # "echo" => p \notin Named(down)
    /\ where # "waiting" => p \notin ToSet(waiting)

AheadAt(i, j) ==
    /\ At(j, "nowhere") => Ahead(i, j)
    /\ At(j, "up") /\ ~Has(up, SteerOf(j))
          /\ (Over(i) \/ i \in ToSet(waiting) \/ Led(up, StartOf(i), StartOf(j))) => Ahead(i, j)
    /\ At(j, "refused")
          /\ (\/ Over(i) \/ i \in ToSet(waiting) \/ Has(up, StartOf(i))
              \/ Led(down, AgainOf(i), AgainOf(j))) => Ahead(i, j)
    /\ At(j, "echo") /\ (Done(i) \/ Led(down, ToldOf(i), EchoOf(j))) => Ahead(i, j)
    /\ At(j, "waiting") /\ (Over(i) \/ Led(waiting, {i}, {j})) => Ahead(i, j)

(* Nothing more is asked of a prompt that is done, nor of those ahead of    *)
(* one that is nowhere; and of the rest only what is asked where the other  *)
(* is.                                                                      *)
LEMMA PlaceAhead ==
    /\ \A i, j : Done(i) => Ahead(i, j)
    /\ \A i, j \in Prompt : Types /\ (j \in echoed => Done(i)) => AheadAt(i, j)
<1>1. \A i, j : Done(i) => Ahead(i, j)
  BY DEF Ahead, Over
<1> SUFFICES ASSUME NEW i \in Prompt, NEW j \in Prompt, Types, j \in echoed => Done(i)
             PROVE  AheadAt(i, j)
  BY <1>1
<1>2. /\ j \notin Held(up) => Led(up, StartOf(i), StartOf(j)) /\ Led(up, SendOf(i), SteerOf(j))
      /\ j \notin Held(down) => Led(down, AgainOf(i), AgainOf(j))
      /\ j \notin Named(down) => Led(down, ToldOf(i), EchoOf(j))
      /\ j \notin ToSet(waiting) => Led(waiting, {i}, {j})
  BY Whereabouts, LedAbsent
<1>3. ~Has(up, SteerOf(j)) => Led(up, SendOf(i), SteerOf(j))
  BY LedAbsent
<1>4. Done(i) => Over(i)
  BY DEF Over
<1>5. At(j, "nowhere") => Ahead(i, j)
  BY <1>2 DEF Ahead, At
<1>6. At(j, "up") /\ ~Has(up, SteerOf(j))
         /\ (Over(i) \/ i \in ToSet(waiting) \/ Led(up, StartOf(i), StartOf(j))) => Ahead(i, j)
  BY <1>2, <1>3 DEF Ahead, At
<1>7. At(j, "refused")
         /\ (\/ Over(i) \/ i \in ToSet(waiting) \/ Has(up, StartOf(i))
             \/ Led(down, AgainOf(i), AgainOf(j))) => Ahead(i, j)
  BY <1>2 DEF Ahead, At
<1>8. At(j, "echo") /\ (Done(i) \/ Led(down, ToldOf(i), EchoOf(j))) => Ahead(i, j)
  BY <1>2, <1>4 DEF Ahead, At
<1>9. At(j, "waiting") /\ (Over(i) \/ Led(waiting, {i}, {j})) => Ahead(i, j)
  BY <1>2 DEF Ahead, At
<1> QED
  BY <1>5, <1>6, <1>7, <1>8, <1>9 DEF AheadAt

(* The same in the state a step leads to.                                   *)
LEMMA ThenAhead ==
    /\ (\A i, j : Done(i) => Ahead(i, j))'
    /\ (\A i, j \in Prompt : Types /\ (j \in echoed => Done(i)) => AheadAt(i, j))'
  BY PlaceAhead, PTL

(* What one more letter from the server changes, and what reading does.     *)
LEMMA ReadsAdd ==
    ASSUME Types, NEW p \in Prompt, Reads(p), NEW A, NEW B,
           Started(nextTurn) \notin A, Started(nextTurn) \notin B
    PROVE  /\ Has(down', A) <=> Has(down, A) \/ Echoes(p) \in A
           /\ Led(down, A, B) /\ (Echoes(p) \in B => Has(down, A)) => Led(down', A, B)
<1>1. down' = down \o (IF running = 0 THEN <<Started(nextTurn)>> ELSE <<>>) \o <<Echoes(p)>>
  BY DEF Reads, Started, Echoes
<1>2. down \in Seq(Downs) /\ Started(nextTurn) \in Downs /\ Echoes(p) \in Downs
  BY Answers DEF Types
<1>3. PICK d : d = down \o (IF running = 0 THEN <<Started(nextTurn)>> ELSE <<>>)
  OBVIOUS
<1>4. d \in Seq(Downs) /\ (Has(d, A) <=> Has(down, A)) /\ (Led(down, A, B) => Led(d, A, B))
  <2>1. CASE running = 0
    <3>1. d = Append(down, Started(nextTurn))
      BY <1>2, <1>3, <2>1, ConcatOne
    <3> QED
      BY <1>2, <3>1, HasBehind, AppendAdds
  <2>2. CASE running # 0
    <3>1. d = down \o <<>>
      BY <1>3, <2>2
    <3>2. d = down
      BY <1>2, <3>1, ConcatOne
    <3> QED
      BY <1>2, <3>2
  <2> QED
    BY <2>1, <2>2
<1>5. down' = Append(d, Echoes(p))
  BY <1>1, <1>2, <1>3, <1>4, ConcatOne
<1>6. /\ Has(Append(d, Echoes(p)), A) <=> Has(d, A) \/ Echoes(p) \in A
      /\ Led(d, A, B) /\ (Echoes(p) \in B => Has(d, A)) => Led(Append(d, Echoes(p)), A, B)
  BY <1>2, <1>4, HasBehind
<1> QED
  BY <1>4, <1>5, <1>6

(* Letters and the prompts they name.                                       *)
LEMMA Letters ==
    ASSUME NEW p \in Prompt
    PROVE  /\ \A m \in LetterOf(p) : m \in Downs /\ m.kind \in {"echo", "refused"} /\ m.prompt = p
           /\ \A m \in SendOf(p) : m \in Ups /\ m.kind \in {"start", "steer"} /\ m.prompt = p
           /\ EchoOf(p) \subseteq LetterOf(p) /\ AgainOf(p) \subseteq LetterOf(p) /\ ToldOf(p) \subseteq LetterOf(p)
           /\ EchoOf(p) \subseteq ToldOf(p)
           /\ StartOf(p) \subseteq SendOf(p) /\ SteerOf(p) \subseteq SendOf(p) /\ LiveOf(p) \subseteq SteerOf(p)
           /\ \A id \in Nat : Started(id) \notin LetterOf(p)
           /\ Echoes(p) \in EchoOf(p) /\ Start(p) \in StartOf(p)
           /\ \A q \in Prompt : q # p => Echoes(q) \notin LetterOf(p) /\ Start(q) \notin SendOf(p)
  BY Answers, Kinds DEF LetterOf, EchoOf, AgainOf, RefusalOf, ToldOf, SendOf, StartOf, SteerOf, LiveOf,
     Started, Echoes, Start, Downs, Ups

(* A turn that is over stays over, and a new one is none that was steered.  *)
LEMMA NoLiveSteer ==
    ASSUME DeliveryInv, Turns, NEW j \in Prompt, running' = 0 \/ running' = nextTurn
    PROVE  ~Has(up, LiveOf(j)')
<1>1. LiveOf(j)' = {m \in SteerOf(j) : m.turn = running'}
  BY DEF LiveOf, SteerOf
<1> SUFFICES ASSUME NEW k \in DOMAIN up, up[k] \in LiveOf(j)' PROVE FALSE
  BY DEF Has
<1>2. up[k].kind = "steer" /\ up[k].turn = running'
  BY <1>1 DEF SteerOf
<1>3. up[k].turn # 0 /\ up[k].turn < nextTurn
  BY <1>2 DEF Turns, SteersBelow
<1> QED
  BY <1>2, <1>3 DEF DeliveryInv, Types

(* A step that moves nothing of the two.                                    *)
LEMMA UserLine ==
    ASSUME DeliveryInv, NEW i \in Prompt, NEW j \in Prompt, Ahead(i, j), i \in Accepted, j \in Accepted,
           \/ \E p \in Prompt : SubmitStarts(p) \/ SubmitSteers(p)
           \/ Interrupt
    PROVE  Ahead(i, j)'
<1>1. up \in Seq(Ups) /\ current \in Nat /\ op \in [Prompt -> {"none", "retry", "plain"}]
  BY DEF DeliveryInv, Types
<1>2. UNCHANGED <<down, waiting, running, echoed, lost>>
  BY DEF SubmitStarts, SubmitSteers, Interrupt, server
<1>3. /\ op'[i] = "retry" => op[i] = "retry"
      /\ op'[j] = "retry" => op[j] = "retry"
  BY <1>1 DEF SubmitStarts, SubmitSteers, Interrupt, CancelSteeringRetries, codex
<1>4. Keeps(up, up', SendOf(i) \cup SendOf(j))
  <2>1. CASE up' = up
    BY <2>1, KeepsSame
  <2>2. ASSUME NEW m \in Ups, up' = Append(up, m), m \notin SendOf(i) \cup SendOf(j)
        PROVE  Keeps(up, up', SendOf(i) \cup SendOf(j))
    BY <1>1, <2>2, KeepsBehind
  <2>3. ASSUME NEW p \in Prompt, SubmitStarts(p) \/ SubmitSteers(p)
        PROVE  Keeps(up, up', SendOf(i) \cup SendOf(j))
    <3>1. p # i /\ p # j /\ (up' = Append(up, Start(p)) \/ up' = Append(up, Steer(p, current)))
      BY <2>3 DEF SubmitStarts, SubmitSteers
    <3>2. /\ Start(p) \in Ups /\ Start(p).prompt = p
          /\ Steer(p, current) \in Ups /\ Steer(p, current).prompt = p
      BY <1>1, Kinds DEF Start, Steer
    <3> QED
      BY <2>2, <3>1, <3>2, Letters
  <2>4. ASSUME Interrupt PROVE Keeps(up, up', SendOf(i) \cup SendOf(j))
    <3>1. up' = up \/ up' = Append(up, Stop(current))
      BY <2>4 DEF Interrupt
    <3>2. Stop(current) \in Ups /\ Stop(current).kind = "stop"
      BY <1>1 DEF Stop, Ups
    <3> QED
      BY <2>1, <2>2, <3>1, <3>2, Letters
  <2> QED
    BY <2>3, <2>4
<1>5. LiveOf(j)' = LiveOf(j) /\ Keeps(down, down', LetterOf(i) \cup LetterOf(j))
  BY <1>2, KeepsSame DEF LiveOf, SteerOf
<1> QED
  BY <1>2, <1>3, <1>4, <1>5, CalmStep DEF Done

(* A deadline.                                                              *)
LEMMA DeadlineLine ==
    ASSUME DeliveryInv, DeliveryInv', EchoOnce, NEW i \in Prompt, NEW j \in Prompt, Ahead(i, j),
           NEW p \in Prompt, SteerTimesOut(p) \/ SteerNotSent(p)
    PROVE  Ahead(i, j)'
<1>1. up \in Seq(Ups) /\ op \in [Prompt -> {"none", "retry", "plain"}]
  BY DEF DeliveryInv, Types
<1>2. UNCHANGED <<down, waiting, running, echoed>> /\ op' = [op EXCEPT ![p] = "none"] /\ lost \subseteq lost'
  BY DEF SteerTimesOut, TimedOut, GiveUp, SteerNotSent, server
<1>3. /\ op'[i] = "retry" => op[i] = "retry"
      /\ op'[j] = "retry" => op[j] = "retry"
  BY <1>1, <1>2
<1>4. LiveOf(j)' = LiveOf(j) /\ Keeps(down, down', LetterOf(i) \cup LetterOf(j))
  BY <1>2, KeepsSame DEF LiveOf, SteerOf
<1>5. ASSUME Keeps(up, up', SendOf(i) \cup SendOf(j)) PROVE Ahead(i, j)'
  BY <1>2, <1>3, <1>4, <1>5, CalmStep DEF Done
<1>6. CASE SteerTimesOut(p)
  <2>1. up' = up
    BY <1>6 DEF SteerTimesOut, TimedOut, GiveUp
  <2> QED
    BY <1>5, <2>1, KeepsSame
<1>7. CASE SteerNotSent(p)
  <2>1. PICK k \in DOMAIN up : up[k].kind = "steer" /\ up[k].prompt = p /\ up' = RemoveAt(up, k)
    BY <1>7 DEF SteerNotSent
  <2>2. CASE p = i
    <3>1. Done(i)'
      BY <1>7, <2>2 DEF SteerNotSent, Done
    <3> QED
      BY <3>1, ThenAhead
  <2>3. CASE p = j
    <3>1. j \in Held(up)
      BY <2>1, <2>3 DEF Held, Holds
    <3>2. j \notin Held(up')
      <4>1. Alone(up)
        BY DEF DeliveryInv, OnePlace
      <4> DEFINE n == Len(up)
                 From(l) == IF l < k THEN l ELSE l + 1
      <4>2. /\ n \in Nat \ {0} /\ DOMAIN up = 1..n /\ Len(up') = n - 1 /\ up' \in Seq(Ups)
            /\ \A l \in 1..(n - 1) : up'[l] = up[From(l)]
        BY <1>1, <2>1, RemoveLeaves
      <4>3. DOMAIN up' = 1..(n - 1)
        BY <4>2
      <4> HIDE DEF n
      <4>4. \A l \in 1..(n - 1) : From(l) \in 1..n /\ From(l) # k
        BY <2>1, <4>2
      <4> HIDE DEF From
      <4>5. \A l \in 1..(n - 1) : ~Holds(up'[l], j)
        BY <2>1, <2>3, <4>1, <4>2, <4>4 DEF Alone, Holds
      <4> QED
        BY <4>3, <4>5 DEF Held
    <3>3. j \notin Held(down') \cup Named(down') \cup ToSet(waiting') \cup echoed'
      BY <1>2, <3>1, Elsewhere
    <3> QED
      BY <3>2, <3>3, ThenAhead DEF DeliveryInv, AheadAt, At
  <2>4. CASE p # i /\ p # j
    <3>1. up[k] \notin SendOf(i) \cup SendOf(j)
      BY <2>1, <2>4, Letters
    <3>2. Keeps(up, up', SendOf(i) \cup SendOf(j))
      BY <1>1, <2>1, <3>1, KeepsWithout
    <3> QED
      BY <1>5, <3>2
  <2> QED
    BY <2>2, <2>3, <2>4
<1> QED
  BY <1>6, <1>7

(* The tab's mail without its first letter.                                 *)
LEMMA MailAfter ==
    ASSUME Types, NEW k, Receive(k)
    PROVE  /\ down \in Seq(Downs) /\ down # <<>> /\ down' = Tail(down)
           /\ Head(down) \in Downs /\ Head(down).kind = k
           /\ \A C : Head(down) \notin C => Keeps(down, down', C)
<1>1. down \in Seq(Downs) /\ down # <<>> /\ down' = Tail(down) /\ Head(down).kind = k
  BY DEF Types, Receive
<1>2. Head(down) \in Downs
  BY <1>1, HeldAfter
<1>3. \A C : Head(down) \notin C => Keeps(down, Tail(down), C)
  BY <1>1, KeepsAfter
<1> QED
  BY <1>1, <1>2, <1>3

(* A letter about neither prompt.                                           *)
LEMMA ToldLine ==
    ASSUME DeliveryInv, NEW i \in Prompt, NEW j \in Prompt, Ahead(i, j),
           TurnStarted \/ Output \/ TurnCompleted \/ SteerAdmitted
    PROVE  Ahead(i, j)'
<1> DEFINE k == Head(down).kind
<1>1. /\ Receive(k) /\ k \in {"started", "output", "completed", "admitted"}
      /\ UNCHANGED <<up, running, waiting, echoed, lost>>
  BY DEF TurnStarted, Output, TurnCompleted, SteerAdmitted, Receive, server, history
<1>2. Types
  BY DEF DeliveryInv
<1>3. Head(down) \notin LetterOf(i) \cup LetterOf(j)
  BY <1>1, Letters
<1>4. Keeps(down, down', LetterOf(i) \cup LetterOf(j)) /\ Keeps(up, up', SendOf(i) \cup SendOf(j))
  BY <1>1, <1>2, <1>3, MailAfter, KeepsSame
<1>5. \A p \in Prompt : op'[p] \in {op[p], "none"}
  BY <1>2 DEF TurnStarted, Output, TurnCompleted, SteerAdmitted, Types, codex
<1>6. LiveOf(j)' = LiveOf(j) /\ (Done(i) => Done(i)')
  BY <1>1 DEF LiveOf, SteerOf, Done
<1> QED
  BY <1>1, <1>4, <1>5, <1>6, CalmStep

(* The echo of a prompt: those ahead of it have been heard of before.       *)
LEMMA EchoLine ==
    ASSUME DeliveryInv, NEW i \in Prompt, NEW j \in Prompt, Ahead(i, j), Echo
    PROVE  Ahead(i, j)'
<1> DEFINE p == Head(down).prompt
<1>1. /\ Receive("echo") /\ echoed' = echoed \cup {p}
      /\ UNCHANGED <<op, up, running, waiting, lost>>
  BY DEF Echo, codex, server
<1>2. Types
  BY DEF DeliveryInv
<1>3. /\ down \in Seq(Downs) /\ down # <<>> /\ down' = Tail(down)
      /\ Head(down) \in Downs /\ Head(down).kind = "echo"
      /\ \A C : Head(down) \notin C => Keeps(down, down', C)
  BY <1>1, <1>2, MailAfter
<1>4. CASE p = i \/ p = j
  <2>1. CASE p = i
    BY <1>1, <2>1, ThenAhead DEF Done
  <2>2. CASE p = j
    <3>1. Head(down) \in EchoOf(j)
      BY <1>3, <2>2 DEF EchoOf
    <3>2. ~Led(down, ToldOf(i), EchoOf(j))
      BY <1>3, <3>1, HasAfter
    <3>3. Done(i)'
      BY <1>1, <3>2 DEF Ahead, Done
    <3> QED
      BY <3>3, ThenAhead
  <2> QED
    BY <1>4, <2>1, <2>2
<1>5. CASE p # i /\ p # j
  <2>1. Head(down) \notin LetterOf(i) \cup LetterOf(j)
    BY <1>5, Letters
  <2>2. Keeps(down, down', LetterOf(i) \cup LetterOf(j)) /\ Keeps(up, up', SendOf(i) \cup SendOf(j))
    BY <1>1, <1>3, <2>1, KeepsSame
  <2>3. LiveOf(j)' = LiveOf(j) /\ (Done(i) => Done(i)') /\ (j \in echoed' => j \in echoed)
    BY <1>1, <1>5 DEF LiveOf, SteerOf, Done
  <2> QED
    BY <1>1, <2>2, <2>3, CalmStep
<1> QED
  BY <1>4, <1>5

(* A refusal that is tried again puts a start at the end.  Nothing of a     *)
(* prompt behind it is there but a steer into a turn that is over; and what *)
(* is ahead of it is ahead of its start.                                    *)
LEMMA AgainLine ==
    ASSUME DeliveryInv, DeliveryInv', EchoOnce,
           NEW i \in Prompt, NEW j \in Prompt, i # j, Ahead(i, j), Receive("refused"),
           NEW p \in Prompt, p = Head(down).prompt, p = i \/ p = j, Head(down).noTurn, op[p] = "retry",
           up' = Append(up, Start(p)), op' = [op EXCEPT ![p] = "none"],
           UNCHANGED <<running, waiting, echoed, lost>>
    PROVE  Ahead(i, j)'
<1>1. Types /\ up \in Seq(Ups) /\ Start(p) \in Ups
  BY Kinds DEF DeliveryInv, Types
<1>2. /\ down \in Seq(Downs) /\ down # <<>> /\ down' = Tail(down)
      /\ Head(down) \in Downs /\ Head(down).kind = "refused"
  BY <1>1, MailAfter
<1>3. Head(down) \in AgainOf(p) /\ Head(down) \notin ToldOf(p)
  BY <1>2 DEF AgainOf, RefusalOf, ToldOf, EchoOf
<1>4. p \in Held(down) /\ p \notin Held(down')
  BY <1>1, <1>2, Received DEF DeliveryInv, OnePlace, Holds
<1>5. p \notin Held(up) \cup Named(down) \cup ToSet(waiting) \cup echoed
  BY <1>4, Elsewhere
<1>6. /\ \A q \in Prompt : q # p => AgainOf(q)' = AgainOf(q) /\ ToldOf(q)' = ToldOf(q)
      /\ LiveOf(j)' = LiveOf(j)
      /\ AgainOf(j)' \subseteq AgainOf(j)
  <2>1. \A q \in Prompt : q # p => op'[q] = op[q]
    BY <1>1 DEF Types
  <2>2. op'[p] = "none"
    BY <1>1 DEF Types
  <2> QED
    BY <2>1, <2>2 DEF AgainOf, ToldOf, RefusalOf, EchoOf, LiveOf, SteerOf
<1>7. CASE p = i
  <2>1. CASE Done(i)
    BY <2>1, ThenAhead DEF Done
  <2>2. CASE ~Done(i)
    <3>1. ~Has(down, ToldOf(i))
      <4> SUFFICES ASSUME NEW k \in DOMAIN down, down[k] \in ToldOf(i) PROVE FALSE
        BY DEF Has
      <4>1. down[k].kind # "echo"
        BY <1>5, <1>7 DEF ToldOf, EchoOf, RefusalOf, Named
      <4>2. Holds(down[k], i) /\ Holds(Head(down), i)
        BY <1>2, <1>7, <4>1 DEF Holds, ToldOf, EchoOf, RefusalOf
      <4>3. Head(down) = down[1] /\ 1 \in DOMAIN down
        BY <1>2
      <4>4. k = 1
        BY <4>2, <4>3 DEF DeliveryInv, OnePlace, Alone
      <4> QED
        BY <1>3, <1>7, <4>3, <4>4
    <3>2. ~Over(i)
      BY <2>2, <3>1 DEF Over
    <3>3. i \notin ToSet(waiting) /\ ~Has(waiting, {i}) /\ ~Has(up, StartOf(i)) /\ ~Has(up, SendOf(i))
      BY <1>1, <1>5, <1>7, Whereabouts
    <3>4. ~Has(down, EchoOf(j)) /\ j \notin echoed
      BY <2>2, <3>1, LedByNone DEF Ahead
    <3>5. ~Has(waiting, {j})
      BY <3>2, <3>3, LedByNone DEF Ahead
    <3>6. ~Has(up, StartOf(j))
      BY <3>2, <3>3, LedByNone DEF Ahead
    <3>7. ~Has(up, LiveOf(j))
      <4>1. LiveOf(j) \subseteq SteerOf(j)
        BY DEF LiveOf
      <4>2. CASE Led(up, SendOf(i), SteerOf(j))
        <5>1. ~Has(up, SteerOf(j))
          BY <3>3, <4>2, LedByNone
        <5> QED
          BY <4>1, <5>1 DEF Has
      <4> QED
        BY <3>2, <3>3, <4>2 DEF Ahead
    <3>8. ~Has(down', EchoOf(j))
      BY <1>2, <3>4, HasAfter
    <3>9. /\ Has(up', StartOf(i))
          /\ ~Has(up', StartOf(j)) /\ ~Has(up', LiveOf(j))
      <4>1. Start(i) \in StartOf(i) /\ Start(i) \notin StartOf(j) /\ Start(i) \notin LiveOf(j)
        BY Letters
      <4> QED
        BY <1>1, <1>7, <3>6, <3>7, <4>1, HasBehind
    <3>10. /\ Led(down', ToldOf(i)', EchoOf(j)) /\ Led(waiting', {i}, {j}) /\ Led(up', StartOf(i), StartOf(j))
      BY <3>5, <3>8, <3>9, LedAbsent
    <3>11. EchoOf(j)' = EchoOf(j) /\ StartOf(i)' = StartOf(i) /\ StartOf(j)' = StartOf(j)
      BY DEF EchoOf, StartOf
    <3> QED
      BY <1>6, <3>4, <3>9, <3>10, <3>11 DEF Ahead
  <2> QED
    BY <2>1, <2>2
<1>8. CASE p = j
  <2>1. Over(i) => Over(i)'
    <3>1. Head(down) \notin ToldOf(i)
      BY <1>8, Letters DEF ToldOf, RefusalOf, EchoOf
    <3>2. Has(down, ToldOf(i)) => Has(down', ToldOf(i))
      BY <1>2, <3>1, HasAfter
    <3> QED
      BY <1>6, <1>8, <3>2 DEF Over, Done
  <2>2. Over(i) \/ i \in ToSet(waiting) \/ Has(up, StartOf(i))
    <3>1. ~Led(down, AgainOf(i), AgainOf(j))
      BY <1>2, <1>3, <1>8, HasAfter
    <3> QED
      BY <3>1 DEF Ahead
  <2>3. At(j, "up")' /\ j \notin echoed'
    <3>1. Named(down') \subseteq Named(down)
      BY <1>1, Received
    <3> QED
      BY <1>4, <1>5, <1>8, <3>1 DEF At
  <2>4. Types'
    BY DEF DeliveryInv
  <2>5. ~Has(up, StartOf(j)) /\ ~Has(up, SteerOf(j))
    BY <1>1, <1>5, <1>8, Whereabouts
  <2>6. Start(j) \notin SteerOf(j) /\ Start(j) \in StartOf(j) /\ Start(j).kind = "start"
    BY DEF Start, SteerOf, StartOf, Ups
  <2>7. ~Has(up', SteerOf(j))
    BY <1>1, <1>8, <2>5, <2>6, HasBehind
  <2>8. Has(up, StartOf(i)) => Led(up', StartOf(i), StartOf(j))
    <3>1. Led(up, StartOf(i), StartOf(j))
      BY <2>5, LedAbsent
    <3> QED
      BY <1>1, <1>8, <3>1, HasBehind
  <2>9. Over(i)' \/ i \in ToSet(waiting') \/ Led(up', StartOf(i), StartOf(j))
    BY <2>1, <2>2, <2>8
  <2>10. SteerOf(j)' = SteerOf(j) /\ StartOf(i)' = StartOf(i) /\ StartOf(j)' = StartOf(j)
    BY DEF SteerOf, StartOf
  <2>11. AheadAt(i, j)'
    BY <2>3, <2>4, ThenAhead
  <2> QED
    BY <2>3, <2>7, <2>9, <2>10, <2>11 DEF AheadAt
<1> QED
  BY <1>7, <1>8

(* A refused steer in all: of one of the two, tried again or given up, or   *)
(* of another.                                                              *)
LEMMA RefusedLine ==
    ASSUME DeliveryInv, DeliveryInv', EchoOnce, NEW i \in Prompt, NEW j \in Prompt, i # j, Ahead(i, j), SteerRefused
    PROVE  Ahead(i, j)'
<1> DEFINE m == Head(down)
           p == m.prompt
<1>1. /\ Receive("refused") /\ op' = [op EXCEPT ![p] = "none"] /\ lost \subseteq lost'
      /\ UNCHANGED <<running, waiting, echoed>>
  BY DEF SteerRefused, Retry, GiveUp, server
<1>2. Types
  BY DEF DeliveryInv
<1>3. /\ down' = Tail(down) /\ m \in Downs /\ m.kind = "refused"
      /\ \A C : m \notin C => Keeps(down, down', C)
  BY <1>1, <1>2, MailAfter
<1>4. p \in Prompt /\ up \in Seq(Ups) /\ Start(p) \in Ups /\ Start(p).prompt = p
  <2>1. p \in Prompt
    BY <1>3, Contents
  <2> QED
    BY <1>2, <2>1, Kinds DEF Types, Start
<1>5. \/ op[p] = "retry" /\ m.noTurn /\ up' = Append(up, Start(p)) /\ lost' = lost
      \/ up' = up /\ p \in lost'
  BY DEF SteerRefused, Retry, GiveUp
<1> HIDE DEF m, p
<1>6. \A q \in Prompt : op'[q] \in {op[q], "none"}
  BY <1>1, <1>2, <1>4 DEF Types
<1>7. CASE p # i /\ p # j
  <2>1. m \notin LetterOf(i) \cup LetterOf(j)
    BY <1>7, Letters DEF p
  <2>2. Keeps(down, down', LetterOf(i) \cup LetterOf(j))
    BY <1>3, <2>1
  <2>3. Keeps(up, up', SendOf(i) \cup SendOf(j))
    <3>1. Start(p) \notin SendOf(i) \cup SendOf(j)
      BY <1>4, <1>7, Letters
    <3> QED
      BY <1>4, <1>5, <3>1, KeepsBehind, KeepsSame
  <2>4. LiveOf(j)' = LiveOf(j) /\ (Done(i) => Done(i)')
    BY <1>1 DEF LiveOf, SteerOf, Done
  <2> QED
    BY <1>1, <1>6, <2>2, <2>3, <2>4, CalmStep
<1>8. CASE (p = i \/ p = j) /\ op[p] = "retry" /\ m.noTurn /\ up' = Append(up, Start(p)) /\ lost' = lost
  BY <1>1, <1>4, <1>8, AgainLine DEF m, p
<1>9. CASE p = i /\ p \in lost'
  BY <1>9, ThenAhead DEF Done
<1>10. CASE p = j /\ up' = up
  <2>1. p \in Held(down) /\ p \notin Held(down') /\ Named(down') \subseteq Named(down)
    BY <1>1, <1>2, <1>3, <1>4, Received DEF DeliveryInv, OnePlace, Holds, m, p
  <2>2. p \notin Held(up) \cup Named(down) \cup ToSet(waiting) \cup echoed
    BY <1>4, <2>1, Elsewhere
  <2>3. At(j, "nowhere")' /\ j \notin echoed'
    BY <1>1, <1>10, <2>1, <2>2 DEF At
  <2>4. Types'
    BY DEF DeliveryInv
  <2> QED
    BY <2>3, <2>4, ThenAhead DEF AheadAt
<1> QED
  BY <1>5, <1>7, <1>8, <1>9, <1>10

(* A prompt that is admitted, behind those already waiting.                 *)
LEMMA QueueLine ==
    ASSUME DeliveryInv, DeliveryInv', EchoOnce, NEW i \in Prompt, NEW j \in Prompt, i # j, Ahead(i, j),
           NEW p \in Prompt, waiting' = Append(waiting, p), up # <<>>, up' = Tail(up),
           Holds(Head(up), p), Head(up).kind = "steer" => Head(up).turn = running,
           NEW m \in Downs, m.kind = "admitted", down' = down \/ down' = Append(down, m),
           UNCHANGED <<op, running, echoed, lost>>
    PROVE  Ahead(i, j)'
<1>1. Types /\ Types' /\ up \in Seq(Ups) /\ down \in Seq(Downs) /\ waiting \in Seq(Prompt)
  BY DEF DeliveryInv, Types
<1>2. /\ Head(up) \in Ups /\ Head(up).kind \in {"start", "steer"} /\ Head(up).prompt = p
      /\ p \in Held(up) /\ p \notin Held(up')
  <2>1. Head(up) \in Ups /\ p \in Held(up) /\ p \notin Held(up')
    BY <1>1, HeldAfter DEF DeliveryInv, OnePlace
  <2>2. Head(up).kind # "refused"
    BY <2>1, Contents
  <2> QED
    BY <2>1, <2>2 DEF Holds
<1>3. p \notin Held(down) \cup Named(down) \cup ToSet(waiting) \cup echoed
  BY <1>2, Elsewhere
<1>4. \A q \in Prompt : m \notin LetterOf(q)
  BY Letters
<1>5. Keeps(down, down', LetterOf(i) \cup LetterOf(j))
  BY <1>1, <1>4, KeepsBehind, KeepsSame
<1>6. /\ \A A : Has(waiting', A) <=> Has(waiting, A) \/ p \in A
      /\ \A A, B : Led(waiting, A, B) /\ (p \in B => Has(waiting, A)) => Led(waiting', A, B)
  BY <1>1, HasBehind
<1>7. LiveOf(j)' = LiveOf(j) /\ (Done(i) => Done(i)') /\ ToldOf(i)' = ToldOf(i)
  BY DEF LiveOf, SteerOf, Done, ToldOf, AgainOf, RefusalOf, EchoOf
<1>8. i \in ToSet(waiting) => i \in ToSet(waiting')
  BY <1>1, OnceBehind
<1>9. Over(i) => Over(i)'
  <2>1. ToldOf(i) \in SUBSET (LetterOf(i) \cup LetterOf(j))
    BY Letters
  <2>2. Has(down, ToldOf(i)) => Has(down', ToldOf(i))
    BY <1>5, <2>1 DEF Keeps
  <2> QED
    BY <1>7, <2>2 DEF Over
<1>10. CASE p # i /\ p # j
  <2>1. Head(up) \notin SendOf(i) \cup SendOf(j)
    BY <1>2, <1>10, Letters
  <2>2. Keeps(up, up', SendOf(i) \cup SendOf(j))
    BY <1>1, <2>1, KeepsAfter
  <2>3. Led(waiting, {i}, {j}) => Led(waiting', {i}, {j})
    BY <1>6, <1>10
  <2> QED
    BY <1>5, <1>7, <1>8, <2>2, <2>3, CalmStep
<1>11. CASE p = i
  <2>1. i \in ToSet(waiting')
    BY <1>1, <1>11, OnceBehind
  <2>2. Over(i)' \/ Led(waiting', {i}, {j})
    <3>1. ~Has(waiting, {i})
      BY <1>1, <1>3, <1>11, Whereabouts
    <3>2. Over(i) \/ ~Has(waiting, {j})
      BY <3>1, LedByNone DEF Ahead
    <3>3. ~Has(waiting', {j}) => Led(waiting', {i}, {j})
      BY LedAbsent
    <3> QED
      BY <1>6, <1>9, <1>11, <3>2, <3>3
  <2>3. Done(i)' \/ Led(down', ToldOf(i), EchoOf(j))
    <3>1. ToldOf(i) \in SUBSET (LetterOf(i) \cup LetterOf(j)) /\ EchoOf(j) \in SUBSET (LetterOf(i) \cup LetterOf(j))
      BY Letters
    <3>2. Led(down, ToldOf(i), EchoOf(j)) => Led(down', ToldOf(i), EchoOf(j))
      BY <1>5, <3>1 DEF Keeps
    <3> QED
      BY <1>7, <3>2 DEF Ahead
  <2>4. EchoOf(j)' = EchoOf(j) /\ (j \in echoed' => Done(i)')
    BY <1>7 DEF EchoOf, Ahead
  <2> QED
    BY <1>7, <2>1, <2>2, <2>3, <2>4 DEF Ahead
<1>12. CASE p = j
  <2>1. Over(i) \/ i \in ToSet(waiting)
    <3>1. Head(up) \in StartOf(j) \/ Head(up) \in LiveOf(j)
      BY <1>2, <1>12 DEF StartOf, LiveOf, SteerOf
    <3>2. CASE Head(up) \in StartOf(j)
      <4>1. ~Led(up, StartOf(i), StartOf(j))
        BY <1>1, <3>2, HasAfter
      <4> QED
        BY <4>1 DEF Ahead
    <3>3. CASE Head(up) \in LiveOf(j)
      <4>1. Has(up, LiveOf(j))
        BY <1>1, <3>3, HasAfter
      <4>2. Head(up) \in SteerOf(j)
        BY <3>3 DEF LiveOf
      <4>3. ~Led(up, SendOf(i), SteerOf(j))
        BY <1>1, <4>2, HasAfter
      <4> QED
        BY <4>1, <4>3 DEF Ahead
    <3> QED
      BY <3>1, <3>2, <3>3
  <2>2. Over(i)' \/ Led(waiting', {i}, {j})
    <3>1. CASE Over(i)
      BY <1>9, <3>1
    <3>2. CASE i \in ToSet(waiting)
      <4>1. Has(waiting, {i}) /\ ~Has(waiting, {j})
        BY <1>1, <1>3, <1>12, <3>2, Whereabouts
      <4>2. Led(waiting, {i}, {j})
        BY <4>1, LedAbsent
      <4> QED
        BY <1>6, <4>1, <4>2
    <3> QED
      BY <2>1, <3>1, <3>2
  <2>3. At(j, "waiting")' /\ j \notin echoed'
    <3>1. j \notin Held(down') /\ j \notin Named(down')
      <4>1. Held(down') = Held(down) /\ Named(down') = Named(down)
        BY <1>1, Sending
      <4> QED
        BY <1>3, <1>12, <4>1
    <3> QED
      BY <1>2, <1>3, <1>12, <3>1 DEF At
  <2> QED
    BY <1>1, <2>2, <2>3, ThenAhead DEF AheadAt
<1> QED
  BY <1>10, <1>11, <1>12

(* A prompt that is read is heard of; the one that was ahead of it has been *)
(* told of already.                                                         *)
LEMMA ReadLine ==
    ASSUME DeliveryInv, DeliveryInv', EchoOnce, Turns,
           NEW i \in Prompt, NEW j \in Prompt, i # j, Ahead(i, j),
           NEW p \in Prompt, Reads(p), p \notin ToSet(taken), p \notin Held(down),
           \/ up # <<>> /\ up' = Tail(up) /\ Head(up) \in StartOf(p) /\ waiting = <<>> /\ waiting' = waiting
           \/ waiting # <<>> /\ waiting' = Tail(waiting) /\ p = Head(waiting) /\ up' = up,
           UNCHANGED <<op, echoed, lost>>
    PROVE  Ahead(i, j)'
<1>1. Types /\ Types' /\ up \in Seq(Ups) /\ waiting \in Seq(Prompt) /\ nextTurn \in Nat
  BY DEF DeliveryInv, Types
<1>2. p \notin Held(up') /\ p \notin ToSet(waiting') /\ p \notin Named(down) \cup echoed
  <2>1. p \notin Named(down) \cup echoed
    BY DEF EchoOnce
  <2>2. CASE up # <<>> /\ up' = Tail(up) /\ Head(up) \in StartOf(p) /\ waiting = <<>> /\ waiting' = waiting
    <3>1. Holds(Head(up), p)
      BY <2>2 DEF StartOf, Holds
    <3>2. p \notin Held(up')
      BY <1>1, <2>2, <3>1, HeldAfter DEF DeliveryInv, OnePlace
    <3>3. ToSet(waiting') = {}
      BY <2>2 DEF ToSet
    <3> QED
      BY <2>1, <3>2, <3>3
  <2>3. CASE waiting # <<>> /\ waiting' = Tail(waiting) /\ p = Head(waiting) /\ up' = up
    <3>1. p \in ToSet(waiting) /\ p \notin ToSet(waiting')
      BY <1>1, <2>3, OnceAfter DEF DeliveryInv, OnePlace
    <3> QED
      BY <2>1, <2>3, <3>1, Elsewhere
  <2> QED
    BY <2>2, <2>3
<1>3. /\ Held(down') = Held(down) /\ Named(down') = Named(down) \cup {p}
  BY Reading
<1>4. \A A, B : A \subseteq LetterOf(i) \cup LetterOf(j) /\ B \subseteq LetterOf(i) \cup LetterOf(j) =>
         /\ Has(down', A) <=> Has(down, A) \/ Echoes(p) \in A
         /\ Led(down, A, B) /\ (Echoes(p) \in B => Has(down, A)) => Led(down', A, B)
  <2>1. Started(nextTurn) \notin LetterOf(i) \cup LetterOf(j)
    BY <1>1, Letters
  <2> QED
    BY <1>1, <2>1, ReadsAdd
<1>5. /\ ToldOf(i) \subseteq LetterOf(i) \cup LetterOf(j) /\ EchoOf(j) \subseteq LetterOf(i) \cup LetterOf(j)
      /\ EchoOf(i) \subseteq ToldOf(i)
  BY Letters
<1>6. ToldOf(i)' = ToldOf(i) /\ EchoOf(j)' = EchoOf(j) /\ (Done(i) => Done(i)')
  BY DEF Done, ToldOf, AgainOf, RefusalOf, EchoOf
<1>7. Over(i) => Over(i)'
  BY <1>4, <1>5, <1>6 DEF Over
<1>8. CASE p # i /\ p # j
  <2>1. Echoes(p) \notin LetterOf(i) \cup LetterOf(j)
    BY <1>8, Letters
  <2>2. Keeps(down, down', LetterOf(i) \cup LetterOf(j))
    BY <1>4, <2>1 DEF Keeps
  <2>3. Keeps(up, up', SendOf(i) \cup SendOf(j))
    <3>1. CASE up' = up
      BY <3>1, KeepsSame
    <3>2. CASE up # <<>> /\ up' = Tail(up) /\ Head(up) \in StartOf(p)
      <4>1. Head(up) \notin SendOf(i) \cup SendOf(j)
        BY <1>8, <3>2, Letters
      <4> QED
        BY <1>1, <3>2, <4>1, KeepsAfter
    <3> QED
      BY <3>1, <3>2
  <2>4. /\ Led(waiting, {i}, {j}) => Led(waiting', {i}, {j})
        /\ i \in ToSet(waiting) => i \in ToSet(waiting')
    <3>1. CASE waiting' = waiting
      BY <3>1
    <3>2. CASE waiting # <<>> /\ waiting' = Tail(waiting) /\ p = Head(waiting)
      <4>1. Led(waiting, {i}, {j}) => Led(waiting', {i}, {j})
        BY <1>1, <1>8, <3>2, HasAfter
      <4>2. ToSet(waiting) = ToSet(waiting') \cup {p}
        BY <1>1, <3>2, OnceAfter
      <4> QED
        BY <1>8, <4>1, <4>2
    <3> QED
      BY <3>1, <3>2
  <2>5. Has(up, LiveOf(j)') => Has(up, LiveOf(j))
    <3>1. CASE running' = running
      <4>1. LiveOf(j)' = LiveOf(j)
        BY <3>1 DEF LiveOf, SteerOf
      <4> QED
        BY <4>1
    <3>2. CASE running' = nextTurn
      BY <3>2, NoLiveSteer
    <3> QED
      BY <3>1, <3>2 DEF Reads
  <2> QED
    BY <1>6, <2>2, <2>3, <2>4, <2>5, CalmStep
<1>9. CASE p = i
  <2>1. Over(i)'
    <3>1. Has(down', ToldOf(i))
      BY <1>4, <1>5, <1>9, Letters
    <3> QED
      BY <1>6, <3>1 DEF Over
  <2>2. Echoes(p) \notin EchoOf(j)
    BY <1>9, Letters
  <2>3. Done(i)' \/ Led(down', ToldOf(i), EchoOf(j))
    <3>1. Led(down, ToldOf(i), EchoOf(j)) => Led(down', ToldOf(i), EchoOf(j))
      BY <1>4, <1>5, <2>2
    <3> QED
      BY <1>6, <3>1 DEF Ahead
  <2> QED
    BY <1>6, <2>1, <2>3 DEF Ahead
<1>10. CASE p = j
  <2>1. Over(i)
    <3>1. CASE up # <<>> /\ Head(up) \in StartOf(p) /\ waiting = <<>>
      <4>1. ~Led(up, StartOf(i), StartOf(j))
        BY <1>1, <1>10, <3>1, HasAfter
      <4>2. i \notin ToSet(waiting)
        BY <3>1 DEF ToSet
      <4> QED
        BY <4>1, <4>2 DEF Ahead
    <3>2. CASE waiting # <<>> /\ p = Head(waiting)
      <4>1. ~Led(waiting, {i}, {j})
        BY <1>1, <1>10, <3>2, HasAfter
      <4> QED
        BY <4>1 DEF Ahead
    <3> QED
      BY <3>1, <3>2
  <2>2. Done(i)' \/ Led(down', ToldOf(i), EchoOf(j))
    <3>1. CASE Done(i)
      BY <1>6, <3>1
    <3>2. CASE Has(down, ToldOf(i))
      <4>1. ~Has(down, EchoOf(j))
        BY <1>1, <1>2, <1>10, Whereabouts
      <4>2. Led(down, ToldOf(i), EchoOf(j))
        BY <4>1, LedAbsent
      <4> QED
        BY <1>4, <1>5, <3>2, <4>2
    <3> QED
      BY <2>1, <3>1, <3>2 DEF Over
  <2>3. At(j, "echo")' /\ j \notin echoed'
    BY <1>2, <1>3, <1>10 DEF At
  <2> QED
    BY <1>1, <1>6, <2>2, <2>3, ThenAhead DEF AheadAt
<1> QED
  BY <1>8, <1>9, <1>10

(* A steer that is refused: its turn is not the one that runs.  A refusal   *)
(* that may be tried again comes when no turn runs, so that every steer     *)
(* behind it is into a turn that is over.                                   *)
LEMMA RefuseLine ==
    ASSUME DeliveryInv, DeliveryInv', EchoOnce, Turns,
           NEW i \in Prompt, NEW j \in Prompt, i # j, Ahead(i, j),
           NEW p \in Prompt, up # <<>>, up' = Tail(up), Head(up) \in SteerOf(p), Head(up).turn # running,
           down' = Append(down, Refused(p, running = 0)), UNCHANGED <<waiting, op, running, echoed, lost>>
    PROVE  Ahead(i, j)'
<1> DEFINE m == Refused(p, running = 0)
<1>1. Types /\ Types' /\ up \in Seq(Ups) /\ down \in Seq(Downs) /\ running \in Nat
  BY DEF DeliveryInv, Types
<1>2. p \in Held(up) /\ p \notin Held(up')
  <2>1. Holds(Head(up), p)
    BY DEF SteerOf, Holds
  <2> QED
    BY <1>1, <2>1, HeldAfter DEF DeliveryInv, OnePlace
<1>3. p \notin Held(down) \cup Named(down) \cup ToSet(waiting) \cup echoed
  BY <1>2, Elsewhere
<1>4. /\ m \in Downs /\ m \in RefusalOf(p) /\ m.kind = "refused" /\ (m.noTurn <=> running = 0)
      /\ \A q \in Prompt : q # p => m \notin LetterOf(q)
      /\ \A q \in Prompt : m \notin EchoOf(q)
  <2>1. m \in Downs /\ m.kind = "refused" /\ m.prompt = p
    <3>1. (running = 0) \in BOOLEAN
      OBVIOUS
    <3> QED
      BY <3>1, Answers, <1>1
  <2>2. m.noTurn <=> running = 0
    BY DEF Refused
  <2> HIDE DEF m
  <2>3. m \in RefusalOf(p)
    BY <2>1 DEF RefusalOf
  <2>4. \A q \in Prompt : q # p => m \notin LetterOf(q)
    BY <2>1, Letters
  <2>5. \A q \in Prompt : m \notin EchoOf(q)
    BY <2>1 DEF EchoOf
  <2> QED
    BY <2>1, <2>2, <2>3, <2>4, <2>5
<1> HIDE DEF m
<1>5. /\ \A A : Has(down', A) <=> Has(down, A) \/ m \in A
      /\ \A A, B : Led(down, A, B) /\ (m \in B => Has(down, A)) => Led(down', A, B)
  BY <1>1, <1>4, HasBehind DEF m
<1>6. \A q \in Prompt : AgainOf(q)' = AgainOf(q) /\ ToldOf(q)' = ToldOf(q) /\ LiveOf(q)' = LiveOf(q)
  BY DEF AgainOf, ToldOf, RefusalOf, EchoOf, LiveOf, SteerOf
<1>7. Over(i) => Over(i)'
  BY <1>5, <1>6 DEF Over, Done
<1>8. EchoOf(j)' = EchoOf(j) /\ StartOf(i)' = StartOf(i) /\ StartOf(j)' = StartOf(j)
      /\ SteerOf(j)' = SteerOf(j) /\ SendOf(i)' = SendOf(i) /\ (Done(i) <=> Done(i)')
  BY DEF EchoOf, StartOf, SteerOf, SendOf, Done
<1>9. CASE p # i /\ p # j
  <2>1. Keeps(down, down', LetterOf(i) \cup LetterOf(j))
    BY <1>1, <1>4, <1>9, KeepsBehind DEF m
  <2>2. Keeps(up, up', SendOf(i) \cup SendOf(j))
    <3>1. Head(up) \notin SendOf(i) \cup SendOf(j)
      BY <1>9, Letters DEF SteerOf
    <3> QED
      BY <1>1, <3>1, KeepsAfter
  <2> QED
    BY <1>6, <1>8, <2>1, <2>2, CalmStep
<1>10. CASE p = i
  <2>1. CASE Done(i)
    BY <1>8, <2>1, ThenAhead
  <2>2. CASE ~Done(i)
    <3>1. ~Has(down, ToldOf(i)) /\ ~Has(down, AgainOf(i)) /\ ~Has(waiting, {i}) /\ i \notin ToSet(waiting)
      BY <1>1, <1>3, <1>10, Whereabouts
    <3>2. ~Over(i)
      BY <2>2, <3>1 DEF Over
    <3>3. ~Has(up, StartOf(i))
      <4> SUFFICES ASSUME NEW k \in DOMAIN up, up[k] \in StartOf(i) PROVE FALSE
        BY DEF Has
      <4>1. Holds(up[k], i) /\ Holds(Head(up), i) /\ Head(up) = up[1] /\ 1 \in DOMAIN up
        BY <1>1, <1>10 DEF Holds, StartOf, SteerOf
      <4>2. k = 1
        BY <4>1 DEF DeliveryInv, OnePlace, Alone
      <4> QED
        BY <1>10, <4>1, <4>2 DEF StartOf, SteerOf
    <3>4. ~Has(down, EchoOf(j)) /\ ~Has(waiting, {j}) /\ ~Has(up, StartOf(j)) /\ j \notin echoed
      <4>1. ~Has(down, EchoOf(j)) /\ j \notin echoed
        BY <2>2, <3>1, LedByNone DEF Ahead
      <4>2. ~Has(waiting, {j})
        BY <3>1, <3>2, LedByNone DEF Ahead
      <4>3. ~Has(up, StartOf(j))
        BY <3>1, <3>2, <3>3, LedByNone DEF Ahead
      <4> QED
        BY <4>1, <4>2, <4>3
    <3>5. ~Has(down, AgainOf(j))
      BY <3>1, <3>2, <3>3, LedByNone DEF Ahead
    <3>6. m \notin AgainOf(j)
      BY <1>4, <1>10, Letters
    <3>7. ~Has(down', EchoOf(j)) /\ ~Has(down', AgainOf(j)) /\ ~Has(up', StartOf(j))
      BY <1>1, <1>4, <1>5, <3>4, <3>5, <3>6, HasAfter
    <3>8. /\ Led(down', ToldOf(i), EchoOf(j)) /\ Led(waiting', {i}, {j})
          /\ Led(down', AgainOf(i), AgainOf(j)) /\ Led(up', StartOf(i), StartOf(j))
      BY <3>4, <3>7, LedAbsent
    <3>9. Over(i)' \/ (~Has(up', LiveOf(j)) /\ Has(down', AgainOf(i)))
      <4>1. CASE m \in AgainOf(i)
        <5>1. running = 0
          BY <1>4, <4>1 DEF AgainOf
        <5>2. ~Has(up, LiveOf(j))
          BY <1>6, <5>1, NoLiveSteer
        <5> QED
          BY <1>1, <1>5, <4>1, <5>2, HasAfter
      <4>2. CASE m \notin AgainOf(i)
        <5>1. m \in ToldOf(i)
          BY <1>4, <1>10, <4>2 DEF ToldOf
        <5> QED
          BY <1>5, <1>6, <5>1 DEF Over
      <4> QED
        BY <4>1, <4>2
    <3> QED
      BY <1>6, <1>8, <3>4, <3>8, <3>9 DEF Ahead
  <2> QED
    BY <2>1, <2>2
<1>11. CASE p = j
  <2>1. \/ Over(i) \/ i \in ToSet(waiting) \/ Has(up, StartOf(i)) \/ Has(down, AgainOf(i))
    <3>1. ~Led(up, SendOf(i), SteerOf(j))
      BY <1>1, <1>11, HasAfter
    <3> QED
      BY <3>1 DEF Ahead
  <2>2. Has(up, StartOf(i)) => Has(up', StartOf(i))
    <3>1. Head(up) \notin StartOf(i)
      BY DEF StartOf, SteerOf
    <3> QED
      BY <1>1, <3>1, HasAfter
  <2>3. Has(down, AgainOf(i)) => Led(down', AgainOf(i), AgainOf(j))
    <3>1. ~Has(down, AgainOf(j))
      BY <1>1, <1>3, <1>11, Whereabouts
    <3>2. Led(down, AgainOf(i), AgainOf(j))
      BY <3>1, LedAbsent
    <3> QED
      BY <1>5, <3>2
  <2>4. At(j, "refused")' /\ j \notin echoed'
    <3>1. Named(down') = Named(down)
      BY <1>1, <1>4, Sending DEF m
    <3> QED
      BY <1>2, <1>3, <1>11, <3>1 DEF At
  <2>5. AheadAt(i, j)'
    BY <1>1, <2>4, ThenAhead
  <2> QED
    BY <1>6, <1>7, <1>8, <2>1, <2>2, <2>3, <2>4, <2>5 DEF AheadAt
<1> QED
  BY <1>9, <1>10, <1>11

(* What the server takes or reads keeps the order.                          *)
LEMMA ServerLine ==
    ASSUME DeliveryInv, DeliveryInv', EchoOnce, Turns,
           NEW i \in Prompt, NEW j \in Prompt, i # j, Ahead(i, j),
           ServerStarts \/ ServerSteers \/ ServerReads
    PROVE  Ahead(i, j)'
<1>1. Types /\ up \in Seq(Ups) /\ down \in Seq(Downs) /\ waiting \in Seq(Prompt)
  BY DEF DeliveryInv, Types
<1>2. UNCHANGED <<op, echoed, lost>>
  BY DEF ServerStarts, ServerSteers, ServerReads, tab, history, codex
<1>3. ASSUME NEW k \in {"start", "steer"}, Take(k)
      PROVE  /\ up # <<>> /\ up' = Tail(up) /\ Head(up) \in Ups /\ Head(up).kind = k /\ Head(up).prompt \in Prompt
             /\ Holds(Head(up), Head(up).prompt)
             /\ Head(up).prompt \in Held(up)
  <2>1. up # <<>> /\ up' = Tail(up) /\ Head(up).kind = k /\ Head(up) \in Ups
    BY <1>1, <1>3, Taking DEF Take
  <2>2. Head(up).prompt \in Prompt
    BY <2>1, Contents
  <2>3. Holds(Head(up), Head(up).prompt)
    BY <2>1 DEF Holds
  <2>4. Head(up).prompt \in Held(up)
    BY <1>1, <2>1, <2>2, <2>3, HeldAfter
  <2> QED
    BY <2>1, <2>2, <2>3, <2>4
<1>4. \A p \in Prompt : Admitted(p) \in Downs /\ Admitted(p).kind = "admitted"
  BY DEF Admitted, Downs
<1>5. CASE ServerStarts
  <2> DEFINE p == Head(up).prompt
  <2>1. /\ up # <<>> /\ up' = Tail(up) /\ Head(up) \in Ups /\ Head(up).kind = "start" /\ p \in Prompt
        /\ Holds(Head(up), p) /\ p \in Held(up)
    BY <1>3, <1>5 DEF ServerStarts
  <2>2. \/ Reads(p) /\ waiting' = waiting /\ waiting = <<>>
        \/ waiting' = Append(waiting, p) /\ UNCHANGED <<running, down>>
    BY <1>5 DEF ServerStarts
  <2> HIDE DEF p
  <2>3. CASE Reads(p) /\ waiting' = waiting /\ waiting = <<>>
    <3>1. Head(up) \in StartOf(p)
      BY <2>1 DEF p, StartOf
    <3>2. p \notin ToSet(taken) /\ p \notin Held(down)
      BY <2>1 DEF DeliveryInv, OnePlace
    <3> QED
      BY <1>2, <2>1, <2>3, <3>1, <3>2, ReadLine
  <2>4. CASE waiting' = Append(waiting, p) /\ UNCHANGED <<running, down>>
    BY <1>2, <1>4, <2>1, <2>4, QueueLine
  <2> QED
    BY <2>2, <2>3, <2>4
<1>6. CASE ServerSteers
  <2> DEFINE p == Head(up).prompt
  <2>1. /\ up # <<>> /\ up' = Tail(up) /\ Head(up) \in Ups /\ Head(up).kind = "steer" /\ p \in Prompt
        /\ Holds(Head(up), p) /\ p \in Held(up)
    BY <1>3, <1>6 DEF ServerSteers
  <2>2. \/ running = Head(up).turn /\ waiting' = Append(waiting, p) /\ down' = Append(down, Admitted(p))
        \/ running # Head(up).turn /\ waiting' = waiting /\ down' = Append(down, Refused(p, running = 0))
    BY <1>6 DEF ServerSteers, Send, Admitted, Refused
  <2>3. running' = running
    BY <1>6 DEF ServerSteers
  <2>4. Head(up) \in SteerOf(p)
    BY <2>1 DEF SteerOf
  <2> HIDE DEF p
  <2>5. CASE running = Head(up).turn /\ waiting' = Append(waiting, p) /\ down' = Append(down, Admitted(p))
    BY <1>2, <1>4, <2>1, <2>3, <2>5, QueueLine
  <2>6. CASE running # Head(up).turn /\ waiting' = waiting /\ down' = Append(down, Refused(p, running = 0))
    BY <1>2, <2>1, <2>3, <2>4, <2>6, RefuseLine
  <2> QED
    BY <2>2, <2>5, <2>6
<1>7. CASE ServerReads
  <2> DEFINE p == Head(waiting)
  <2>1. waiting # <<>> /\ Reads(p) /\ waiting' = Tail(waiting) /\ up' = up
    BY <1>7 DEF ServerReads
  <2>2. p \in Prompt /\ p \in ToSet(waiting)
    BY <1>1, <2>1, OnceAfter
  <2>3. p \notin ToSet(taken) /\ p \notin Held(down)
    BY <2>2 DEF DeliveryInv, OnePlace
  <2> HIDE DEF p
  <2>4. p = Head(waiting)
    BY DEF p
  <2> QED
    BY <1>2, <2>1, <2>2, <2>3, <2>4, ReadLine
<1> QED
  BY <1>5, <1>6, <1>7

(* What ends a turn, or the server, is about no prompt; a stop loses those  *)
(* that were waiting.                                                       *)
LEMMA EndLine ==
    ASSUME DeliveryInv, Turns, NEW i \in Prompt, NEW j \in Prompt, Ahead(i, j),
           ServerStops \/ ServerSpeaks \/ ServerCompletes \/ ServerExits
    PROVE  Ahead(i, j)'
<1>1. Types /\ up \in Seq(Ups) /\ down \in Seq(Downs)
  BY DEF DeliveryInv, Types
<1>2. /\ UNCHANGED <<op, echoed>> /\ lost \subseteq lost' /\ running' \in {running, 0}
      /\ waiting' = waiting \/ (waiting' = <<>> /\ ToSet(waiting) \subseteq lost')
  BY DEF ServerStops, ServerSpeaks, ServerCompletes, ServerExits, tab, history, codex, server
<1>3. Keeps(down, down', LetterOf(i) \cup LetterOf(j))
  <2>1. PICK k \in {"completed", "output", "exit"} : down' = Append(down, [kind |-> k])
    BY DEF ServerStops, ServerSpeaks, ServerCompletes, ServerExits, Send
  <2> DEFINE m == [kind |-> k]
  <2>2. m \in Downs /\ m.kind \notin {"refused", "echo"}
    BY <2>1 DEF Downs
  <2> HIDE DEF m
  <2>3. down' = Append(down, m)
    BY <2>1 DEF m
  <2>4. m \notin LetterOf(i) \cup LetterOf(j)
    BY <2>2, Letters
  <2> QED
    BY <1>1, <2>2, <2>3, <2>4, KeepsBehind
<1>4. Keeps(up, up', SendOf(i) \cup SendOf(j))
  <2>1. CASE up' = up
    BY <2>1, KeepsSame
  <2>2. CASE ServerStops
    <3>1. up # <<>> /\ up' = Tail(up) /\ Head(up).kind = "stop"
      BY <2>2 DEF ServerStops, Take
    <3>2. Head(up) \notin SendOf(i) \cup SendOf(j)
      BY <3>1, Letters
    <3> QED
      BY <1>1, <3>1, <3>2, KeepsAfter
  <2> QED
    BY <2>1, <2>2 DEF ServerSpeaks, ServerCompletes, ServerExits
<1>5. Done(i) => Done(i)'
  BY <1>2 DEF Done
<1>6. CASE waiting' # waiting /\ i \in ToSet(waiting)
  BY <1>2, <1>6, ThenAhead DEF Done
<1>7. CASE waiting' = waiting \/ i \notin ToSet(waiting)
  <2>1. i \in ToSet(waiting) => i \in ToSet(waiting')
    BY <1>7
  <2>2. Led(waiting, {i}, {j}) => Led(waiting', {i}, {j})
    <3>1. CASE waiting' = waiting
      BY <3>1
    <3>2. CASE waiting' = <<>>
      BY <3>2 DEF Led
    <3> QED
      BY <1>2, <3>1, <3>2
  <2>3. Has(up, LiveOf(j)') => Has(up, LiveOf(j))
    <3>1. CASE running' = running
      <4>1. LiveOf(j)' = LiveOf(j)
        BY <3>1 DEF LiveOf, SteerOf
      <4> QED
        BY <4>1
    <3>2. CASE running' = 0
      BY <3>2, NoLiveSteer
    <3> QED
      BY <1>2, <3>1, <3>2
  <2> QED
    BY <1>2, <1>3, <1>4, <1>5, <2>1, <2>2, <2>3, CalmStep
<1> QED
  BY <1>6, <1>7

(* Prompts in order in a queue.                                             *)
LEMMA PrecedesBehind ==
    ASSUME NEW s \in Seq(Prompt), NEW p \in Prompt, NEW i, NEW j, Precedes(Append(s, p), i, j)
    PROVE  Precedes(s, i, j) \/ (j = p /\ i \in ToSet(s))
<1> DEFINE t == Append(s, p)
           n == Len(s)
<1>1. /\ n \in Nat /\ DOMAIN s = 1..n /\ DOMAIN t = 1..(n + 1)
      /\ (\A k \in 1..n : t[k] = s[k]) /\ t[n + 1] = p
  BY AppendAdds
<1>2. PICK a, b \in DOMAIN t : a < b /\ t[a] = i /\ t[b] = j
  BY DEF Precedes
<1> HIDE DEF t, n
<1>3. a \in 1..n /\ (b \in 1..n \/ b = n + 1)
  BY <1>1, <1>2
<1>4. i \in ToSet(s)
  BY <1>1, <1>2, <1>3 DEF ToSet
<1>5. CASE b \in 1..n
  BY <1>1, <1>2, <1>3, <1>5 DEF Precedes
<1>6. CASE b = n + 1
  BY <1>1, <1>2, <1>4, <1>6
<1> QED
  BY <1>3, <1>5, <1>6

(* The order of what is left is the order there was.                        *)
LEMMA PrecedesAfter ==
    ASSUME NEW s \in Seq(Prompt), s # <<>>, NEW i, NEW j, Precedes(Tail(s), i, j)
    PROVE  Precedes(s, i, j)
<1> DEFINE t == Tail(s)
           n == Len(s)
<1>1. /\ n \in Nat \ {0} /\ DOMAIN s = 1..n /\ DOMAIN t = 1..(n - 1)
      /\ \A k \in 1..(n - 1) : t[k] = s[k + 1]
  BY TailLeaves
<1>2. PICK a, b \in DOMAIN t : a < b /\ t[a] = i /\ t[b] = j
  BY DEF Precedes
<1> HIDE DEF t, n
<1>3. a + 1 \in 1..n /\ b + 1 \in 1..n /\ a + 1 < b + 1
  BY <1>1, <1>2
<1>4. s[a + 1] = i /\ s[b + 1] = j
  BY <1>1, <1>2
<1> QED
  BY <1>1, <1>3, <1>4 DEF Precedes

(* Of two in order, each is in the queue, and they differ.                  *)
LEMMA PrecedesOnce ==
    ASSUME NEW s, Once(s), DOMAIN s \subseteq Nat, NEW i, NEW j, Precedes(s, i, j)
    PROVE  i # j /\ i \in ToSet(s) /\ j \in ToSet(s)
<1>1. PICK a, b \in DOMAIN s : a < b /\ s[a] = i /\ s[b] = j
  BY DEF Precedes
<1>2. a # b
  BY <1>1
<1> QED
  BY <1>1, <1>2 DEF Once, ToSet

(* The front comes before the others.                                       *)
LEMMA HeadPrecedes ==
    ASSUME NEW s \in Seq(Prompt), NEW j \in ToSet(s), j # Head(s)
    PROVE  s # <<>> /\ Precedes(s, Head(s), j)
<1>1. PICK b \in DOMAIN s : s[b] = j
  BY DEF ToSet
<1>2. s # <<>>
  BY <1>1
<1>3. Head(s) = s[1] /\ Len(s) \in Nat \ {0} /\ DOMAIN s = 1..Len(s)
  BY <1>2, TailLeaves
<1>4. 1 \in DOMAIN s /\ 1 < b
  BY <1>1, <1>3
<1> QED
  BY <1>1, <1>2, <1>3, <1>4 DEF Precedes

(* A prompt steered behind the queue: those in it are over, or with the     *)
(* server, or before it on the way up; or a refusal is on its way for want  *)
(* of a turn, and then the turn it is steered into is over.                 *)
LEMMA SteerBehind ==
    ASSUME DeliveryInv, Turns, NEW p \in Prompt, SubmitSteers(p), p \notin echoed,
           NEW i \in Prompt, i # p, Place(i)
    PROVE  Ahead(i, p)'
<1>1. Types /\ up \in Seq(Ups) /\ current \in Nat /\ running \in Nat
  BY DEF DeliveryInv, Types
<1>2. /\ up' = Append(up, Steer(p, current)) /\ op' = [op EXCEPT ![p] = "retry"] /\ current # 0
      /\ UNCHANGED <<down, waiting, running, echoed, lost>>
  BY DEF SubmitSteers, server
<1>3. p \notin Held(up) \cup Held(down) \cup Named(down) \cup ToSet(waiting)
  BY DEF SubmitSteers, DeliveryInv, Origins
<1>4. Steer(p, current) \in Ups /\ Steer(p, current).kind = "steer" /\ Steer(p, current).prompt = p
      /\ Steer(p, current).turn = current
  BY <1>1, Kinds DEF Steer
<1>5. /\ ~Has(up, StartOf(p)) /\ ~Has(up, SteerOf(p)) /\ ~Has(down, RefusalOf(p)) /\ ~Has(down, EchoOf(p))
      /\ ~Has(waiting, {p})
  BY <1>1, <1>3, Whereabouts
<1>6. /\ EchoOf(p)' = EchoOf(p) /\ StartOf(p)' = StartOf(p) /\ SteerOf(p)' = SteerOf(p)
      /\ AgainOf(p)' \subseteq RefusalOf(p)
  BY DEF EchoOf, StartOf, SteerOf, AgainOf, RefusalOf
<1>7. op'[i] = op[i]
  BY <1>1, <1>2 DEF Types
<1>8. /\ AgainOf(i)' = AgainOf(i) /\ ToldOf(i)' = ToldOf(i) /\ StartOf(i)' = StartOf(i) /\ SendOf(i)' = SendOf(i)
  BY <1>7 DEF AgainOf, ToldOf, StartOf, SendOf, SteerOf, EchoOf, RefusalOf
<1>9. Over(i) <=> Over(i)'
  BY <1>2, <1>8 DEF Over, Done
<1>10. Led(down', ToldOf(i)', EchoOf(p)') /\ Led(waiting', {i}, {p})
  BY <1>2, <1>5, <1>6, LedAbsent
<1>11. Led(down', AgainOf(i)', AgainOf(p)')
  <2>1. ~Has(down', AgainOf(p)')
    BY <1>2, <1>5, <1>6 DEF Has
  <2> QED
    BY <2>1, LedAbsent
<1>12. Led(up', StartOf(i)', StartOf(p)')
  <2>1. Steer(p, current) \notin StartOf(p)
    BY <1>4 DEF StartOf
  <2>2. ~Has(up', StartOf(p))
    BY <1>1, <1>2, <1>4, <1>5, <2>1, HasBehind
  <2> QED
    BY <1>6, <2>2, LedAbsent
<1>13. (\/ Over(i) \/ i \in ToSet(waiting) \/ Led(up, SendOf(i), SteerOf(p))
        \/ ~Has(up, LiveOf(p)) /\ (Has(up, StartOf(i)) \/ Has(down, AgainOf(i))))'
  <2>1. CASE Over(i) \/ i \in ToSet(waiting)
    BY <1>2, <1>9, <2>1
  <2>2. CASE Has(up, SendOf(i))
    <3>1. Led(up, SendOf(i), SteerOf(p))
      BY <1>5, LedAbsent
    <3>2. Led(up', SendOf(i), SteerOf(p))
      BY <1>1, <1>2, <1>4, <2>2, <3>1, HasBehind
    <3> QED
      BY <1>6, <1>8, <3>2
  <2>3. CASE Has(down, AgainOf(i))
    <3>1. running # current
      <4>1. PICK d \in DOMAIN down : down[d] \in AgainOf(i)
        BY <2>3 DEF Has
      <4>2. down[d].kind = "refused" /\ down[d].noTurn
        BY <4>1 DEF AgainOf, RefusalOf
      <4>3. running = 0 \/ \E e \in DOMAIN down : IsStart(down[e]) /\ down[e].turn = running
        BY <4>2 DEF Turns, TurnsTold, ToldOfTurn
      <4> QED
        BY <1>2, <4>3 DEF Turns, TurnsTold, StartsBelow
    <3>2. Steer(p, current) \notin LiveOf(p) /\ LiveOf(p) \subseteq SteerOf(p)
      BY <1>4, <3>1 DEF LiveOf
    <3>3. ~Has(up, LiveOf(p))
      BY <1>5, <3>2 DEF Has
    <3>4. ~Has(up', LiveOf(p))
      BY <1>1, <1>2, <1>4, <3>2, <3>3, HasBehind
    <3>5. LiveOf(p)' = LiveOf(p)
      BY <1>2 DEF LiveOf, SteerOf
    <3> QED
      BY <1>2, <1>8, <2>3, <3>4, <3>5
  <2> QED
    BY <2>1, <2>2, <2>3 DEF Place
<1> QED
  BY <1>2, <1>10, <1>11, <1>12, <1>13 DEF Ahead

(* What an action that does not change the queue leaves of it.              *)
LEMMA QueueStays ==
    ASSUME \/ \E p \in Prompt : SubmitStarts(p) \/ SteerTimesOut(p) \/ SteerNotSent(p)
           \/ Interrupt \/ TurnStarted \/ Output \/ TurnCompleted \/ SteerAdmitted \/ SteerRefused
           \/ ServerStarts \/ ServerSteers \/ ServerStops \/ ServerReads \/ ServerSpeaks
           \/ ServerCompletes \/ ServerExits
    PROVE  pending' = pending
  BY DEF SubmitStarts, SteerTimesOut, SteerNotSent, Interrupt, TurnStarted, Output, TurnCompleted,
     SteerAdmitted, SteerRefused, ServerStarts, ServerSteers, ServerStops, ServerReads, ServerSpeaks,
     ServerCompletes, ServerExits, tab, delivery

(* Whatever happens, the queue stays in line.                               *)
LEMMA LineStep ==
    ASSUME DeliveryInv, DeliveryInv', EchoOnce, Turns, Placed, Line, [Next]_vars
    PROVE  Line'
<1>1. Types /\ pending \in Seq(Prompt) /\ Once(pending) /\ DOMAIN pending \subseteq Nat
  <2>1. Types /\ Kept
    BY DEF DeliveryInv
  <2>2. pending \in Seq(Prompt)
    BY <2>1 DEF Types
  <2>3. DOMAIN pending \subseteq Nat
    BY <2>2
  <2> QED
    BY <2>1, <2>2, <2>3 DEF Kept
<1> SUFFICES ASSUME NEW i \in Prompt, NEW j \in Prompt, Precedes(pending', i, j) PROVE Ahead(i, j)'
  BY DEF Line
<1>2. ASSUME Precedes(pending, i, j)
      PROVE  Ahead(i, j) /\ i # j /\ i \in ToSet(pending) /\ j \in ToSet(pending) /\ i \in Accepted /\ j \in Accepted
  BY <1>1, <1>2, PrecedesOnce DEF Line, Accepted
<1>3. ASSUME NEW p \in Prompt, SubmitSteers(p) PROVE Ahead(i, j)'
  <2>1. pending' = Append(pending, p) /\ p \notin Accepted
    BY <1>3 DEF SubmitSteers
  <2>2. CASE Precedes(pending, i, j)
    BY <1>2, <1>3, <2>2, UserLine
  <2>3. CASE j = p /\ i \in ToSet(pending)
    BY <1>3, <2>1, <2>3, SteerBehind DEF Placed, Accepted, DeliveryInv, Origins
  <2> QED
    BY <1>1, <2>1, <2>2, <2>3, PrecedesBehind
<1>4. ASSUME NEW p \in Prompt, SubmitStarts(p) PROVE Ahead(i, j)'
  BY <1>2, <1>4, QueueStays, UserLine
<1>5. ASSUME NEW p \in Prompt, SteerTimesOut(p) \/ SteerNotSent(p) PROVE Ahead(i, j)'
  BY <1>2, <1>5, QueueStays, DeadlineLine
<1>6. CASE Interrupt
  BY <1>2, <1>6, QueueStays, UserLine
<1>7. CASE TurnStarted \/ Output \/ TurnCompleted \/ SteerAdmitted
  BY <1>2, <1>7, QueueStays, ToldLine
<1>8. CASE Echo
  <2>1. pending' = pending \/ (pending # <<>> /\ pending' = Tail(pending))
    BY <1>8 DEF Echo, FrontEcho
  <2>2. Precedes(pending, i, j)
    BY <1>1, <2>1, PrecedesAfter
  <2> QED
    BY <1>2, <1>8, <2>2, EchoLine
<1>9. CASE SteerRefused
  BY <1>2, <1>9, QueueStays, RefusedLine
<1>10. CASE HostExited
  BY <1>10 DEF HostExited, Precedes
<1>11. CASE ServerStarts \/ ServerSteers \/ ServerReads
  BY <1>2, <1>11, QueueStays, ServerLine
<1>12. CASE ServerStops \/ ServerSpeaks \/ ServerCompletes \/ ServerExits
  BY <1>2, <1>12, QueueStays, EndLine
<1>13. CASE UNCHANGED vars
  <2>1. UNCHANGED <<pending, up, down, waiting, op, running, lost, echoed>>
    BY <1>13 DEF vars, delivery, codex, server, history
  <2>2. Ahead(i, j)
    BY <1>2, <2>1
  <2>3. /\ Over(i)' <=> Over(i)
        /\ Done(i)' <=> Done(i)
    BY <2>1 DEF Over, Done, ToldOf, AgainOf, RefusalOf, EchoOf
  <2>4. /\ AgainOf(i)' = AgainOf(i) /\ AgainOf(j)' = AgainOf(j) /\ ToldOf(i)' = ToldOf(i) /\ EchoOf(j)' = EchoOf(j)
        /\ StartOf(i)' = StartOf(i) /\ StartOf(j)' = StartOf(j) /\ SendOf(i)' = SendOf(i)
        /\ SteerOf(j)' = SteerOf(j) /\ LiveOf(j)' = LiveOf(j)
    BY <2>1 DEF ToldOf, AgainOf, RefusalOf, EchoOf, StartOf, SteerOf, SendOf, LiveOf
  <2> QED
    BY <2>1, <2>2, <2>3, <2>4 DEF Ahead
<1> QED
  BY <1>3, <1>4, <1>5, <1>6, <1>7, <1>8, <1>9, <1>10, <1>11, <1>12, <1>13 DEF Next, TabHandles

(* A step that moves nothing of a prompt leaves it with a place.            *)
LEMMA PlaceStays ==
    ASSUME NEW p \in Prompt, Place(p),
           \A A \in SUBSET LetterOf(p) : Has(down, A) => Has(down', A),
           Has(up, SendOf(p)) => Has(up', SendOf(p)) \/ Place(p)',
           p \in ToSet(waiting) => p \in ToSet(waiting') \/ Place(p)',
           Done(p) => Done(p)', op'[p] = "retry" => op[p] = "retry"
    PROVE  Place(p)'
<1>1. /\ ToldOf(p) \subseteq ToldOf(p)' /\ AgainOf(p) \subseteq AgainOf(p)' \cup ToldOf(p)'
      /\ AgainOf(p) \in SUBSET LetterOf(p) /\ ToldOf(p) \in SUBSET LetterOf(p)
  BY RetryGone
<1>2. SendOf(p)' = SendOf(p)
  BY DEF SendOf, StartOf, SteerOf
<1>3. CASE Over(p)
  <2>1. CASE Done(p)
    BY <2>1 DEF Place, Over
  <2>2. CASE Has(down, ToldOf(p))
    <3>1. Has(down', ToldOf(p)')
      BY <1>1, <2>2, LedWeaker
    <3> QED
      BY <3>1 DEF Place, Over
  <2> QED
    BY <1>3, <2>1, <2>2 DEF Over
<1>4. CASE p \in ToSet(waiting)
  BY <1>4 DEF Place
<1>5. CASE Has(up, SendOf(p))
  BY <1>2, <1>5 DEF Place
<1>6. CASE Has(down, AgainOf(p))
  <2>1. Has(down', AgainOf(p))
    BY <1>1, <1>6
  <2>2. Has(down', AgainOf(p)') \/ Has(down', ToldOf(p)')
    BY <1>1, <2>1 DEF Has
  <2> QED
    BY <2>2 DEF Place, Over
<1> QED
  BY <1>3, <1>4, <1>5, <1>6 DEF Place

(* A message more takes nothing away.                                       *)
LEMMA HasMore ==
    ASSUME NEW S, NEW s \in Seq(S), NEW m \in S
    PROVE  \A A : Has(s, A) => Has(Append(s, m), A)
<1> SUFFICES ASSUME NEW A, Has(s, A) PROVE Has(Append(s, m), A)
  OBVIOUS
<1>1. Has(Append(s, m), A) <=> Has(s, A) \/ m \in A
  BY HasBehind
<1> QED
  BY <1>1

(* What a connection keeps, it has.                                         *)
LEMMA KeepsHas ==
    ASSUME NEW s, NEW t, NEW C, Keeps(s, t, C) PROVE \A A \in SUBSET C : Has(s, A) <=> Has(t, A)
  BY DEF Keeps

(* What the user and the tab leave a prompt's place.                        *)
LEMMA TabPlace ==
    ASSUME DeliveryInv, NEW q \in Prompt, Place(q),
           \/ \E p \in Prompt : SubmitStarts(p) \/ SubmitSteers(p) \/ SteerTimesOut(p) \/ SteerNotSent(p)
           \/ Interrupt \/ TurnStarted \/ Output \/ TurnCompleted \/ SteerAdmitted,
           q \in Accepted
    PROVE  Place(q)'
<1>1. Types /\ up \in Seq(Ups) /\ op \in [Prompt -> {"none", "retry", "plain"}] /\ current \in Nat
  BY DEF DeliveryInv, Types
<1>2. CASE (\E p \in Prompt : SubmitStarts(p) \/ SubmitSteers(p)) \/ Interrupt
  <2>1. UNCHANGED <<down, waiting, echoed, lost>>
    BY <1>2 DEF SubmitStarts, SubmitSteers, Interrupt, server
  <2>2. op'[q] = "retry" => op[q] = "retry"
    BY <1>1, <1>2 DEF SubmitStarts, SubmitSteers, Interrupt, CancelSteeringRetries, codex
  <2>3. \A p \in Prompt : Start(p) \in Ups /\ Steer(p, current) \in Ups /\ Stop(current) \in Ups
    BY <1>1, Kinds
  <2>4. Has(up, SendOf(q)) => Has(up', SendOf(q))
    <3>1. up' = up \/ \E m \in Ups : up' = Append(up, m)
      BY <1>2, <2>3 DEF SubmitStarts, SubmitSteers, Interrupt
    <3> QED
      BY <1>1, <3>1, HasMore
  <2> QED
    BY <2>1, <2>2, <2>4, PlaceStays DEF Done
<1>3. ASSUME NEW p \in Prompt, SteerTimesOut(p) \/ SteerNotSent(p) PROVE Place(q)'
  <2>1. UNCHANGED <<down, waiting, echoed>> /\ op' = [op EXCEPT ![p] = "none"] /\ lost \subseteq lost'
    BY <1>3 DEF SteerTimesOut, TimedOut, GiveUp, SteerNotSent, server
  <2>2. op'[q] = "retry" => op[q] = "retry"
    BY <1>1, <2>1
  <2>3. Has(up, SendOf(q)) => Has(up', SendOf(q)) \/ Place(q)'
    <3>1. CASE SteerTimesOut(p)
      BY <3>1 DEF SteerTimesOut, TimedOut, GiveUp
    <3>2. CASE SteerNotSent(p)
      <4>1. PICK k \in DOMAIN up : up[k].prompt = p /\ up' = RemoveAt(up, k)
        BY <3>2 DEF SteerNotSent
      <4>2. CASE p = q
        BY <3>2, <4>2 DEF SteerNotSent, Place, Over, Done
      <4>3. CASE p # q
        <5>1. up[k] \notin SendOf(q)
          BY <4>1, <4>3, Letters
        <5> QED
          BY <1>1, <4>1, <5>1, HasWithout
      <4> QED
        BY <4>2, <4>3
    <3> QED
      BY <1>3, <3>1, <3>2
  <2> QED
    BY <2>1, <2>2, <2>3, PlaceStays DEF Done
<1>4. CASE TurnStarted \/ Output \/ TurnCompleted \/ SteerAdmitted
  <2> DEFINE k == Head(down).kind
  <2>1. /\ Receive(k) /\ k \in {"started", "output", "completed", "admitted"}
        /\ UNCHANGED <<up, running, waiting, echoed, lost>>
    BY <1>4 DEF TurnStarted, Output, TurnCompleted, SteerAdmitted, Receive, server, history
  <2>2. Head(down) \notin LetterOf(q)
    BY <2>1, Letters
  <2>3. Keeps(down, down', LetterOf(q))
    BY <1>1, <2>1, <2>2, MailAfter
  <2>4. op'[q] \in {op[q], "none"}
    BY <1>1, <1>4 DEF TurnStarted, Output, TurnCompleted, SteerAdmitted, codex
  <2>5. \A A \in SUBSET LetterOf(q) : Has(down, A) => Has(down', A)
    BY <2>3, KeepsHas
  <2> QED
    BY <2>1, <2>4, <2>5, PlaceStays DEF Done
<1> QED
  BY <1>2, <1>3, <1>4

(* A letter about a prompt leaves it a place.                               *)
LEMMA MailPlace ==
    ASSUME DeliveryInv, NEW q \in Prompt, Place(q), Echo \/ SteerRefused
    PROVE  Place(q)'
<1> DEFINE m == Head(down)
           p == m.prompt
<1>1. /\ Receive("echo") \/ Receive("refused")
      /\ UNCHANGED <<running, waiting>> /\ lost \subseteq lost' /\ echoed \subseteq echoed'
      /\ op' = op \/ op' = [op EXCEPT ![p] = "none"]
  BY DEF Echo, SteerRefused, Retry, GiveUp, server, codex
<1>2. Types /\ up \in Seq(Ups)
  BY DEF DeliveryInv, Types
<1>3. /\ down' = Tail(down) /\ m \in Downs /\ m.kind \in {"echo", "refused"}
      /\ \A C : m \notin C => Keeps(down, down', C)
  BY <1>1, <1>2, MailAfter
<1>4. p \in Prompt
  BY <1>3, Contents
<1>5. Start(p) \in Ups
  BY <1>4 DEF Start, Ups
<1>6. \/ up' = up /\ p \in echoed' \cup lost'
      \/ up' = Append(up, Start(p))
  BY DEF Echo, SteerRefused, Retry, GiveUp
<1> HIDE DEF m, p
<1>7. op'[q] = "retry" => op[q] = "retry"
  BY <1>1, <1>2, <1>4 DEF Types
<1>8. CASE p = q
  <2>1. CASE p \in echoed' \cup lost'
    BY <1>8, <2>1 DEF Place, Over, Done
  <2>2. CASE up' = Append(up, Start(p))
    <3>1. Start(p) \in SendOf(q)
      BY <1>8, Letters
    <3>2. Has(up', SendOf(q))
      BY <1>2, <1>5, <2>2, <3>1, HasBehind
    <3>3. SendOf(q)' = SendOf(q)
      BY DEF SendOf, StartOf, SteerOf
    <3> QED
      BY <3>2, <3>3 DEF Place
  <2> QED
    BY <1>6, <2>1, <2>2
<1>9. CASE p # q
  <2>1. m \notin LetterOf(q)
    BY <1>9, Letters DEF p
  <2>2. \A A \in SUBSET LetterOf(q) : Has(down, A) => Has(down', A)
    BY <1>3, <2>1, KeepsHas
  <2>3. Has(up, SendOf(q)) => Has(up', SendOf(q))
    BY <1>2, <1>5, <1>6, HasMore
  <2> QED
    BY <1>1, <1>7, <2>2, <2>3, PlaceStays DEF Done
<1> QED
  BY <1>8, <1>9

(* What the server takes or reads has a place from then on: it is admitted, *)
(* echoed or refused.                                                       *)
LEMMA ServerPlace ==
    ASSUME DeliveryInv, NEW q \in Prompt, Place(q),
           ServerStarts \/ ServerSteers \/ ServerReads
    PROVE  Place(q)'
<1>1. Types /\ up \in Seq(Ups) /\ down \in Seq(Downs) /\ waiting \in Seq(Prompt) /\ running \in Nat
  BY DEF DeliveryInv, Types
<1>2. UNCHANGED <<echoed, lost, op>>
  BY DEF ServerStarts, ServerSteers, ServerReads, tab, codex, history
<1>3. /\ ToldOf(q)' = ToldOf(q) /\ AgainOf(q)' = AgainOf(q) /\ EchoOf(q) \subseteq ToldOf(q)
      /\ RefusalOf(q) \subseteq ToldOf(q) \cup AgainOf(q)
  BY <1>2 DEF ToldOf, AgainOf, EchoOf, RefusalOf
<1>4. ASSUME NEW p \in Prompt, Reads(p)
      PROVE  /\ \A A \in SUBSET LetterOf(q) : Has(down, A) => Has(down', A)
             /\ p = q => Place(q)'
  <2>1. Started(nextTurn) \notin LetterOf(q)
    BY <1>1, Letters DEF Types
  <2>2. \A A \in SUBSET LetterOf(q) : Started(nextTurn) \notin A
    BY <2>1
  <2>3. \A A \in SUBSET LetterOf(q) : Has(down', A) <=> Has(down, A) \/ Echoes(p) \in A
    BY <1>1, <1>4, <2>2, ReadsAdd
  <2>4. ASSUME p = q PROVE Place(q)'
    <3>1. Echoes(p) \in ToldOf(q) /\ ToldOf(q) \in SUBSET LetterOf(q)
      BY <2>4, Letters
    <3>2. Has(down', ToldOf(q)')
      BY <1>3, <2>3, <3>1
    <3> QED
      BY <3>2 DEF Place, Over
  <2> QED
    BY <2>3, <2>4
<1>5. ASSUME up # <<>>, up' = Tail(up), Head(up).prompt # q PROVE Has(up, SendOf(q)) => Has(up', SendOf(q))
  <2>1. Head(up) \notin SendOf(q)
    BY <1>5, Letters
  <2> QED
    BY <1>1, <1>5, <2>1, HasAfter
<1>6. CASE ServerStarts
  <2> DEFINE p == Head(up).prompt
  <2>1. Take("start") /\ up # <<>> /\ up' = Tail(up)
        /\ \/ Reads(p) /\ waiting' = waiting
           \/ waiting' = Append(waiting, p) /\ down' = down
    <3>1. (running = 0 /\ waiting = <<>>) \/ ~(running = 0 /\ waiting = <<>>)
      OBVIOUS
    <3> QED
      BY <1>6, <3>1 DEF ServerStarts, Take
  <2>2. p \in Prompt
    BY <1>1, <2>1, Taking, Contents
  <2> HIDE DEF p
  <2>3. ToSet(waiting) \subseteq ToSet(waiting')
    BY <1>1, <2>1, <2>2, OnceBehind
  <2>4. CASE p = q
    <3>1. CASE Reads(p)
      BY <1>4, <2>2, <2>4, <3>1
    <3>2. CASE waiting' = Append(waiting, p)
      BY <1>1, <2>2, <2>4, <3>2, OnceBehind DEF Place
    <3> QED
      BY <2>1, <3>1, <3>2
  <2>5. CASE p # q
    <3>1. \A A \in SUBSET LetterOf(q) : Has(down, A) => Has(down', A)
      BY <1>4, <2>1, <2>2
    <3>2. Has(up, SendOf(q)) => Has(up', SendOf(q))
      BY <1>5, <2>1, <2>5 DEF p
    <3> QED
      BY <1>2, <2>3, <3>1, <3>2, PlaceStays DEF Done
  <2> QED
    BY <2>4, <2>5
<1>7. CASE ServerSteers
  <2> DEFINE p == Head(up).prompt
  <2>1. Take("steer") /\ up # <<>> /\ up' = Tail(up)
        /\ \/ waiting' = Append(waiting, p) /\ down' = Append(down, Admitted(p))
           \/ waiting' = waiting /\ down' = Append(down, Refused(p, running = 0))
    BY <1>7 DEF ServerSteers, Take, Send, Admitted, Refused
  <2>2. p \in Prompt
    BY <1>1, <2>1, Taking, Contents
  <2> HIDE DEF p
  <2>3. (running = 0) \in BOOLEAN
    OBVIOUS
  <2>4. PICK r : r = Refused(p, running = 0)
    OBVIOUS
  <2> DEFINE a == Admitted(p)
  <2>9. a \in Downs /\ r \in Downs /\ r.kind = "refused" /\ r.prompt = p
    BY <1>1, <2>2, <2>3, <2>4, Answers
  <2>10. down' = Append(down, a) \/ down' = Append(down, r)
    BY <2>1, <2>4
  <2>11. r \in RefusalOf(p)
    BY <2>9 DEF RefusalOf
  <2> HIDE DEF a
  <2>5. ToSet(waiting) \subseteq ToSet(waiting')
    BY <1>1, <2>1, <2>2, OnceBehind
  <2>6. \A A : Has(down, A) => Has(down', A)
    BY <1>1, <2>9, <2>10, HasMore
  <2>7. CASE p = q
    <3>1. CASE waiting' = Append(waiting, p)
      BY <1>1, <2>2, <2>7, <3>1, OnceBehind DEF Place
    <3>2. CASE down' = Append(down, r)
      <4>1. r \in ToldOf(q) \/ r \in AgainOf(q)
        BY <1>3, <2>7, <2>11
      <4>2. \A A : r \in A => Has(down', A)
        BY <1>1, <2>9, <3>2, HasBehind
      <4>3. Has(down', ToldOf(q)) \/ Has(down', AgainOf(q))
        BY <4>1, <4>2
      <4> QED
        BY <1>3, <4>3 DEF Place, Over
    <3> QED
      BY <2>1, <2>4, <3>1, <3>2
  <2>8. CASE p # q
    <3>1. Has(up, SendOf(q)) => Has(up', SendOf(q))
      BY <1>5, <2>1, <2>8 DEF p
    <3> QED
      BY <1>2, <2>5, <2>6, <3>1, PlaceStays DEF Done
  <2> QED
    BY <2>7, <2>8
<1>8. CASE ServerReads
  <2> DEFINE p == Head(waiting)
  <2>1. waiting # <<>> /\ waiting' = Tail(waiting) /\ Reads(p) /\ up' = up
    BY <1>8 DEF ServerReads
  <2>2. p \in Prompt /\ ToSet(waiting) = ToSet(waiting') \cup {p}
    BY <1>1, <2>1, OnceAfter
  <2> HIDE DEF p
  <2>3. /\ \A A \in SUBSET LetterOf(q) : Has(down, A) => Has(down', A)
        /\ p = q => Place(q)'
    BY <1>4, <2>1, <2>2
  <2> QED
    BY <1>2, <2>1, <2>2, <2>3, PlaceStays DEF Done
<1> QED
  BY <1>6, <1>7, <1>8

(* What a stop takes from the server is lost; the end of a turn, of the     *)
(* host, and an output take nothing.                                        *)
LEMMA EndPlace ==
    ASSUME DeliveryInv, NEW q \in Prompt, Place(q),
           ServerStops \/ ServerSpeaks \/ ServerCompletes \/ ServerExits
    PROVE  Place(q)'
<1>1. Types /\ up \in Seq(Ups) /\ down \in Seq(Downs) /\ waiting \in Seq(Prompt) /\ running \in Nat
  BY DEF DeliveryInv, Types
<1>2. /\ UNCHANGED <<echoed, op>> /\ lost \subseteq lost'
      /\ waiting' = waiting \/ ToSet(waiting) \subseteq lost'
  BY DEF ServerStops, ServerSpeaks, ServerCompletes, ServerExits, tab, codex, history, server
<1>3. \A k \in {"completed", "output", "exit"} : [kind |-> k] \in Downs
  BY DEF Downs
<1>4. \E m \in Downs : down' = Append(down, m)
  BY <1>3 DEF ServerStops, ServerSpeaks, ServerCompletes, ServerExits, Send
<1>5. \A A : Has(down, A) => Has(down', A)
  BY <1>1, <1>4, HasMore
<1>6. Has(up, SendOf(q)) => Has(up', SendOf(q))
  <2>1. CASE up' = up
    BY <2>1
  <2>2. CASE ServerStops
    <3>1. up # <<>> /\ up' = Tail(up) /\ Head(up).kind = "stop"
      BY <2>2 DEF ServerStops, Take
    <3>2. Head(up) \notin SendOf(q)
      BY <3>1, Letters
    <3> QED
      BY <1>1, <3>1, <3>2, HasAfter
  <2> QED
    BY <2>1, <2>2 DEF ServerSpeaks, ServerCompletes, ServerExits
<1>7. ASSUME q \in ToSet(waiting), q \notin ToSet(waiting') PROVE Place(q)'
  BY <1>2, <1>7 DEF Place, Over, Done
<1>8. Done(q) => Done(q)'
  BY <1>2 DEF Done
<1> QED
  BY <1>2, <1>5, <1>6, <1>7, <1>8, PlaceStays

(* Every queued prompt keeps a place.                                       *)
LEMMA PlacedStep ==
    ASSUME DeliveryInv, Placed, [Next]_vars PROVE Placed'
<1>1. Types /\ pending \in Seq(Prompt) /\ up \in Seq(Ups) /\ current \in Nat
  BY DEF DeliveryInv, Types
<1> SUFFICES ASSUME NEW q \in ToSet(pending') PROVE Place(q)'
  BY DEF Placed
<1>2. ASSUME q \in ToSet(pending) PROVE Place(q) /\ q \in Prompt /\ q \in Accepted
  BY <1>1, <1>2 DEF Placed, ToSet, Accepted
<1>3. ASSUME NEW p \in Prompt, SubmitSteers(p) PROVE Place(q)'
  <2>1. ToSet(pending') = ToSet(pending) \cup {p}
    BY <1>1, <1>3, OnceBehind DEF SubmitSteers
  <2>2. CASE q \in ToSet(pending)
    BY <1>2, <1>3, <2>2, TabPlace
  <2>3. CASE q = p
    <3>1. up' = Append(up, Steer(p, current)) /\ Steer(p, current) \in Ups
      BY <1>1, <1>3, Kinds DEF SubmitSteers
    <3>2. Steer(p, current) \in SendOf(p)
      BY <3>1 DEF SendOf, SteerOf, Steer
    <3>3. Has(up', SendOf(p))
      BY <1>1, <3>1, <3>2, HasBehind
    <3>4. SendOf(p)' = SendOf(p)
      BY DEF SendOf, StartOf, SteerOf
    <3> QED
      BY <2>3, <3>3, <3>4 DEF Place
  <2> QED
    BY <2>1, <2>2, <2>3
<1>4. ASSUME NEW p \in Prompt, SubmitStarts(p) \/ SteerTimesOut(p) \/ SteerNotSent(p) PROVE Place(q)'
  BY <1>2, <1>4, QueueStays, TabPlace
<1>5. CASE Interrupt \/ TurnStarted \/ Output \/ TurnCompleted \/ SteerAdmitted
  BY <1>2, <1>5, QueueStays, TabPlace
<1>6. CASE Echo
  <2>1. pending' = pending \/ (pending # <<>> /\ pending' = Tail(pending))
    BY <1>6 DEF Echo, FrontEcho
  <2>2. q \in ToSet(pending)
    BY <1>1, <2>1, OnceAfter
  <2> QED
    BY <1>2, <1>6, <2>2, MailPlace
<1>7. CASE SteerRefused
  BY <1>2, <1>7, QueueStays, MailPlace
<1>8. CASE HostExited
  BY <1>8 DEF HostExited, ToSet
<1>9. CASE ServerStarts \/ ServerSteers \/ ServerReads
  BY <1>2, <1>9, QueueStays, ServerPlace
<1>10. CASE ServerStops \/ ServerSpeaks \/ ServerCompletes \/ ServerExits
  BY <1>2, <1>10, QueueStays, EndPlace
<1>11. CASE UNCHANGED vars
  <2>1. UNCHANGED <<pending, up, down, waiting, op, lost, echoed>>
    BY <1>11 DEF vars, delivery, codex, server, history
  <2>2. Place(q)
    BY <1>2, <2>1
  <2> QED
    BY <2>1, <2>2 DEF Place, Over, Done, ToldOf, AgainOf, RefusalOf, EchoOf, SendOf, StartOf, SteerOf
<1> QED
  BY <1>3, <1>4, <1>5, <1>6, <1>7, <1>8, <1>9, <1>10, <1>11 DEF Next, TabHandles

-----------------------------------------------------------------------------
(* Echoes on a connection.                                                  *)
LEMMA EchoesBehind ==
    ASSUME NEW s \in Seq(Downs), NEW m \in Downs, EchoAlone(s),
           m.kind = "echo" => m.prompt \notin Named(s)
    PROVE  EchoAlone(Append(s, m))
<1> DEFINE t == Append(s, m)
           n == Len(s)
<1>1. /\ n \in Nat /\ DOMAIN s = 1..n /\ DOMAIN t = 1..(n + 1)
      /\ (\A k \in 1..n : t[k] = s[k]) /\ t[n + 1] = m
  BY AppendAdds
<1>2. m.kind = "echo" => m.prompt \in Prompt
  BY Contents
<1> HIDE DEF t, n
<1>3. \A k \in 1..(n + 1) : k \in 1..n \/ k = n + 1
  BY <1>1
<1>4. \A k \in 1..n : m.kind = "echo" => ~(t[k].kind = "echo" /\ t[k].prompt = m.prompt)
  BY <1>1, <1>2 DEF Named
<1>5. EchoAlone(t)
  BY <1>1, <1>3, <1>4 DEF EchoAlone
<1> QED
  BY <1>5 DEF t

(* The first echo taken is the only one of its prompt.                      *)
LEMMA EchoesAfter ==
    ASSUME NEW s \in Seq(Downs), s # <<>>, EchoAlone(s)
    PROVE  EchoAlone(Tail(s)) /\ (Head(s).kind = "echo" => Head(s).prompt \notin Named(Tail(s)))
<1> DEFINE t == Tail(s)
           n == Len(s)
           h == Head(s)
<1>1. /\ h = s[1] /\ n \in Nat \ {0}
      /\ DOMAIN s = 1..n /\ DOMAIN t = 1..(n - 1) /\ \A k \in 1..(n - 1) : t[k] = s[k + 1]
  BY TailLeaves
<1> HIDE DEF t, n, h
<1>2. \A k \in 1..(n - 1) : k + 1 \in 1..n /\ k + 1 # 1 /\ 1 \in 1..n
  BY <1>1
<1>3. \A j, k \in 1..(n - 1) : j + 1 = k + 1 => j = k
  BY <1>1
<1>4. EchoAlone(t)
  <2> SUFFICES ASSUME NEW j \in 1..(n - 1), NEW k \in 1..(n - 1),
                      t[j].kind = "echo", t[k].kind = "echo", t[j].prompt = t[k].prompt
               PROVE  j = k
    BY <1>1 DEF EchoAlone
  <2>1. j + 1 = k + 1
    BY <1>1, <1>2 DEF EchoAlone
  <2> QED
    BY <1>3, <2>1
<1>5. ASSUME h.kind = "echo", h.prompt \in Named(t) PROVE FALSE
  <2>1. PICK k \in 1..(n - 1) : t[k].kind = "echo" /\ t[k].prompt = h.prompt
    BY <1>1, <1>5 DEF Named
  <2>2. 1 = k + 1
    BY <1>1, <1>2, <1>5, <2>1 DEF EchoAlone
  <2> QED
    BY <1>2, <2>2
<1> QED
  BY <1>4, <1>5 DEF t, h

(* An echo is sent of what has been read, once, and taken once.             *)
LEMMA EchoOnceStep ==
    ASSUME DeliveryInv, EchoOnce, [Next]_vars PROVE EchoOnce'
<1>1. Types /\ down \in Seq(Downs) /\ running \in Nat
  BY DEF DeliveryInv, Types
<1>2. ASSUME UNCHANGED <<down, echoed, taken>> PROVE EchoOnce'
  BY <1>2 DEF EchoOnce
<1>3. ASSUME NEW m \in Downs, m.kind # "echo", down' = Append(down, m), UNCHANGED <<echoed, taken>>
      PROVE  EchoOnce'
  <2>1. EchoAlone(down')
    BY <1>1, <1>3, EchoesBehind DEF EchoOnce
  <2>2. Named(down') = Named(down)
    BY <1>1, <1>3, Sending
  <2> QED
    BY <1>3, <2>1, <2>2 DEF EchoOnce
<1>4. ASSUME NEW k, k # "echo", Receive(k), UNCHANGED <<echoed, taken>> PROVE EchoOnce'
  <2>1. down # <<>> /\ down' = Tail(down)
    BY <1>4 DEF Receive
  <2>2. EchoAlone(down')
    BY <1>1, <2>1, EchoesAfter DEF EchoOnce
  <2>3. Named(down') \subseteq Named(down)
    BY <1>1, <1>4, Received
  <2> QED
    BY <1>4, <2>2, <2>3 DEF EchoOnce
<1>5. ASSUME NEW p \in Prompt, Reads(p), p \notin ToSet(taken), echoed' = echoed PROVE EchoOnce'
  <2>1. Named(down') = Named(down) \cup {p} /\ ToSet(taken') = ToSet(taken) \cup {p}
    BY <1>5, Reading
  <2>2. down' = down \o (IF running = 0 THEN <<Started(nextTurn)>> ELSE <<>>) \o <<Echoes(p)>>
    BY <1>5 DEF Reads, Started, Echoes
  <2>3. /\ Started(nextTurn) \in Downs /\ Echoes(p) \in Downs
        /\ Started(nextTurn).kind = "started" /\ Echoes(p).kind = "echo" /\ Echoes(p).prompt = p
    BY <1>1, Answers DEF Types
  <2>4. PICK d : d = down \o (IF running = 0 THEN <<Started(nextTurn)>> ELSE <<>>)
    OBVIOUS
  <2>5. d \in Seq(Downs) /\ EchoAlone(d) /\ Named(d) = Named(down)
    <3>1. CASE running = 0
      <4>1. d = Append(down, Started(nextTurn))
        BY <1>1, <2>3, <2>4, <3>1, ConcatOne
      <4>2. Started(nextTurn).kind # "echo"
        BY <2>3
      <4>3. Named(d) = Named(down)
        <5>1. PICK m \in Downs : m = Started(nextTurn)
          BY <2>3
        <5>2. Named(Append(down, m)) = Named(down) \cup {q \in Prompt : m.kind = "echo" /\ m.prompt = q}
          BY <1>1, HeldBehind
        <5>3. {q \in Prompt : m.kind = "echo" /\ m.prompt = q} = {}
          BY <4>2, <5>1
        <5> QED
          BY <4>1, <5>1, <5>2, <5>3
      <4> QED
        BY <1>1, <2>3, <4>1, <4>2, <4>3, EchoesBehind, AppendAdds DEF EchoOnce
    <3>2. CASE running # 0
      <4>1. d = down \o <<>>
        BY <2>4, <3>2
      <4>2. d = down
        BY <1>1, <2>3, <4>1, ConcatOne
      <4> QED
        BY <1>1, <4>2 DEF EchoOnce
    <3> QED
      BY <3>1, <3>2
  <2>6. down' = Append(d, Echoes(p))
    BY <2>2, <2>3, <2>4, <2>5, ConcatOne
  <2>7. p \notin Named(down)
    BY <1>5 DEF EchoOnce
  <2>8. EchoAlone(down')
    BY <2>3, <2>5, <2>6, <2>7, EchoesBehind
  <2>9. p \notin echoed
    BY <1>5 DEF EchoOnce
  <2> QED
    BY <1>5, <2>1, <2>8, <2>9 DEF EchoOnce
<1>6. CASE (\E p \in Prompt : SubmitStarts(p) \/ SubmitSteers(p) \/ SteerTimesOut(p) \/ SteerNotSent(p)) \/ Interrupt
  <2>1. UNCHANGED <<down, echoed, taken>>
    BY <1>6 DEF SubmitStarts, SubmitSteers, SteerTimesOut, SteerNotSent, Interrupt, server
  <2> QED
    BY <1>2, <2>1
<1>7. CASE TurnStarted \/ Output \/ TurnCompleted \/ SteerAdmitted \/ SteerRefused \/ HostExited
  <2>1. \E k \in {"started", "output", "completed", "admitted", "refused", "exit"} : Receive(k)
    BY <1>7 DEF TurnStarted, Output, TurnCompleted, SteerAdmitted, SteerRefused, HostExited
  <2>2. UNCHANGED <<echoed, taken>>
    BY <1>7 DEF TurnStarted, Output, TurnCompleted, SteerAdmitted, SteerRefused, HostExited, server, history
  <2> QED
    BY <1>4, <2>1, <2>2
<1>8. CASE Echo
  <2> DEFINE p == Head(down).prompt
  <2>1. Receive("echo") /\ echoed' = echoed \cup {p} /\ taken' = taken
    BY <1>8 DEF Echo, server
  <2>2. down # <<>> /\ down' = Tail(down) /\ Head(down).kind = "echo"
    BY <2>1 DEF Receive
  <2>3. Named(down') \subseteq Named(down) /\ p \in Named(down)
    BY <1>1, <2>1, Received
  <2>4. EchoAlone(down') /\ p \notin Named(down')
    BY <1>1, <2>2, EchoesAfter DEF EchoOnce
  <2> QED
    BY <2>1, <2>3, <2>4 DEF EchoOnce
<1>9. CASE ServerStarts
  <2> DEFINE p == Head(up).prompt
  <2>1. Take("start") /\ up # <<>> /\ echoed' = echoed
    BY <1>9 DEF ServerStarts, Take, history
  <2>2. Head(up) \in Ups /\ Head(up).kind = "start"
    BY <1>1, <2>1, Taking
  <2>3. p \in Prompt /\ Holds(Head(up), p)
    BY <2>2, Contents DEF Holds
  <2>4. p \in Held(up)
    BY <1>1, <2>1, <2>3, Taking
  <2>5. p \notin ToSet(taken)
    BY <2>4 DEF DeliveryInv, OnePlace
  <2>6. Reads(p) \/ UNCHANGED <<taken, down>>
    <3>1. (running = 0 /\ waiting = <<>>) \/ ~(running = 0 /\ waiting = <<>>)
      OBVIOUS
    <3> QED
      BY <1>9, <3>1 DEF ServerStarts
  <2> QED
    BY <1>2, <1>5, <2>1, <2>3, <2>5, <2>6
<1>10. CASE ServerReads
  <2>1. waiting # <<>> /\ Reads(Head(waiting)) /\ echoed' = echoed /\ waiting \in Seq(Prompt)
    BY <1>1, <1>10 DEF ServerReads, history, Types
  <2>2. Head(waiting) \in Prompt /\ Head(waiting) \in ToSet(waiting)
    BY <2>1, OnceAfter
  <2>3. Head(waiting) \notin ToSet(taken)
    BY <2>2 DEF DeliveryInv, OnePlace
  <2> QED
    BY <1>5, <2>1, <2>2, <2>3
<1>11. CASE ServerSteers
  <2> DEFINE p == Head(up).prompt
  <2>1. Take("steer") /\ UNCHANGED <<echoed, taken>>
        /\ (down' = Append(down, Admitted(p)) \/ down' = Append(down, Refused(p, running = 0)))
    BY <1>11 DEF ServerSteers, Send, Admitted, Refused, history
  <2>2. p \in Prompt
    BY <1>1, <2>1, Taking, Contents
  <2>3. PICK b \in BOOLEAN : b = (running = 0)
    OBVIOUS
  <2>4. PICK r : r = Refused(p, running = 0)
    OBVIOUS
  <2>5. r \in Downs /\ r.kind = "refused" /\ Admitted(p) \in Downs /\ Admitted(p).kind = "admitted"
    BY <1>1, <2>2, <2>3, <2>4, Answers
  <2> HIDE DEF p
  <2> QED
    BY <1>3, <2>1, <2>4, <2>5
<1>12. CASE ServerStops \/ ServerSpeaks \/ ServerCompletes \/ ServerExits
  <2>1. \A k \in {"completed", "output", "exit"} : [kind |-> k] \in Downs /\ [kind |-> k].kind # "echo"
    BY DEF Downs
  <2>2. \E k \in {"completed", "output", "exit"} : down' = Append(down, [kind |-> k])
    BY <1>12 DEF ServerStops, ServerSpeaks, ServerCompletes, ServerExits, Send
  <2>3. UNCHANGED <<echoed, taken>>
    BY <1>12 DEF ServerStops, ServerSpeaks, ServerCompletes, ServerExits, server, history
  <2> QED
    BY <1>3, <2>1, <2>2, <2>3
<1>13. CASE UNCHANGED vars
  BY <1>2, <1>13 DEF vars, server, history
<1> QED
  BY <1>6, <1>7, <1>8, <1>9, <1>10, <1>11, <1>12, <1>13 DEF Next, TabHandles

(* Turns named on a connection.                                             *)
LEMMA SteersBehind ==
    ASSUME NEW s \in Seq(Ups), NEW m \in Ups, NEW n, SteersBelow(s, n),
           m.kind = "steer" => m.turn # 0 /\ m.turn < n
    PROVE  SteersBelow(Append(s, m), n)
<1> DEFINE t == Append(s, m)
           l == Len(s)
<1>1. /\ l \in Nat /\ DOMAIN s = 1..l /\ DOMAIN t = 1..(l + 1)
      /\ (\A k \in 1..l : t[k] = s[k]) /\ t[l + 1] = m
  BY AppendAdds
<1> HIDE DEF t, l
<1>2. \A k \in 1..(l + 1) : k \in 1..l \/ k = l + 1
  BY <1>1
<1>3. SteersBelow(t, n)
  BY <1>1, <1>2 DEF SteersBelow
<1> QED
  BY <1>3 DEF t

(* Fewer messages name fewer turns.                                         *)
LEMMA SteersAfter ==
    ASSUME NEW s \in Seq(Ups), NEW n, SteersBelow(s, n)
    PROVE  /\ s # <<>> => SteersBelow(Tail(s), n)
           /\ \A k \in DOMAIN s : SteersBelow(RemoveAt(s, k), n)
<1>1. ASSUME s # <<>> PROVE SteersBelow(Tail(s), n)
  <2> DEFINE t == Tail(s)
             l == Len(s)
  <2>1. /\ l \in Nat \ {0} /\ DOMAIN s = 1..l /\ DOMAIN t = 1..(l - 1)
        /\ \A k \in 1..(l - 1) : t[k] = s[k + 1]
    BY <1>1, TailLeaves
  <2> HIDE DEF t, l
  <2>2. \A k \in 1..(l - 1) : k + 1 \in 1..l
    BY <2>1
  <2>3. SteersBelow(t, n)
    BY <2>1, <2>2 DEF SteersBelow
  <2> QED
    BY <2>3 DEF t
<1>2. ASSUME NEW k \in DOMAIN s PROVE SteersBelow(RemoveAt(s, k), n)
  <2> DEFINE t == RemoveAt(s, k)
             l == Len(s)
             From(j) == IF j < k THEN j ELSE j + 1
  <2>1. /\ t \in Seq(Ups) /\ Len(t) = l - 1 /\ l \in Nat \ {0} /\ DOMAIN s = 1..l
        /\ \A j \in 1..(l - 1) : t[j] = s[From(j)]
    BY RemoveLeaves
  <2>2. DOMAIN t = 1..(l - 1) /\ k \in 1..l
    BY <2>1
  <2> HIDE DEF t, l
  <2>3. \A j \in 1..(l - 1) : From(j) \in 1..l
    BY <2>1, <2>2
  <2> HIDE DEF From
  <2>4. SteersBelow(t, n)
    BY <2>1, <2>2, <2>3 DEF SteersBelow
  <2> QED
    BY <2>4 DEF t
<1> QED
  BY <1>1, <1>2

(* A message more, that names a new turn or none; a refusal for want of a   *)
(* turn is sent when none runs.                                             *)
LEMMA TurnsBehind ==
    ASSUME NEW s \in Seq(Downs), NEW m \in Downs, NEW n \in Nat, NEW c, NEW r, TurnsTold(s, n, c, r),
           NEW n2 \in Nat, n <= n2, NEW r2, r2 = r \/ r2 = 0 \/ (IsStart(m) /\ m.turn = r2),
           IsStart(m) => m.turn # 0 /\ n <= m.turn /\ m.turn < n2 /\ m.turn # c,
           m.kind = "refused" /\ m.noTurn => r2 = 0
    PROVE  TurnsTold(Append(s, m), n2, c, r2)
<1> DEFINE t == Append(s, m)
           l == Len(s)
<1>1. /\ l \in Nat /\ DOMAIN s = 1..l /\ DOMAIN t = 1..(l + 1)
      /\ (\A k \in 1..l : t[k] = s[k]) /\ t[l + 1] = m
  BY AppendAdds
<1>2. \A k \in 1..l : IsStart(s[k]) => s[k].turn \in Nat
  BY <1>1, Contents DEF IsStart
<1>3. IsStart(m) => m.turn \in Nat /\ m.kind # "refused"
  BY Contents DEF IsStart
<1> HIDE DEF t, l
<1>4. \A k \in 1..(l + 1) : k \in 1..l \/ k = l + 1
  BY <1>1
<1>5. \A k \in 1..l : k < l + 1 /\ k \in 1..(l + 1) /\ l + 1 \in 1..(l + 1)
  BY <1>1
<1>6. \A k \in 1..l : IsStart(t[k]) =>
        /\ t[k].turn # 0 /\ t[k].turn < n2 /\ t[k].turn # c
        /\ IsStart(m) => t[k].turn # m.turn
  <2> SUFFICES ASSUME NEW k \in 1..l, IsStart(t[k])
               PROVE  /\ t[k].turn # 0 /\ t[k].turn < n2 /\ t[k].turn # c
                      /\ IsStart(m) => t[k].turn # m.turn
    OBVIOUS
  <2>1. IsStart(s[k]) /\ t[k] = s[k] /\ s[k].turn \in Nat
    BY <1>1, <1>2
  <2>2. s[k].turn # 0 /\ s[k].turn < n /\ s[k].turn # c
    BY <1>1, <2>1 DEF TurnsTold, StartsBelow
  <2>3. PICK u \in Nat : u = s[k].turn
    BY <2>1
  <2>4. u < n2 /\ (IsStart(m) => u # m.turn)
    BY <1>3, <2>2, <2>3
  <2> QED
    BY <2>1, <2>2, <2>3, <2>4
<1>7. StartsBelow(t, n2, c)
  BY <1>1, <1>4, <1>6 DEF StartsBelow
<1>8. StartsOnce(t)
  <2> SUFFICES ASSUME NEW j \in 1..(l + 1), NEW k \in 1..(l + 1), IsStart(t[j]), IsStart(t[k]), t[j].turn = t[k].turn
               PROVE  j = k
    BY <1>1 DEF StartsOnce
  <2>1. CASE j \in 1..l /\ k \in 1..l
    BY <1>1, <2>1 DEF TurnsTold, StartsOnce
  <2>2. CASE j = l + 1 \/ k = l + 1
    BY <1>1, <1>4, <1>6, <2>2
  <2> QED
    BY <1>4, <2>1, <2>2
<1>9. ToldOfTurn(t, r2)
  <2> SUFFICES ASSUME NEW d \in 1..(l + 1), t[d].kind = "refused", t[d].noTurn, r2 # 0
               PROVE  \E e \in 1..(l + 1) : d < e /\ IsStart(t[e]) /\ t[e].turn = r2
    BY <1>1 DEF ToldOfTurn
  <2>1. d \in 1..l
    BY <1>1, <1>4
  <2>2. CASE r2 = r
    <3>1. PICK e \in 1..l : d < e /\ IsStart(s[e]) /\ s[e].turn = r
      BY <1>1, <2>1, <2>2 DEF TurnsTold, ToldOfTurn
    <3> QED
      BY <1>1, <1>5, <2>2, <3>1
  <2>3. CASE IsStart(m) /\ m.turn = r2
    <3>1. d < l + 1 /\ l + 1 \in 1..(l + 1) /\ t[l + 1] = m
      BY <1>1, <1>5, <2>1
    <3> QED
      BY <2>3, <3>1
  <2> QED
    BY <2>2, <2>3
<1> QED
  BY <1>7, <1>8, <1>9 DEF TurnsTold, t

(* The tab learns of the turn the first message starts, or of the end of    *)
(* the one it knew.                                                         *)
LEMMA TurnsAfter ==
    ASSUME NEW s \in Seq(Downs), s # <<>>, NEW n, NEW c, NEW r, TurnsTold(s, n, c, r),
           NEW c2, c2 = c \/ c2 = 0 \/ (IsStart(Head(s)) /\ c2 = Head(s).turn)
    PROVE  TurnsTold(Tail(s), n, c2, r)
<1> DEFINE t == Tail(s)
           l == Len(s)
           h == Head(s)
<1>1. /\ h = s[1] /\ l \in Nat \ {0} /\ DOMAIN s = 1..l /\ DOMAIN t = 1..(l - 1)
      /\ \A k \in 1..(l - 1) : t[k] = s[k + 1]
  BY TailLeaves
<1> HIDE DEF t, l, h
<1>2. \A k \in 1..(l - 1) : k + 1 \in 1..l /\ 1 \in 1..l /\ k + 1 # 1
  BY <1>1
<1>3. \A k \in 1..l, d \in 1..(l - 1) : d + 1 < k => k - 1 \in 1..(l - 1) /\ d < k - 1 /\ (k - 1) + 1 = k
  BY <1>1
<1>4. ASSUME NEW k \in 1..(l - 1), IsStart(t[k])
      PROVE  t[k].turn # 0 /\ t[k].turn < n /\ t[k].turn # c2
  <2>1. t[k] = s[k + 1] /\ k + 1 \in 1..l
    BY <1>1, <1>2
  <2>2. t[k].turn # 0 /\ t[k].turn < n /\ t[k].turn # c
    BY <1>1, <1>4, <2>1 DEF TurnsTold, StartsBelow
  <2>3. IsStart(h) => t[k].turn # h.turn
    BY <1>1, <1>2, <1>4, <2>1 DEF TurnsTold, StartsOnce
  <2> QED
    BY <2>2, <2>3 DEF h
<1>5. StartsBelow(t, n, c2)
  BY <1>1, <1>4 DEF StartsBelow
<1>6. StartsOnce(t)
  <2> SUFFICES ASSUME NEW j \in 1..(l - 1), NEW k \in 1..(l - 1), IsStart(t[j]), IsStart(t[k]), t[j].turn = t[k].turn
               PROVE  j = k
    BY <1>1 DEF StartsOnce
  <2>1. j + 1 = k + 1
    BY <1>1, <1>2 DEF TurnsTold, StartsOnce
  <2> QED
    BY <1>1, <2>1
<1>7. ToldOfTurn(t, r)
  <2> SUFFICES ASSUME NEW d \in 1..(l - 1), t[d].kind = "refused", t[d].noTurn, r # 0
               PROVE  \E e \in 1..(l - 1) : d < e /\ IsStart(t[e]) /\ t[e].turn = r
    BY <1>1 DEF ToldOfTurn
  <2>1. PICK e \in 1..l : d + 1 < e /\ IsStart(s[e]) /\ s[e].turn = r
    BY <1>1, <1>2 DEF TurnsTold, ToldOfTurn
  <2>2. e - 1 \in 1..(l - 1) /\ d < e - 1 /\ t[e - 1] = s[e]
    BY <1>1, <1>3, <2>1
  <2> QED
    BY <2>1, <2>2
<1> QED
  BY <1>5, <1>6, <1>7 DEF TurnsTold, t

(* What the server reads opens a turn of a new number if none runs.         *)
LEMMA TurnsRead ==
    ASSUME DeliveryInv, Turns, NEW p \in Prompt, Reads(p), current' = current
    PROVE  running' < nextTurn' /\ current < nextTurn' /\ nextTurn <= nextTurn'
           /\ TurnsTold(down', nextTurn', current, running')
<1>1. Types /\ down \in Seq(Downs) /\ running \in Nat /\ nextTurn \in Nat /\ current \in Nat
  BY DEF DeliveryInv, Types
<1>2. TurnsTold(down, nextTurn, current, running) /\ running < nextTurn /\ current < nextTurn
  BY DEF Turns, TurnsTold
<1>3. down' = down \o (IF running = 0 THEN <<Started(nextTurn)>> ELSE <<>>) \o <<Echoes(p)>>
  BY DEF Reads, Started, Echoes
<1>4. PICK d : d = down \o (IF running = 0 THEN <<Started(nextTurn)>> ELSE <<>>)
  OBVIOUS
<1>5. /\ Started(nextTurn) \in Downs /\ IsStart(Started(nextTurn)) /\ Started(nextTurn).turn = nextTurn
      /\ Echoes(p) \in Downs /\ Echoes(p).kind = "echo"
  BY <1>1, Answers DEF Started, IsStart
<1>6. /\ running = 0 => running' = nextTurn /\ nextTurn' = nextTurn + 1
      /\ running # 0 => running' = running /\ nextTurn' = nextTurn
  BY DEF Reads
<1>7. nextTurn' \in Nat /\ running' < nextTurn' /\ current < nextTurn' /\ nextTurn <= nextTurn'
  BY <1>1, <1>2, <1>6
<1>8. d \in Seq(Downs) /\ TurnsTold(d, nextTurn', current, running')
  <2>1. CASE running = 0
    <3>1. d = Append(down, Started(nextTurn))
      BY <1>1, <1>4, <1>5, <2>1, ConcatOne
    <3>2. PICK m \in Downs : m = Started(nextTurn)
      BY <1>5
    <3>3. m.turn = running' /\ m.turn # 0 /\ nextTurn <= m.turn /\ m.turn < nextTurn' /\ m.turn # current
          /\ IsStart(m) /\ m.kind # "refused"
      BY <1>1, <1>2, <1>5, <1>6, <2>1, <3>2 DEF IsStart
    <3>4. TurnsTold(Append(down, m), nextTurn', current, running')
      BY <1>1, <1>2, <1>7, <3>3, TurnsBehind
    <3> QED
      BY <1>1, <1>5, <3>1, <3>2, <3>4, AppendAdds
  <2>2. CASE running # 0
    <3>1. d = down \o <<>>
      BY <1>4, <2>2
    <3>2. d = down
      BY <1>1, <1>5, <3>1, ConcatOne
    <3> QED
      BY <1>1, <1>2, <1>6, <2>2, <3>2
  <2> QED
    BY <2>1, <2>2
<1>9. down' = Append(d, Echoes(p))
  BY <1>3, <1>4, <1>5, <1>8, ConcatOne
<1>10. ~IsStart(Echoes(p)) /\ Echoes(p).kind # "refused" /\ nextTurn' <= nextTurn'
  BY <1>5, <1>7 DEF IsStart
<1>11. TurnsTold(Append(d, Echoes(p)), nextTurn', current, running')
  BY <1>5, <1>7, <1>8, <1>10, TurnsBehind
<1> QED
  BY <1>7, <1>9, <1>11

(* Every step keeps the numbering.                                          *)
LEMMA TurnsStep ==
    ASSUME DeliveryInv, Turns, [Next]_vars PROVE Turns'
<1>1. Types /\ up \in Seq(Ups) /\ down \in Seq(Downs) /\ running \in Nat /\ nextTurn \in Nat /\ current \in Nat
  BY DEF DeliveryInv, Types
<1>2. /\ TurnsTold(down, nextTurn, current, running) /\ running < nextTurn /\ current < nextTurn
      /\ SteersBelow(up, nextTurn)
  BY DEF Turns, TurnsTold
<1>3. Turns' <=> /\ running' < nextTurn' /\ current' < nextTurn'
                 /\ SteersBelow(up', nextTurn') /\ TurnsTold(down', nextTurn', current', running')
  BY DEF Turns, TurnsTold
<1>4. 0 < nextTurn
  BY <1>1, <1>2
<1>5. SteersBelow(up', nextTurn') /\ UNCHANGED <<down, running, nextTurn, current>> => Turns'
  BY <1>2, <1>3
<1>6. ASSUME NEW p \in Prompt, SubmitStarts(p) \/ SubmitSteers(p) PROVE Turns'
  <2>1. UNCHANGED <<down, running, nextTurn, current>>
    BY <1>6 DEF SubmitStarts, SubmitSteers, server, codex
  <2>2. \E m \in Ups : up' = Append(up, m) /\ (m.kind = "steer" => m.turn = current /\ current # 0)
    <3>1. CASE SubmitStarts(p)
      <4>1. Start(p) \in Ups /\ Start(p).kind = "start"
        BY <1>1, Kinds DEF Start
      <4>2. up' = Append(up, Start(p))
        BY <3>1 DEF SubmitStarts
      <4>3. Start(p).kind # "steer"
        BY <4>1
      <4> QED
        BY <4>1, <4>2, <4>3
    <3>2. CASE SubmitSteers(p)
      <4>1. Steer(p, current) \in Ups /\ Steer(p, current).turn = current
        BY <1>1, Kinds DEF Steer
      <4>2. up' = Append(up, Steer(p, current)) /\ current # 0
        BY <3>2 DEF SubmitSteers
      <4> QED
        BY <4>1, <4>2
    <3> QED
      BY <1>6, <3>1, <3>2
  <2>3. SteersBelow(up', nextTurn)
    BY <1>1, <1>2, <2>2, SteersBehind
  <2> QED
    BY <1>5, <2>1, <2>3
<1>7. ASSUME NEW p \in Prompt, SteerTimesOut(p) \/ SteerNotSent(p) PROVE Turns'
  <2>1. UNCHANGED <<down, running, nextTurn, current>> /\ (up' = up \/ \E k \in DOMAIN up : up' = RemoveAt(up, k))
    BY <1>7 DEF SteerTimesOut, TimedOut, GiveUp, SteerNotSent, server
  <2>2. SteersBelow(up', nextTurn)
    BY <1>1, <1>2, <2>1, SteersAfter
  <2> QED
    BY <1>5, <2>1, <2>2
<1>8. CASE Interrupt
  <2>1. UNCHANGED <<down, running, nextTurn, current>> /\ (up' = up \/ up' = Append(up, Stop(current)))
    BY <1>8 DEF Interrupt, server
  <2>2. Stop(current) \in Ups /\ Stop(current).kind # "steer"
    BY <1>1 DEF Stop, Ups
  <2>3. SteersBelow(up', nextTurn)
    BY <1>1, <1>2, <2>1, <2>2, SteersBehind
  <2> QED
    BY <1>5, <2>1, <2>3
<1>9. CASE TabHandles
  <2>1. down # <<>> /\ down' = Tail(down) /\ UNCHANGED <<running, nextTurn>>
    BY <1>9 DEF TabHandles, TurnStarted, Echo, Output, TurnCompleted, SteerAdmitted, SteerRefused, HostExited,
       Receive, server
  <2>2. PICK c : c = current'
    OBVIOUS
  <2>3. c = current \/ c = 0 \/ (IsStart(Head(down)) /\ c = Head(down).turn)
    BY <1>9, <2>2 DEF TabHandles, TurnStarted, Echo, Output, TurnCompleted, SteerAdmitted, SteerRefused, HostExited,
       Receive, IsStart, codex
  <2>4. TurnsTold(down', nextTurn, c, running)
    BY <1>1, <1>2, <2>1, <2>3, TurnsAfter
  <2>5. c < nextTurn
    <3>1. Head(down) = down[1] /\ 1 \in DOMAIN down
      BY <1>1, <2>1
    <3>2. IsStart(Head(down)) => Head(down).turn < nextTurn
      BY <1>2, <3>1 DEF TurnsTold, StartsBelow
    <3> QED
      BY <1>2, <1>4, <2>3, <3>2
  <2>6. SteersBelow(up', nextTurn)
    <3>1. up' = up \/ \E p \in Prompt : up' = Append(up, Start(p))
      <4>1. CASE SteerRefused
        <5>1. Head(down).prompt \in Prompt
          <6>1. Head(down) \in Downs /\ Head(down).kind = "refused"
            BY <1>1, <4>1, Received DEF SteerRefused
          <6> QED
            BY <6>1, Contents
        <5>2. up' = up \/ up' = Append(up, Start(Head(down).prompt))
          BY <4>1 DEF SteerRefused, Retry, GiveUp
        <5> QED
          BY <5>1, <5>2
      <4>2. CASE ~SteerRefused
        BY <1>9, <4>2 DEF TabHandles, TurnStarted, Echo, Output, TurnCompleted, SteerAdmitted, HostExited
      <4> QED
        BY <4>1, <4>2
    <3>2. \A p \in Prompt : Start(p) \in Ups /\ Start(p).kind # "steer"
      BY DEF Start, Ups
    <3> QED
      BY <1>1, <1>2, <3>1, <3>2, SteersBehind
  <2> QED
    BY <1>2, <1>3, <2>1, <2>2, <2>4, <2>5, <2>6
<1>10. ASSUME NEW k, Take(k) PROVE SteersBelow(up', nextTurn)
  BY <1>1, <1>2, <1>10, SteersAfter DEF Take
<1>11. ASSUME NEW p \in Prompt, Reads(p), SteersBelow(up', nextTurn), current' = current PROVE Turns'
  <2>1. /\ running' < nextTurn' /\ current < nextTurn' /\ nextTurn <= nextTurn'
        /\ TurnsTold(down', nextTurn', current, running')
    BY <1>11, TurnsRead
  <2>2. PICK n : n = nextTurn'
    OBVIOUS
  <2>3. n \in Nat /\ nextTurn <= n
    BY <1>1, <1>11, <2>1, <2>2, Reading DEF Reads
  <2>4. up' \in Seq(Ups)
    BY <1>11, Reading, StepDelivery DEF DeliveryInv, Types
  <2>5. \A k \in DOMAIN up' : up'[k].kind = "steer" => up'[k].turn \in Nat
    BY <2>4, Contents
  <2>6. \A u \in Nat : u < nextTurn => u < n
    BY <1>1, <2>3
  <2>7. SteersBelow(up', n)
    BY <1>11, <2>5, <2>6 DEF SteersBelow
  <2> QED
    BY <1>3, <1>11, <2>1, <2>2, <2>7
<1>12. ASSUME NEW m \in Downs, down' = Append(down, m), m.kind # "started",
              m.kind = "refused" /\ m.noTurn => running' = 0,
              running' = running \/ running' = 0, UNCHANGED <<nextTurn, current>>, SteersBelow(up', nextTurn)
       PROVE  Turns'
  <2>1. PICK r : r = running'
    OBVIOUS
  <2>2. ~IsStart(m) /\ nextTurn <= nextTurn
    BY <1>1, <1>12 DEF IsStart
  <2>3. TurnsTold(Append(down, m), nextTurn, current, r)
    BY <1>1, <1>2, <1>12, <2>1, <2>2, TurnsBehind
  <2>4. running' < nextTurn'
    BY <1>2, <1>4, <1>12
  <2> QED
    BY <1>2, <1>3, <1>12, <2>1, <2>3, <2>4
<1>13. CASE ServerStarts
  <2> DEFINE p == Head(up).prompt
  <2>1. Take("start") /\ current' = current
    BY <1>13 DEF ServerStarts, tab, codex
  <2>2. p \in Prompt
    BY <1>1, <2>1, Taking, Contents
  <2>3. Reads(p) \/ UNCHANGED <<running, nextTurn, down>>
    <3>1. (running = 0 /\ waiting = <<>>) \/ ~(running = 0 /\ waiting = <<>>)
      OBVIOUS
    <3> QED
      BY <1>13, <3>1 DEF ServerStarts
  <2> QED
    BY <1>5, <1>10, <1>11, <2>1, <2>2, <2>3
<1>14. CASE ServerReads
  <2>1. Reads(Head(waiting)) /\ UNCHANGED <<up, current>> /\ waiting # <<>> /\ waiting \in Seq(Prompt)
    BY <1>1, <1>14 DEF ServerReads, tab, codex, Types
  <2>2. Head(waiting) \in Prompt
    BY <2>1
  <2> QED
    BY <1>2, <1>11, <2>1, <2>2
<1>15. CASE ServerSteers
  <2> DEFINE p == Head(up).prompt
  <2>1. Take("steer") /\ UNCHANGED <<running, nextTurn, current>>
        /\ (down' = Append(down, Admitted(p)) \/ down' = Append(down, Refused(p, running = 0)))
    BY <1>15 DEF ServerSteers, Send, Admitted, Refused, tab, codex
  <2>2. p \in Prompt
    BY <1>1, <2>1, Taking, Contents
  <2>3. (running = 0) \in BOOLEAN
    OBVIOUS
  <2>4. PICK r : r = Refused(p, running = 0)
    OBVIOUS
  <2>5. r.noTurn => running = 0
    BY <2>4 DEF Refused
  <2>6. r \in Downs /\ r.kind = "refused" /\ Admitted(p) \in Downs /\ Admitted(p).kind = "admitted"
    BY <1>1, <2>2, <2>3, <2>4, Answers
  <2> HIDE DEF p
  <2> QED
    BY <1>10, <1>12, <2>1, <2>4, <2>5, <2>6
<1>16. CASE ServerStops \/ ServerSpeaks \/ ServerCompletes \/ ServerExits
  <2>1. \A k \in {"completed", "output", "exit"} : [kind |-> k] \in Downs /\ [kind |-> k].kind = k
    BY DEF Downs
  <2>2. \E k \in {"completed", "output", "exit"} : down' = Append(down, [kind |-> k])
    BY <1>16 DEF ServerStops, ServerSpeaks, ServerCompletes, ServerExits, Send
  <2>3. UNCHANGED <<nextTurn, current>> /\ (running' = running \/ running' = 0) /\ (up' = up \/ Take("stop"))
    BY <1>16 DEF ServerStops, ServerSpeaks, ServerCompletes, ServerExits, server, tab, codex
  <2>4. SteersBelow(up', nextTurn)
    BY <1>2, <1>10, <2>3
  <2>5. PICK m \in Downs : down' = Append(down, m) /\ m.kind \in {"completed", "output", "exit"}
    BY <2>1, <2>2
  <2> QED
    BY <1>12, <2>3, <2>4, <2>5
<1>17. CASE UNCHANGED vars
  <2>1. UNCHANGED <<down, up, running, nextTurn, current>>
    BY <1>17 DEF vars, server, codex
  <2> QED
    BY <1>2, <1>5, <2>1
<1> QED
  BY <1>6, <1>7, <1>8, <1>9, <1>13, <1>14, <1>15, <1>16, <1>17 DEF Next, TabHandles

(* The steps that leave the queue, the transcript and what they hold.       *)
Quiet == UNCHANGED <<shown, pending, steered, echoed, opening, crossed>> /\ lost \subseteq lost'

(* Every step is one of these, or leaves the queue, the transcript and the  *)
(* echoes as they are.                                                      *)
LEMMA Moves ==
    ASSUME [Next]_vars
    PROVE  \/ Quiet \/ (\E p \in Prompt : SubmitStarts(p) \/ SubmitSteers(p)) \/ Echo \/ TurnCompleted \/ HostExited
<1>1. ASSUME NEW p \in Prompt, SteerTimesOut(p) \/ SteerNotSent(p) PROVE Quiet
  BY <1>1 DEF Quiet, SteerTimesOut, TimedOut, GiveUp, SteerNotSent
<1>2. ASSUME Interrupt PROVE Quiet
  BY <1>2 DEF Quiet, Interrupt
<1>3. ASSUME TurnStarted \/ Output \/ SteerAdmitted PROVE Quiet
  BY <1>3 DEF Quiet, TurnStarted, Output, SteerAdmitted, delivery, history
<1>4. ASSUME SteerRefused PROVE Quiet
  BY <1>4 DEF Quiet, SteerRefused, Retry, GiveUp
<1>5. ASSUME ServerStarts \/ ServerSteers \/ ServerStops \/ ServerReads \/ ServerSpeaks \/ ServerCompletes \/ ServerExits
      PROVE  Quiet
  BY <1>5 DEF Quiet, ServerStarts, ServerSteers, ServerStops, ServerReads, ServerSpeaks, ServerCompletes, ServerExits,
     tab, delivery, history
<1>6. ASSUME UNCHANGED vars PROVE Quiet
  BY <1>6 DEF Quiet, vars, delivery, history
<1> QED
  BY <1>1, <1>2, <1>3, <1>4, <1>5, <1>6 DEF Next, TabHandles

(* What the user has sent into a turn is in the queue or the transcript.    *)
LEMMA QueuedStep ==
    ASSUME DeliveryInv, Queued, [Next]_vars PROVE Queued'
<1>1. Types /\ shown \in Seq(Prompt) /\ pending \in Seq(Prompt)
  BY DEF DeliveryInv, Types
<1>2. CASE Quiet
  BY <1>2 DEF Quiet, Queued, Accepted
<1>3. ASSUME NEW p \in Prompt, SubmitStarts(p) PROVE Queued'
  <2>1. UNCHANGED <<pending, steered>> /\ shown' = Append(shown, p)
    BY <1>3 DEF SubmitStarts
  <2>2. ToSet(shown') = ToSet(shown) \cup {p}
    BY <1>1, <2>1, OnceBehind
  <2> QED
    BY <2>1, <2>2 DEF Queued, Accepted
<1>4. ASSUME NEW p \in Prompt, SubmitSteers(p) PROVE Queued'
  <2>1. shown' = shown /\ steered' = steered \cup {p} /\ pending' = Append(pending, p)
    BY <1>4 DEF SubmitSteers
  <2>2. ToSet(pending') = ToSet(pending) \cup {p}
    BY <1>1, <2>1, OnceBehind
  <2> QED
    BY <2>1, <2>2 DEF Queued, Accepted
<1>5. CASE Echo
  <2>1. /\ steered' = steered
        /\ \/ UNCHANGED <<pending, shown>>
           \/ pending # <<>> /\ shown' = Append(shown, Head(pending)) /\ pending' = Tail(pending)
    BY <1>5 DEF Echo, FrontEcho
  <2>2. CASE UNCHANGED <<pending, shown>>
    BY <2>1, <2>2 DEF Queued, Accepted
  <2>3. CASE pending # <<>> /\ shown' = Append(shown, Head(pending)) /\ pending' = Tail(pending)
    <3>1. Head(pending) \in Prompt /\ ToSet(pending) = ToSet(pending') \cup {Head(pending)}
      BY <1>1, <2>3, OnceAfter
    <3>2. ToSet(shown') = ToSet(shown) \cup {Head(pending)}
      BY <1>1, <2>3, <3>1, OnceBehind
    <3> QED
      BY <2>1, <3>1, <3>2 DEF Queued, Accepted
  <2> QED
    BY <2>1, <2>2, <2>3
<1>6. CASE TurnCompleted
  BY <1>6 DEF TurnCompleted, Queued, Accepted
<1>7. CASE HostExited
  <2>1. steered' = steered /\ shown' = shown \o pending /\ pending' = <<>>
    BY <1>7 DEF HostExited, Published, history
  <2>2. ToSet(shown') = ToSet(shown) \cup ToSet(pending)
    BY <1>1, <2>1, Joined
  <2>3. ToSet(pending') = {}
    BY <2>1 DEF ToSet
  <2> QED
    BY <2>1, <2>2, <2>3 DEF Queued, Accepted
<1> QED
  BY <1>2, <1>3, <1>4, <1>5, <1>6, <1>7, Moves

(* Nothing follows the host's end.                                          *)
LEMMA EndedStep ==
    ASSUME DeliveryInv, Ended, [Next]_vars
    PROVE  Ended' /\ (Clear' => Clear)
<1>1. Types /\ down \in Seq(Downs) /\ Len(down) \in Nat /\ DOMAIN down = 1..Len(down) /\ nextTurn \in Nat
  BY DEF DeliveryInv, Types
<1>2. ASSUME UNCHANGED <<status, down>> PROVE Ended' /\ (status' # "Exited" => status # "Exited")
  BY <1>2 DEF Ended
<1>3. ASSUME NEW k, Receive(k), k = "exit" \/ status' # "Exited" \/ status' = status
      PROVE  Ended' /\ (status' # "Exited" => status # "Exited")
  <2>1. down # <<>> /\ down' = Tail(down) /\ Head(down).kind = k
    BY <1>3 DEF Receive
  <2>2. status # "Exited"
    BY <2>1 DEF Ended
  <2>3. /\ Head(down) = down[1] /\ Len(down) \in Nat \ {0} /\ DOMAIN down = 1..Len(down)
        /\ down' \in Seq(Downs) /\ Len(down') = Len(down) - 1 /\ DOMAIN down' = 1..(Len(down) - 1)
        /\ \A d \in 1..(Len(down) - 1) : down'[d] = down[d + 1] /\ d + 1 \in DOMAIN down
    BY <1>1, <2>1
  <2>4. \A d \in DOMAIN down' : down'[d].kind = "exit" => d = Len(down')
    BY <2>3 DEF Ended
  <2>5. k = "exit" => down' = <<>>
    BY <2>1, <2>3 DEF Ended
  <2> QED
    BY <1>3, <2>2, <2>4, <2>5 DEF Ended
<1>4. ASSUME NEW m \in Downs, down' = Append(down, m), Serving, status' = status PROVE Ended'
  <2>1. \A k \in DOMAIN down : down[k].kind # "exit"
    BY <1>4 DEF Serving
  <2>2. /\ DOMAIN down' = 1..(Len(down) + 1) /\ Len(down') = Len(down) + 1
        /\ \A k \in DOMAIN down : down'[k] = down[k]
    BY <1>1, <1>4
  <2>3. \A k \in 1..(Len(down) + 1) : k \in DOMAIN down \/ k = Len(down) + 1
    BY <1>1
  <2> QED
    BY <1>4, <2>1, <2>2, <2>3 DEF Ended, Serving
<1>5. ASSUME NEW p \in Prompt, Reads(p), Serving, status' = status PROVE Ended'
  <2>1. \A k \in DOMAIN down : down[k].kind # "exit"
    BY <1>5 DEF Serving
  <2> DEFINE E == {m \in Downs : m.kind = "exit"}
  <2>2. Started(nextTurn) \notin E /\ Echoes(p) \notin E
    BY <1>1, Answers
  <2> HIDE DEF E
  <2>3. ~Has(down, E)
    BY <2>1 DEF Has, E
  <2>4. ~Has(down', E)
    <3>1. Has(down', E) <=> Has(down, E) \/ Echoes(p) \in E
      BY <1>1, <1>5, <2>2, ReadsAdd
    <3> QED
      BY <2>2, <2>3, <3>1
  <2>5. down' \in Seq(Downs)
    <3>1. Started(nextTurn) \in Downs /\ Echoes(p) \in Downs
      BY <1>1, Answers
    <3>2. down' = down \o (IF running = 0 THEN <<Started(nextTurn)>> ELSE <<>>) \o <<Echoes(p)>>
      BY <1>5 DEF Reads, Started, Echoes
    <3> QED
      BY <1>1, <3>1, <3>2
  <2>6. \A k \in DOMAIN down' : down'[k].kind # "exit"
    BY <2>4, <2>5 DEF Has, E
  <2> QED
    BY <1>5, <2>6 DEF Ended, Serving
<1>6. CASE (\E p \in Prompt : SubmitStarts(p) \/ SubmitSteers(p) \/ SteerTimesOut(p) \/ SteerNotSent(p)) \/ Interrupt
  <2>1. UNCHANGED <<status, down>> /\ (crossed => crossed')
    <3>1. ASSUME NEW p \in Prompt, SubmitStarts(p) \/ SubmitSteers(p)
          PROVE  UNCHANGED <<status, down>> /\ (crossed => crossed')
      <4>1. UNCHANGED <<status, down>>
        BY <3>1 DEF SubmitStarts, SubmitSteers, runtime
      <4>2. crossed => crossed'
        BY <3>1, Zenon DEF SubmitStarts, SubmitSteers
      <4> QED
        BY <4>1, <4>2
    <3>2. ASSUME NEW p \in Prompt, SteerTimesOut(p) \/ SteerNotSent(p)
          PROVE  UNCHANGED <<status, down>> /\ (crossed => crossed')
      BY <3>2 DEF SteerTimesOut, SteerNotSent, runtime
    <3>3. ASSUME Interrupt PROVE UNCHANGED <<status, down>> /\ (crossed => crossed')
      BY <3>3 DEF Interrupt
    <3> QED
      BY <1>6, <3>1, <3>2, <3>3
  <2> QED
    BY <1>2, <2>1 DEF Clear
<1>7. CASE TabHandles
  <2>1. \E k : Receive(k) /\ (k = "exit" \/ status' # "Exited" \/ status' = status)
    <3>1. CASE TurnStarted
      <4>1. Receive("started") /\ status' # "Exited"
        BY <3>1 DEF TurnStarted
      <4> QED
        BY <4>1
    <3>2. CASE Echo
      <4>1. Receive("echo") /\ status' = status
        BY <3>2 DEF Echo, runtime
      <4> QED
        BY <4>1
    <3>3. CASE Output
      <4>1. Receive("output") /\ status' = status
        BY <3>3 DEF Output, runtime
      <4> QED
        BY <4>1
    <3>4. CASE TurnCompleted
      <4>1. Receive("completed") /\ (status' # "Exited" \/ status' = status)
        BY <3>4 DEF TurnCompleted
      <4> QED
        BY <4>1
    <3>5. CASE SteerAdmitted
      <4>1. Receive("admitted") /\ status' = status
        BY <3>5 DEF SteerAdmitted, runtime
      <4> QED
        BY <4>1
    <3>6. CASE SteerRefused
      <4>1. Receive("refused") /\ status' = status
        BY <3>6 DEF SteerRefused, runtime
      <4> QED
        BY <4>1
    <3>7. CASE HostExited
      BY <3>7 DEF HostExited
    <3> QED
      BY <1>7, <3>1, <3>2, <3>3, <3>4, <3>5, <3>6, <3>7 DEF TabHandles
  <2>2. crossed => crossed'
    BY <1>7 DEF TabHandles, TurnStarted, Echo, Output, TurnCompleted, SteerAdmitted, SteerRefused, HostExited, history
  <2> QED
    BY <1>3, <2>1, <2>2 DEF Clear
<1>8. CASE ServerStarts \/ ServerSteers \/ ServerStops \/ ServerReads \/ ServerSpeaks \/ ServerCompletes \/ ServerExits
  <2>1. Serving /\ UNCHANGED <<status, crossed>>
    BY <1>8 DEF ServerStarts, ServerSteers, ServerStops, ServerReads, ServerSpeaks, ServerCompletes, ServerExits,
       Take, tab, runtime, history
  <2>2. \/ down' = down
        \/ \E m \in Downs : down' = Append(down, m)
        \/ \E p \in Prompt : Reads(p)
    <3>1. CASE ServerStarts
      <4>1. (running = 0 /\ waiting = <<>>) \/ ~(running = 0 /\ waiting = <<>>)
        OBVIOUS
      <4>2. Head(up).prompt \in Prompt
        BY <1>1, <3>1, Taking, Contents DEF ServerStarts
      <4> QED
        BY <3>1, <4>1, <4>2 DEF ServerStarts
    <3>2. CASE ServerSteers
      <4> DEFINE p == Head(up).prompt
      <4>1. p \in Prompt
        BY <1>1, <3>2, Taking, Contents DEF ServerSteers
      <4>2. down' = Append(down, Admitted(p)) \/ down' = Append(down, Refused(p, running = 0))
        BY <3>2 DEF ServerSteers, Send, Admitted, Refused
      <4>3. (running = 0) \in BOOLEAN
        OBVIOUS
      <4>4. Admitted(p) \in Downs /\ Refused(p, running = 0) \in Downs
        BY <1>1, <4>1, <4>3, Answers
      <4> HIDE DEF p
      <4>5. PICK r : r = Refused(p, running = 0)
        OBVIOUS
      <4> QED
        BY <4>2, <4>4, <4>5
    <3>3. CASE ServerReads
      <4>1. waiting # <<>> /\ waiting \in Seq(Prompt) /\ Reads(Head(waiting))
        BY <1>1, <3>3 DEF ServerReads, Types
      <4>2. Head(waiting) \in Prompt
        BY <4>1
      <4> QED
        BY <4>1, <4>2
    <3>4. CASE ServerStops \/ ServerSpeaks \/ ServerCompletes \/ ServerExits
      <4>1. \A k \in {"completed", "output", "exit"} : [kind |-> k] \in Downs
        BY DEF Downs
      <4>2. \E k \in {"completed", "output", "exit"} : down' = Append(down, [kind |-> k])
        BY <3>4 DEF ServerStops, ServerSpeaks, ServerCompletes, ServerExits, Send
      <4> QED
        BY <4>1, <4>2
    <3> QED
      BY <1>8, <3>1, <3>2, <3>3, <3>4
  <2>3. Ended'
    BY <1>2, <1>4, <1>5, <2>1, <2>2
  <2> QED
    BY <2>1, <2>3 DEF Clear
<1>9. CASE UNCHANGED vars
  <2>1. UNCHANGED <<status, down, crossed>>
    BY <1>9 DEF vars, runtime, history
  <2> QED
    BY <1>2, <2>1 DEF Clear
<1> QED
  BY <1>6, <1>7, <1>8, <1>9 DEF Next

(* The one prompt that opened a turn and has not been echoed is the one     *)
(* published_prompt remembers.                                              *)
LEMMA OpenedStep ==
    ASSUME DeliveryInv, EchoOnce, Queued, Opened, [Next]_vars, Clear, Clear' PROVE Opened'
<1>1. Types /\ shown \in Seq(Prompt) /\ pending \in Seq(Prompt) /\ down \in Seq(Downs)
  BY DEF DeliveryInv, Types
<1>2. /\ \A p \in Accepted \ steered : p \in echoed \/ opening = Text[p]
      /\ \A p, q \in Accepted \ steered : p \in echoed \/ q \in echoed \/ p = q
  BY DEF Opened
<1>3. Accepted \subseteq Prompt /\ steered \subseteq Accepted /\ ToSet(pending) \subseteq steered
  BY <1>1 DEF Accepted, ToSet, Queued
<1>4. ASSUME Accepted' \ steered' = Accepted \ steered, echoed' = echoed, opening' = opening PROVE Opened'
  BY <1>2, <1>4 DEF Opened
<1>5. CASE Quiet
  BY <1>4, <1>5 DEF Quiet, Accepted
<1>6. ASSUME NEW p \in Prompt, SubmitStarts(p) PROVE Opened'
  <2>1. /\ shown' = Append(shown, p) /\ UNCHANGED <<pending, steered, echoed>> /\ p \notin Accepted
        /\ opening' = Text[p]
    BY <1>6 DEF SubmitStarts
  <2>2. opening = NoText
    <3>1. opening # NoText => crossed'
      BY <1>6, Zenon DEF SubmitStarts
    <3> QED
      BY <3>1 DEF Clear
  <2>3. Accepted' = Accepted \cup {p}
    BY <1>1, <2>1, OnceBehind DEF Accepted
  <2>4. \A q \in Prompt : Text[q] # NoText
    BY DeliveryAssumption
  <2>5. \A q \in Accepted \ steered : q \in echoed
    BY <1>2, <1>3, <2>2, <2>4
  <2> QED
    BY <2>1, <2>3, <2>5 DEF Opened
<1>7. ASSUME NEW p \in Prompt, SubmitSteers(p) PROVE Opened'
  <2>1. /\ pending' = Append(pending, p) /\ UNCHANGED <<shown, echoed, opening>> /\ p \notin Accepted
        /\ steered' = steered \cup {p}
    BY <1>7 DEF SubmitSteers
  <2>2. Accepted' = Accepted \cup {p}
    BY <1>1, <2>1, OnceBehind DEF Accepted
  <2> QED
    BY <1>4, <2>1, <2>2
<1>8. CASE Echo
  <2>1. PICK p : p = Head(down).prompt
    OBVIOUS
  <2>2. Receive("echo") /\ echoed' = echoed \cup {p} /\ steered' = steered
    BY <1>8, <2>1 DEF Echo
  <2>3. p \in Named(down)
    BY <1>1, <2>1, <2>2, Received
  <2>4. p \in Accepted /\ p \notin echoed
    BY <2>3 DEF DeliveryInv, Origins, EchoOnce
  <2>5. Accepted' = Accepted
    <3>1. \/ UNCHANGED <<pending, shown>>
          \/ pending # <<>> /\ shown' = Append(shown, Head(pending)) /\ pending' = Tail(pending)
      BY <1>8 DEF Echo, FrontEcho
    <3>2. CASE pending # <<>> /\ shown' = Append(shown, Head(pending)) /\ pending' = Tail(pending)
      <4>1. Head(pending) \in Prompt /\ ToSet(pending) = ToSet(pending') \cup {Head(pending)}
        BY <1>1, <3>2, OnceAfter
      <4>2. ToSet(shown') = ToSet(shown) \cup {Head(pending)}
        BY <1>1, <3>2, <4>1, OnceBehind
      <4> QED
        BY <4>1, <4>2 DEF Accepted
    <3> QED
      BY <3>1, <3>2 DEF Accepted
  <2>6. CASE OpeningEcho(p)
    <3>1. p \notin steered
      <4>1. p \in steered => crossed'
        BY <1>8, <2>1, <2>6, Zenon DEF Echo
      <4> QED
        BY <4>1 DEF Clear
    <3>2. \A q \in Accepted \ steered : q \in echoed'
      BY <1>2, <2>2, <2>4, <3>1
    <3> QED
      BY <2>2, <2>5, <3>2 DEF Opened
  <2>7. CASE ~OpeningEcho(p)
    <3>1. opening' = opening
      BY <1>8, <2>1, <2>7 DEF Echo
    <3> QED
      BY <1>2, <2>2, <2>5, <3>1 DEF Opened
  <2> QED
    BY <2>6, <2>7
<1>9. CASE TurnCompleted
  <2>1. UNCHANGED <<shown, pending, steered, echoed>> /\ opening' = NoText
    BY <1>9 DEF TurnCompleted
  <2>2. opening = NoText
    <3>1. opening # NoText => crossed'
      BY <1>9, Zenon DEF TurnCompleted
    <3> QED
      BY <3>1 DEF Clear
  <2> QED
    BY <1>4, <2>1, <2>2 DEF Accepted
<1>10. CASE HostExited
  BY <1>10 DEF HostExited, Clear
<1> QED
  BY <1>5, <1>6, <1>7, <1>8, <1>9, <1>10, Moves

(* Sizes of finite sets with a member more.                                 *)
LEMMA OneMore ==
    ASSUME NEW S, IsFiniteSet(S), NEW x
    PROVE  /\ IsFiniteSet(S \cup {x}) /\ Cardinality(S) \in Nat
           /\ x \notin S => Cardinality(S \cup {x}) = Cardinality(S) + 1
           /\ Cardinality(S) <= Cardinality(S \cup {x})
<1>1. IsFiniteSet(S \cup {x}) /\ Cardinality(S) \in Nat
      /\ Cardinality(S \cup {x}) = (IF x \in S THEN Cardinality(S) ELSE Cardinality(S) + 1)
  BY FS_AddElement, FS_CardinalityType
<1> QED
  BY <1>1

(* Part of a finite set.                                                    *)
LEMMA SomeOf ==
    ASSUME NEW S, IsFiniteSet(S), NEW T, NEW p PROVE IsFiniteSet(Alike(T \cap S, p))
<1>1. Alike(T \cap S, p) \subseteq S
  BY DEF Alike
<1> QED
  BY <1>1, FS_Subset

(* An echo that moves the front of the queue into the transcript is of a    *)
(* steered prompt of the same text.                                         *)
LEMMA CountsStep ==
    ASSUME DeliveryInv, EchoOnce, Queued, Opened, Counts, [Next]_vars, Clear, Clear' PROVE Counts'
<1>1. Types /\ shown \in Seq(Prompt) /\ pending \in Seq(Prompt) /\ down \in Seq(Downs)
  BY DEF DeliveryInv, Types
<1>2. /\ IsFiniteSet(ToSet(shown)) /\ IsFiniteSet(echoed)
      /\ \A q \in Prompt : Cardinality(Alike(steered \cap ToSet(shown), q))
                            <= Cardinality(Alike(steered \cap echoed, q))
  BY DEF Counts
<1>3. Accepted \subseteq Prompt /\ steered \subseteq Accepted /\ ToSet(pending) \subseteq steered
  BY <1>1 DEF Accepted, ToSet, Queued
<1>4. ASSUME IsFiniteSet(ToSet(shown')), echoed' = echoed,
             steered' \cap ToSet(shown') = steered \cap ToSet(shown),
             steered' \cap echoed' = steered \cap echoed
      PROVE  Counts'
  BY <1>2, <1>4 DEF Counts, Alike
<1>5. CASE Quiet
  BY <1>2, <1>4, <1>5 DEF Quiet
<1>6. ASSUME NEW p \in Prompt, SubmitStarts(p) PROVE Counts'
  <2>1. shown' = Append(shown, p) /\ UNCHANGED <<steered, echoed>> /\ p \notin Accepted
    BY <1>6 DEF SubmitStarts
  <2>2. ToSet(shown') = ToSet(shown) \cup {p}
    BY <1>1, <2>1, OnceBehind
  <2>3. IsFiniteSet(ToSet(shown'))
    BY <1>2, <2>2, OneMore
  <2> QED
    BY <1>3, <1>4, <2>1, <2>2, <2>3
<1>7. ASSUME NEW p \in Prompt, SubmitSteers(p) PROVE Counts'
  <2>1. UNCHANGED <<shown, echoed>> /\ p \notin Accepted /\ steered' = steered \cup {p}
    BY <1>7 DEF SubmitSteers
  <2>2. p \notin ToSet(shown) /\ p \notin echoed
    BY <2>1 DEF Accepted, DeliveryInv, Origins
  <2> QED
    BY <1>2, <1>4, <2>1, <2>2
<1>8. CASE Echo
  <2>1. PICK p : p = Head(down).prompt
    OBVIOUS
  <2>2. Receive("echo") /\ echoed' = echoed \cup {p} /\ steered' = steered
    BY <1>8, <2>1 DEF Echo
  <2>3. p \in Named(down)
    BY <1>1, <2>1, <2>2, Received
  <2>4. p \in Accepted /\ p \notin echoed
    BY <2>3 DEF DeliveryInv, Origins, EchoOnce
  <2>5. IsFiniteSet(echoed')
    BY <1>2, <2>2, OneMore
  <2>6. CASE shown' = shown
    <3>1. \A q \in Prompt : /\ IsFiniteSet(Alike(steered \cap echoed, q))
                            /\ IsFiniteSet(Alike(steered \cap ToSet(shown), q))
      BY <1>2, SomeOf
    <3>2. \A q \in Prompt : \/ Alike(steered \cap echoed', q) = Alike(steered \cap echoed, q)
                            \/ Alike(steered \cap echoed', q) = Alike(steered \cap echoed, q) \cup {p}
      BY <2>2 DEF Alike
    <3>3. ASSUME NEW q \in Prompt
          PROVE  Cardinality(Alike(steered \cap ToSet(shown), q)) <= Cardinality(Alike(steered \cap echoed', q))
      <4> DEFINE A == Cardinality(Alike(steered \cap ToSet(shown), q))
                 B == Cardinality(Alike(steered \cap echoed, q))
                 C == Cardinality(Alike(steered \cap echoed', q))
      <4>1. A \in Nat /\ B \in Nat /\ A <= B
        BY <1>2, <3>1, FS_CardinalityType
      <4>2. C \in Nat /\ B <= C
        <5>1. IsFiniteSet(Alike(steered \cap echoed', q))
          BY <2>5, SomeOf
        <5>2. Cardinality(Alike(steered \cap echoed, q)) <= Cardinality(Alike(steered \cap echoed, q) \cup {p})
          BY <3>1, OneMore
        <5>3. C \in Nat
          BY <5>1, FS_CardinalityType
        <5>4. CASE Alike(steered \cap echoed', q) = Alike(steered \cap echoed, q)
          <6>1. C = B
            BY <5>4
          <6> QED
            BY <4>1, <6>1
        <5>5. CASE Alike(steered \cap echoed', q) = Alike(steered \cap echoed, q) \cup {p}
          BY <5>2, <5>3, <5>5
        <5> QED
          BY <3>2, <5>4, <5>5
      <4> HIDE DEF A, B, C
      <4>3. A <= C
        BY <4>1, <4>2
      <4> QED
        BY <4>3 DEF A, C
    <3> QED
      BY <1>2, <2>2, <2>5, <2>6, <3>3 DEF Counts
  <2>7. CASE shown' # shown
    <3>1. ~OpeningEcho(p) /\ FrontEcho(p) /\ shown' = Append(shown, Head(pending))
      BY <1>8, <2>1, <2>7 DEF Echo
    <3>2. PICK h : h = Head(pending)
      OBVIOUS
    <3>3. pending # <<>> /\ Text[h] = Text[p] /\ h \in ToSet(pending) /\ h \in Prompt
      BY <1>1, <3>1, <3>2, OnceAfter DEF FrontEcho
    <3>4. h \in steered /\ h \notin ToSet(shown)
      BY <1>3, <3>3 DEF DeliveryInv, Kept
    <3>5. p \in steered
      BY <2>4, <3>1 DEF Opened, OpeningEcho
    <3>6. ToSet(shown') = ToSet(shown) \cup {h}
      BY <1>1, <3>1, <3>2, <3>3, OnceBehind
    <3>7. IsFiniteSet(ToSet(shown'))
      BY <1>2, <3>6, OneMore
    <3>8. ASSUME NEW q \in Prompt
          PROVE  Cardinality(Alike(steered \cap ToSet(shown'), q)) <= Cardinality(Alike(steered \cap echoed', q))
      <4> DEFINE S == Alike(steered \cap ToSet(shown), q)
                 E == Alike(steered \cap echoed, q)
      <4>1. IsFiniteSet(S) /\ IsFiniteSet(E) /\ Cardinality(S) <= Cardinality(E)
        BY <1>2, SomeOf
      <4>2. CASE Text[q] = Text[p]
        <5>1. Alike(steered \cap ToSet(shown'), q) = S \cup {h} /\ Alike(steered \cap echoed', q) = E \cup {p}
          <6>1. Alike(steered \cap ToSet(shown'), q) = S \cup {h}
            BY <3>3, <3>4, <3>6, <4>2, Zenon DEF Alike
          <6>2. Alike(steered \cap echoed', q) = E \cup {p}
            BY <2>2, <3>5, <4>2, Zenon DEF Alike
          <6> QED
            BY <6>1, <6>2
        <5>2. h \notin S /\ p \notin E
          BY <2>4, <3>4 DEF Alike
        <5> HIDE DEF S, E
        <5>3. Cardinality(S \cup {h}) = Cardinality(S) + 1 /\ Cardinality(E \cup {p}) = Cardinality(E) + 1
          BY <4>1, <5>2, OneMore
        <5>4. Cardinality(S) \in Nat /\ Cardinality(E) \in Nat
          BY <4>1, FS_CardinalityType
        <5>5. Cardinality(S \cup {h}) <= Cardinality(E \cup {p})
          BY <4>1, <5>3, <5>4
        <5> QED
          BY <5>1, <5>5
      <4>3. CASE Text[q] # Text[p]
        <5>1. Alike(steered \cap ToSet(shown'), q) = S /\ Alike(steered \cap echoed', q) = E
          BY <2>2, <3>3, <3>6, <4>3 DEF Alike
        <5> QED
          BY <4>1, <5>1
      <4> QED
        BY <4>2, <4>3
    <3> QED
      BY <2>2, <2>5, <3>7, <3>8 DEF Counts
  <2> QED
    BY <2>6, <2>7
<1>9. CASE TurnCompleted
  BY <1>2, <1>4, <1>9 DEF TurnCompleted
<1>10. CASE HostExited
  BY <1>10 DEF HostExited, Clear
<1> QED
  BY <1>5, <1>6, <1>7, <1>8, <1>9, <1>10, Moves

(* A prompt put behind the queue or taken from its front leaves the order.  *)
LEMMA PrecedesKept ==
    ASSUME NEW s \in Seq(Prompt), NEW i, NEW j, Precedes(s, i, j)
    PROVE  /\ \A p \in Prompt : Precedes(Append(s, p), i, j)
           /\ i = Head(s) \/ Precedes(Tail(s), i, j)
<1>1. PICK a, b \in DOMAIN s : a < b /\ s[a] = i /\ s[b] = j
  BY DEF Precedes
<1>2. s # <<>> /\ DOMAIN s = 1..Len(s) /\ Len(s) \in Nat
  BY <1>1
<1>3. ASSUME NEW p \in Prompt PROVE Precedes(Append(s, p), i, j)
  <2>1. DOMAIN Append(s, p) = 1..(Len(s) + 1) /\ \A k \in DOMAIN s : Append(s, p)[k] = s[k]
    BY AppendAdds
  <2>2. a \in DOMAIN Append(s, p) /\ b \in DOMAIN Append(s, p)
    BY <1>1, <1>2, <2>1
  <2> QED
    BY <1>1, <2>1, <2>2 DEF Precedes
<1>4. ASSUME i # Head(s) PROVE Precedes(Tail(s), i, j)
  <2>1. /\ Head(s) = s[1] /\ DOMAIN Tail(s) = 1..(Len(s) - 1)
        /\ \A k \in 1..(Len(s) - 1) : Tail(s)[k] = s[k + 1]
    BY <1>2, TailLeaves
  <2>2. a # 1
    BY <1>1, <1>4, <2>1
  <2>3. a - 1 \in 1..(Len(s) - 1) /\ b - 1 \in 1..(Len(s) - 1) /\ a - 1 < b - 1 /\ (a - 1) + 1 = a /\ (b - 1) + 1 = b
    BY <1>1, <1>2, <2>2
  <2>4. Tail(s)[a - 1] = i /\ Tail(s)[b - 1] = j
    BY <1>1, <2>1, <2>3
  <2> QED
    BY <2>1, <2>3, <2>4 DEF Precedes
<1> QED
  BY <1>3, <1>4

(* Nothing comes before the front.                                          *)
LEMMA NoneBeforeHead ==
    ASSUME NEW s \in Seq(Prompt), s # <<>>, Once(s), NEW i PROVE ~Precedes(s, i, Head(s))
<1> SUFFICES ASSUME Precedes(s, i, Head(s)) PROVE FALSE
  OBVIOUS
<1>1. PICK a, b \in DOMAIN s : a < b /\ s[a] = i /\ s[b] = Head(s)
  BY DEF Precedes
<1>2. Head(s) = s[1] /\ 1 \in DOMAIN s /\ DOMAIN s = 1..Len(s) /\ Len(s) \in Nat
  BY TailLeaves
<1>3. b = 1
  BY <1>1, <1>2 DEF Once
<1> QED
  BY <1>1, <1>2, <1>3

(* A prompt that is still queued when its echo comes has one before it that *)
(* is done: a lost one, or one that was itself queued past its echo.        *)
LEMMA ExcusedStep ==
    ASSUME DeliveryInv, EchoOnce, Queued, Line, Excused, [Next]_vars, Clear' PROVE Excused'
<1>1. Types /\ shown \in Seq(Prompt) /\ pending \in Seq(Prompt) /\ down \in Seq(Downs) /\ Once(pending)
  BY DEF DeliveryInv, Types, Kept
<1>2. ToSet(pending) \subseteq Prompt /\ ToSet(pending) \subseteq steered
  BY <1>1 DEF ToSet, Queued
<1>3. CASE Quiet
  BY <1>3 DEF Quiet, Excused, Excuse
<1>4. ASSUME NEW p \in Prompt, SubmitStarts(p) PROVE Excused'
  <2>1. shown' = Append(shown, p) /\ UNCHANGED <<pending, echoed, lost>>
    BY <1>4 DEF SubmitStarts
  <2>2. ToSet(shown') = ToSet(shown) \cup {p}
    BY <1>1, <2>1, OnceBehind
  <2> QED
    BY <2>1, <2>2 DEF Excused, Excuse
<1>5. ASSUME NEW p \in Prompt, SubmitSteers(p) PROVE Excused'
  <2>1. UNCHANGED <<shown, echoed, lost>> /\ p \notin Accepted /\ pending' = Append(pending, p)
    BY <1>5 DEF SubmitSteers
  <2>2. p \notin echoed /\ ToSet(pending') = ToSet(pending) \cup {p}
    BY <1>1, <2>1, OnceBehind DEF DeliveryInv, Origins
  <2>3. ASSUME NEW q \in ToSet(pending) \cap echoed PROVE Excuse(q)'
    <3>1. PICK x \in lost : x \in ToSet(shown) \/ Precedes(pending, x, q)
      BY DEF Excused, Excuse
    <3>2. Precedes(pending, x, q) => Precedes(pending', x, q)
      BY <1>1, <2>1, PrecedesKept
    <3> QED
      BY <2>1, <3>1, <3>2 DEF Excuse
  <2> QED
    BY <2>1, <2>2, <2>3 DEF Excused
<1>6. CASE Echo
  <2>1. PICK p : p = Head(down).prompt
    OBVIOUS
  <2>2. PICK h : h = Head(pending)
    OBVIOUS
  <2>3. Receive("echo") /\ echoed' = echoed \cup {p} /\ lost' = lost
    BY <1>6, <2>1 DEF Echo
  <2>4. Head(down) \in EchoOf(p) /\ down # <<>>
    <3>1. Head(down) \in Downs /\ Head(down).kind = "echo"
      BY <1>1, <2>3, Received
    <3> QED
      BY <2>1, <2>3, <3>1 DEF EchoOf, Receive
  <2>5. \/ UNCHANGED <<pending, shown>>
        \/ pending # <<>> /\ shown' = Append(shown, h) /\ pending' = Tail(pending)
    BY <1>6, <2>2 DEF Echo, FrontEcho
  <2>6. /\ ToSet(pending') \subseteq ToSet(pending) /\ ToSet(shown) \subseteq ToSet(shown')
        /\ pending' # pending => h \in ToSet(shown') /\ h \notin ToSet(pending')
    <3>1. CASE pending # <<>> /\ shown' = Append(shown, h) /\ pending' = Tail(pending)
      <4>1. h \in Prompt /\ ToSet(pending) = ToSet(pending') \cup {h} /\ h \notin ToSet(pending')
        BY <1>1, <2>2, <3>1, OnceAfter
      <4>2. ToSet(shown') = ToSet(shown) \cup {h}
        BY <1>1, <3>1, <4>1, OnceBehind
      <4> QED
        BY <4>1, <4>2
    <3> QED
      BY <2>5, <3>1
  <2>7. ASSUME NEW q, NEW x \in lost, x \in ToSet(shown) \/ Precedes(pending, x, q) PROVE Excuse(q)'
    <3>1. Precedes(pending, x, q) => x \in ToSet(shown') \/ Precedes(pending', x, q)
      <4>1. CASE pending' = pending
        BY <4>1
      <4>2. CASE pending' # pending
        <5>1. Precedes(pending, x, q) => x = h \/ Precedes(Tail(pending), x, q)
          BY <1>1, <2>2, PrecedesKept
        <5> QED
          BY <2>5, <2>6, <4>2, <5>1
      <4> QED
        BY <4>1, <4>2
    <3> QED
      BY <2>3, <2>6, <2>7, <3>1 DEF Excuse
  <2>8. ASSUME NEW q \in ToSet(pending) \cap echoed PROVE Excuse(q)'
    BY <2>7 DEF Excused, Excuse
  <2>9. ASSUME p \in ToSet(pending') PROVE Excuse(p)'
    <3>1. p \in ToSet(pending) /\ p \in Prompt /\ p \in steered
      BY <1>2, <2>6, <2>9
    <3>2. p # h
      <4> SUFFICES ASSUME p = h PROVE FALSE
        OBVIOUS
      <4>1. ~OpeningEcho(p)
        <5>1. OpeningEcho(p) => crossed'
          BY <1>6, <2>1, <3>1, Zenon DEF Echo
        <5> QED
          BY <5>1 DEF Clear
      <4>2. pending # <<>>
        BY <3>1 DEF ToSet
      <4>3. FrontEcho(p)
        BY <2>2, <4>2 DEF FrontEcho
      <4>4. pending' = Tail(pending)
        BY <1>6, <2>1, <4>1, <4>3 DEF Echo
      <4>5. h \notin ToSet(pending')
        BY <1>1, <2>2, <4>2, <4>4, OnceAfter
      <4> QED
        BY <2>9, <4>5
    <3>3. pending # <<>> /\ Precedes(pending, h, p)
      BY <1>1, <2>2, <3>1, <3>2, HeadPrecedes
    <3>4. h \in Prompt /\ h \in ToSet(pending)
      BY <1>1, <2>2, <3>3, OnceAfter
    <3>5. Ahead(h, p)
      BY <3>1, <3>3, <3>4 DEF Line
    <3>6. ~Led(down, ToldOf(h), EchoOf(p))
      BY <1>1, <2>4, HasAfter
    <3>7. Done(h)
      BY <3>5, <3>6 DEF Ahead
    <3>8. CASE h \in lost
      BY <2>7, <3>3, <3>8
    <3>9. CASE h \in echoed
      <4>1. PICK x \in lost : x \in ToSet(shown) \/ Precedes(pending, x, h)
        BY <3>4, <3>9 DEF Excused, Excuse
      <4>2. ~Precedes(pending, x, h)
        BY <1>1, <2>2, <3>3, NoneBeforeHead
      <4> QED
        BY <2>7, <4>1, <4>2
    <3> QED
      BY <3>7, <3>8, <3>9 DEF Done
  <2> QED
    BY <2>3, <2>6, <2>8, <2>9 DEF Excused
<1>7. CASE TurnCompleted
  BY <1>7 DEF TurnCompleted, Excused, Excuse
<1>8. CASE HostExited
  BY <1>8 DEF HostExited, Clear
<1> QED
  BY <1>3, <1>4, <1>5, <1>6, <1>7, <1>8, Moves

(* Nothing has been submitted.                                              *)
LEMMA InitWait == Init => WaitInv
<1> SUFFICES ASSUME Init PROVE WaitInv
  OBVIOUS
<1>1. DeliveryInv
  BY InitDelivery
<1>2. EchoOnce
  BY DEF Init, EchoOnce, EchoAlone, Named, ToSet
<1>3. Turns
  BY DEF Init, Turns, TurnsTold, SteersBelow, StartsBelow, StartsOnce, ToldOfTurn
<1>4. ToSet(pending) = {} /\ ToSet(shown) = {} /\ \A i, j : ~Precedes(pending, i, j)
  BY DEF Init, ToSet, Precedes
<1>5. Queued /\ Placed /\ Line
  BY <1>4 DEF Init, Queued, Placed, Line, Accepted
<1>6. Opened
  BY <1>4 DEF Opened, Accepted
<1>7. Counted
  <2>1. \A q \in Prompt : Alike(steered \cap ToSet(shown), q) = {} /\ Alike(steered \cap echoed, q) = {}
    BY DEF Init, Alike
  <2>2. IsFiniteSet({}) /\ Cardinality({}) = 0
    BY FS_EmptySet
  <2>3. IsFiniteSet(ToSet(shown)) /\ IsFiniteSet(echoed)
    BY <1>4, <2>2 DEF Init
  <2>4. Counts
    BY <2>1, <2>2, <2>3 DEF Counts
  <2> QED
    BY <1>4, <2>4 DEF Counted, Excused
<1>8. Ended
  BY DEF Init, Ended
<1> QED
  BY <1>1, <1>2, <1>3, <1>5, <1>6, <1>7, <1>8 DEF WaitInv

(* Every step keeps the parts of WaitInv together.                          *)
LEMMA StepWait == WaitInv /\ [Next]_vars => WaitInv'
<1> SUFFICES ASSUME WaitInv, [Next]_vars PROVE WaitInv'
  OBVIOUS
<1>1. DeliveryInv /\ EchoOnce /\ Turns /\ Queued /\ Placed /\ Line /\ Ended
  BY DEF WaitInv
<1>2. DeliveryInv'
  BY <1>1, StepDelivery
<1>3. EchoOnce' /\ Turns' /\ Queued' /\ Placed'
  BY <1>1, EchoOnceStep, TurnsStep, QueuedStep, PlacedStep
<1>4. Line'
  BY <1>1, <1>2, LineStep
<1>5. Ended' /\ (Clear' => Clear)
  BY <1>1, EndedStep
<1>6. Opened'
  <2>1. ~Clear' => Opened'
    BY DEF Opened
  <2>2. Opened
    BY DEF WaitInv
  <2> QED
    BY <1>1, <1>5, <2>1, <2>2, OpenedStep
<1>7. Counted'
  <2> SUFFICES ASSUME Clear' PROVE (Counts /\ Excused)'
    BY DEF Counted
  <2>1. Opened /\ Counts /\ Excused /\ Clear
    BY <1>5 DEF WaitInv, Counted
  <2> QED
    BY <1>1, <2>1, CountsStep, ExcusedStep
<1> QED
  BY <1>2, <1>3, <1>4, <1>5, <1>6, <1>7 DEF WaitInv

(* The queue above the composer shows the prompts the harness accepted and  *)
(* has not started, for every set of prompts, whatever they say and however *)
(* often the user stops a turn: as long as each opening prompt was          *)
(* recognised by its own echo, the transcript is never ahead of the         *)
(* server's echoes, and a prompt is queued past its own only behind one     *)
(* that was lost.                                                           *)
THEOREM QueueShowsWhatWaits == Spec => []QueueIsWaiting
<1>1. WaitInv => QueueIsWaiting
  <2> SUFFICES ASSUME WaitInv, Clear PROVE NotEarly /\ NotLate
    BY DEF QueueIsWaiting, Clear
  <2>1. Counts /\ Excused /\ steered \subseteq Prompt
    BY DEF WaitInv, Counted, Queued, Accepted, DeliveryInv, Types, ToSet
  <2>2. NotEarly
    BY <2>1 DEF Counts, NotEarly
  <2>3. NotLate
    <3> SUFFICES ASSUME NEW k \in DOMAIN pending, pending[k] \in echoed
                 PROVE  lost \cap (ToSet(shown) \cup {pending[j] : j \in 1..(k - 1)}) # {}
      BY DEF NotLate
    <3>1. pending \in Seq(Prompt) /\ Once(pending) /\ DOMAIN pending = 1..Len(pending) /\ Len(pending) \in Nat
      BY DEF WaitInv, DeliveryInv, Types, Kept
    <3>2. PICK x \in lost : x \in ToSet(shown) \/ Precedes(pending, x, pending[k])
      BY <2>1 DEF Excused, Excuse, ToSet
    <3>3. CASE Precedes(pending, x, pending[k])
      <4>1. PICK a, b \in DOMAIN pending : a < b /\ pending[a] = x /\ pending[b] = pending[k]
        BY <3>3 DEF Precedes
      <4>2. b = k
        BY <3>1, <4>1 DEF Once
      <4>3. a \in 1..(k - 1)
        BY <3>1, <4>1, <4>2
      <4> QED
        BY <4>1, <4>3
    <3> QED
      BY <3>2, <3>3
  <2> QED
    BY <2>2, <2>3
<1>2. Spec => []WaitInv
  BY InitWait, StepWait, PTL DEF Spec
<1> QED
  BY <1>1, <1>2, PTL

===============================================================================
