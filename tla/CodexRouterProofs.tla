------------------------- MODULE CodexRouterProofs -------------------------
(***************************************************************************)
(* The router of the Codex app-server, for every number of tabs, threads   *)
(* and requests, and every plan of what the server and the deadlines do:   *)
(* the tables agree, nothing is answered twice, and what the server says of*)
(* a root thread comes in order.                                           *)
(*                                                                         *)
(* TablesAgree speaks of four tables and OneAnswer of what the tabs were   *)
(* given; neither knows which requests are still in flight, and both are   *)
(* broken by a reply that comes too late.  RouterInv adds that             *)
(*   Registered  a route, and a send under way, has its tab;               *)
(*   Waiting     what is asked of a tab, or held for the tab to come, the  *)
(*               server still waits for;                                   *)
(*   Silent      no answer is ever held for a tab to come;                 *)
(*   Once        a request has one answer at most, in some hand or with    *)
(*               its tab, and none while its route is open;                *)
(*   Tickets     an input is in the queue once and while its ticket says   *)
(*               so, and the server only gets what has left it;            *)
(*   Unsent      a request reported as not sent was cancelled, wherever    *)
(*               the report is on its way.                                 *)
(*                                                                         *)
(* RootOrder speaks of the inboxes only.  OrderInv follows each root       *)
(* thread's notifications from the server to the tabs:                     *)
(*   OnWay       those given, those in the reader's hand and those held    *)
(*               for the tab to come are one line without loss, in the     *)
(*               order in which they were said, and not both of the last   *)
(*               two hold any: what is held is handed over before anything *)
(*               else is;                                                  *)
(*   Told        what was given is in order, to one tab each;              *)
(*   OwnEvents   what is held for a thread is its own;                     *)
(*   Elsewhere   only the reader hands over what a root thread says;       *)
(*   AnswersPast an answer is never from a later opening than the present. *)
(***************************************************************************)
EXTENDS CodexRouter, SequenceTheorems, FiniteSetTheorems, TLAPS

(* What the tabs are sent, and what is handed over.                         *)
Message ==
    [kind : {"answer"}, request : Request, close : Nat,
     outcome : {"ok", "error", "timeout", "notSent", "rejected"}]
        \cup [kind : {"event"}, thread : Thread, n : Nat, close : Nat]
        \cup [kind : {"closed"}, thread : Thread]
        \cup [kind : {"ask", "resolved"}, ask : Ask, thread : Thread]
        \cup [kind : {"exit"}]

Delivery == [to : Owner, msg : Message]

Types ==
    /\ route \in [Request -> {"none", "open", "overdue"}]
    /\ held \in [Request -> BOOLEAN]
    /\ ticket \in [Request -> {"none", "queued", "started", "cancelled"}]
    /\ stage \in [Request -> {"new", "checked", "prepared", "written", "sent", "failed"}]
    /\ wire \in Seq(Request)
    /\ handing \in [Hand -> Seq(Delivery)]
    /\ inbox \in [Owner -> Seq(Message)]
    /\ alive \in BOOLEAN
    /\ emitted \in [Thread -> Nat] /\ closes \in [Thread -> Nat]
    /\ taken \in [Request -> {"no", "taken", "answered"}]
    /\ askState \in [Ask -> {"unsent", "sent", "answered", "twice", "resolved"}]

(* A route, and a send under way, has its tab.                              *)
Registered ==
    \A r \in Request :
        /\ route[r] # "none" => stage[r] \in {"prepared", "written", "sent"}
        /\ route[r] # "none" \/ stage[r] \in {"checked", "prepared", "written"} => By[r] \in sessions

(* What a tab is asked, now or once it claims the thread, is still open at  *)
(* the server.                                                              *)
Waiting ==
    /\ \A a \in Ask : askState[a] # "twice"
    /\ \A a \in Ask : asked[a] # NoOwner => askState[a] = "sent"
    /\ \A t \in Thread, a \in Ask :
          a \in AsksIn(early[t]) => AskThread[a] = t /\ askState[a] = "sent"

Silent == \A t \in Thread : \A k \in DOMAIN early[t] : early[t][k].kind # "answer"

(* The tables, and the server's requests they are asked for.                *)
Tables ==
    /\ sessions \subseteq Owner
    /\ owner \in [Thread -> Owner \cup {NoOwner}]
    /\ root \in [Owner -> Thread \cup {NoThread}]
    /\ asked \in [Ask -> Owner \cup {NoOwner}]
    /\ early \in [Thread -> Seq(Message)]
    /\ TablesAgree /\ Waiting /\ Silent

(* Where the answers to r are: among deliveries, and with a tab (a refusal  *)
(* its tab gives itself is not counted).                                    *)
Handed(s, r) == {k \in DOMAIN s : s[k].msg.kind = "answer" /\ s[k].msg.request = r}
Routed(s, r) == {k \in DOMAIN s : s[k].kind = "answer" /\ s[k].request = r /\ s[k].outcome # "rejected"}

Unanswered(r) == route[r] # "none" \/ stage[r] \in {"new", "checked"}

Once ==
    \A r \in Request :
        /\ \A g, h \in Hand : \A j \in Handed(handing[g], r), k \in Handed(handing[h], r) :
              g = h /\ j = k
        /\ \A j, k \in Routed(inbox[By[r]], r) : j = k
        /\ (\E h \in Hand : Handed(handing[h], r) # {}) => Routed(inbox[By[r]], r) = {}
        /\ Unanswered(r) => /\ Routed(inbox[By[r]], r) = {}
                            /\ \A h \in Hand : Handed(handing[h], r) = {}

Tickets ==
    /\ \A j, k \in DOMAIN wire : wire[j] = wire[k] => j = k
    /\ \A k \in DOMAIN wire : ticket[wire[k]] = "queued"
    /\ \A r \in Request :
          /\ stage[r] \in {"new", "checked", "prepared"} => ticket[r] = "none"
          /\ taken[r] # "no" => ticket[r] = "started"

Denied(m, r) == m.kind = "answer" /\ m.request = r /\ m.outcome = "notSent"
Stays(r) == taken[r] = "no" /\ ticket[r] = "cancelled"

Unsent ==
    \A r \in Request :
        /\ \A h \in Hand : \A k \in DOMAIN handing[h] : Denied(handing[h][k].msg, r) => Stays(r)
        /\ \A o \in Owner : \A k \in DOMAIN inbox[o] : Denied(inbox[o][k], r) => Stays(r)

RouterInv == Types /\ Tables /\ Registered /\ Once /\ Tickets /\ Unsent

-----------------------------------------------------------------------------
(* Sequences of messages and deliveries.                                    *)

(* A function on 1..n is a sequence of length n.                            *)
LEMMA ListIsSeq ==
    ASSUME NEW S, NEW n \in Nat, NEW f \in [1..n -> S]
    PROVE  f \in Seq(S) /\ Len(f) = n /\ DOMAIN f = 1..n
BY SeqDef

(* What Append keeps and what it adds.                                      *)
LEMMA AppendAdds ==
    ASSUME NEW S, NEW s \in Seq(S), NEW x \in S
    PROVE  /\ Append(s, x) \in Seq(S) /\ Len(s) \in Nat
           /\ DOMAIN s = 1..Len(s) /\ DOMAIN Append(s, x) = 1..(Len(s) + 1)
           /\ \A k \in DOMAIN s : Append(s, x)[k] = s[k]
           /\ Append(s, x)[Len(s) + 1] = x
OBVIOUS

(* What Head and Tail take from a sequence and leave of it.                 *)
LEMMA TailLeaves ==
    ASSUME NEW S, NEW s \in Seq(S), s # <<>>
    PROVE  /\ Head(s) \in S /\ Head(s) = s[1] /\ Tail(s) \in Seq(S) /\ Len(s) \in Nat \ {0}
           /\ DOMAIN s = 1..Len(s) /\ DOMAIN Tail(s) = 1..(Len(s) - 1)
           /\ \A k \in 1..(Len(s) - 1) : Tail(s)[k] = s[k + 1]
OBVIOUS

(* A message that is no answer, or one that was refused, adds none.         *)
LEMMA RoutedBehind ==
    ASSUME NEW s \in Seq(Message), NEW m \in Message, NEW r \in Request
    PROVE  /\ Append(s, m) \in Seq(Message)
           /\ Routed(Append(s, m), r) \subseteq Routed(s, r) \cup {Len(s) + 1}
           /\ Len(s) + 1 \notin Routed(s, r)
           /\ Len(s) + 1 \in Routed(Append(s, m), r) =>
                  m.kind = "answer" /\ m.request = r /\ m.outcome # "rejected"
<1> DEFINE t == Append(s, m)
           n == Len(s)
<1>1. /\ t \in Seq(Message) /\ n \in Nat /\ DOMAIN s = 1..n /\ DOMAIN t = 1..(n + 1)
      /\ (\A k \in 1..n : t[k] = s[k]) /\ t[n + 1] = m
  BY AppendAdds
<1> HIDE DEF t, n
<1>2. \A k \in 1..(n + 1) : k \in 1..n \/ k = n + 1
  BY <1>1
<1>3. n + 1 \notin 1..n
  BY <1>1
<1> QED
  BY <1>1, <1>2, <1>3 DEF Routed, t, n

(* Taking the first message a thread is handing over shifts the answers     *)
(* behind it and takes one only if it was first.                            *)
LEMMA HandedAfter ==
    ASSUME NEW s \in Seq(Delivery), s # <<>>, NEW r \in Request
    PROVE  /\ Head(s) \in Delivery /\ Tail(s) \in Seq(Delivery)
           /\ \A k \in Handed(Tail(s), r) : k + 1 \in Handed(s, r) /\ k \in Nat \ {0}
           /\ Head(s).msg.kind = "answer" /\ Head(s).msg.request = r => 1 \in Handed(s, r)
<1> DEFINE t == Tail(s)
           n == Len(s)
<1>1. /\ Head(s) \in Delivery /\ Head(s) = s[1] /\ t \in Seq(Delivery) /\ n \in Nat \ {0}
      /\ DOMAIN s = 1..n /\ DOMAIN t = 1..(n - 1) /\ \A k \in 1..(n - 1) : t[k] = s[k + 1]
  BY TailLeaves
<1> HIDE DEF t, n
<1>2. \A k \in 1..(n - 1) : k + 1 \in 1..n /\ k \in Nat \ {0}
  BY <1>1
<1>3. 1 \in 1..n
  BY <1>1
<1> QED
  BY <1>1, <1>2, <1>3 DEF Handed, t

(* Messages addressed to one tab are the same messages in the same places.  *)
LEMMA Addressed ==
    ASSUME NEW s \in Seq(Message), NEW o \in Owner
    PROVE  /\ To(o, s) \in Seq(Delivery) /\ DOMAIN To(o, s) = DOMAIN s
           /\ \A k \in DOMAIN s : To(o, s)[k].msg = s[k]
<1>1. PICK n \in Nat : n = Len(s)
  OBVIOUS
<1>2. DOMAIN s = 1..n /\ \A k \in 1..n : s[k] \in Message
  BY <1>1
<1>3. To(o, s) \in [1..n -> Delivery]
  BY <1>2 DEF To, Delivery
<1>4. To(o, s) \in Seq(Delivery)
  BY <1>3, ListIsSeq, Zenon
<1>5. \A k \in DOMAIN s : To(o, s)[k].msg = s[k]
  BY DEF To
<1> QED
  BY <1>4, <1>5 DEF To

(* A list of one message.                                                   *)
LEMMA One ==
    ASSUME NEW m \in Message
    PROVE  /\ <<m>> \in Seq(Message) /\ DOMAIN <<m>> = {1} /\ <<m>>[1] = m
OBVIOUS

(* A message put before a list is first in it, and the rest is the list.    *)
LEMMA AnswerBefore ==
    ASSUME NEW m \in Message, NEW s \in Seq(Message)
    PROVE  /\ <<m>> \o s \in Seq(Message) /\ (<<m>> \o s)[1] = m
           /\ \A k \in DOMAIN (<<m>> \o s) : k # 1 => \E j \in DOMAIN s : (<<m>> \o s)[k] = s[j]
<1>1. PICK a : a = <<m>>
  OBVIOUS
<1>2. a \in Seq(Message) /\ Len(a) = 1 /\ a[1] = m
  BY <1>1
<1>3. PICK c : c = a \o s
  OBVIOUS
<1>4. /\ a \o s \in Seq(Message) /\ Len(a \o s) = Len(a) + Len(s)
      /\ \A k \in 1..(Len(a) + Len(s)) :
            (a \o s)[k] = IF k <= Len(a) THEN a[k] ELSE s[k - Len(a)]
  BY <1>2, ConcatProperties, Zenon
<1>5. /\ c \in Seq(Message) /\ Len(c) = Len(a) + Len(s)
      /\ \A k \in 1..(Len(a) + Len(s)) : c[k] = IF k <= Len(a) THEN a[k] ELSE s[k - Len(a)]
  BY <1>3, <1>4, Zenon
<1>6. PICK n \in Nat : n = Len(s) /\ DOMAIN s = 1..n
  OBVIOUS
<1>7. DOMAIN c = 1..(1 + n) /\ \A k \in 1..(1 + n) : c[k] = IF k <= 1 THEN a[k] ELSE s[k - 1]
  BY <1>2, <1>5, <1>6
<1>8. c[1] = m
  BY <1>2, <1>6, <1>7
<1>9. ASSUME NEW k \in DOMAIN c, k # 1 PROVE \E j \in DOMAIN s : c[k] = s[j]
  <2>1. k \in 1..(1 + n) /\ ~(k <= 1) /\ k - 1 \in 1..n
    BY <1>6, <1>7, <1>9
  <2> QED
    BY <1>6, <1>7, <2>1
<1> QED
  BY <1>1, <1>3, <1>5, <1>8, <1>9

(* The messages.                                                            *)
LEMMA AnswerTyped ==
    ASSUME NEW r \in Request, closes \in [Thread -> Nat],
           NEW x \in {"ok", "error", "timeout", "notSent", "rejected"}
    PROVE  /\ Answer(r, x) \in Message /\ Answer(r, x).kind = "answer"
           /\ Answer(r, x).request = r /\ Answer(r, x).outcome = x
BY RouterAssumption DEF Answer, Message, RouterAssumption

(* What the server says about a thread is a message.                        *)
LEMMA EventTyped ==
    ASSUME NEW t \in Thread, closes \in [Thread -> Nat], emitted \in [Thread -> Nat]
    PROVE  Event(t) \in Message /\ Event(t).kind = "event"
BY DEF Event, Message

(* The end of a thread is a message.                                        *)
LEMMA ClosedTyped ==
    ASSUME NEW t \in Thread
    PROVE  Closed(t) \in Message /\ Closed(t).kind = "closed"
BY DEF Closed, Message

(* A server request and its resolution are messages and name the request.   *)
LEMMA AskTyped ==
    ASSUME NEW a \in Ask
    PROVE  /\ AskMessage(a) \in Message /\ AskMessage(a).kind = "ask" /\ AskMessage(a).ask = a
           /\ Resolved(a) \in Message /\ Resolved(a).kind = "resolved"
           /\ \A m \in Message : m.kind = "ask" => m.ask \in Ask
BY RouterAssumption DEF AskMessage, Resolved, Message, RouterAssumption

(* The end of the host is a message.                                        *)
LEMMA ExitTyped == Exit \in Message /\ Exit.kind = "exit"
BY DEF Exit, Message

(* What is asked after one more message, and after none.                    *)
LEMMA AsksBehind ==
    ASSUME NEW s \in Seq(Message), NEW m \in Message, NEW a \in AsksIn(Append(s, m))
    PROVE  m # Resolved(a) /\ (a \in AsksIn(s) \/ (m.kind = "ask" /\ m.ask = a))
<1> DEFINE t == Append(s, m)
           n == Len(s)
<1>1. /\ t \in Seq(Message) /\ n \in Nat /\ DOMAIN s = 1..n /\ DOMAIN t = 1..(n + 1)
      /\ (\A k \in 1..n : t[k] = s[k]) /\ t[n + 1] = m
  BY AppendAdds
<1>2. Len(t) = n + 1
  OBVIOUS
<1> HIDE DEF t, n
<1>3. PICK k \in 1..(n + 1) : /\ t[k].kind = "ask" /\ t[k].ask = a
                              /\ \A l \in k..(n + 1) : t[l] # Resolved(a)
  <2>1. PICK k \in DOMAIN t : /\ t[k].kind = "ask" /\ t[k].ask = a
                              /\ \A l \in k..Len(t) : t[l] # Resolved(t[k].ask)
    BY Zenon DEF AsksIn, t
  <2> QED
    BY <1>1, <1>2, <2>1
<1>4. n + 1 \in k..(n + 1)
  BY <1>1
<1>5. m # Resolved(a)
  BY <1>1, <1>3, <1>4
<1>6. CASE k = n + 1
  BY <1>1, <1>3, <1>5, <1>6
<1>7. CASE k # n + 1
  <2>1. k \in 1..n /\ \A l \in k..n : l \in k..(n + 1) /\ l \in 1..n
    BY <1>1, <1>7
  <2>2. s[k].kind = "ask" /\ s[k].ask = a /\ \A l \in k..n : s[l] # Resolved(a)
    BY <1>1, <1>3, <2>1
  <2>3. a \in AsksIn(s)
    BY <1>1, <2>1, <2>2 DEF AsksIn, n
  <2> QED
    BY <1>5, <2>3
<1> QED
  BY <1>6, <1>7

(* Nothing is asked in an empty list.                                       *)
LEMMA NothingAsked == AsksIn(<<>>) = {}
BY DEF AsksIn

(* Cancelling inputs: those still queued never start, the others keep their *)
(* tickets and their places.                                                *)
LEMMA Cancelled ==
    ASSUME Types, Tickets, NEW gone \in SUBSET Request, NEW late \in SUBSET Request,
           CancelInputs(gone, late)
    PROVE  /\ wire' \in Seq(Request)
           /\ ticket' \in [Request -> {"none", "queued", "started", "cancelled"}]
           /\ \A j, k \in DOMAIN wire' : wire'[j] = wire'[k] => j = k
           /\ \A k \in DOMAIN wire' : ticket'[wire'[k]] = "queued"
           /\ \A r \in Request : ticket'[r] = ticket[r] \/ (ticket[r] = "queued" /\ ticket'[r] = "cancelled")
           /\ \A r \in gone : Cancellable(r) => ticket'[r] = "cancelled"
<1> DEFINE off == {r \in gone : Cancellable(r)} \cup {r \in late : ticket[r] = "queued"}
           kept == {k \in DOMAIN wire : wire[k] \notin off}
<1>1. ticket' = [r \in Request |-> IF r \in off THEN "cancelled" ELSE ticket[r]]
  BY DEF CancelInputs
<1>2. PICK at \in [1..Cardinality(kept) -> kept] :
          /\ \A j, k \in DOMAIN at : j < k => at[j] < at[k]
          /\ wire' = [k \in DOMAIN at |-> wire[at[k]]]
  BY Zenon DEF CancelInputs
<1>3. PICK n \in Nat : DOMAIN wire = 1..n
  BY DEF Types
<1>4. \A k \in DOMAIN wire : wire[k] \in Request
  BY DEF Types
<1>5. Cardinality(kept) \in Nat
  <2>1. kept \subseteq 1..n
    BY <1>3
  <2>2. IsFiniteSet(kept)
    BY <1>3, <2>1, FS_Interval, FS_Subset
  <2> QED
    BY <2>2, FS_CardinalityType
<1>6. PICK c \in Nat : c = Cardinality(kept)
  BY <1>5
<1>7. \A r \in off : r \in Request /\ ticket[r] = "queued"
  BY DEF Cancellable
<1>8. \A r \in gone : Cancellable(r) => r \in off
  OBVIOUS
<1>9. kept \subseteq DOMAIN wire /\ \A k \in kept : wire[k] \notin off
  OBVIOUS
<1>10. at \in [1..c -> kept] /\ DOMAIN at = 1..c
  BY <1>2, <1>6
<1> HIDE DEF off, kept
<1>11. wire' \in [1..c -> Request]
  BY <1>2, <1>4, <1>9, <1>10
<1>12. wire' \in Seq(Request) /\ DOMAIN wire' = 1..c
  BY <1>11, ListIsSeq, Zenon
<1>13. ticket' \in [Request -> {"none", "queued", "started", "cancelled"}]
  BY <1>1 DEF Types
<1>14. \A k \in 1..c : wire'[k] = wire[at[k]] /\ at[k] \in DOMAIN wire /\ wire[at[k]] \notin off
  BY <1>2, <1>9, <1>10
<1>15. \A j, k \in 1..c : at[j] = at[k] => j = k
  <2> SUFFICES ASSUME NEW j \in 1..c, NEW k \in 1..c, at[j] = at[k], j # k PROVE FALSE
    OBVIOUS
  <2>1. j < k \/ k < j
    OBVIOUS
  <2>2. at[j] < at[k] \/ at[k] < at[j]
    <3>1. \A i, l \in 1..c : i < l => at[i] < at[l]
      BY <1>2, <1>10
    <3> QED
      BY <2>1, <3>1
  <2>3. at[j] \in Int
    BY <1>3, <1>14
  <2> QED
    BY <2>2, <2>3
<1>16. \A j, k \in DOMAIN wire' : wire'[j] = wire'[k] => j = k
  BY <1>12, <1>14, <1>15 DEF Tickets
<1>17. \A k \in DOMAIN wire' : ticket'[wire'[k]] = "queued"
  BY <1>1, <1>4, <1>12, <1>14 DEF Tickets
<1>18. \A r \in Request : ticket'[r] = ticket[r] \/ (ticket[r] = "queued" /\ ticket'[r] = "cancelled")
  BY <1>1, <1>7
<1>19. \A r \in gone : Cancellable(r) => ticket'[r] = "cancelled"
  BY <1>1, <1>8
<1> QED
  BY <1>12, <1>13, <1>16, <1>17, <1>18, <1>19

(* A step that may only cancel inputs keeps the tickets right.              *)
Cancelling ==
    /\ wire' \in Seq(Request)
    /\ ticket' \in [Request -> {"none", "queued", "started", "cancelled"}]
    /\ \A j, k \in DOMAIN wire' : wire'[j] = wire'[k] => j = k
    /\ \A k \in DOMAIN wire' : ticket'[wire'[k]] = "queued"
    /\ \A r \in Request : ticket'[r] = ticket[r] \/ (ticket[r] = "queued" /\ ticket'[r] = "cancelled")

(* A step that only withdraws input before it is written keeps the tickets  *)
(* true of what is on the wire.                                             *)
LEMMA CancellingKeeps ==
    ASSUME Types, Tickets, Cancelling,
           \A r \in Request : stage'[r] \in {"new", "checked", "prepared"}
                                 => stage[r] \in {"new", "checked", "prepared"},
           \A r \in Request : taken'[r] # "no" => taken[r] # "no"
    PROVE  Tickets'
<1>1. ASSUME NEW r \in Request, stage'[r] \in {"new", "checked", "prepared"}
      PROVE  ticket'[r] = "none"
  <2>1. ticket[r] = "none"
    BY <1>1 DEF Tickets
  <2> QED
    BY <2>1 DEF Cancelling
<1>2. ASSUME NEW r \in Request, taken'[r] # "no"
      PROVE  ticket'[r] = "started"
  <2>1. ticket[r] = "started"
    BY <1>2 DEF Tickets
  <2> QED
    BY <2>1 DEF Cancelling
<1> QED
  BY <1>1, <1>2 DEF Tickets, Cancelling

(* A step that leaves tickets and wire alone withdraws nothing.             *)
LEMMA NoCancelling ==
    ASSUME Types, Tickets, UNCHANGED <<ticket, wire>>
    PROVE  Cancelling
BY DEF Types, Tickets, Cancelling

(* Once an input is cancelled before it was sent, it stays so.              *)
LEMMA StaysCancelled ==
    ASSUME Cancelling, NEW r \in Request, Stays(r), taken'[r] = taken[r] \/ taken[r] # "no"
    PROVE  Stays(r)'
BY DEF Cancelling, Stays

(* A step that hands messages over to no tab yet, and where what is put     *)
(* into one hand answers requests that waited until then.                   *)
LEMMA OnceHanded ==
    ASSUME Types, Once, NEW h \in Hand, NEW ds \in Seq(Delivery),
           handing' = [handing EXCEPT ![h] = ds], inbox' = inbox,
           \A r \in Request : \A j, k \in Handed(ds, r) : j = k,
           \A r \in Request : Handed(ds, r) # {} => Unanswered(r) /\ ~Unanswered(r)',
           \A r \in Request : Unanswered(r)' => Unanswered(r)
    PROVE  Once'
<1> SUFFICES ASSUME NEW r \in Request
             PROVE  /\ \A g, i \in Hand : \A j \in Handed(handing'[g], r), k \in Handed(handing'[i], r) :
                          g = i /\ j = k
                    /\ \A j, k \in Routed(inbox[By[r]], r) : j = k
                    /\ (\E i \in Hand : Handed(handing'[i], r) # {}) => Routed(inbox[By[r]], r) = {}
                    /\ Unanswered(r)' => /\ Routed(inbox[By[r]], r) = {}
                                         /\ \A i \in Hand : Handed(handing'[i], r) = {}
  BY DEF Once
<1>1. handing'[h] = ds /\ \A i \in Hand : i # h => handing'[i] = handing[i]
  BY DEF Types
<1>2. CASE Handed(ds, r) = {}
  <2>1. \A i \in Hand : Handed(handing'[i], r) \subseteq Handed(handing[i], r)
    BY <1>1, <1>2
  <2>2. /\ \A g, i \in Hand : \A j \in Handed(handing[g], r), k \in Handed(handing[i], r) :
              g = i /\ j = k
        /\ \A j, k \in Routed(inbox[By[r]], r) : j = k
        /\ (\E i \in Hand : Handed(handing[i], r) # {}) => Routed(inbox[By[r]], r) = {}
        /\ Unanswered(r) => /\ Routed(inbox[By[r]], r) = {}
                            /\ \A i \in Hand : Handed(handing[i], r) = {}
    BY DEF Once
  <2>3. Unanswered(r)' => Unanswered(r)
    OBVIOUS
  <2>4. \A g, i \in Hand : \A j \in Handed(handing'[g], r), k \in Handed(handing'[i], r) :
              g = i /\ j = k
    <3> TAKE g, i \in Hand
    <3> TAKE j \in Handed(handing'[g], r), k \in Handed(handing'[i], r)
    <3>1. j \in Handed(handing[g], r) /\ k \in Handed(handing[i], r)
      BY <2>1
    <3> QED
      BY <2>2, <3>1
  <2>5. (\E i \in Hand : Handed(handing'[i], r) # {}) => Routed(inbox[By[r]], r) = {}
    BY <2>1, <2>2
  <2>6. Unanswered(r)' => /\ Routed(inbox[By[r]], r) = {}
                          /\ \A i \in Hand : Handed(handing'[i], r) = {}
    BY <2>1, <2>2, <2>3
  <2> QED
    BY <2>2, <2>4, <2>5, <2>6
<1>3. CASE Handed(ds, r) # {}
  <2>1. Unanswered(r) /\ ~Unanswered(r)'
    BY <1>3
  <2>2. Routed(inbox[By[r]], r) = {} /\ \A i \in Hand : Handed(handing[i], r) = {}
    BY <2>1 DEF Once
  <2>3. \A i \in Hand : Handed(handing'[i], r) # {} => i = h
    BY <1>1, <2>2
  <2>4. \A j, k \in Handed(handing'[h], r) : j = k
    BY <1>1
  <2> QED
    BY <2>1, <2>2, <2>3, <2>4
<1> QED
  BY <1>2, <1>3

(* A step that hands nothing over.                                          *)
LEMMA OnceKept ==
    ASSUME Types, Once, handing' = handing,
           \A r \in Request : Routed(inbox'[By[r]], r) \subseteq Routed(inbox[By[r]], r),
           \A r \in Request : Unanswered(r)' => Unanswered(r)
    PROVE  Once'
<1> SUFFICES ASSUME NEW r \in Request
             PROVE  /\ \A g, h \in Hand : \A j \in Handed(handing'[g], r), k \in Handed(handing'[h], r) :
                          g = h /\ j = k
                    /\ \A j, k \in Routed(inbox'[By[r]], r) : j = k
                    /\ (\E h \in Hand : Handed(handing'[h], r) # {}) => Routed(inbox'[By[r]], r) = {}
                    /\ Unanswered(r)' => /\ Routed(inbox'[By[r]], r) = {}
                                         /\ \A h \in Hand : Handed(handing'[h], r) = {}
  BY Zenon DEF Once
<1>1. /\ Routed(inbox'[By[r]], r) \subseteq Routed(inbox[By[r]], r)
      /\ Unanswered(r)' => Unanswered(r)
  OBVIOUS
<1>2. /\ \A g, h \in Hand : \A j \in Handed(handing[g], r), k \in Handed(handing[h], r) :
            g = h /\ j = k
      /\ \A j, k \in Routed(inbox[By[r]], r) : j = k
      /\ (\E h \in Hand : Handed(handing[h], r) # {}) => Routed(inbox[By[r]], r) = {}
      /\ Unanswered(r) => /\ Routed(inbox[By[r]], r) = {}
                          /\ \A h \in Hand : Handed(handing[h], r) = {}
  BY DEF Once
<1>3. handing' = handing
  OBVIOUS
<1> QED
  BY <1>1, <1>2, <1>3

(* The same, of what claims that a request was not sent.                    *)
LEMMA UnsentHanded ==
    ASSUME Types, Unsent, NEW h \in Hand, NEW ds \in Seq(Delivery),
           handing' = [handing EXCEPT ![h] = ds], inbox' = inbox,
           \A r \in Request : \A k \in DOMAIN ds : Denied(ds[k].msg, r) => Stays(r)',
           \A r \in Request : Stays(r) => Stays(r)'
    PROVE  Unsent'
<1>1. handing'[h] = ds /\ \A i \in Hand : i # h => handing'[i] = handing[i]
  BY DEF Types
<1>2. ASSUME NEW r \in Request, NEW i \in Hand, NEW k \in DOMAIN handing'[i],
             Denied(handing'[i][k].msg, r)
      PROVE  Stays(r)'
  <2>1. CASE i = h
    BY <1>1, <1>2, <2>1
  <2>2. CASE i # h
    BY <1>1, <1>2, <2>2 DEF Unsent
  <2> QED
    BY <2>1, <2>2
<1>3. ASSUME NEW r \in Request, NEW o \in Owner, NEW k \in DOMAIN inbox[o], Denied(inbox[o][k], r)
      PROVE  Stays(r)'
  BY <1>3 DEF Unsent
<1> QED
  BY <1>2, <1>3 DEF Unsent

(* A step that moves no message keeps what was not sent unsent, if a        *)
(* cancelled input stays so.                                                *)
LEMMA UnsentKept ==
    ASSUME Unsent, handing' = handing, inbox' = inbox,
           \A r \in Request : Stays(r) => Stays(r)'
    PROVE  Unsent'
BY DEF Unsent

(* A step that leaves the tables alone keeps them together.                 *)
LEMMA TablesKept ==
    ASSUME Tables, UNCHANGED <<ownVars, askState>>
    PROVE  Tables'
BY DEF Tables, ownVars, TablesAgree, Waiting, Silent

(* claim_thread.                                                            *)
LEMMA ClaimAgrees ==
    ASSUME Tables, NEW o \in sessions, NEW t \in Thread, owner[t] = NoOwner,
           Claim(o, t, asked), UNCHANGED <<sessions, root, askState>>
    PROVE  Tables'
<1>1. /\ owner' = [owner EXCEPT ![t] = o]
      /\ early' = [early EXCEPT ![t] = <<>>]
      /\ asked' = [a \in Ask |-> IF a \in AsksIn(early[t]) THEN o ELSE asked[a]]
  BY DEF Claim
<1>2. o \in Owner /\ o # NoOwner
  BY RouterAssumption DEF Tables, RouterAssumption
<1>3. <<>> \in Seq(Message) /\ DOMAIN <<>> = {}
  OBVIOUS
<1>4. /\ owner' \in [Thread -> Owner \cup {NoOwner}] /\ early' \in [Thread -> Seq(Message)]
      /\ asked' \in [Ask -> Owner \cup {NoOwner}]
  BY <1>1, <1>2, <1>3 DEF Tables
<1>5. /\ owner'[t] = o /\ early'[t] = <<>>
      /\ \A u \in Thread : u # t => owner'[u] = owner[u] /\ early'[u] = early[u]
  BY <1>1 DEF Tables
<1>6. \A a \in Ask : asked'[a] = IF a \in AsksIn(early[t]) THEN o ELSE asked[a]
  BY <1>1
<1>7. \A p \in Owner : root[p] # NoThread => owner'[root[p]] = p
  <2> SUFFICES ASSUME NEW p \in Owner, root[p] # NoThread PROVE owner'[root[p]] = p
    OBVIOUS
  <2>1. root[p] \in Thread /\ owner[root[p]] = p /\ p # NoOwner
    BY RouterAssumption DEF Tables, TablesAgree, RouterAssumption
  <2> QED
    BY <1>5, <2>1
<1>8. \A u \in Thread : owner'[u] # NoOwner => owner'[u] \in sessions /\ early'[u] = <<>>
  BY <1>5 DEF Tables, TablesAgree
<1>9. \A a \in Ask : asked'[a] # NoOwner => asked'[a] = owner'[AskThread[a]] /\ askState[a] = "sent"
  <2> SUFFICES ASSUME NEW a \in Ask, asked'[a] # NoOwner
               PROVE  asked'[a] = owner'[AskThread[a]] /\ askState[a] = "sent"
    OBVIOUS
  <2>1. AskThread[a] \in Thread
    BY RouterAssumption DEF RouterAssumption
  <2>2. CASE a \in AsksIn(early[t])
    BY <1>5, <1>6, <2>2 DEF Tables, Waiting
  <2>3. CASE a \notin AsksIn(early[t])
    <3>1. asked[a] # NoOwner /\ asked[a] = owner[AskThread[a]] /\ askState[a] = "sent"
      BY <1>6, <2>3 DEF Tables, TablesAgree, Waiting
    <3> QED
      BY <1>5, <1>6, <2>1, <2>3, <3>1
  <2> QED
    BY <2>2, <2>3
<1>10. \A u \in Thread, a \in Ask : a \in AsksIn(early'[u]) => AskThread[a] = u /\ askState[a] = "sent"
  BY <1>5, NothingAsked DEF Tables, Waiting
<1>11. Silent'
  BY <1>3, <1>5 DEF Tables, Silent
<1> QED
  BY <1>4, <1>7, <1>8, <1>9, <1>10, <1>11 DEF Tables, TablesAgree, Waiting

(* replace_root, for a thread no other tab owns.                            *)
LEMMA ReplaceRootAgrees ==
    ASSUME Tables, NEW o \in sessions, NEW t \in Thread, owner[t] \in {NoOwner, o},
           ReplaceRoot(o, t), UNCHANGED <<sessions, askState>>
    PROVE  Tables'
<1> DEFINE kept == [u \in Thread |-> IF owner[u] = o THEN NoOwner ELSE owner[u]]
<1>1. /\ owner' = [kept EXCEPT ![t] = o]
      /\ early' = [early EXCEPT ![t] = <<>>]
      /\ asked' = [a \in Ask |-> IF a \in AsksIn(early[t]) THEN o
                                 ELSE [b \in Ask |-> IF asked[b] = o THEN NoOwner ELSE asked[b]][a]]
      /\ root' = [root EXCEPT ![o] = t]
  BY Zenon DEF ReplaceRoot
<1>2. o \in Owner /\ o # NoOwner
  BY RouterAssumption DEF Tables, RouterAssumption
<1>3. <<>> \in Seq(Message) /\ DOMAIN <<>> = {}
  OBVIOUS
<1>4. \A a \in Ask : asked'[a] = IF a \in AsksIn(early[t]) THEN o
                                 ELSE IF asked[a] = o THEN NoOwner ELSE asked[a]
  BY <1>1
<1>5. kept \in [Thread -> Owner \cup {NoOwner}]
  BY DEF Tables
<1>6. asked' \in [Ask -> Owner \cup {NoOwner}]
  <2>1. asked' = [a \in Ask |-> asked'[a]]
    BY <1>1
  <2>2. \A a \in Ask : asked'[a] \in Owner \cup {NoOwner}
    BY <1>2, <1>4 DEF Tables
  <2> QED
    BY <2>1, <2>2
<1>7. /\ owner'[t] = o
      /\ \A u \in Thread : u # t => owner'[u] = IF owner[u] = o THEN NoOwner ELSE owner[u]
  BY <1>1, <1>5
<1> HIDE DEF kept
<1>8. /\ owner' \in [Thread -> Owner \cup {NoOwner}] /\ early' \in [Thread -> Seq(Message)]
      /\ root' \in [Owner -> Thread \cup {NoThread}]
  BY <1>1, <1>2, <1>3, <1>5 DEF Tables
<1>9. early'[t] = <<>> /\ \A u \in Thread : u # t => early'[u] = early[u]
  BY <1>1 DEF Tables
<1>10. root'[o] = t /\ \A p \in Owner : p # o => root'[p] = root[p]
  BY <1>1 DEF Tables
<1>11. \A p \in Owner : root'[p] # NoThread => owner'[root'[p]] = p
  <2> SUFFICES ASSUME NEW p \in Owner, p # o, root[p] # NoThread PROVE owner'[root[p]] = p
    BY <1>7, <1>10
  <2>1. root[p] \in Thread /\ owner[root[p]] = p /\ p # NoOwner
    BY RouterAssumption DEF Tables, TablesAgree, RouterAssumption
  <2>2. root[p] # t
    BY <2>1
  <2> QED
    BY <1>7, <2>1, <2>2
<1>12. \A u \in Thread : owner'[u] # NoOwner => owner'[u] \in sessions /\ early'[u] = <<>>
  BY <1>7, <1>9 DEF Tables, TablesAgree
<1>13. \A a \in Ask : asked'[a] # NoOwner => asked'[a] = owner'[AskThread[a]] /\ askState[a] = "sent"
  <2> SUFFICES ASSUME NEW a \in Ask, asked'[a] # NoOwner
               PROVE  asked'[a] = owner'[AskThread[a]] /\ askState[a] = "sent"
    OBVIOUS
  <2>1. AskThread[a] \in Thread
    BY RouterAssumption DEF RouterAssumption
  <2>2. CASE a \in AsksIn(early[t])
    BY <1>4, <1>7, <2>2 DEF Tables, Waiting
  <2>3. CASE a \notin AsksIn(early[t])
    <3>1. asked'[a] = asked[a] /\ asked[a] # o /\ asked[a] # NoOwner
      BY <1>4, <2>3
    <3>2. asked[a] = owner[AskThread[a]] /\ askState[a] = "sent"
      BY <3>1 DEF Tables, TablesAgree, Waiting
    <3>3. AskThread[a] # t
      BY <3>1, <3>2
    <3> QED
      BY <1>7, <2>1, <3>1, <3>2, <3>3
  <2> QED
    BY <2>2, <2>3
<1>14. \A u \in Thread, a \in Ask : a \in AsksIn(early'[u]) => AskThread[a] = u /\ askState[a] = "sent"
  BY <1>9, NothingAsked DEF Tables, Waiting
<1>15. Silent'
  BY <1>3, <1>9 DEF Tables, Silent
<1> QED
  BY <1>6, <1>8, <1>11, <1>12, <1>13, <1>14, <1>15 DEF Tables, TablesAgree, Waiting

(* remove_thread.                                                           *)
LEMMA RemoveThreadAgrees ==
    ASSUME Tables, NEW t \in Thread, RemoveThread(t), UNCHANGED <<sessions, askState>>
    PROVE  Tables'
<1>1. /\ asked' = [a \in Ask |-> IF AskThread[a] = t THEN NoOwner ELSE asked[a]]
      /\ owner' = [owner EXCEPT ![t] = NoOwner]
      /\ root' = [o \in Owner |-> IF root[o] = t THEN NoThread ELSE root[o]]
      /\ early' = [early EXCEPT ![t] = <<>>]
  BY DEF RemoveThread
<1>2. <<>> \in Seq(Message) /\ DOMAIN <<>> = {}
  OBVIOUS
<1>3. /\ owner' \in [Thread -> Owner \cup {NoOwner}] /\ early' \in [Thread -> Seq(Message)]
      /\ root' \in [Owner -> Thread \cup {NoThread}] /\ asked' \in [Ask -> Owner \cup {NoOwner}]
  BY <1>1, <1>2 DEF Tables
<1>4. /\ owner'[t] = NoOwner /\ early'[t] = <<>>
      /\ \A u \in Thread : u # t => owner'[u] = owner[u] /\ early'[u] = early[u]
  BY <1>1 DEF Tables
<1>5. \A p \in Owner : root'[p] # NoThread => owner'[root'[p]] = p
  <2> SUFFICES ASSUME NEW p \in Owner, root[p] # NoThread, root[p] # t PROVE owner'[root[p]] = p
    BY <1>1
  <2>1. root[p] \in Thread /\ owner[root[p]] = p
    BY DEF Tables, TablesAgree
  <2> QED
    BY <1>4, <2>1
<1>6. \A u \in Thread : owner'[u] # NoOwner => owner'[u] \in sessions /\ early'[u] = <<>>
  BY <1>4 DEF Tables, TablesAgree
<1>7. \A a \in Ask : asked'[a] # NoOwner => asked'[a] = owner'[AskThread[a]] /\ askState[a] = "sent"
  <2> SUFFICES ASSUME NEW a \in Ask, asked'[a] # NoOwner
               PROVE  asked'[a] = owner'[AskThread[a]] /\ askState[a] = "sent"
    OBVIOUS
  <2>1. AskThread[a] \in Thread
    BY RouterAssumption DEF RouterAssumption
  <2>2. asked'[a] = asked[a] /\ AskThread[a] # t
    BY <1>1
  <2> QED
    BY <1>4, <2>1, <2>2 DEF Tables, TablesAgree, Waiting
<1>8. \A u \in Thread, a \in Ask : a \in AsksIn(early'[u]) => AskThread[a] = u /\ askState[a] = "sent"
  BY <1>4, NothingAsked DEF Tables, Waiting
<1>9. Silent'
  BY <1>2, <1>4 DEF Tables, Silent
<1> QED
  BY <1>3, <1>5, <1>6, <1>7, <1>8, <1>9 DEF Tables, TablesAgree, Waiting

(* What a thread without an owner has held for it is dropped with its close.*)
LEMMA ForgetAgrees ==
    ASSUME Tables, NEW t \in Thread, Forget(t), UNCHANGED <<sessions, owner, root, asked, askState>>
    PROVE  Tables'
<1>1. early' = [early EXCEPT ![t] = <<>>]
  BY DEF Forget
<1>2. <<>> \in Seq(Message) /\ DOMAIN <<>> = {}
  OBVIOUS
<1>3. early' \in [Thread -> Seq(Message)]
  BY <1>1, <1>2 DEF Tables
<1>4. early'[t] = <<>> /\ \A u \in Thread : u # t => early'[u] = early[u]
  BY <1>1 DEF Tables
<1>5. TablesAgree'
  BY <1>4 DEF Tables, TablesAgree
<1>6. Waiting'
  BY <1>4, NothingAsked DEF Tables, Waiting
<1>7. Silent'
  BY <1>2, <1>4 DEF Tables, Silent
<1> QED
  BY <1>3, <1>5, <1>6, <1>7 DEF Tables

(* detach and on_stdout_closed.                                             *)
LEMMA DetachAgrees ==
    ASSUME Tables, NEW o \in Owner, sessions' = sessions \ {o},
           asked' = [a \in Ask |-> IF asked[a] = o THEN NoOwner ELSE asked[a]],
           owner' = Released(o), root' = [root EXCEPT ![o] = NoThread],
           UNCHANGED <<early, askState>>
    PROVE  Tables'
<1>1. owner' = [t \in Thread |-> IF owner[t] = o THEN NoOwner ELSE owner[t]]
  BY DEF Released
<1>2. /\ owner' \in [Thread -> Owner \cup {NoOwner}] /\ sessions' \subseteq Owner
      /\ root' \in [Owner -> Thread \cup {NoThread}] /\ asked' \in [Ask -> Owner \cup {NoOwner}]
  BY <1>1 DEF Tables
<1>3. root'[o] = NoThread /\ \A p \in Owner : p # o => root'[p] = root[p]
  BY DEF Tables
<1>4. \A p \in Owner : root'[p] # NoThread => owner'[root'[p]] = p
  <2> SUFFICES ASSUME NEW p \in Owner, p # o, root[p] # NoThread PROVE owner'[root[p]] = p
    BY <1>3
  <2>1. root[p] \in Thread /\ owner[root[p]] = p
    BY DEF Tables, TablesAgree
  <2> QED
    BY <1>1, <2>1
<1>5. \A u \in Thread : owner'[u] # NoOwner => owner'[u] \in sessions' /\ early'[u] = <<>>
  BY <1>1 DEF Tables, TablesAgree
<1>6. \A a \in Ask : asked'[a] # NoOwner => asked'[a] = owner'[AskThread[a]] /\ askState[a] = "sent"
  <2> SUFFICES ASSUME NEW a \in Ask, asked'[a] # NoOwner
               PROVE  asked'[a] = owner'[AskThread[a]] /\ askState[a] = "sent"
    OBVIOUS
  <2>1. AskThread[a] \in Thread
    BY RouterAssumption DEF RouterAssumption
  <2>2. asked'[a] = asked[a] /\ asked[a] # o
    OBVIOUS
  <2> QED
    BY <1>1, <2>1, <2>2 DEF Tables, TablesAgree, Waiting
<1> QED
  BY <1>2, <1>4, <1>5, <1>6 DEF Tables, TablesAgree, Waiting, Silent

(* The end of the process clears every table at once, and empty tables      *)
(* agree.                                                                   *)
LEMMA ClearAgrees ==
    ASSUME Tables, asked' = [a \in Ask |-> NoOwner], owner' = [t \in Thread |-> NoOwner],
           root' = [o \in Owner |-> NoThread], early' = [t \in Thread |-> <<>>],
           UNCHANGED <<sessions, askState>>
    PROVE  Tables'
<1>1. <<>> \in Seq(Message) /\ DOMAIN <<>> = {}
  OBVIOUS
<1>2. \A t \in Thread : early'[t] = <<>>
  OBVIOUS
<1>3. Waiting'
  BY <1>2, NothingAsked DEF Tables, Waiting
<1>4. Silent'
  BY <1>1, <1>2 DEF Silent
<1> QED
  BY <1>1, <1>3, <1>4 DEF Tables, TablesAgree

(* A message that is no answer, kept for a thread without an owner.         *)
LEMMA HoldAgrees ==
    ASSUME Tables, NEW t \in Thread, NEW m \in Message, m.kind # "answer", owner[t] = NoOwner,
           early' = [early EXCEPT ![t] = Hold(t, m)], UNCHANGED <<sessions, owner, root>>
    PROVE  /\ early' \in [Thread -> Seq(Message)] /\ Silent'
           /\ \A u \in Thread : owner'[u] # NoOwner => owner'[u] \in sessions' /\ early'[u] = <<>>
           /\ \A u \in Thread, b \in Ask : b \in AsksIn(early'[u]) =>
                 b \in AsksIn(early[u]) \/ (m.kind = "ask" /\ u = t /\ b = m.ask)
           /\ \A b \in Ask : b \in AsksIn(early'[t]) => m # Resolved(b)
<1>1. early[t] \in Seq(Message) /\ early' = [early EXCEPT ![t] = Append(early[t], m)]
  BY DEF Tables, Hold
<1>2. PICK q : q = Append(early[t], m)
  OBVIOUS
<1>3. /\ q \in Seq(Message) /\ Len(early[t]) \in Nat
      /\ DOMAIN early[t] = 1..Len(early[t]) /\ DOMAIN q = 1..(Len(early[t]) + 1)
      /\ \A k \in DOMAIN early[t] : q[k] = early[t][k]
      /\ q[Len(early[t]) + 1] = m
  BY <1>1, <1>2, AppendAdds
<1>4. early'[t] = q /\ \A u \in Thread : u # t => early'[u] = early[u]
  BY <1>1, <1>2 DEF Tables
<1>5. early' \in [Thread -> Seq(Message)]
  BY <1>1, <1>2, <1>3 DEF Tables
<1>6. Silent'
  <2>1. \A k \in DOMAIN q : q[k].kind # "answer"
    <3> TAKE k \in DOMAIN q
    <3>1. k \in DOMAIN early[t] \/ k = Len(early[t]) + 1
      BY <1>3
    <3> QED
      BY <1>3, <3>1 DEF Tables, Silent
  <2> QED
    BY <1>4, <2>1 DEF Tables, Silent
<1>7. \A a \in AsksIn(q) : m # Resolved(a) /\ (a \in AsksIn(early[t]) \/ (m.kind = "ask" /\ m.ask = a))
  BY <1>1, <1>2, AsksBehind
<1>8. \A u \in Thread : owner'[u] # NoOwner => owner'[u] \in sessions' /\ early'[u] = <<>>
  BY <1>4 DEF Tables, TablesAgree
<1>9. ASSUME NEW u \in Thread, NEW b \in Ask, b \in AsksIn(early'[u]), b \notin AsksIn(early[u])
      PROVE  m.kind = "ask" /\ u = t /\ b = m.ask
  BY <1>4, <1>7, <1>9
<1>10. \A b \in Ask : b \in AsksIn(early'[t]) => m # Resolved(b)
  BY <1>4, <1>7
<1> QED
  BY <1>5, <1>6, <1>8, <1>9, <1>10

(* The reader's step for a message of thread t: whom it hands over to.      *)
LEMMA Routes ==
    ASSUME Tables, NEW t \in Thread, NEW m \in Message, m.kind # "answer", Route(t, m)
    PROVE  \/ /\ owner[t] \in Owner /\ early' = early
              /\ handing' = [handing EXCEPT !["reader"] = To(owner[t], <<m>>)]
           \/ /\ owner[t] = NoOwner /\ handing' = handing
              /\ early' = [early EXCEPT ![t] = Hold(t, m)]
BY DEF Tables, Route

(* A notification that is routed, held or dropped leaves the tables         *)
(* together.                                                                *)
LEMMA NotificationAgrees ==
    ASSUME Tables, NEW t \in Thread, NEW m \in Message, m.kind \notin {"answer", "ask"},
           Route(t, m), UNCHANGED <<sessions, owner, root, asked, askState>>
    PROVE  Tables'
<1>1. CASE early' = early
  BY <1>1, TablesKept DEF ownVars
<1>2. CASE owner[t] = NoOwner /\ early' = [early EXCEPT ![t] = Hold(t, m)]
  <2>1. /\ early' \in [Thread -> Seq(Message)] /\ Silent'
        /\ \A u \in Thread : owner'[u] # NoOwner => owner'[u] \in sessions' /\ early'[u] = <<>>
        /\ \A u \in Thread, a \in Ask : a \in AsksIn(early'[u]) => a \in AsksIn(early[u])
    BY <1>2, HoldAgrees
  <2> QED
    BY <2>1 DEF Tables, TablesAgree, Waiting
<1> QED
  BY <1>1, <1>2, Routes

(* A server request recorded for the owner of its thread, or held with it,  *)
(* leaves the tables together.                                              *)
LEMMA OnAskAgrees ==
    ASSUME Tables, NEW a \in Ask, askState \in [Ask -> {"unsent", "sent", "answered", "twice", "resolved"}],
           askState[a] = "unsent", Route(AskThread[a], AskMessage(a)),
           asked' = [asked EXCEPT ![a] = owner[AskThread[a]]],
           askState' = [askState EXCEPT ![a] = "sent"], UNCHANGED <<sessions, owner, root>>
    PROVE  Tables'
<1> DEFINE t == AskThread[a]
<1>1. t \in Thread /\ AskMessage(a) \in Message /\ AskMessage(a).kind = "ask" /\ AskMessage(a).ask = a
  BY AskTyped, RouterAssumption DEF RouterAssumption
<1> HIDE DEF t
<1>2. askState'[a] = "sent" /\ \A b \in Ask : b # a => askState'[b] = askState[b]
  OBVIOUS
<1>3. asked'[a] = owner[t] /\ \A b \in Ask : b # a => asked'[b] = asked[b]
  BY DEF Tables, t
<1>4. asked' \in [Ask -> Owner \cup {NoOwner}]
  BY <1>1 DEF Tables, t
<1>5. /\ early' \in [Thread -> Seq(Message)] /\ Silent'
      /\ \A u \in Thread : owner'[u] # NoOwner => owner'[u] \in sessions' /\ early'[u] = <<>>
      /\ \A u \in Thread, b \in Ask : b \in AsksIn(early'[u]) =>
             b \in AsksIn(early[u]) \/ (u = t /\ b = a)
  <2>1. Route(t, AskMessage(a))
    BY DEF t
  <2>2. CASE early' = early
    <3>1. early' \in [Thread -> Seq(Message)] /\ Silent'
      BY <2>2 DEF Tables, Silent
    <3>2. \A u \in Thread : owner'[u] # NoOwner => owner'[u] \in sessions' /\ early'[u] = <<>>
      BY <2>2 DEF Tables, TablesAgree
    <3> QED
      BY <2>2, <3>1, <3>2
  <2>3. CASE owner[t] = NoOwner /\ early' = [early EXCEPT ![t] = Hold(t, AskMessage(a))]
    <3>1. PICK m \in Message : m = AskMessage(a)
      BY <1>1
    <3>2. m.kind = "ask" /\ m.ask = a
      BY <1>1, <3>1
    <3>3. m.kind # "answer" /\ early' = [early EXCEPT ![t] = Hold(t, m)]
      BY <2>3, <3>1, <3>2, Zenon
    <3>4. /\ early' \in [Thread -> Seq(Message)] /\ Silent'
          /\ \A u \in Thread : owner'[u] # NoOwner => owner'[u] \in sessions' /\ early'[u] = <<>>
          /\ \A u \in Thread, b \in Ask : b \in AsksIn(early'[u]) =>
                b \in AsksIn(early[u]) \/ (m.kind = "ask" /\ u = t /\ b = m.ask)
      <4>1. t \in Thread /\ owner[t] = NoOwner /\ m \in Message
        BY <1>1, <2>3, <3>1
      <4> QED
        BY <3>3, <4>1, HoldAgrees, Zenon
    <3> QED
      BY <3>2, <3>4
  <2> QED
    BY <1>1, <2>1, <2>2, <2>3, Routes
<1>6. \A b \in Ask : asked'[b] # NoOwner => asked'[b] = owner'[AskThread[b]] /\ askState'[b] = "sent"
  BY <1>2, <1>3 DEF Tables, TablesAgree, Waiting, t
<1>7. \A u \in Thread, b \in Ask : b \in AsksIn(early'[u]) => AskThread[b] = u /\ askState'[b] = "sent"
  BY <1>2, <1>5 DEF Tables, Waiting, t
<1>8. \A b \in Ask : askState'[b] # "twice"
  BY <1>2 DEF Tables, Waiting
<1>9. \A p \in Owner : root'[p] # NoThread => owner'[root'[p]] = p
  BY DEF Tables, TablesAgree
<1> QED
  BY <1>4, <1>5, <1>6, <1>7, <1>8, <1>9 DEF Tables, TablesAgree, Waiting

(* A server request that is resolved leaves the table of requests and       *)
(* nothing else refers to it.                                               *)
LEMMA OnResolvedAgrees ==
    ASSUME Tables, NEW a \in Ask, askState \in [Ask -> {"unsent", "sent", "answered", "twice", "resolved"}],
           Route(AskThread[a], Resolved(a)),
           asked' = [asked EXCEPT ![a] = NoOwner],
           askState' = [askState EXCEPT ![a] = "resolved"], UNCHANGED <<sessions, owner, root>>
    PROVE  Tables'
<1> DEFINE t == AskThread[a]
<1>1. t \in Thread /\ Resolved(a) \in Message /\ Resolved(a).kind = "resolved"
  BY AskTyped, RouterAssumption DEF RouterAssumption
<1> HIDE DEF t
<1>2. askState'[a] = "resolved" /\ \A b \in Ask : b # a => askState'[b] = askState[b]
  OBVIOUS
<1>3. asked'[a] = NoOwner /\ \A b \in Ask : b # a => asked'[b] = asked[b]
  BY DEF Tables
<1>4. asked' \in [Ask -> Owner \cup {NoOwner}]
  BY DEF Tables
<1>5. /\ early' \in [Thread -> Seq(Message)] /\ Silent'
      /\ \A u \in Thread : owner'[u] # NoOwner => owner'[u] \in sessions' /\ early'[u] = <<>>
      /\ \A u \in Thread, b \in Ask : b \in AsksIn(early'[u]) => b \in AsksIn(early[u]) /\ b # a
  <2>1. Route(t, Resolved(a))
    BY DEF t
  <2>2. CASE early' = early /\ owner[t] \in Owner
    <3>1. early[t] = <<>>
      BY <1>1, <2>2, RouterAssumption DEF Tables, TablesAgree, RouterAssumption
    <3>2. \A u \in Thread : a \notin AsksIn(early[u])
      BY <1>1, <3>1, NothingAsked DEF Tables, Waiting, t
    <3> QED
      BY <2>2, <3>2 DEF Tables, TablesAgree, Silent
  <2>3. CASE owner[t] = NoOwner /\ early' = [early EXCEPT ![t] = Hold(t, Resolved(a))]
    <3>1. /\ early' \in [Thread -> Seq(Message)] /\ Silent'
          /\ \A u \in Thread : owner'[u] # NoOwner => owner'[u] \in sessions' /\ early'[u] = <<>>
          /\ \A u \in Thread, b \in Ask : b \in AsksIn(early'[u]) => b \in AsksIn(early[u])
          /\ \A b \in Ask : b \in AsksIn(early'[t]) => Resolved(a) # Resolved(b)
      BY <1>1, <2>3, HoldAgrees
    <3>2. \A u \in Thread : a \in AsksIn(early[u]) => u = t
      BY DEF Tables, Waiting, t
    <3> QED
      BY <3>1, <3>2
  <2> QED
    BY <1>1, <2>1, <2>2, <2>3, Routes
<1>6. \A b \in Ask : asked'[b] # NoOwner => asked'[b] = owner'[AskThread[b]] /\ askState'[b] = "sent"
  BY <1>2, <1>3 DEF Tables, TablesAgree, Waiting
<1>7. \A u \in Thread, b \in Ask : b \in AsksIn(early'[u]) => AskThread[b] = u /\ askState'[b] = "sent"
  BY <1>2, <1>5 DEF Tables, Waiting
<1>8. \A b \in Ask : askState'[b] # "twice"
  BY <1>2 DEF Tables, Waiting
<1>9. \A p \in Owner : root'[p] # NoThread => owner'[root'[p]] = p
  BY DEF Tables, TablesAgree
<1> QED
  BY <1>4, <1>5, <1>6, <1>7, <1>8, <1>9 DEF Tables, TablesAgree, Waiting

(* A server request answered by its tab leaves the table of requests and    *)
(* nothing else refers to it.                                               *)
LEMMA AnswerAskAgrees ==
    ASSUME Tables, NEW a \in Ask, NEW o \in Owner, asked[a] = o,
           askState \in [Ask -> {"unsent", "sent", "answered", "twice", "resolved"}],
           asked' = [asked EXCEPT ![a] = NoOwner],
           askState' = [askState EXCEPT ![a] = IF @ = "sent" THEN "answered" ELSE "twice"],
           UNCHANGED <<sessions, owner, root, early>>
    PROVE  Tables'
<1>1. asked[a] # NoOwner
  BY RouterAssumption DEF RouterAssumption
<1>2. askState[a] = "sent" /\ asked[a] = owner[AskThread[a]]
  BY <1>1 DEF Tables, TablesAgree, Waiting
<1>3. askState'[a] = "answered" /\ \A b \in Ask : b # a => askState'[b] = askState[b]
  BY <1>2
<1>4. asked'[a] = NoOwner /\ \A b \in Ask : b # a => asked'[b] = asked[b]
  BY DEF Tables
<1>5. AskThread[a] \in Thread
  BY RouterAssumption DEF RouterAssumption
<1>6. early[AskThread[a]] = <<>>
  BY <1>1, <1>2, <1>5 DEF Tables, TablesAgree
<1>7. \A u \in Thread : a \notin AsksIn(early[u])
  BY <1>6, NothingAsked DEF Tables, Waiting
<1>8. TablesAgree'
  BY <1>4 DEF Tables, TablesAgree
<1>9. Waiting'
  BY <1>3, <1>4, <1>7 DEF Tables, Waiting
<1> QED
  BY <1>8, <1>9 DEF Tables, Silent

(* Handing over anything but an answer.                                     *)
Quiet(ds) == \A k \in DOMAIN ds : ds[k].msg.kind # "answer"

HandsQuietly ==
    \/ handing' = handing
    \/ \E h \in Hand, ds \in Seq(Delivery) : Quiet(ds) /\ handing' = [handing EXCEPT ![h] = ds]

(* A step that hands over no answer, and under which what is answered or    *)
(* cancelled stays so, keeps every answer single.                           *)
LEMMA QuietStep ==
    ASSUME Types, Once, Unsent, HandsQuietly, inbox' = inbox,
           \A r \in Request : Unanswered(r)' => Unanswered(r),
           \A r \in Request : Stays(r) => Stays(r)'
    PROVE  handing' \in [Hand -> Seq(Delivery)] /\ Once' /\ Unsent'
<1>1. CASE handing' = handing
  BY <1>1, OnceKept, UnsentKept DEF Types
<1>2. ASSUME NEW h \in Hand, NEW ds \in Seq(Delivery), Quiet(ds), handing' = [handing EXCEPT ![h] = ds]
      PROVE  handing' \in [Hand -> Seq(Delivery)] /\ Once' /\ Unsent'
  <2>1. \A r \in Request : Handed(ds, r) = {}
    BY <1>2 DEF Quiet, Handed
  <2>2. \A r \in Request : \A k \in DOMAIN ds : ~Denied(ds[k].msg, r)
    BY <1>2 DEF Quiet, Denied
  <2>3. Once'
    BY <1>2, <2>1, OnceHanded
  <2>4. Unsent'
    BY <1>2, <2>2, UnsentHanded
  <2> QED
    BY <1>2, <2>3, <2>4 DEF Types
<1> QED
  BY <1>1, <1>2 DEF HandsQuietly

(* Messages without an answer that are handed to one tab are handed over    *)
(* quietly.                                                                 *)
LEMMA QuietlyTo ==
    ASSUME NEW h \in Hand, NEW o \in Owner, NEW ms \in Seq(Message),
           \A k \in DOMAIN ms : ms[k].kind # "answer", handing' = [handing EXCEPT ![h] = To(o, ms)]
    PROVE  HandsQuietly
<1>1. To(o, ms) \in Seq(Delivery) /\ Quiet(To(o, ms))
  BY Addressed DEF Quiet
<1> QED
  BY <1>1 DEF HandsQuietly

(* A step that leaves the tabs and the stages alone, and prepares no        *)
(* request, keeps requests with registered tabs.                            *)
LEMMA RegisteredKept ==
    ASSUME Registered, sessions' = sessions, stage' = stage,
           \A r \in Request : route'[r] # "none" => route[r] # "none"
    PROVE  Registered' /\ \A r \in Request : Unanswered(r)' => Unanswered(r)
BY DEF Registered, Unanswered

-----------------------------------------------------------------------------
(* Every step keeps RouterInv.  First those of a tab's thread.              *)

(* A refusal, which its tab answers itself, is not counted.                 *)
LEMMA RefusalKeeps ==
    ASSUME Types, Once, Unsent, NEW r \in Request, handing' = handing,
           inbox' = [inbox EXCEPT ![By[r]] = Append(@, Answer(r, "rejected"))],
           \A q \in Request : Unanswered(q)' => Unanswered(q),
           \A q \in Request : Stays(q) => Stays(q)'
    PROVE  inbox' \in [Owner -> Seq(Message)] /\ Once' /\ Unsent'
<1> DEFINE o == By[r]
<1>1. PICK m : m = Answer(r, "rejected")
  OBVIOUS
<1>2. m \in Message /\ m.kind = "answer" /\ m.request = r /\ m.outcome = "rejected"
  BY <1>1, AnswerTyped DEF Types
<1>3. o \in Owner
  BY RouterAssumption DEF RouterAssumption
<1>4. inbox[o] \in Seq(Message)
  BY <1>3 DEF Types
<1>5. PICK s : s = Append(inbox[o], m)
  OBVIOUS
<1> HIDE DEF o
<1>6. /\ s \in Seq(Message) /\ Len(inbox[o]) \in Nat
      /\ DOMAIN inbox[o] = 1..Len(inbox[o]) /\ DOMAIN s = 1..(Len(inbox[o]) + 1)
      /\ \A k \in DOMAIN inbox[o] : s[k] = inbox[o][k]
      /\ s[Len(inbox[o]) + 1] = m
  BY <1>2, <1>4, <1>5, AppendAdds
<1>7. inbox' = [inbox EXCEPT ![o] = s]
  BY <1>1, <1>5 DEF o
<1>8. inbox'[o] = s /\ \A p \in Owner : p # o => inbox'[p] = inbox[p]
  BY <1>3, <1>7 DEF Types
<1>9. inbox' \in [Owner -> Seq(Message)]
  BY <1>6, <1>7 DEF Types
<1>10. \A k \in DOMAIN s : k \in DOMAIN inbox[o] \/ (k = Len(inbox[o]) + 1 /\ s[k] = m)
  BY <1>6
<1>11. \A q \in Request : Routed(s, q) \subseteq Routed(inbox[o], q)
  BY <1>2, <1>6, <1>10 DEF Routed
<1>12. Once'
  <2>1. \A q \in Request : Routed(inbox'[By[q]], q) \subseteq Routed(inbox[By[q]], q)
    BY <1>8, <1>11, RouterAssumption DEF RouterAssumption
  <2> QED
    BY <2>1, OnceKept
<1>13. Unsent'
  <2>1. ASSUME NEW q \in Request, NEW p \in Owner, NEW k \in DOMAIN inbox'[p], Denied(inbox'[p][k], q)
        PROVE  Stays(q)
    <3>1. CASE p = o
      <4>1. k \in DOMAIN inbox[o] /\ inbox'[p][k] = inbox[o][k]
        BY <1>2, <1>6, <1>8, <1>10, <2>1, <3>1 DEF Denied
      <4> QED
        BY <1>3, <2>1, <4>1 DEF Unsent
    <3>2. CASE p # o
      BY <1>8, <2>1, <3>2 DEF Unsent
    <3> QED
      BY <3>1, <3>2
  <2> QED
    BY <2>1 DEF Unsent
<1> QED
  BY <1>9, <1>12, <1>13

(* send finds the host open and the request passes its first check.         *)
LEMMA SendStartKeeps ==
    ASSUME RouterInv, NEW r \in Request, SendStart(r)
    PROVE  RouterInv'
<1>1. Types /\ Tables /\ Registered /\ Once /\ Tickets /\ Unsent
  BY DEF RouterInv
<1>2. /\ stage[r] = "new" /\ By[r] \in sessions
      /\ stage' = [stage EXCEPT ![r] = IF alive THEN "checked" ELSE "failed"]
      /\ inbox' = IF alive THEN inbox
                  ELSE [inbox EXCEPT ![By[r]] = Append(@, Answer(r, "rejected"))]
      /\ UNCHANGED <<ownVars, route, held, ticket, wire, handing, serverVars, alive>>
  BY DEF SendStart, lifeVars
<1>3. Tables'
  BY <1>1, <1>2, TablesKept DEF serverVars
<1>4. /\ stage'[r] = (IF alive THEN "checked" ELSE "failed")
      /\ \A q \in Request : q # r => stage'[q] = stage[q]
  BY <1>1, <1>2 DEF Types
<1>5. Registered'
  BY <1>1, <1>2, <1>4 DEF Registered, ownVars
<1>6. Tickets'
  <2>1. Cancelling
    BY <1>1, <1>2, NoCancelling
  <2> QED
    BY <1>1, <1>2, <1>4, <2>1, CancellingKeeps DEF serverVars
<1>7. \A q \in Request : Unanswered(q)' => Unanswered(q)
  BY <1>2, <1>4 DEF Unanswered
<1>8. \A q \in Request : Stays(q) => Stays(q)'
  BY <1>2 DEF Stays, serverVars
<1>9. inbox' \in [Owner -> Seq(Message)] /\ Once' /\ Unsent'
  <2>1. CASE alive
    BY <1>1, <1>2, <1>7, <1>8, <2>1, OnceKept, UnsentKept DEF Types
  <2>2. CASE ~alive
    BY <1>1, <1>2, <1>7, <1>8, <2>2, RefusalKeeps
  <2> QED
    BY <2>1, <2>2
<1>10. Types'
  BY <1>1, <1>2, <1>9 DEF Types, serverVars
<1> QED
  BY <1>3, <1>5, <1>6, <1>9, <1>10 DEF RouterInv

(* prepare_outgoing enters the request in the table under the lock.         *)
LEMMA PrepareOutgoingKeeps ==
    ASSUME RouterInv, NEW r \in Request, PrepareOutgoing(r)
    PROVE  RouterInv'
<1>1. Types /\ Tables /\ Registered /\ Once /\ Tickets /\ Unsent
  BY DEF RouterInv
<1>2. /\ stage[r] = "checked" /\ stage' = [stage EXCEPT ![r] = "prepared"]
      /\ route' = [route EXCEPT ![r] = "open"]
      /\ UNCHANGED <<ownVars, held, ticket, wire, handing, inbox, serverVars, alive>>
  BY DEF PrepareOutgoing, lifeVars
<1>3. Tables'
  BY <1>1, <1>2, TablesKept DEF serverVars
<1>4. /\ stage'[r] = "prepared" /\ route'[r] = "open"
      /\ \A q \in Request : q # r => stage'[q] = stage[q] /\ route'[q] = route[q]
  BY <1>1, <1>2 DEF Types
<1>5. Registered'
  BY <1>1, <1>2, <1>4 DEF Registered, ownVars
<1>6. Tickets'
  <2>1. Cancelling
    BY <1>1, <1>2, NoCancelling
  <2> QED
    BY <1>1, <1>2, <1>4, <2>1, CancellingKeeps DEF serverVars
<1>7. \A q \in Request : Unanswered(q)' => Unanswered(q)
  BY <1>2, <1>4 DEF Unanswered
<1>8. Once' /\ Unsent'
  BY <1>1, <1>2, <1>7, OnceKept, UnsentKept DEF Stays, serverVars
<1>9. Types'
  BY <1>1, <1>2 DEF Types, serverVars
<1> QED
  BY <1>3, <1>5, <1>6, <1>8, <1>9 DEF RouterInv

(* The input joins the queue once: it had no ticket.                        *)
LEMMA WriteKeeps ==
    ASSUME RouterInv, NEW r \in Request, Write(r)
    PROVE  RouterInv'
<1>1. Types /\ Tables /\ Registered /\ Once /\ Tickets /\ Unsent
  BY DEF RouterInv
<1>2. /\ stage[r] = "prepared" /\ stage' = [stage EXCEPT ![r] = "written"]
      /\ ticket' = [ticket EXCEPT ![r] = "queued"] /\ wire' = Append(wire, r)
      /\ UNCHANGED <<ownVars, route, held, handing, inbox, serverVars, alive>>
  BY DEF Write, lifeVars
<1>3. Tables'
  BY <1>1, <1>2, TablesKept DEF serverVars
<1>4. /\ stage'[r] = "written" /\ ticket'[r] = "queued"
      /\ \A q \in Request : q # r => stage'[q] = stage[q] /\ ticket'[q] = ticket[q]
  BY <1>1, <1>2 DEF Types
<1>5. Registered'
  BY <1>1, <1>2, <1>4 DEF Registered, ownVars
<1>6. ticket[r] = "none" /\ taken[r] = "no"
  BY <1>1, <1>2 DEF Tickets
<1>7. /\ wire' \in Seq(Request) /\ Len(wire) \in Nat
      /\ DOMAIN wire = 1..Len(wire) /\ DOMAIN wire' = 1..(Len(wire) + 1)
      /\ \A k \in DOMAIN wire : wire'[k] = wire[k]
      /\ wire'[Len(wire) + 1] = r
  BY <1>1, <1>2, AppendAdds DEF Types
<1>8. \A k \in DOMAIN wire : wire[k] \in Request /\ wire[k] # r /\ ticket[wire[k]] = "queued"
  BY <1>1, <1>6 DEF Types, Tickets
<1>9. Tickets'
  <2>1. \A k \in DOMAIN wire' : k \in DOMAIN wire \/ k = Len(wire) + 1
    BY <1>7
  <2>2. \A j, k \in DOMAIN wire' : wire'[j] = wire'[k] => j = k
    BY <1>1, <1>7, <1>8, <2>1 DEF Tickets
  <2>3. \A k \in DOMAIN wire' : ticket'[wire'[k]] = "queued"
    BY <1>4, <1>7, <1>8, <2>1
  <2>4. \A q \in Request :
          /\ stage'[q] \in {"new", "checked", "prepared"} => ticket'[q] = "none"
          /\ taken[q] # "no" => ticket'[q] = "started"
    BY <1>1, <1>4, <1>6 DEF Tickets
  <2> QED
    BY <1>2, <2>2, <2>3, <2>4 DEF Tickets, serverVars
<1>10. \A q \in Request : Unanswered(q)' => Unanswered(q)
  BY <1>2, <1>4 DEF Unanswered
<1>11. \A q \in Request : Stays(q) => Stays(q)'
  BY <1>2, <1>4, <1>6 DEF Stays, serverVars
<1>12. Once' /\ Unsent'
  BY <1>1, <1>2, <1>10, <1>11, OnceKept, UnsentKept
<1>13. Types'
  BY <1>1, <1>2, <1>7 DEF Types, serverVars
<1> QED
  BY <1>3, <1>5, <1>9, <1>12, <1>13 DEF RouterInv

(* The child's queue refuses the request, and the router takes it back.     *)
LEMMA WriteRefusedKeeps ==
    ASSUME RouterInv, NEW r \in Request, WriteRefused(r)
    PROVE  RouterInv'
<1>1. Types /\ Tables /\ Registered /\ Once /\ Tickets /\ Unsent
  BY DEF RouterInv
<1>2. /\ stage[r] = "prepared" /\ stage' = [stage EXCEPT ![r] = "failed"]
      /\ route' = [route EXCEPT ![r] = "none"]
      /\ inbox' = [inbox EXCEPT ![By[r]] = Append(@, Answer(r, "rejected"))]
      /\ UNCHANGED <<ownVars, held, ticket, wire, handing, serverVars, alive>>
  BY DEF WriteRefused, RejectOutgoing, lifeVars
<1>3. Tables'
  BY <1>1, <1>2, TablesKept DEF serverVars
<1>4. /\ stage'[r] = "failed" /\ route'[r] = "none"
      /\ \A q \in Request : q # r => stage'[q] = stage[q] /\ route'[q] = route[q]
  BY <1>1, <1>2 DEF Types
<1>5. Registered'
  BY <1>1, <1>2, <1>4 DEF Registered, ownVars
<1>6. Tickets'
  <2>1. Cancelling
    BY <1>1, <1>2, NoCancelling
  <2> QED
    BY <1>1, <1>2, <1>4, <2>1, CancellingKeeps DEF serverVars
<1>7. \A q \in Request : Unanswered(q)' => Unanswered(q)
  BY <1>4 DEF Unanswered
<1>8. \A q \in Request : Stays(q) => Stays(q)'
  BY <1>2 DEF Stays, serverVars
<1>9. inbox' \in [Owner -> Seq(Message)] /\ Once' /\ Unsent'
  BY <1>1, <1>2, <1>7, <1>8, RefusalKeeps
<1>10. Types'
  BY <1>1, <1>2, <1>9 DEF Types, serverVars
<1> QED
  BY <1>3, <1>5, <1>6, <1>9, <1>10 DEF RouterInv

(* The request is queued and its ticket attached to the entry, if that is   *)
(* still there.                                                             *)
LEMMA AttachInputKeeps ==
    ASSUME RouterInv, NEW r \in Request, AttachInput(r)
    PROVE  RouterInv'
<1>1. Types /\ Tables /\ Registered /\ Once /\ Tickets /\ Unsent
  BY DEF RouterInv
<1>2. /\ stage[r] = "written" /\ stage' = [stage EXCEPT ![r] = "sent"]
      /\ held' \in [Request -> BOOLEAN]
      /\ UNCHANGED <<ticket, wire>> \/ CancelInputs({}, {r})
      /\ UNCHANGED <<ownVars, route, handing, inbox, serverVars, alive>>
  BY <1>1 DEF AttachInput, lifeVars, Types
<1>3. Tables'
  BY <1>1, <1>2, TablesKept DEF serverVars
<1>4. /\ stage'[r] = "sent"
      /\ \A q \in Request : q # r => stage'[q] = stage[q]
  BY <1>1, <1>2 DEF Types
<1>5. Registered'
  BY <1>1, <1>2, <1>4 DEF Registered, ownVars
<1>6. Cancelling
  BY <1>1, <1>2, NoCancelling, Cancelled DEF Cancelling
<1>7. Tickets'
  BY <1>1, <1>2, <1>4, <1>6, CancellingKeeps DEF serverVars
<1>8. \A q \in Request : Unanswered(q)' => Unanswered(q)
  BY <1>2, <1>4 DEF Unanswered
<1>9. \A q \in Request : Stays(q) => Stays(q)'
  BY <1>2, <1>6, StaysCancelled DEF serverVars
<1>10. Once' /\ Unsent'
  BY <1>1, <1>2, <1>8, <1>9, OnceKept, UnsentKept
<1>11. Types'
  BY <1>1, <1>2, <1>6 DEF Types, serverVars, Cancelling
<1> QED
  BY <1>3, <1>5, <1>7, <1>10, <1>11 DEF RouterInv

-----------------------------------------------------------------------------
(* An answer, put into a hand with what may follow it: its route goes with  *)
(* the step.                                                                *)
LEMMA AnswerStep ==
    ASSUME Types, Once, Unsent, NEW h \in Hand, NEW r \in Request, NEW ms \in Seq(Message),
           handing' = [handing EXCEPT ![h] = To(By[r], ms)], inbox' = inbox,
           Unanswered(r), ~Unanswered(r)',
           \A k \in DOMAIN ms : ms[k].kind = "answer" =>
               k = 1 /\ ms[k].request = r /\ (ms[k].outcome = "notSent" => Stays(r)'),
           \A q \in Request : Unanswered(q)' => Unanswered(q),
           \A q \in Request : Stays(q) => Stays(q)'
    PROVE  handing' \in [Hand -> Seq(Delivery)] /\ Once' /\ Unsent'
<1>1. PICK ds : ds = To(By[r], ms)
  OBVIOUS
<1>2. /\ ds \in Seq(Delivery) /\ DOMAIN ds = DOMAIN ms
      /\ \A k \in DOMAIN ms : ds[k].msg = ms[k]
  BY <1>1, Addressed, RouterAssumption DEF RouterAssumption
<1>3. handing' = [handing EXCEPT ![h] = ds]
  BY <1>1
<1>4. \A q \in Request : \A k \in Handed(ds, q) : k = 1 /\ q = r
  BY <1>2 DEF Handed
<1>5. \A q \in Request : \A j, k \in Handed(ds, q) : j = k
  BY <1>4
<1>6. \A q \in Request : Handed(ds, q) # {} => Unanswered(q) /\ ~Unanswered(q)'
  <2> TAKE q \in Request
  <2>1. Handed(ds, q) # {} => q = r
    BY <1>4
  <2> QED
    BY <2>1
<1>7. \A q \in Request : \A k \in DOMAIN ds : Denied(ds[k].msg, q) => Stays(q)'
  <2> TAKE q \in Request
  <2> TAKE k \in DOMAIN ds
  <2>1. Denied(ds[k].msg, q) => q = r /\ Stays(r)'
    BY <1>2 DEF Denied
  <2> QED
    BY <2>1
<1>8. Once'
  BY <1>2, <1>3, <1>5, <1>6, OnceHanded
<1>9. Unsent'
  BY <1>2, <1>3, <1>7, UnsentHanded
<1> QED
  BY <1>2, <1>3, <1>8, <1>9 DEF Types

(* timeout_response: what says that the request was not sent cancels it.    *)
LEMMA TimeoutStep ==
    ASSUME RouterInv, NEW h \in Hand, NEW r \in Request, NEW ms \in Seq(Message),
           route[r] = "overdue", Expired({r}),
           handing' = [handing EXCEPT ![h] = To(By[r], ms)],
           ms = <<>> \/ ms = <<TimeoutAnswer(r)>>,
           \A q \in Request : taken'[q] = taken[q] \/ (taken[q] # "no" /\ taken'[q] # "no"),
           UNCHANGED <<sessions, inbox, stage>>
    PROVE  /\ route' \in [Request -> {"none", "open", "overdue"}]
           /\ Cancelling /\ handing' \in [Hand -> Seq(Delivery)]
           /\ Registered' /\ Once' /\ Tickets' /\ Unsent'
<1>1. Types /\ Registered /\ Once /\ Tickets /\ Unsent
  BY DEF RouterInv
<1>2. /\ route' = [q \in Request |-> IF q \in {r} THEN "none" ELSE route[q]]
      /\ CancelInputs({r}, {})
  BY DEF Expired
<1>3. route'[r] = "none" /\ \A q \in Request : q # r => route'[q] = route[q]
  BY <1>2
<1>4. route' \in [Request -> {"none", "open", "overdue"}]
  BY <1>1, <1>2 DEF Types
<1>5. Cancelling /\ (Cancellable(r) => ticket'[r] = "cancelled")
  BY <1>1, <1>2, Cancelled DEF Cancelling
<1>6. Registered' /\ \A q \in Request : Unanswered(q)' => Unanswered(q)
  BY <1>1, <1>3, RegisteredKept
<1>7. Tickets'
  BY <1>1, <1>5, CancellingKeeps
<1>8. \A q \in Request : Stays(q) => Stays(q)'
  BY <1>5, StaysCancelled
<1>9. Unanswered(r) /\ ~Unanswered(r)'
  <2>1. stage[r] \in {"prepared", "written", "sent"}
    BY <1>1 DEF Registered
  <2> QED
    BY <1>3, <2>1 DEF Unanswered
<1>10. Cancellable(r) => Stays(r)'
  <2> SUFFICES ASSUME Cancellable(r) PROVE Stays(r)'
    OBVIOUS
  <2>1. ticket[r] = "queued"
    BY DEF Cancellable
  <2>2. taken[r] = "no"
    BY <1>1, <2>1 DEF Tickets, Types
  <2> QED
    BY <1>5, <2>2 DEF Stays
<1>11. ASSUME NEW k \in DOMAIN ms, ms[k].kind = "answer"
       PROVE  k = 1 /\ ms[k].request = r /\ (ms[k].outcome = "notSent" => Stays(r)')
  <2>1. PICK m : m = TimeoutAnswer(r)
    OBVIOUS
  <2>2. m \in Message /\ m.request = r /\ (m.outcome = "notSent" => Cancellable(r))
    BY <1>1, <2>1, AnswerTyped DEF TimeoutAnswer, Types
  <2>3. ms = <<m>>
    BY <1>11, <2>1
  <2>4. k = 1 /\ ms[k] = m
    BY <2>2, <2>3, One
  <2> QED
    BY <1>10, <2>2, <2>4
<1>12. handing' \in [Hand -> Seq(Delivery)] /\ Once' /\ Unsent'
  BY <1>1, <1>6, <1>8, <1>9, <1>11, AnswerStep
<1> QED
  BY <1>4, <1>5, <1>6, <1>7, <1>12

(* A request's deadline is reached.                                         *)
LEMMA TimePassesKeeps ==
    ASSUME RouterInv, NEW r \in Request, TimePasses(r)
    PROVE  RouterInv'
<1>1. Types /\ Tables /\ Registered /\ Once /\ Tickets /\ Unsent
  BY DEF RouterInv
<1>2. /\ route[r] = "open" /\ route' = [route EXCEPT ![r] = "overdue"]
      /\ UNCHANGED <<ownVars, held, ticket, stage, wire, handing, inbox, serverVars, alive>>
  BY DEF TimePasses, lifeVars
<1>3. Tables'
  BY <1>1, <1>2, TablesKept DEF serverVars
<1>4. \A q \in Request : route'[q] # "none" => route[q] # "none"
  BY <1>1, <1>2 DEF Types
<1>5. Registered' /\ \A q \in Request : Unanswered(q)' => Unanswered(q)
  BY <1>1, <1>2, <1>4, RegisteredKept DEF ownVars
<1>6. Tickets'
  BY <1>1, <1>2 DEF Tickets, serverVars
<1>7. Once' /\ Unsent'
  BY <1>1, <1>2, <1>5, OnceKept, UnsentKept DEF Stays, serverVars
<1>8. Types'
  BY <1>1, <1>2 DEF Types, serverVars
<1> QED
  BY <1>3, <1>5, <1>6, <1>7, <1>8 DEF RouterInv

(* expire_requests takes an overdue request from the table, cancels its     *)
(* input, and answers what it knows.                                        *)
LEMMA ExpireRequestsKeeps ==
    ASSUME RouterInv, NEW r \in Request, ExpireRequests(r)
    PROVE  RouterInv'
<1>1. Types /\ Tables
  BY DEF RouterInv
<1>2. PICK ms : ms = ExpireAnswers(r)
  OBVIOUS
<1>3. /\ route[r] = "overdue" /\ Expired({r})
      /\ handing' = [handing EXCEPT !["timer"] = To(By[r], ms)]
      /\ UNCHANGED <<ownVars, held, stage, inbox, serverVars, alive>>
  BY <1>2 DEF ExpireRequests, Overdue, lifeVars
<1>4. (ms = <<>> \/ ms = <<TimeoutAnswer(r)>>) /\ ms \in Seq(Message)
  BY <1>1, <1>2, AnswerTyped DEF ExpireAnswers, TimeoutAnswer, Types
<1>5. "timer" \in Hand
  BY DEF Hand
<1>6. Tables'
  BY <1>1, <1>3, TablesKept DEF serverVars
<1>7. /\ route' \in [Request -> {"none", "open", "overdue"}]
      /\ Cancelling /\ handing' \in [Hand -> Seq(Delivery)]
      /\ Registered' /\ Once' /\ Tickets' /\ Unsent'
  BY <1>3, <1>4, <1>5, TimeoutStep DEF serverVars, ownVars
<1>8. Types'
  BY <1>1, <1>3, <1>7 DEF Types, serverVars, Cancelling
<1> QED
  BY <1>6, <1>7, <1>8 DEF RouterInv

(* Letting go of routes without an answer.                                  *)
LEMMA DropStep ==
    ASSUME Types, Once, Tickets, NEW rs \in SUBSET Request, Drop(rs)
    PROVE  /\ route' \in [Request -> {"none", "open", "overdue"}]
           /\ \A q \in Request : route'[q] = IF q \in rs THEN "none" ELSE route[q]
           /\ Cancelling
<1>1. route' = [q \in Request |-> IF q \in rs THEN "none" ELSE route[q]]
  BY DEF Drop
<1>2. CancelInputs({r \in rs : Retires(r)}, {})
  BY DEF Drop
<1>3. PICK gone \in SUBSET Request : gone = {r \in rs : Retires(r)}
  OBVIOUS
<1>4. CancelInputs(gone, {})
  BY <1>2, <1>3
<1>5. Cancelling
  BY <1>4, Cancelled DEF Cancelling
<1> QED
  BY <1>1, <1>5 DEF Types

(* A tab that retires a request takes it from the table and hears no more   *)
(* of it.                                                                   *)
LEMMA RetainRequestsKeeps ==
    ASSUME RouterInv, NEW o \in Owner, NEW r \in Request, RetainRequests(o, r)
    PROVE  RouterInv'
<1>1. Types /\ Tables /\ Registered /\ Once /\ Tickets /\ Unsent
  BY DEF RouterInv
<1>2. Drop({r}) /\ UNCHANGED <<ownVars, held, stage, handing, inbox, serverVars, alive>>
  BY DEF RetainRequests, lifeVars
<1>3. Tables'
  BY <1>1, <1>2, TablesKept DEF serverVars
<1>4. /\ route' \in [Request -> {"none", "open", "overdue"}]
      /\ \A q \in Request : route'[q] = IF q \in {r} THEN "none" ELSE route[q]
      /\ Cancelling
  BY <1>1, <1>2, DropStep
<1>5. Registered' /\ \A q \in Request : Unanswered(q)' => Unanswered(q)
  BY <1>1, <1>2, <1>4, RegisteredKept DEF ownVars
<1>6. Tickets'
  BY <1>1, <1>2, <1>4, CancellingKeeps DEF serverVars
<1>7. \A q \in Request : Stays(q) => Stays(q)'
  BY <1>2, <1>4, StaysCancelled DEF serverVars
<1>8. Once' /\ Unsent'
  BY <1>1, <1>2, <1>5, <1>7, OnceKept, UnsentKept
<1>9. Types'
  BY <1>1, <1>2, <1>4 DEF Types, serverVars, Cancelling
<1> QED
  BY <1>3, <1>5, <1>6, <1>8, <1>9 DEF RouterInv

(* A tab that leaves is between two sends.                                  *)
LEMMA DetachKeeps ==
    ASSUME RouterInv, NEW o \in Owner, Detach(o)
    PROVE  RouterInv'
<1>1. Types /\ Tables /\ Registered /\ Once /\ Tickets /\ Unsent
  BY DEF RouterInv
<1>2. /\ ~Busy(o) /\ sessions' = sessions \ {o} /\ Drop({r \in Request : By[r] = o})
      /\ asked' = [a \in Ask |-> IF asked[a] = o THEN NoOwner ELSE asked[a]]
      /\ owner' = Released(o) /\ root' = [root EXCEPT ![o] = NoThread]
      /\ UNCHANGED <<early, held, stage, handing, inbox, serverVars, alive>>
  BY DEF Detach
<1>3. Tables'
  BY <1>1, <1>2, DetachAgrees DEF serverVars
<1>4. PICK rs \in SUBSET Request : rs = {r \in Request : By[r] = o}
  OBVIOUS
<1>5. /\ route' \in [Request -> {"none", "open", "overdue"}]
      /\ \A q \in Request : route'[q] = IF q \in rs THEN "none" ELSE route[q]
      /\ Cancelling
  BY <1>1, <1>2, <1>4, DropStep
<1>6. \A q \in Request : Unanswered(q)' => Unanswered(q)
  BY <1>2, <1>5 DEF Unanswered
<1>7. Registered'
  <2>1. \A q \in Request : By[q] = o => stage[q] \notin {"checked", "prepared", "written"}
    BY <1>2 DEF Busy
  <2>2. ASSUME NEW q \in Request
        PROVE  /\ route'[q] # "none" => stage'[q] \in {"prepared", "written", "sent"}
               /\ route'[q] # "none" \/ stage'[q] \in {"checked", "prepared", "written"} => By[q] \in sessions'
    BY <1>1, <1>2, <1>4, <1>5, <2>1 DEF Registered
  <2> QED
    BY <2>2 DEF Registered
<1>8. Tickets'
  BY <1>1, <1>2, <1>5, CancellingKeeps DEF serverVars
<1>9. \A q \in Request : Stays(q) => Stays(q)'
  BY <1>2, <1>5, StaysCancelled DEF serverVars
<1>10. Once' /\ Unsent'
  BY <1>1, <1>2, <1>6, <1>9, OnceKept, UnsentKept
<1>11. Types'
  BY <1>1, <1>2, <1>5 DEF Types, serverVars, Cancelling
<1> QED
  BY <1>3, <1>7, <1>8, <1>10, <1>11 DEF RouterInv

-----------------------------------------------------------------------------
(* A step that moves no route and hands over no answer.                     *)
LEMMA QuietKeeps ==
    ASSUME RouterInv, Tables', HandsQuietly,
           UNCHANGED <<sessions, routeVars, inbox, taken, alive>>,
           askState' \in [Ask -> {"unsent", "sent", "answered", "twice", "resolved"}],
           emitted' \in [Thread -> Nat], closes' \in [Thread -> Nat]
    PROVE  RouterInv'
<1>1. Types /\ Registered /\ Once /\ Tickets /\ Unsent
  BY DEF RouterInv
<1>2. Registered' /\ \A q \in Request : Unanswered(q)' => Unanswered(q)
  BY <1>1, RegisteredKept DEF routeVars
<1>3. Tickets'
  BY <1>1 DEF Tickets, routeVars
<1>4. \A q \in Request : Stays(q) => Stays(q)'
  BY DEF Stays, routeVars
<1>5. handing' \in [Hand -> Seq(Delivery)] /\ Once' /\ Unsent'
  BY <1>1, <1>2, <1>4, QuietStep
<1>6. Types'
  BY <1>1, <1>5 DEF Types, routeVars
<1> QED
  BY <1>2, <1>3, <1>5, <1>6 DEF RouterInv

(* Routing a message that is no answer hands no answer over.                *)
LEMMA RoutesQuietly ==
    ASSUME Tables, NEW t \in Thread, NEW m \in Message, m.kind # "answer", Route(t, m)
    PROVE  HandsQuietly
<1>1. CASE handing' = handing
  BY <1>1 DEF HandsQuietly
<1>2. CASE owner[t] \in Owner /\ handing' = [handing EXCEPT !["reader"] = To(owner[t], <<m>>)]
  <2>1. PICK ms : ms = <<m>>
    OBVIOUS
  <2>2. ms \in Seq(Message) /\ \A k \in DOMAIN ms : ms[k].kind # "answer"
    BY <2>1, One
  <2>3. "reader" \in Hand
    BY DEF Hand
  <2>4. handing' = [handing EXCEPT !["reader"] = To(owner[t], ms)]
    BY <1>2, <2>1
  <2>5. PICK o \in Owner : o = owner[t]
    BY <1>2
  <2>6. handing' = [handing EXCEPT !["reader"] = To(o, ms)]
    BY <2>4, <2>5
  <2> QED
    BY <2>2, <2>3, <2>6, QuietlyTo
<1> QED
  BY <1>1, <1>2, Routes

(* A tab learns of the thread it is to use.                                 *)
LEMMA LearnKeeps ==
    ASSUME RouterInv, NEW o \in Owner, Learn(o)
    PROVE  RouterInv'
<1>1. UNCHANGED <<ownVars, routeVars, handing, inbox, serverVars, alive>>
  BY DEF Learn, lifeVars
<1>2. Tables'
  BY <1>1, TablesKept DEF serverVars, RouterInv
<1> QED
  BY <1>1, <1>2, QuietKeeps DEF serverVars, RouterInv, Types, HandsQuietly, ownVars

(* The reader finds the output closed: the host is no longer alive.         *)
LEMMA StdoutClosedKeeps ==
    ASSUME RouterInv, StdoutClosed
    PROVE  RouterInv'
<1>1. alive' = FALSE /\ UNCHANGED <<ownVars, routeVars, handing, inbox, serverVars>>
  BY DEF StdoutClosed
<1>2. Types /\ Tables /\ Registered /\ Once /\ Tickets /\ Unsent
  BY DEF RouterInv
<1>3. Tables'
  BY <1>1, <1>2, TablesKept DEF serverVars
<1>4. Registered' /\ \A q \in Request : Unanswered(q)' => Unanswered(q)
  BY <1>1, <1>2, RegisteredKept DEF routeVars, ownVars
<1>5. Tickets'
  BY <1>1, <1>2 DEF Tickets, routeVars, serverVars
<1>6. Once' /\ Unsent'
  BY <1>1, <1>2, <1>4, OnceKept, UnsentKept DEF Stays, routeVars, serverVars
<1>7. Types'
  BY <1>1, <1>2 DEF Types, routeVars, serverVars
<1> QED
  BY <1>3, <1>4, <1>5, <1>6, <1>7 DEF RouterInv

(* A tab answers a server request.                                          *)
LEMMA AnswerAskKeeps ==
    ASSUME RouterInv, NEW o \in Owner, NEW a \in Ask, AnswerAsk(o, a)
    PROVE  RouterInv'
<1>1. /\ asked[a] = o /\ asked' = [asked EXCEPT ![a] = NoOwner]
      /\ askState' = [askState EXCEPT ![a] = IF @ = "sent" THEN "answered" ELSE "twice"]
      /\ UNCHANGED <<sessions, owner, root, early, routeVars, handing, inbox, taken, emitted, closes, alive>>
  BY DEF AnswerAsk, MayAnswer, lifeVars
<1>2. Types /\ Tables
  BY DEF RouterInv
<1>3. askState \in [Ask -> {"unsent", "sent", "answered", "twice", "resolved"}]
  BY <1>2 DEF Types
<1>4. askState' \in [Ask -> {"unsent", "sent", "answered", "twice", "resolved"}]
  BY <1>1, <1>3
<1>5. Tables'
  BY <1>1, <1>2, <1>3, AnswerAskAgrees
<1> QED
  BY <1>1, <1>2, <1>4, <1>5, QuietKeeps DEF HandsQuietly, Types

(* claim_descendants gives a descendant and what was held for it to the tab *)
(* of its parent.                                                           *)
LEMMA ClaimDescendantKeeps ==
    ASSUME RouterInv, NEW o \in Owner, NEW c \in Thread, ClaimDescendant(o, c)
    PROVE  RouterInv'
<1>1. /\ o \in sessions /\ owner[c] = NoOwner /\ Claim(o, c, asked)
      /\ handing' = [handing EXCEPT ![o] = To(o, early[c])]
      /\ UNCHANGED <<sessions, root, routeVars, inbox, serverVars, alive>>
  BY DEF ClaimDescendant, lifeVars
<1>2. Types /\ Tables
  BY DEF RouterInv
<1>3. Tables'
  BY <1>1, <1>2, ClaimAgrees DEF serverVars
<1>4. early[c] \in Seq(Message) /\ \A k \in DOMAIN early[c] : early[c][k].kind # "answer"
  BY <1>2 DEF Tables, Silent
<1>5. HandsQuietly
  <2>1. o \in Hand
    BY DEF Hand
  <2> QED
    BY <1>1, <1>4, <2>1, QuietlyTo
<1> QED
  BY <1>1, <1>2, <1>3, <1>5, QuietKeeps DEF serverVars, Types

(* The reader routes a notification.                                        *)
LEMMA OnNotificationKeeps ==
    ASSUME RouterInv, NEW t \in Thread, OnNotification(t)
    PROVE  RouterInv'
<1>1. /\ Route(t, Event(t)) /\ emitted' = [emitted EXCEPT ![t] = @ + 1]
      /\ UNCHANGED <<sessions, owner, root, asked, routeVars, inbox, closes, taken, askState, alive>>
  BY DEF OnNotification, lifeVars
<1>2. Types /\ Tables
  BY DEF RouterInv
<1>3. PICK m : m = Event(t)
  OBVIOUS
<1>4. m \in Message /\ m.kind \notin {"answer", "ask"}
  BY <1>2, <1>3, EventTyped DEF Types
<1>5. Route(t, m)
  BY <1>1, <1>3
<1>6. Tables' /\ HandsQuietly
  BY <1>1, <1>2, <1>4, <1>5, NotificationAgrees, RoutesQuietly
<1>7. emitted' \in [Thread -> Nat]
  BY <1>1, <1>2 DEF Types
<1> QED
  BY <1>1, <1>2, <1>6, <1>7, QuietKeeps DEF Types

(* The reader learns of a new descendant and whose it is.                   *)
LEMMA OnThreadStartedKeeps ==
    ASSUME RouterInv, NEW c \in Thread, OnThreadStarted(c)
    PROVE  RouterInv'
<1>1. /\ Parent[c] # NoThread /\ owner[c] = NoOwner /\ owner[Parent[c]] # NoOwner
      /\ Claim(owner[Parent[c]], c, asked) /\ emitted' = [emitted EXCEPT ![c] = @ + 1]
      /\ handing' = [handing EXCEPT !["reader"] =
                        To(owner[Parent[c]], Append(early[c], Event(c)))]
      /\ UNCHANGED <<sessions, root, routeVars, inbox, closes, taken, askState, alive>>
  BY DEF OnThreadStarted, lifeVars
<1>2. Types /\ Tables
  BY DEF RouterInv
<1>3. PICK o : o = owner[Parent[c]]
  OBVIOUS
<1>4. o \in sessions /\ o \in Owner
  BY <1>1, <1>2, <1>3, RouterAssumption DEF Tables, TablesAgree, RouterAssumption
<1>5. Claim(o, c, asked)
  BY <1>1, <1>3
<1>6. Tables'
  BY <1>1, <1>2, <1>4, <1>5, ClaimAgrees
<1>7. early[c] \in Seq(Message) /\ \A k \in DOMAIN early[c] : early[c][k].kind # "answer"
  BY <1>2 DEF Tables, Silent
<1>8. PICK m : m = Event(c)
  OBVIOUS
<1>9. m \in Message /\ m.kind # "answer"
  BY <1>2, <1>8, EventTyped DEF Types
<1>10. PICK q : q = Append(early[c], m)
  OBVIOUS
<1>11. /\ q \in Seq(Message) /\ Len(early[c]) \in Nat
       /\ DOMAIN early[c] = 1..Len(early[c]) /\ DOMAIN q = 1..(Len(early[c]) + 1)
       /\ \A k \in DOMAIN early[c] : q[k] = early[c][k]
       /\ q[Len(early[c]) + 1] = m
  BY <1>7, <1>9, <1>10, AppendAdds
<1>12. \A k \in DOMAIN q : q[k].kind # "answer"
  <2> TAKE k \in DOMAIN q
  <2>1. k \in DOMAIN early[c] \/ k = Len(early[c]) + 1
    BY <1>11
  <2> QED
    BY <1>7, <1>9, <1>11, <2>1
<1>13. handing' = [handing EXCEPT !["reader"] = To(o, q)]
  BY <1>1, <1>3, <1>8, <1>10
<1>14. HandsQuietly
  <2>1. "reader" \in Hand
    BY DEF Hand
  <2> QED
    BY <1>4, <1>11, <1>12, <1>13, <2>1, QuietlyTo
<1>15. emitted' \in [Thread -> Nat]
  BY <1>1, <1>2 DEF Types
<1> QED
  BY <1>1, <1>2, <1>6, <1>14, <1>15, QuietKeeps DEF Types

(* The reader routes the end of a thread and forgets its owner.             *)
LEMMA OnClosedKeeps ==
    ASSUME RouterInv, NEW t \in Thread, OnClosed(t)
    PROVE  RouterInv'
<1>1. /\ closes' = [closes EXCEPT ![t] = @ + 1]
      /\ UNCHANGED <<sessions, routeVars, inbox, emitted, taken, askState, alive>>
  BY DEF OnClosed, lifeVars
<1>2. Types /\ Tables
  BY DEF RouterInv
<1>3. closes' \in [Thread -> Nat]
  BY <1>1, <1>2 DEF Types
<1>4. Tables' /\ HandsQuietly
  <2>1. CASE owner[t] # NoOwner
    <3>1. RemoveThread(t) /\ handing' = [handing EXCEPT !["reader"] = To(owner[t], <<Closed(t)>>)]
      BY <2>1 DEF OnClosed
    <3>2. PICK m : m = Closed(t)
      OBVIOUS
    <3>3. m \in Message /\ m.kind # "answer"
      BY <3>2, ClosedTyped
    <3>4. PICK ms : ms = <<m>>
      OBVIOUS
    <3>5. ms \in Seq(Message) /\ \A k \in DOMAIN ms : ms[k].kind # "answer"
      BY <3>3, <3>4, One
    <3>6. owner[t] \in Owner /\ "reader" \in Hand
      BY <1>2, <2>1 DEF Tables, Hand
    <3>7. handing' = [handing EXCEPT !["reader"] = To(owner[t], ms)]
      BY <3>1, <3>2, <3>4
    <3>8. HandsQuietly
      BY <3>5, <3>6, <3>7, QuietlyTo
    <3> QED
      BY <1>1, <1>2, <3>1, <3>8, RemoveThreadAgrees
  <2>2. CASE owner[t] = NoOwner
    <3>1. Forget(t) /\ UNCHANGED <<asked, owner, root, handing>>
      BY <2>2 DEF OnClosed
    <3> QED
      BY <1>1, <1>2, <3>1, ForgetAgrees DEF HandsQuietly
  <2> QED
    BY <2>1, <2>2
<1> QED
  BY <1>1, <1>2, <1>3, <1>4, QuietKeeps DEF Types

(* The reader routes a server request and records whose it is.              *)
LEMMA OnAskKeeps ==
    ASSUME RouterInv, NEW a \in Ask, OnAsk(a)
    PROVE  RouterInv'
<1>1. /\ askState[a] = "unsent" /\ Route(AskThread[a], AskMessage(a))
      /\ asked' = [asked EXCEPT ![a] = owner[AskThread[a]]]
      /\ askState' = [askState EXCEPT ![a] = "sent"]
      /\ UNCHANGED <<sessions, owner, root, routeVars, inbox, emitted, closes, taken, alive>>
  BY DEF OnAsk, lifeVars
<1>2. Types /\ Tables
  BY DEF RouterInv
<1>3. askState \in [Ask -> {"unsent", "sent", "answered", "twice", "resolved"}]
  BY <1>2 DEF Types
<1>4. Tables'
  BY <1>1, <1>2, <1>3, OnAskAgrees
<1>5. PICK m \in Message : m = AskMessage(a) /\ m.kind # "answer"
  BY AskTyped
<1>6. AskThread[a] \in Thread /\ Route(AskThread[a], m)
  BY <1>1, <1>5, RouterAssumption DEF RouterAssumption
<1>7. HandsQuietly
  BY <1>2, <1>5, <1>6, RoutesQuietly
<1>8. askState' \in [Ask -> {"unsent", "sent", "answered", "twice", "resolved"}]
  BY <1>1, <1>3
<1> QED
  BY <1>1, <1>2, <1>4, <1>7, <1>8, QuietKeeps DEF Types

(* The reader routes the resolution of a server request.                    *)
LEMMA OnResolvedKeeps ==
    ASSUME RouterInv, NEW a \in Ask, OnResolved(a)
    PROVE  RouterInv'
<1>1. /\ Route(AskThread[a], Resolved(a)) /\ asked' = [asked EXCEPT ![a] = NoOwner]
      /\ askState' = [askState EXCEPT ![a] = "resolved"]
      /\ UNCHANGED <<sessions, owner, root, routeVars, inbox, emitted, closes, taken, alive>>
  BY DEF OnResolved, lifeVars
<1>2. Types /\ Tables
  BY DEF RouterInv
<1>3. askState \in [Ask -> {"unsent", "sent", "answered", "twice", "resolved"}]
  BY <1>2 DEF Types
<1>4. Tables'
  BY <1>1, <1>2, <1>3, OnResolvedAgrees
<1>5. PICK m \in Message : m = Resolved(a) /\ m.kind # "answer"
  BY AskTyped
<1>6. AskThread[a] \in Thread /\ Route(AskThread[a], m)
  BY <1>1, <1>5, RouterAssumption DEF RouterAssumption
<1>7. HandsQuietly
  BY <1>2, <1>5, <1>6, RoutesQuietly
<1>8. askState' \in [Ask -> {"unsent", "sent", "answered", "twice", "resolved"}]
  BY <1>1, <1>3
<1> QED
  BY <1>1, <1>2, <1>4, <1>7, <1>8, QuietKeeps DEF Types

(* route_response in time: the answer leads what was held for the thread.   *)
LEMMA InTimeKeeps ==
    ASSUME RouterInv, NEW r \in Request, NEW ok \in BOOLEAN, ResponseInTime(r, ok),
           taken[r] = "taken", taken' = [taken EXCEPT ![r] = "answered"],
           UNCHANGED <<sessions, held, stage, inbox, emitted, closes, askState, alive>>
    PROVE  RouterInv'
<1>1. Types /\ Tables /\ Registered /\ Once /\ Tickets /\ Unsent
  BY DEF RouterInv
<1>2. /\ route[r] = "open" /\ route' = [route EXCEPT ![r] = "none"] /\ UNCHANGED <<ticket, wire>>
  BY DEF ResponseInTime
<1>3. route'[r] = "none" /\ \A q \in Request : q # r => route'[q] = route[q]
  BY <1>1, <1>2 DEF Types
<1>4. stage[r] \in {"prepared", "written", "sent"} /\ By[r] \in sessions
  BY <1>1, <1>2 DEF Registered
<1>5. Registered' /\ \A q \in Request : Unanswered(q)' => Unanswered(q)
  BY <1>1, <1>3, RegisteredKept
<1>6. Unanswered(r) /\ ~Unanswered(r)'
  BY <1>2, <1>3, <1>4 DEF Unanswered
<1>7. taken'[r] = "answered" /\ \A q \in Request : q # r => taken'[q] = taken[q]
  BY <1>1 DEF Types
<1>8. Cancelling
  BY <1>1, <1>2, NoCancelling
<1>9. Tickets'
  BY <1>1, <1>7, <1>8, CancellingKeeps
<1>10. \A q \in Request : Stays(q) => Stays(q)'
  BY <1>7, <1>8, StaysCancelled
<1>11. PICK o \in Owner : o = By[r]
  BY RouterAssumption DEF RouterAssumption
<1>12. PICK t \in Thread : t = About[r]
  BY RouterAssumption DEF RouterAssumption
<1>13. "reader" \in Hand
  BY DEF Hand
<1>14. CASE Purpose[r] = "root" /\ ok /\ ~Conflict(r)
  <2>1. /\ ReplaceRoot(o, t)
        /\ handing' = [handing EXCEPT !["reader"] = To(By[r], <<Answer(r, "ok")>> \o early[t])]
    BY <1>11, <1>12, <1>14 DEF ResponseInTime
  <2>2. owner[t] \in {NoOwner, o}
    BY <1>11, <1>12, <1>14 DEF Conflict
  <2>3. Tables'
    BY <1>1, <1>4, <1>11, <2>1, <2>2, ReplaceRootAgrees
  <2>4. PICK m : m = Answer(r, "ok")
    OBVIOUS
  <2>5. m \in Message /\ m.request = r /\ m.outcome = "ok"
    BY <1>1, <2>4, AnswerTyped DEF Types
  <2>6. early[t] \in Seq(Message) /\ \A k \in DOMAIN early[t] : early[t][k].kind # "answer"
    BY <1>1 DEF Tables, Silent
  <2>7. PICK ms : ms = <<m>> \o early[t]
    OBVIOUS
  <2>8. /\ ms \in Seq(Message) /\ ms[1] = m
        /\ \A k \in DOMAIN ms : k # 1 => \E j \in DOMAIN early[t] : ms[k] = early[t][j]
    BY <2>5, <2>6, <2>7, AnswerBefore
  <2>9. ASSUME NEW k \in DOMAIN ms, ms[k].kind = "answer"
        PROVE  k = 1 /\ ms[k].request = r /\ (ms[k].outcome = "notSent" => Stays(r)')
    <3>1. k = 1
      BY <2>6, <2>8, <2>9
    <3> QED
      BY <2>5, <2>8, <3>1
  <2>10. handing' = [handing EXCEPT !["reader"] = To(By[r], ms)]
    BY <2>1, <2>4, <2>7
  <2>11. handing' \in [Hand -> Seq(Delivery)] /\ Once' /\ Unsent'
    BY <1>1, <1>5, <1>6, <1>10, <1>13, <2>8, <2>9, <2>10, AnswerStep
  <2>12. Types'
    BY <1>1, <1>2, <2>11 DEF Types
  <2> QED
    BY <1>5, <1>9, <2>3, <2>11, <2>12 DEF RouterInv
<1>15. CASE ~(Purpose[r] = "root" /\ ok /\ ~Conflict(r))
  <2>1. PICK x \in {"ok", "error"} : x = (IF ok /\ Purpose[r] # "root" THEN "ok" ELSE "error")
    OBVIOUS
  <2>2. /\ UNCHANGED <<owner, early, asked, root>>
        /\ handing' = [handing EXCEPT !["reader"] = To(By[r], <<Answer(r, x)>>)]
    BY <1>15, <2>1 DEF ResponseInTime
  <2>3. Tables'
    BY <1>1, <2>2, TablesKept DEF ownVars
  <2>4. PICK m : m = Answer(r, x)
    OBVIOUS
  <2>5. m \in Message /\ m.request = r /\ m.outcome # "notSent"
    <3>1. x \in {"ok", "error", "timeout", "notSent", "rejected"} /\ x # "notSent"
      BY <2>1
    <3>2. m \in Message /\ m.request = r /\ m.outcome = x
      BY <1>1, <2>4, <3>1, AnswerTyped DEF Types
    <3> QED
      BY <3>1, <3>2
  <2>6. PICK ms : ms = <<m>>
    OBVIOUS
  <2>7. ms \in Seq(Message) /\ \A k \in DOMAIN ms : k = 1 /\ ms[k] = m
    BY <2>5, <2>6, One
  <2>8. ASSUME NEW k \in DOMAIN ms, ms[k].kind = "answer"
        PROVE  k = 1 /\ ms[k].request = r /\ (ms[k].outcome = "notSent" => Stays(r)')
    BY <2>5, <2>7
  <2>9. handing' = [handing EXCEPT !["reader"] = To(By[r], ms)]
    BY <2>2, <2>4, <2>6
  <2>10. handing' \in [Hand -> Seq(Delivery)] /\ Once' /\ Unsent'
    BY <1>1, <1>5, <1>6, <1>10, <1>13, <2>7, <2>8, <2>9, AnswerStep
  <2>11. Types'
    BY <1>1, <1>2, <2>10 DEF Types
  <2> QED
    BY <1>5, <1>9, <2>3, <2>10, <2>11 DEF RouterInv
<1> QED
  BY <1>14, <1>15

(* The reader takes a response's entry from the table and answers its tab,  *)
(* with the claim of a root thread where the request asked for one.         *)
LEMMA OnResponseKeeps ==
    ASSUME RouterInv, NEW r \in Request, NEW ok \in BOOLEAN, OnResponse(r, ok)
    PROVE  RouterInv'
<1>1. Types /\ Tables /\ Registered /\ Once /\ Tickets /\ Unsent
  BY DEF RouterInv
<1>2. /\ taken[r] = "taken" /\ taken' = [taken EXCEPT ![r] = "answered"]
      /\ UNCHANGED <<sessions, held, stage, inbox, emitted, closes, askState, alive>>
  BY DEF OnResponse, lifeVars
<1>3. CASE ResponseInTime(r, ok)
  BY <1>2, <1>3, InTimeKeeps
<1>4. taken'[r] = "answered" /\ \A q \in Request : q # r => taken'[q] = taken[q]
  BY <1>1, <1>2 DEF Types
<1>5. CASE ResponseLate(r)
  <2>1. PICK ms : ms = <<TimeoutAnswer(r)>>
    OBVIOUS
  <2>2. /\ route[r] = "overdue" /\ Expired({r})
        /\ handing' = [handing EXCEPT !["reader"] = To(By[r], ms)]
        /\ UNCHANGED <<owner, early, asked, root>>
    BY <1>5, <2>1 DEF ResponseLate
  <2>3. ms \in Seq(Message)
    BY <1>1, <2>1, AnswerTyped DEF TimeoutAnswer, Types
  <2>4. "reader" \in Hand
    BY DEF Hand
  <2>5. \A q \in Request : taken'[q] = taken[q] \/ (taken[q] # "no" /\ taken'[q] # "no")
    BY <1>2, <1>4
  <2>6. /\ route' \in [Request -> {"none", "open", "overdue"}]
        /\ Cancelling /\ handing' \in [Hand -> Seq(Delivery)]
        /\ Registered' /\ Once' /\ Tickets' /\ Unsent'
    BY <1>2, <2>1, <2>2, <2>3, <2>4, <2>5, TimeoutStep
  <2>7. Tables'
    BY <1>1, <1>2, <2>2, TablesKept DEF ownVars
  <2>8. Types'
    BY <1>1, <1>2, <2>6 DEF Types, Cancelling
  <2> QED
    BY <2>6, <2>7, <2>8 DEF RouterInv
<1>6. CASE ResponseStray(r)
  <2>1. UNCHANGED <<route, ticket, wire, handing, owner, early, asked, root>>
    BY <1>6 DEF ResponseStray
  <2>2. Tables'
    BY <1>1, <1>2, <2>1, TablesKept DEF ownVars
  <2>3. Cancelling
    BY <1>1, <2>1, NoCancelling
  <2>4. Tickets'
    BY <1>1, <1>2, <1>4, <2>3, CancellingKeeps
  <2>5. Registered' /\ \A q \in Request : Unanswered(q)' => Unanswered(q)
    BY <1>1, <1>2, <2>1, RegisteredKept
  <2>6. \A q \in Request : Stays(q) => Stays(q)'
    BY <1>2, <1>4, <2>1 DEF Stays
  <2>7. Once' /\ Unsent'
    BY <1>1, <1>2, <2>1, <2>5, <2>6, OnceKept, UnsentKept
  <2>8. Types'
    BY <1>1, <1>2, <2>1 DEF Types
  <2> QED
    BY <2>2, <2>4, <2>5, <2>7, <2>8 DEF RouterInv
<1> QED
  BY <1>3, <1>5, <1>6 DEF OnResponse

(* The writer takes the first input of the queue, which is in it once.      *)
LEMMA ServerTakesKeeps ==
    ASSUME RouterInv, ServerTakes
    PROVE  RouterInv'
<1>1. Types /\ Tables /\ Registered /\ Once /\ Tickets /\ Unsent
  BY DEF RouterInv
<1>2. PICK r : r = Head(wire)
  OBVIOUS
<1>3. /\ wire # <<>> /\ wire' = Tail(wire)
      /\ ticket' = [ticket EXCEPT ![r] = "started"] /\ taken' = [taken EXCEPT ![r] = "taken"]
      /\ UNCHANGED <<ownVars, route, held, stage, handing, inbox, emitted, closes, askState, alive>>
  BY <1>2 DEF ServerTakes, lifeVars
<1>4. /\ r \in Request /\ r = wire[1] /\ wire' \in Seq(Request) /\ Len(wire) \in Nat \ {0}
      /\ DOMAIN wire = 1..Len(wire) /\ DOMAIN wire' = 1..(Len(wire) - 1)
      /\ \A k \in 1..(Len(wire) - 1) : wire'[k] = wire[k + 1]
  BY <1>1, <1>2, <1>3, TailLeaves DEF Types
<1>5. ticket[r] = "queued"
  BY <1>1, <1>4 DEF Tickets
<1>6. /\ ticket'[r] = "started" /\ taken'[r] = "taken"
      /\ \A q \in Request : q # r => ticket'[q] = ticket[q] /\ taken'[q] = taken[q]
  BY <1>1, <1>3, <1>4 DEF Types
<1>7. \A k \in DOMAIN wire' : k + 1 \in DOMAIN wire /\ k + 1 # 1 /\ wire'[k] = wire[k + 1]
  BY <1>4
<1>8. Tickets'
  <2>1. \A j, k \in DOMAIN wire' : wire'[j] = wire'[k] => j = k
    <3> TAKE j, k \in DOMAIN wire'
    <3>1. wire'[j] = wire'[k] => j + 1 = k + 1
      BY <1>1, <1>7 DEF Tickets
    <3> QED
      BY <1>4, <3>1
  <2>2. \A k \in DOMAIN wire' : ticket'[wire'[k]] = "queued"
    <3> TAKE k \in DOMAIN wire'
    <3>1. 1 \in DOMAIN wire
      BY <1>4
    <3>2. wire[k + 1] # wire[1] /\ ticket[wire[k + 1]] = "queued"
      BY <1>1, <1>7, <3>1 DEF Tickets
    <3>3. wire'[k] \in Request
      BY <1>4
    <3>4. wire'[k] # r /\ ticket[wire'[k]] = "queued" /\ wire'[k] \in Request
      BY <1>4, <1>7, <3>2, <3>3
    <3> QED
      BY <1>6, <3>4
  <2>3. stage[r] \notin {"new", "checked", "prepared"}
    BY <1>1, <1>4, <1>5 DEF Tickets
  <2>4. \A q \in Request :
          /\ stage[q] \in {"new", "checked", "prepared"} => ticket'[q] = "none"
          /\ taken'[q] # "no" => ticket'[q] = "started"
    BY <1>1, <1>6, <2>3 DEF Tickets
  <2> QED
    BY <1>3, <2>1, <2>2, <2>4 DEF Tickets
<1>9. \A q \in Request : Stays(q) => Stays(q)'
  BY <1>5, <1>6 DEF Stays
<1>10. Registered' /\ \A q \in Request : Unanswered(q)' => Unanswered(q)
  BY <1>1, <1>3, RegisteredKept DEF ownVars
<1>11. Once' /\ Unsent'
  BY <1>1, <1>3, <1>9, <1>10, OnceKept, UnsentKept
<1>12. Tables'
  BY <1>1, <1>3, TablesKept
<1>13. Types'
  BY <1>1, <1>3, <1>4 DEF Types
<1> QED
  BY <1>8, <1>10, <1>11, <1>12, <1>13 DEF RouterInv

(* on_stdout_closed clears the tables and tells the tabs.                   *)
LEMMA ClearStateKeeps ==
    ASSUME RouterInv, ClearState
    PROVE  RouterInv'
<1>1. Types /\ Tables /\ Registered /\ Once /\ Tickets /\ Unsent
  BY DEF RouterInv
<1>2. /\ Drop(Request) /\ asked' = [a \in Ask |-> NoOwner] /\ owner' = [t \in Thread |-> NoOwner]
      /\ root' = [o \in Owner |-> NoThread] /\ early' = [t \in Thread |-> <<>>]
      /\ UNCHANGED <<sessions, held, stage, alive, inbox, serverVars>>
  BY DEF ClearState
<1>3. PICK seq \in [1..Cardinality(sessions) -> sessions] :
          handing' = [handing EXCEPT !["reader"] = IF expected THEN <<>> ELSE ExitNotices(seq)]
  BY DEF ClearState
<1>4. Tables'
  BY <1>1, <1>2, ClearAgrees DEF serverVars
<1>5. /\ route' \in [Request -> {"none", "open", "overdue"}]
      /\ \A q \in Request : route'[q] = IF q \in Request THEN "none" ELSE route[q]
      /\ Cancelling
  BY <1>1, <1>2, DropStep
<1>6. Registered' /\ \A q \in Request : Unanswered(q)' => Unanswered(q)
  BY <1>1, <1>2, <1>5, RegisteredKept
<1>7. Tickets'
  BY <1>1, <1>2, <1>5, CancellingKeeps DEF serverVars
<1>8. \A q \in Request : Stays(q) => Stays(q)'
  BY <1>2, <1>5, StaysCancelled DEF serverVars
<1>9. HandsQuietly
  <2>1. PICK n \in Nat : n = Cardinality(sessions)
    BY <1>1, RouterAssumption, FS_Subset, FS_CardinalityType DEF Tables, RouterAssumption
  <2>2. seq \in [1..n -> Owner] /\ DOMAIN seq = 1..n
    BY <1>1, <1>3, <2>1 DEF Tables
  <2>3. ExitNotices(seq) \in [1..n -> Delivery]
    BY <2>2, ExitTyped DEF ExitNotices, Delivery
  <2>4. ExitNotices(seq) \in Seq(Delivery)
    BY <2>3, ListIsSeq, Zenon
  <2>5. Quiet(ExitNotices(seq))
    BY ExitTyped DEF Quiet, ExitNotices
  <2>6. <<>> \in Seq(Delivery) /\ Quiet(<<>>)
    BY DEF Quiet
  <2>7. PICK ds : ds = IF expected THEN <<>> ELSE ExitNotices(seq)
    OBVIOUS
  <2>8. ds \in Seq(Delivery) /\ Quiet(ds)
    BY <2>4, <2>5, <2>6, <2>7
  <2>9. "reader" \in Hand
    BY DEF Hand
  <2> QED
    BY <1>3, <2>7, <2>8, <2>9 DEF HandsQuietly
<1>10. handing' \in [Hand -> Seq(Delivery)] /\ Once' /\ Unsent'
  BY <1>1, <1>2, <1>6, <1>8, <1>9, QuietStep
<1>11. Types'
  BY <1>1, <1>2, <1>5, <1>10 DEF Types, serverVars, Cancelling
<1> QED
  BY <1>4, <1>6, <1>7, <1>10, <1>11 DEF RouterInv

(* A message on its way reaches its tab.                                    *)
LEMMA HandOverKeeps ==
    ASSUME RouterInv, NEW h \in Hand, HandOver(h)
    PROVE  RouterInv'
<1>1. Types /\ Tables /\ Registered /\ Once /\ Tickets /\ Unsent
  BY DEF RouterInv
<1>2. PICK s : s = handing[h]
  OBVIOUS
<1>3. PICK d : d = Head(s)
  OBVIOUS
<1>4. PICK z : z = Tail(s)
  OBVIOUS
<1>5. s \in Seq(Delivery) /\ s # <<>>
  BY <1>1, <1>2 DEF HandOver, Types
<1>6. /\ d \in Delivery /\ d = s[1] /\ z \in Seq(Delivery) /\ Len(s) \in Nat \ {0}
      /\ DOMAIN s = 1..Len(s) /\ DOMAIN z = 1..(Len(s) - 1)
      /\ \A k \in 1..(Len(s) - 1) : z[k] = s[k + 1]
  BY <1>3, <1>4, <1>5, TailLeaves
<1>7. PICK o : o = d.to
  OBVIOUS
<1>8. PICK m : m = d.msg
  OBVIOUS
<1>9. o \in Owner /\ m \in Message
  BY <1>6, <1>7, <1>8 DEF Delivery
<1>10. PICK q : q = Append(inbox[o], m)
  OBVIOUS
<1>11. /\ inbox' = [inbox EXCEPT ![o] = q] /\ handing' = [handing EXCEPT ![h] = z]
       /\ UNCHANGED <<ownVars, routeVars, serverVars, alive>>
  BY <1>2, <1>3, <1>4, <1>7, <1>8, <1>10 DEF HandOver, lifeVars
<1>12. inbox[o] \in Seq(Message)
  BY <1>1, <1>9 DEF Types
<1>13. /\ q \in Seq(Message) /\ Len(inbox[o]) \in Nat
       /\ DOMAIN inbox[o] = 1..Len(inbox[o]) /\ DOMAIN q = 1..(Len(inbox[o]) + 1)
       /\ \A k \in DOMAIN inbox[o] : q[k] = inbox[o][k]
       /\ q[Len(inbox[o]) + 1] = m
  BY <1>9, <1>10, <1>12, AppendAdds
<1>14. inbox'[o] = q /\ \A p \in Owner : p # o => inbox'[p] = inbox[p]
  BY <1>1, <1>9, <1>11 DEF Types
<1>15. handing'[h] = z /\ \A g \in Hand : g # h => handing'[g] = handing[g]
  BY <1>1, <1>11 DEF Types
<1>16. Types'
  BY <1>1, <1>6, <1>11, <1>13 DEF Types, routeVars, serverVars
<1>17. Tables'
  BY <1>1, <1>11, TablesKept DEF serverVars
<1>18. Registered' /\ Tickets'
  BY <1>1, <1>11 DEF Registered, Tickets, routeVars, ownVars, serverVars
<1>19. \A r \in Request : (Unanswered(r)' <=> Unanswered(r)) /\ (Stays(r)' <=> Stays(r))
  BY <1>11 DEF Unanswered, Stays, routeVars, serverVars
<1>20. Once'
  <2> SUFFICES ASSUME NEW r \in Request
               PROVE  /\ \A g, i \in Hand : \A j \in Handed(handing'[g], r), k \in Handed(handing'[i], r) :
                            g = i /\ j = k
                      /\ \A j, k \in Routed(inbox'[By[r]], r) : j = k
                      /\ (\E i \in Hand : Handed(handing'[i], r) # {}) => Routed(inbox'[By[r]], r) = {}
                      /\ Unanswered(r)' => /\ Routed(inbox'[By[r]], r) = {}
                                           /\ \A i \in Hand : Handed(handing'[i], r) = {}
    BY DEF Once
  <2>1. PICK p \in Owner : p = By[r]
    BY RouterAssumption DEF RouterAssumption
  <2>2. /\ \A g, i \in Hand : \A j \in Handed(handing[g], r), k \in Handed(handing[i], r) :
              g = i /\ j = k
        /\ \A j, k \in Routed(inbox[p], r) : j = k
        /\ (\E i \in Hand : Handed(handing[i], r) # {}) => Routed(inbox[p], r) = {}
        /\ Unanswered(r) => /\ Routed(inbox[p], r) = {}
                            /\ \A i \in Hand : Handed(handing[i], r) = {}
    BY <1>1, <2>1 DEF Once
  <2>3. \A k \in Handed(z, r) : k + 1 \in Handed(s, r) /\ k \in Nat \ {0}
    BY <1>4, <1>5, HandedAfter
  <2>4. \A i \in Hand : Handed(handing'[i], r) # {} => Handed(handing[i], r) # {}
    BY <1>2, <1>15, <2>3
  <2>5. \A g, i \in Hand : \A j \in Handed(handing'[g], r), k \in Handed(handing'[i], r) :
            g = i /\ j = k
    <3> TAKE g, i \in Hand
    <3> TAKE j \in Handed(handing'[g], r), k \in Handed(handing'[i], r)
    <3>1. g = i
      BY <2>2, <2>4
    <3>2. CASE g = h
      <4>1. j + 1 = k + 1 /\ j \in Nat /\ k \in Nat
        BY <1>2, <1>15, <2>2, <2>3, <3>1, <3>2
      <4> QED
        BY <3>1, <4>1
    <3>3. CASE g # h
      BY <1>15, <2>2, <3>1, <3>3
    <3> QED
      BY <3>2, <3>3
  <2>6. CASE p = o /\ m.kind = "answer" /\ m.request = r
    <3>1. 1 \in Handed(s, r)
      BY <1>3, <1>5, <1>8, <2>6, HandedAfter
    <3>2. Routed(inbox[p], r) = {} /\ ~Unanswered(r)
      BY <1>2, <2>2, <3>1
    <3>3. \A i \in Hand : Handed(handing'[i], r) = {}
      <4> SUFFICES ASSUME NEW i \in Hand, NEW k \in Handed(handing'[i], r) PROVE FALSE
        OBVIOUS
      <4>1. i = h
        BY <1>2, <2>2, <2>4, <3>1
      <4>2. k + 1 \in Handed(s, r) /\ k \in Nat \ {0}
        BY <1>15, <2>3, <4>1
      <4>3. k + 1 = 1
        BY <1>2, <2>2, <3>1, <4>2
      <4> QED
        BY <4>2, <4>3
    <3>4. Routed(q, r) \subseteq Routed(inbox[o], r) \cup {Len(inbox[o]) + 1}
      BY <1>9, <1>10, <1>12, RoutedBehind
    <3>5. \A j, k \in Routed(inbox'[p], r) : j = k
      BY <1>14, <2>6, <3>2, <3>4
    <3> QED
      BY <1>19, <2>1, <2>5, <3>2, <3>3, <3>5
  <2>7. CASE ~(p = o /\ m.kind = "answer" /\ m.request = r)
    <3>1. Routed(inbox'[p], r) \subseteq Routed(inbox[p], r)
      <4>1. CASE p = o
        <5>1. /\ Routed(q, r) \subseteq Routed(inbox[o], r) \cup {Len(inbox[o]) + 1}
              /\ Len(inbox[o]) + 1 \in Routed(q, r) => m.kind = "answer" /\ m.request = r
          BY <1>9, <1>10, <1>12, RoutedBehind
        <5> QED
          BY <1>14, <2>7, <4>1, <5>1
      <4>2. CASE p # o
        BY <1>14, <4>2
      <4> QED
        BY <4>1, <4>2
    <3> QED
      BY <1>19, <2>1, <2>2, <2>4, <2>5, <3>1
  <2> QED
    BY <2>6, <2>7
<1>21. Unsent'
  <2>1. ASSUME NEW r \in Request, NEW g \in Hand, NEW k \in DOMAIN handing'[g], Denied(handing'[g][k].msg, r)
        PROVE  Stays(r)
    <3>1. CASE g = h
      <4>1. k + 1 \in DOMAIN s /\ z[k] = s[k + 1] /\ handing'[g] = z
        BY <1>6, <1>15, <2>1, <3>1
      <4> QED
        BY <1>1, <1>2, <2>1, <4>1 DEF Unsent
    <3>2. CASE g # h
      BY <1>1, <1>15, <2>1, <3>2 DEF Unsent
    <3> QED
      BY <3>1, <3>2
  <2>2. ASSUME NEW r \in Request, NEW p \in Owner, NEW k \in DOMAIN inbox'[p], Denied(inbox'[p][k], r)
        PROVE  Stays(r)
    <3>1. CASE p = o /\ k = Len(inbox[o]) + 1
      <4>1. 1 \in DOMAIN s /\ Denied(s[1].msg, r)
        BY <1>6, <1>8, <1>13, <1>14, <2>2, <3>1
      <4> QED
        BY <1>1, <1>2, <4>1 DEF Unsent
    <3>2. CASE ~(p = o /\ k = Len(inbox[o]) + 1)
      <4>1. k \in DOMAIN inbox[p] /\ inbox'[p][k] = inbox[p][k]
        BY <1>13, <1>14, <2>2, <3>2
      <4> QED
        BY <1>1, <2>2, <4>1 DEF Unsent
    <3> QED
      BY <3>1, <3>2
  <2> QED
    BY <1>19, <2>1, <2>2 DEF Unsent
<1> QED
  BY <1>16, <1>17, <1>18, <1>20, <1>21 DEF RouterInv

-----------------------------------------------------------------------------
(* No host has been asked anything yet: every table is empty.               *)
LEMMA InitInv == Init => RouterInv
<1> SUFFICES ASSUME Init PROVE RouterInv
  OBVIOUS
<1>1. /\ <<>> \in Seq(Message) /\ <<>> \in Seq(Delivery) /\ <<>> \in Seq(Request)
      /\ DOMAIN <<>> = {}
  OBVIOUS
<1>2. Types
  BY <1>1 DEF Init, Types
<1>3. Tables
  BY <1>1, NothingAsked DEF Init, Tables, TablesAgree, Waiting, Silent
<1>4. Registered
  BY DEF Init, Registered
<1>5. Once
  <2>1. \A h \in Hand, r \in Request : Handed(handing[h], r) = {}
    BY <1>1 DEF Init, Handed
  <2>2. \A r \in Request : Routed(inbox[By[r]], r) = {}
    BY <1>1, RouterAssumption DEF Init, Routed, RouterAssumption
  <2> QED
    BY <2>1, <2>2 DEF Once
<1>6. Tickets
  BY <1>1 DEF Init, Tickets
<1>7. Unsent
  BY <1>1 DEF Init, Unsent
<1> QED
  BY <1>2, <1>3, <1>4, <1>5, <1>6, <1>7 DEF RouterInv

(* Every step of the router, the tabs and the server preserves RouterInv.   *)
LEMMA StepInv == RouterInv /\ [Next]_<<vars, plan>> => RouterInv'
<1> SUFFICES ASSUME RouterInv, [Next]_<<vars, plan>> PROVE RouterInv'
  OBVIOUS
<1>1. ASSUME NEW r \in Request,
             \/ SendStart(r) \/ PrepareOutgoing(r) \/ Write(r) \/ WriteRefused(r)
             \/ AttachInput(r) \/ TimePasses(r) \/ ExpireRequests(r)
             \/ \E ok \in BOOLEAN : OnResponse(r, ok)
             \/ RetainRequests(By[r], r)
      PROVE  RouterInv'
  <2>1. By[r] \in Owner
    BY RouterAssumption DEF RouterAssumption
  <2> QED
    BY <1>1, <2>1, SendStartKeeps, PrepareOutgoingKeeps, WriteKeeps, WriteRefusedKeeps, AttachInputKeeps,
       TimePassesKeeps, ExpireRequestsKeeps, OnResponseKeeps, RetainRequestsKeeps
<1>2. ASSUME NEW o \in Owner,
             \/ Learn(o) \/ Detach(o)
             \/ \E a \in Ask : AnswerAsk(o, a)
             \/ \E c \in Thread : ClaimDescendant(o, c)
      PROVE  RouterInv'
  BY <1>2, LearnKeeps, DetachKeeps, AnswerAskKeeps, ClaimDescendantKeeps
<1>3. ASSUME NEW t \in Thread, OnNotification(t) \/ OnThreadStarted(t) \/ OnClosed(t)
      PROVE  RouterInv'
  BY <1>3, OnNotificationKeeps, OnThreadStartedKeeps, OnClosedKeeps
<1>4. ASSUME NEW a \in Ask, OnAsk(a) \/ OnResolved(a)
      PROVE  RouterInv'
  BY <1>4, OnAskKeeps, OnResolvedKeeps
<1>5. CASE ServerTakes \/ StdoutClosed \/ ClearState
  BY <1>5, ServerTakesKeeps, StdoutClosedKeeps, ClearStateKeeps
<1>6. ASSUME NEW h \in Hand, HandOver(h)
      PROVE  RouterInv'
  BY <1>6, HandOverKeeps
<1>7. CASE UNCHANGED <<vars, plan>>
  <2>1. UNCHANGED <<ownVars, routeVars, handing, inbox, serverVars, alive>>
    BY <1>7 DEF vars, lifeVars
  <2>2. Tables'
    BY <2>1, TablesKept DEF serverVars, RouterInv
  <2> QED
    BY <2>1, <2>2, QuietKeeps DEF serverVars, RouterInv, Types, HandsQuietly, ownVars
<1> QED
  BY <1>1, <1>2, <1>3, <1>4, <1>5, <1>6, <1>7 DEF Next, Step

(* The router's tables, tickets and answers hold together (RouterInv),      *)
(* whatever host/router.rs interleaves: sends, timeouts, retired requests,  *)
(* claims, the tabs that leave and the end of the process.                  *)
THEOREM RouterInvariant == Spec => []RouterInv
BY InitInv, StepInv, PTL DEF Spec

(* Whatever the tabs, the server and the deadlines do, the tables agree: a  *)
(* tab's root is a thread it owns, owners are registered, a request of the  *)
(* server waits for the owner of its thread, nothing is held for a thread   *)
(* that has an owner.                                                       *)
THEOREM TablesStayTogether == Spec => []TablesAgree
<1>1. RouterInv => TablesAgree
  BY DEF RouterInv, Tables
<1> QED
  BY <1>1, RouterInvariant, PTL

(* RouterInv contains that a request has one answer.                        *)
LEMMA InvAnswersOnce == RouterInv => OneAnswer
<1> SUFFICES ASSUME RouterInv PROVE OneAnswer
  OBVIOUS
<1>1. ASSUME NEW r \in Request
      PROVE  Cardinality({k \in Answers(By[r], r) : inbox[By[r]][k].outcome # "rejected"})
                + Cardinality(Underway(r)) <= 1
  <2>1. PICK A : A = {k \in Answers(By[r], r) : inbox[By[r]][k].outcome # "rejected"}
    OBVIOUS
  <2>2. PICK U : U = Underway(r)
    OBVIOUS
  <2>3. A = Routed(inbox[By[r]], r)
    BY <2>1 DEF Answers, Routed
  <2>4. U = {h \in Hand : Handed(handing[h], r) # {}}
    BY <2>2 DEF Underway, Handed
  <2>5. (\A j, k \in A : j = k) /\ (\A g, h \in U : g = h) /\ (U # {} => A = {})
    <3>1. /\ \A g, h \in Hand : \A j \in Handed(handing[g], r), k \in Handed(handing[h], r) :
                g = h /\ j = k
          /\ \A j, k \in Routed(inbox[By[r]], r) : j = k
          /\ (\E h \in Hand : Handed(handing[h], r) # {}) => Routed(inbox[By[r]], r) = {}
      BY DEF RouterInv, Once
    <3>2. \A j, k \in A : j = k
      BY <2>3, <3>1
    <3>3. \A g, h \in U : g = h
      BY <2>4, <3>1
    <3>4. U # {} => A = {}
      BY <2>3, <2>4, <3>1
    <3> QED
      BY <3>2, <3>3, <3>4
  <2>6. Cardinality({}) = 0
    BY FS_EmptySet
  <2>7. A = {} \/ \E k : A = {k}
    BY <2>5
  <2>8. U = {} \/ \E h : U = {h}
    BY <2>5
  <2>9. Cardinality(A) \in {0, 1}
    BY <2>6, <2>7, FS_Singleton
  <2>10. Cardinality(U) \in {0, 1}
    BY <2>6, <2>8, FS_Singleton
  <2>11. Cardinality(A) = 0 \/ Cardinality(U) = 0
    BY <2>5, <2>6
  <2>12. Cardinality(A) + Cardinality(U) <= 1
    BY <2>9, <2>10, <2>11
  <2> QED
    BY <2>1, <2>2, <2>12
<1>2. \A a \in Ask : askState[a] # "twice"
  BY DEF RouterInv, Tables, Waiting
<1>3. ASSUME NEW r \in Request, NEW k \in Answers(By[r], r), inbox[By[r]][k].outcome = "notSent"
      PROVE  taken[r] = "no" /\ ticket[r] = "cancelled"
  <2>1. By[r] \in Owner
    BY RouterAssumption DEF RouterAssumption
  <2>2. k \in DOMAIN inbox[By[r]] /\ Denied(inbox[By[r]][k], r)
    BY <1>3 DEF Answers, Denied
  <2>3. Stays(r)
    BY <2>1, <2>2 DEF RouterInv, Unsent
  <2> QED
    BY <2>3 DEF Stays
<1> QED
  BY <1>1, <1>2, <1>3, Zenon DEF OneAnswer

(* No request is answered twice, by the server, the timer and a late reply  *)
(* together, no request of the server by two tabs or after it was resolved, *)
(* and what a tab is told was not sent never was (router.rs:83).            *)
THEOREM AnsweredOnce == Spec => []OneAnswer
BY RouterInvariant, InvAnswersOnce, PTL

-----------------------------------------------------------------------------
(* What a root thread says, on its way to the tabs.                         *)

(* The events of t in a list, and that there are none.                      *)
EventsIn(s, t) == {s[k] : k \in {j \in DOMAIN s : IsEvent(s[j], t)}}
None(s, t) == \A k \in DOMAIN s : ~IsEvent(s[k], t)

(* What is to come of a thread that has said e things and was closed c      *)
(* times is of this opening, in order, and later than what was given.       *)
Coming(s, t, G, e, c) ==
    /\ \A k \in DOMAIN s : IsEvent(s[k], t) =>
          s[k].close = c /\ s[k].n <= e /\ \A m \in G : m.n < s[k].n
    /\ \A j, k \in DOMAIN s : j < k /\ IsEvent(s[j], t) /\ IsEvent(s[k], t) => s[j].n < s[k].n

(* The last thing said is among them, or a close came after them all.       *)
Latest(P, e, c) == e = 0 \/ (\E m \in P : m.n = e) \/ (c > 0 /\ \A m \in P : m.close < c)

(* The way of what a thread says: given, in the reader's hand, or held.     *)
Way(t, G, H, E, e, c, live) ==
    LET P == G \cup EventsIn(H, t) \cup EventsIn(E, t)
    IN  /\ \A m \in G : m.n <= e /\ m.close <= c
        /\ Coming(H, t, G, e, c) /\ Coming(E, t, G, e, c)
        /\ None(H, t) \/ None(E, t)
        /\ \A m \in P : Follows(m, P)
        /\ live => Latest(P, e, c)
        /\ live \/ None(H, t)

Events(t) == {m \in Message : IsEvent(m, t)}

-----------------------------------------------------------------------------
(* An event has a number and a close count.                                 *)
LEMMA EventParts ==
    ASSUME NEW t, NEW m \in Message, IsEvent(m, t)
    PROVE  m.n \in Nat /\ m.close \in Nat
  BY DEF IsEvent, Message

(* The events of a list are messages of it.                                 *)
LEMMA EventsTyped ==
    ASSUME NEW t, NEW s \in Seq(Message)
    PROVE  EventsIn(s, t) \in SUBSET Events(t)
<1>1. \A k \in DOMAIN s : s[k] \in Message
  OBVIOUS
<1> QED
  BY <1>1, Zenon DEF EventsIn, Events

(* A list with no events has none.                                          *)
LEMMA NoneMeans ==
    ASSUME NEW t, NEW s
    PROVE  /\ None(s, t) <=> EventsIn(s, t) = {}
           /\ \A k \in DOMAIN s : IsEvent(s[k], t) => s[k] \in EventsIn(s, t)
  BY Zenon DEF EventsIn, None

(* One more message at the end of a list.                                   *)
LEMMA EventsBehind ==
    ASSUME NEW t, NEW s \in Seq(Message), NEW m \in Message
    PROVE  /\ Append(s, m) \in Seq(Message)
           /\ IsEvent(m, t) => EventsIn(Append(s, m), t) = EventsIn(s, t) \cup {m}
           /\ ~IsEvent(m, t) => EventsIn(Append(s, m), t) = EventsIn(s, t)
<1>1. PICK a, n : a = Append(s, m) /\ n = Len(s)
  OBVIOUS
<1>2. /\ a \in Seq(Message) /\ n \in Nat /\ DOMAIN s = 1..n /\ DOMAIN a = 1..(n + 1)
      /\ (\A k \in 1..n : a[k] = s[k]) /\ a[n + 1] = m
  BY <1>1, AppendAdds
<1>3. 1..(n + 1) = 1..n \cup {n + 1}
  BY <1>2
<1>4. EventsIn(a, t) \subseteq EventsIn(s, t) \cup {m}
  BY <1>2, <1>3, Zenon DEF EventsIn
<1>5. EventsIn(s, t) \subseteq EventsIn(a, t)
  BY <1>2, <1>3, Zenon DEF EventsIn
<1>6. m \in EventsIn(a, t) \/ ~IsEvent(m, t)
  BY <1>2, <1>3, Zenon DEF EventsIn
<1>7. ~IsEvent(m, t) => EventsIn(a, t) \subseteq EventsIn(s, t)
  BY <1>2, <1>3, Zenon DEF EventsIn
<1> QED
  BY <1>1, <1>2, <1>4, <1>5, <1>6, <1>7

(* The first message of a list, and the rest.                               *)
LEMMA EventsAhead ==
    ASSUME NEW t, NEW s \in Seq(Message), s # <<>>
    PROVE  /\ Head(s) \in Message /\ Tail(s) \in Seq(Message)
           /\ IsEvent(Head(s), t) => EventsIn(s, t) = EventsIn(Tail(s), t) \cup {Head(s)}
           /\ ~IsEvent(Head(s), t) => EventsIn(s, t) = EventsIn(Tail(s), t)
<1>1. PICK a, n, h : a = Tail(s) /\ n = Len(s) /\ h = Head(s)
  OBVIOUS
<1>2. /\ h \in Message /\ h = s[1] /\ a \in Seq(Message) /\ n \in Nat \ {0}
      /\ DOMAIN s = 1..n /\ DOMAIN a = 1..(n - 1) /\ \A k \in 1..(n - 1) : a[k] = s[k + 1]
  BY <1>1, TailLeaves
<1>3. \A k \in 1..n : k = 1 \/ \E j \in 1..(n - 1) : k = j + 1
  <2>1. \A k \in 1..n : k = 1 \/ (k - 1 \in 1..(n - 1) /\ k = (k - 1) + 1)
    BY <1>2
  <2> QED
    BY <2>1
<1>4. \A k \in 1..(n - 1) : k + 1 \in 1..n
  BY <1>2
<1>5. 1 \in 1..n
  BY <1>2
<1>6. EventsIn(s, t) \subseteq EventsIn(a, t) \cup {h}
  <2> SUFFICES ASSUME NEW m \in EventsIn(s, t) PROVE m \in EventsIn(a, t) \cup {h}
    OBVIOUS
  <2>1. PICK k \in 1..n : m = s[k] /\ IsEvent(s[k], t)
    BY <1>2, Zenon DEF EventsIn
  <2>2. CASE k = 1
    BY <1>2, <2>1, <2>2
  <2>3. CASE k # 1
    <3>1. PICK j \in 1..(n - 1) : k = j + 1
      BY <1>3, <2>3
    <3>2. a[j] = s[k]
      BY <1>2, <3>1
    <3>3. m = a[j] /\ IsEvent(a[j], t)
      BY <2>1, <3>2
    <3>4. j \in DOMAIN a
      BY <1>2
    <3> QED
      BY <3>3, <3>4, Zenon DEF EventsIn
  <2> QED
    BY <2>2, <2>3
<1>7. EventsIn(a, t) \subseteq EventsIn(s, t)
  BY <1>2, <1>4, Zenon DEF EventsIn
<1>8. h \in EventsIn(s, t) \/ ~IsEvent(h, t)
  BY <1>2, <1>5, Zenon DEF EventsIn
<1>9. ~IsEvent(h, t) => EventsIn(s, t) \subseteq EventsIn(a, t)
  <2>1. h \notin EventsIn(s, t) \/ IsEvent(h, t)
    BY Zenon DEF EventsIn
  <2> QED
    BY <1>6, <2>1
<1>10. IsEvent(h, t) => EventsIn(s, t) = EventsIn(a, t) \cup {h}
  BY <1>6, <1>7, <1>8
<1>11. ~IsEvent(h, t) => EventsIn(s, t) = EventsIn(a, t)
  BY <1>7, <1>9
<1> QED
  BY <1>1, <1>2, <1>10, <1>11, Zenon

(* One thing more was said.                                                 *)
LEMMA FollowsMore ==
    ASSUME NEW t, NEW P \in SUBSET Events(t), NEW x \in Events(t), NEW e \in Nat, NEW c \in Nat,
           \A m \in P : Follows(m, P) /\ m.n <= e /\ m.close <= c,
           Latest(P, e, c), x.n = e + 1, x.close = c
    PROVE  /\ \A m \in P \cup {x} : Follows(m, P \cup {x})
           /\ Latest(P \cup {x}, e + 1, c)
<1>1. \A m \in P : m.n \in Nat /\ m.close \in Nat
  BY EventParts DEF Events
<1>2. ASSUME NEW m \in P PROVE Follows(m, P \cup {x})
  <2>1. m.n = 1 \/ (\E l \in P : l.n + 1 = m.n) \/ (m.close > 0 /\ \A l \in P : l.n < m.n => l.close < m.close)
    BY <1>2, Zenon DEF Follows
  <2>2. ~(x.n < m.n)
    BY <1>1, <1>2
  <2>3. \A l \in P \cup {x} : l.n < m.n => l \in P
    BY <2>2, Zenon
  <2> QED
    BY <2>1, <2>3, Zenon DEF Follows
<1>3. Follows(x, P \cup {x})
  <2>1. CASE e = 0
    BY <2>1 DEF Follows
  <2>2. CASE \E m \in P : m.n = e
    BY <2>2 DEF Follows
  <2>3. CASE c > 0 /\ \A m \in P : m.close < c
    <3>1. ~(x.n < x.n)
      OBVIOUS
    <3>2. \A l \in P \cup {x} : l.n < x.n => l.close < x.close
      BY <2>3, <3>1
    <3> QED
      BY <2>3, <3>2, Zenon DEF Follows
  <2> QED
    BY <2>1, <2>2, <2>3 DEF Latest
<1>4. Latest(P \cup {x}, e + 1, c)
  BY DEF Latest
<1> QED
  BY <1>2, <1>3, <1>4

(* What was said last is taken away.                                        *)
LEMMA FollowsLess ==
    ASSUME NEW t, NEW G \in SUBSET Events(t), NEW D \in SUBSET Events(t),
           \A m \in G \cup D : Follows(m, G \cup D),
           \A g \in G, d \in D : g.n < d.n
    PROVE  \A m \in G : Follows(m, G)
<1> SUFFICES ASSUME NEW m \in G PROVE Follows(m, G)
  OBVIOUS
<1>1. \A l \in G \cup D : l.n \in Nat
  BY EventParts DEF Events
<1>2. \/ m.n = 1 \/ \E l \in G \cup D : l.n + 1 = m.n
      \/ m.close > 0 /\ \A l \in G \cup D : l.n < m.n => l.close < m.close
  BY Zenon DEF Follows
<1>3. ASSUME NEW l \in G \cup D, l.n + 1 = m.n PROVE l \in G
  <2>1. ~(m.n < l.n)
    BY <1>1, <1>3
  <2> QED
    BY <2>1
<1> QED
  BY <1>2, <1>3, Zenon DEF Follows

(* All there is of the thread was said by now.                              *)
LEMMA WaySaid ==
    ASSUME NEW t, NEW G \in SUBSET Events(t), NEW H \in Seq(Message), NEW E \in Seq(Message),
           NEW e, NEW c \in Nat, NEW live, Way(t, G, H, E, e, c, live)
    PROVE  /\ G \cup EventsIn(H, t) \cup EventsIn(E, t) \in SUBSET Events(t)
           /\ \A m \in G \cup EventsIn(H, t) \cup EventsIn(E, t) : m.n <= e /\ m.close <= c
           /\ \A g \in G, d \in EventsIn(H, t) \cup EventsIn(E, t) : g.n < d.n
<1>1. EventsIn(H, t) \subseteq Events(t) /\ EventsIn(E, t) \subseteq Events(t)
  BY EventsTyped
<1>2. /\ \A m \in EventsIn(H, t) : m.close = c /\ m.n <= e /\ \A g \in G : g.n < m.n
      /\ \A m \in EventsIn(E, t) : m.close = c /\ m.n <= e /\ \A g \in G : g.n < m.n
  <2>1. Coming(H, t, G, e, c) /\ Coming(E, t, G, e, c)
    BY Zenon DEF Way
  <2> QED
    BY <2>1, Zenon DEF EventsIn, Coming
<1>3. \A g \in G : g.n <= e /\ g.close <= c
  BY Zenon DEF Way
<1>4. c <= c
  OBVIOUS
<1>5. \A g \in G, d \in EventsIn(H, t) \cup EventsIn(E, t) : g.n < d.n
  BY <1>2, Zenon
<1>6. \A m \in G \cup EventsIn(H, t) \cup EventsIn(E, t) : m.n <= e /\ m.close <= c
  BY <1>2, <1>3, <1>4
<1> QED
  BY <1>1, <1>5, <1>6

(* The reader's hand had nothing of the thread, and has nothing.            *)
LEMMA WayPasses ==
    ASSUME NEW t, NEW G, NEW H \in Seq(Message), NEW H2 \in Seq(Message), NEW E, NEW e, NEW c,
           NEW live, NEW live2, Way(t, G, H, E, e, c, live), None(H, t), None(H2, t), live2 => live
    PROVE  Way(t, G, H2, E, e, c, live2)
<1>1. EventsIn(H, t) = {} /\ EventsIn(H2, t) = {}
  BY NoneMeans
<1>2. Coming(H2, t, G, e, c)
  BY Zenon DEF None, Coming
<1> QED
  BY <1>1, <1>2, Zenon DEF Way

(* What is held is let go: the thread was closed, or the connection is gone.*)
LEMMA WayForgets ==
    ASSUME NEW t, NEW G \in SUBSET Events(t), NEW H \in Seq(Message), NEW H2 \in Seq(Message),
           NEW E \in Seq(Message), NEW e, NEW c \in Nat, NEW d \in Nat, NEW live, NEW live2,
           Way(t, G, H, E, e, c, live), None(H, t), None(H2, t), c <= d, live2 => live /\ c < d
    PROVE  Way(t, G, H2, <<>>, e, d, live2)
<1>1. EventsIn(H2, t) = {} /\ EventsIn(<<>>, t) = {} /\ None(<<>>, t)
  <2>1. <<>> \in Seq(Message) /\ DOMAIN <<>> = {}
    OBVIOUS
  <2>2. None(<<>>, t)
    BY <2>1 DEF None
  <2> QED
    BY <2>2, NoneMeans
<1>2. Coming(H2, t, G, e, d) /\ Coming(<<>>, t, G, e, d)
  BY <1>1, Zenon DEF None, Coming
<1>3. \A m \in G : m.n <= e /\ m.close <= c /\ m.close \in Nat
  <2>1. \A m \in G : m.close \in Nat
    BY EventParts DEF Events
  <2> QED
    BY <2>1, WaySaid
<1>4. \A m \in G : m.close <= d /\ (c < d => m.close < d)
  BY <1>3
<1>5. \A m \in G : Follows(m, G)
  <2>1. EventsIn(H, t) \cup EventsIn(E, t) \in SUBSET Events(t)
    BY EventsTyped
  <2>2. \A m \in G \cup (EventsIn(H, t) \cup EventsIn(E, t)) :
            Follows(m, G \cup (EventsIn(H, t) \cup EventsIn(E, t)))
    <3>1. G \cup (EventsIn(H, t) \cup EventsIn(E, t)) = G \cup EventsIn(H, t) \cup EventsIn(E, t)
      OBVIOUS
    <3> QED
      BY <3>1, Zenon DEF Way
  <2>3. \A g \in G, x \in EventsIn(H, t) \cup EventsIn(E, t) : g.n < x.n
    BY WaySaid
  <2> QED
    BY <2>1, <2>2, <2>3, FollowsLess
<1>6. c < d => Latest(G, e, d)
  <2>1. c < d => d > 0
    OBVIOUS
  <2> QED
    BY <1>4, <2>1, Zenon DEF Latest
<1>7. G \cup EventsIn(H2, t) \cup EventsIn(<<>>, t) = G
  BY <1>1
<1> QED
  BY <1>1, <1>2, <1>3, <1>4, <1>5, <1>6, <1>7, Zenon DEF Way

(* What was said while nobody owns the thread is held.                      *)
LEMMA WayHolds ==
    ASSUME NEW t, NEW G \in SUBSET Events(t), NEW H \in Seq(Message), NEW E \in Seq(Message),
           NEW e \in Nat, NEW c \in Nat, NEW live, NEW x \in Message,
           Way(t, G, H, E, e, c, live), None(H, t), Latest(G \cup EventsIn(E, t), e, c),
           IsEvent(x, t), x.n = e + 1, x.close = c
    PROVE  Way(t, G, H, Append(E, x), e + 1, c, live)
<1>1. PICK P : P = G \cup EventsIn(E, t)
  OBVIOUS
<1>2. EventsIn(H, t) = {}
  BY NoneMeans
<1>3. P = G \cup EventsIn(H, t) \cup EventsIn(E, t)
  BY <1>1, <1>2
<1>4. P \in SUBSET Events(t) /\ \A m \in P : m.n <= e /\ m.close <= c
  <2>1. EventsIn(E, t) \in SUBSET Events(t)
    BY EventsTyped, Zenon
  <2>2. \A m \in EventsIn(E, t) : m.close = c /\ m.n <= e
    <3>1. Coming(E, t, G, e, c)
      BY Zenon DEF Way
    <3> SUFFICES ASSUME NEW m \in EventsIn(E, t) PROVE m.close = c /\ m.n <= e
      OBVIOUS
    <3>2. PICK k \in DOMAIN E : m = E[k] /\ IsEvent(E[k], t)
      BY Zenon DEF EventsIn
    <3>3. E[k].close = c /\ E[k].n <= e
      BY <3>1, <3>2, Zenon DEF Coming
    <3> QED
      BY <3>2, <3>3, Zenon
  <2>3. \A m \in G : m.n <= e /\ m.close <= c
    BY Zenon DEF Way
  <2>4. c <= c
    OBVIOUS
  <2>5. \A m \in P : m.n <= e /\ m.close <= c
    BY <1>1, <2>2, <2>3, <2>4
  <2> QED
    BY <1>1, <2>1, <2>5
<1>5. /\ \A m \in P : Follows(m, P)
      /\ Coming(E, t, G, e, c) /\ \A m \in G : m.n <= e /\ m.close <= c
  BY <1>3, Zenon DEF Way
<1>6. x \in Events(t)
  BY DEF Events
<1>7. (\A m \in P \cup {x} : Follows(m, P \cup {x})) /\ Latest(P \cup {x}, e + 1, c)
  BY <1>1, <1>4, <1>5, <1>6, FollowsMore
<1>8. /\ Append(E, x) \in Seq(Message) /\ EventsIn(Append(E, x), t) = EventsIn(E, t) \cup {x}
  BY EventsBehind
<1>9. P \cup {x} = G \cup EventsIn(H, t) \cup EventsIn(Append(E, x), t)
  BY <1>1, <1>2, <1>8
<1>10. \A m \in Events(t) : m.n \in Nat
  BY EventParts DEF Events
<1>11. \A m \in G : m.n <= e + 1 /\ m.close <= c /\ m.n < e + 1
  BY <1>5, <1>10
<1>12. Coming(H, t, G, e + 1, c)
  BY Zenon DEF None, Coming
<1>13. Coming(Append(E, x), t, G, e + 1, c)
  <2>1. PICK a, n : a = Append(E, x) /\ n = Len(E)
    OBVIOUS
  <2>2. /\ a \in Seq(Message) /\ n \in Nat /\ DOMAIN E = 1..n /\ DOMAIN a = 1..(n + 1)
        /\ (\A k \in 1..n : a[k] = E[k]) /\ a[n + 1] = x
    BY <2>1, AppendAdds
  <2>3. \A k \in 1..(n + 1) : k \in 1..n \/ k = n + 1
    BY <2>2
  <2>4. \A k \in 1..n : IsEvent(E[k], t) => E[k].close = c /\ E[k].n <= e /\ E[k].n \in Nat /\ \A m \in G : m.n < E[k].n
    <3>1. \A k \in 1..n : IsEvent(E[k], t) => E[k] \in Events(t)
      BY <2>2, EventsTyped, NoneMeans, Zenon
    <3> QED
      BY <1>5, <1>10, <2>2, <3>1, Zenon DEF Coming
  <2>5. \A k \in 1..n : IsEvent(E[k], t) => E[k].n < e + 1 /\ E[k].n <= e + 1
    BY <2>4
  <2>6. \A k \in 1..(n + 1) : IsEvent(a[k], t) => a[k].close = c /\ a[k].n <= e + 1 /\ \A m \in G : m.n < a[k].n
    <3>1. e + 1 <= e + 1
      OBVIOUS
    <3> QED
      BY <1>11, <2>2, <2>3, <2>4, <2>5, <3>1, Zenon
  <2>7. ASSUME NEW j \in 1..(n + 1), NEW k \in 1..(n + 1), j < k, IsEvent(a[j], t), IsEvent(a[k], t)
        PROVE  a[j].n < a[k].n
    <3>1. j \in 1..n
      BY <2>2, <2>7
    <3>2. CASE k \in 1..n
      BY <1>5, <2>2, <2>7, <3>1, <3>2, Zenon DEF Coming
    <3>3. CASE k = n + 1
      BY <2>2, <2>5, <2>7, <3>1, <3>3, Zenon
    <3> QED
      BY <2>3, <3>2, <3>3
  <2> QED
    BY <2>1, <2>2, <2>6, <2>7, Zenon DEF Coming
<1> QED
  BY <1>7, <1>9, <1>11, <1>12, <1>13, Zenon DEF Way

(* A message of another thread, or no event, is held.                       *)
LEMMA WayHoldsOther ==
    ASSUME NEW t, NEW G, NEW H \in Seq(Message), NEW E \in Seq(Message),
           NEW e, NEW c, NEW live, NEW x \in Message,
           Way(t, G, H, E, e, c, live), ~IsEvent(x, t)
    PROVE  Way(t, G, H, Append(E, x), e, c, live)
<1>1. EventsIn(Append(E, x), t) = EventsIn(E, t)
  BY EventsBehind
<1>2. PICK a, n : a = Append(E, x) /\ n = Len(E)
  OBVIOUS
<1>3. /\ a \in Seq(Message) /\ n \in Nat /\ DOMAIN E = 1..n /\ DOMAIN a = 1..(n + 1)
      /\ (\A k \in 1..n : a[k] = E[k]) /\ a[n + 1] = x
  BY <1>2, AppendAdds
<1>4. \A k \in 1..(n + 1) : k \in 1..n \/ k = n + 1
  BY <1>3
<1>5. \A k \in DOMAIN a : IsEvent(a[k], t) => k \in DOMAIN E /\ a[k] = E[k]
  BY <1>3, <1>4, Zenon
<1>6. Coming(a, t, G, e, c)
  BY <1>5, Zenon DEF Coming, Way
<1>7. None(E, t) => None(a, t)
  BY <1>5, Zenon DEF None
<1> QED
  BY <1>1, <1>2, <1>6, <1>7, Zenon DEF Way

(* What was held is taken into the reader's hand, all of it.                *)
LEMMA WayTurns ==
    ASSUME NEW t, NEW G, NEW H \in Seq(Message), NEW E \in Seq(Message), NEW H2 \in Seq(Message),
           NEW e, NEW c, NEW live, live \/ None(H2, t), Way(t, G, H, E, e, c, live), None(H, t),
           EventsIn(H2, t) = EventsIn(E, t), Coming(H2, t, G, e, c)
    PROVE  Way(t, G, H2, <<>>, e, c, live)
<1>1. EventsIn(H, t) = {} /\ EventsIn(<<>>, t) = {} /\ None(<<>>, t)
  <2>1. <<>> \in Seq(Message) /\ DOMAIN <<>> = {}
    OBVIOUS
  <2>2. None(<<>>, t)
    BY <2>1 DEF None
  <2> QED
    BY <2>2, NoneMeans
<1>2. Coming(<<>>, t, G, e, c)
  BY <1>1, Zenon DEF None, Coming
<1>3. G \cup EventsIn(H, t) \cup EventsIn(E, t) = G \cup EventsIn(H2, t) \cup EventsIn(<<>>, t)
  BY <1>1
<1> QED
  BY <1>1, <1>2, <1>3, Zenon DEF Way

(* An answer before what was held changes no place in the order.            *)
LEMMA ComingAfter ==
    ASSUME NEW t, NEW G, NEW E \in Seq(Message), NEW e, NEW c, Coming(E, t, G, e, c),
           NEW x \in Message, ~IsEvent(x, t)
    PROVE  /\ Coming(<<x>> \o E, t, G, e, c)
           /\ <<x>> \o E \in Seq(Message)
           /\ EventsIn(<<x>> \o E, t) = EventsIn(E, t)
<1>1. PICK a, n : a = <<x>> \o E /\ n = Len(E)
  OBVIOUS
<1>2. /\ a \in Seq(Message) /\ n \in Nat /\ DOMAIN E = 1..n /\ DOMAIN a = 1..(n + 1)
      /\ (\A k \in 2..(n + 1) : a[k] = E[k - 1]) /\ a[1] = x
  BY <1>1
<1>3. \A k \in 1..(n + 1) : k = 1 \/ (k \in 2..(n + 1) /\ k - 1 \in 1..n)
  BY <1>2
<1>4. \A k \in 1..(n + 1) : IsEvent(a[k], t) => k - 1 \in 1..n /\ a[k] = E[k - 1]
  BY <1>2, <1>3, Zenon
<1>5. \A k \in 1..(n + 1) : IsEvent(a[k], t) =>
          a[k].close = c /\ a[k].n <= e /\ \A m \in G : m.n < a[k].n
  BY <1>2, <1>4, Zenon DEF Coming
<1>6. ASSUME NEW j \in 1..(n + 1), NEW k \in 1..(n + 1), j < k, IsEvent(a[j], t), IsEvent(a[k], t)
      PROVE  a[j].n < a[k].n
  <2>1. j - 1 < k - 1
    BY <1>2, <1>6
  <2>2. /\ j - 1 \in DOMAIN E /\ a[j] = E[j - 1]
        /\ k - 1 \in DOMAIN E /\ a[k] = E[k - 1]
    BY <1>2, <1>4, <1>6
  <2>3. \A i, l \in DOMAIN E : i < l /\ IsEvent(E[i], t) /\ IsEvent(E[l], t) => E[i].n < E[l].n
    BY Zenon DEF Coming
  <2> QED
    BY <1>6, <2>1, <2>2, <2>3, Zenon
<1>7. \A k \in 1..n : k + 1 \in 1..(n + 1) /\ a[k + 1] = E[k]
  BY <1>2
<1>8. EventsIn(a, t) = EventsIn(E, t)
  <2>1. EventsIn(a, t) \subseteq EventsIn(E, t)
    BY <1>2, <1>4, Zenon DEF EventsIn
  <2>2. EventsIn(E, t) \subseteq EventsIn(a, t)
    <3> SUFFICES ASSUME NEW m \in EventsIn(E, t) PROVE m \in EventsIn(a, t)
      OBVIOUS
    <3>1. PICK k \in DOMAIN E : m = E[k] /\ IsEvent(E[k], t)
      BY Zenon DEF EventsIn
    <3>2. k + 1 \in DOMAIN a /\ a[k + 1] = m /\ IsEvent(a[k + 1], t)
      BY <1>2, <1>7, <3>1
    <3> QED
      BY <3>2, Zenon DEF EventsIn
  <2> QED
    BY <2>1, <2>2
<1> QED
  BY <1>1, <1>2, <1>5, <1>6, <1>8, Zenon DEF Coming

(* The reader gives the next message to its tab.                            *)
LEMMA WayGives ==
    ASSUME NEW t, NEW G \in SUBSET Events(t), NEW H \in Seq(Message), NEW E \in Seq(Message),
           NEW e, NEW c, NEW live, H # <<>>, NEW G2,
           Way(t, G, H, E, e, c, live), G2 = IF IsEvent(Head(H), t) THEN G \cup {Head(H)} ELSE G,
           c \in Nat
    PROVE  Way(t, G2, Tail(H), E, e, c, live)
<1>1. PICK a, n, h : a = Tail(H) /\ n = Len(H) /\ h = Head(H)
  OBVIOUS
<1>2. /\ h \in Message /\ h = H[1] /\ a \in Seq(Message) /\ n \in Nat \ {0}
      /\ DOMAIN H = 1..n /\ DOMAIN a = 1..(n - 1) /\ \A k \in 1..(n - 1) : a[k] = H[k + 1]
  BY <1>1, TailLeaves
<1>3. \A k \in 1..(n - 1) : k + 1 \in 1..n /\ 1 < k + 1
  BY <1>2
<1>4. 1 \in 1..n
  BY <1>2
<1>5. G2 \cup EventsIn(a, t) = G \cup EventsIn(H, t)
  <2>1. /\ IsEvent(h, t) => EventsIn(H, t) = EventsIn(a, t) \cup {h}
        /\ ~IsEvent(h, t) => EventsIn(H, t) = EventsIn(a, t)
    BY <1>1, EventsAhead
  <2> QED
    BY <1>1, <2>1
<1>6. G2 \cup EventsIn(a, t) \cup EventsIn(E, t) = G \cup EventsIn(H, t) \cup EventsIn(E, t)
  BY <1>5
<1>7. /\ Coming(H, t, G, e, c) /\ Coming(E, t, G, e, c) /\ \A m \in G : m.n <= e /\ m.close <= c
  BY Zenon DEF Way
<1>8. \A m \in G2 : m \in G \/ (m = h /\ IsEvent(h, t))
  BY <1>1
<1>9. IsEvent(h, t) => h.close = c /\ h.n <= e
  BY <1>2, <1>4, <1>7, Zenon DEF Coming
<1>10. \A m \in G2 : m.n <= e /\ m.close <= c
  <2>1. c <= c
    OBVIOUS
  <2> QED
    BY <1>7, <1>8, <1>9, <2>1
<1>11. Coming(a, t, G2, e, c)
  <2>1. ASSUME NEW k \in DOMAIN a, IsEvent(a[k], t)
        PROVE  a[k].close = c /\ a[k].n <= e /\ \A m \in G2 : m.n < a[k].n
    <3>1. k + 1 \in DOMAIN H /\ 1 \in DOMAIN H /\ 1 < k + 1 /\ a[k] = H[k + 1]
      BY <1>2, <1>3, <1>4, Zenon
    <3>2. a[k].close = c /\ a[k].n <= e /\ \A m \in G : m.n < a[k].n
      BY <1>7, <2>1, <3>1, Zenon DEF Coming
    <3>3. IsEvent(h, t) => h.n < a[k].n
      BY <1>2, <1>7, <2>1, <3>1, Zenon DEF Coming
    <3> QED
      BY <1>8, <3>2, <3>3, Zenon
  <2>2. ASSUME NEW j \in DOMAIN a, NEW k \in DOMAIN a, j < k, IsEvent(a[j], t), IsEvent(a[k], t)
        PROVE  a[j].n < a[k].n
    <3>1. j + 1 \in DOMAIN H /\ k + 1 \in DOMAIN H /\ a[j] = H[j + 1] /\ a[k] = H[k + 1]
      BY <1>2, <1>3, Zenon
    <3>2. j + 1 < k + 1
      BY <1>2, <2>2
    <3> QED
      BY <1>7, <2>2, <3>1, <3>2, Zenon DEF Coming
  <2> QED
    BY <2>1, <2>2, Zenon DEF Coming
<1>12. None(H, t) => None(a, t) /\ G2 = G
  <2>1. None(H, t) => None(a, t)
    BY <1>2, <1>3, Zenon DEF None
  <2>2. None(H, t) => ~IsEvent(h, t)
    BY <1>2, <1>4, Zenon DEF None
  <2> QED
    BY <1>1, <2>1, <2>2
<1>13. Coming(E, t, G2, e, c)
  <2>1. CASE None(H, t)
    BY <1>7, <1>12, <2>1
  <2>2. CASE None(E, t)
    BY <2>2, Zenon DEF None, Coming
  <2> QED
    BY <2>1, <2>2, Zenon DEF Way
<1> QED
  BY <1>1, <1>6, <1>10, <1>11, <1>12, <1>13, Zenon DEF Way

(* The messages of what is being handed over.                               *)
Letters(ds) == [k \in DOMAIN ds |-> ds[k].msg]

OnWay(t) == Way(t, Given(t), Letters(handing["reader"]), early[t], emitted[t], closes[t], alive)

(* The inboxes' part of RootOrder but for what was lost.                    *)
Told(t) ==
    /\ \A o \in Owner : Ordered(o, t) /\ Fresh(o, t)
    /\ \A o, p \in Owner : o # p => ~Shared(o, p, t)

OwnEvents ==
    \A t \in Thread : \A k \in DOMAIN early[t] : early[t][k].kind = "event" => early[t][k].thread = t

Elsewhere == \A h \in Hand : h # "reader" => \A t \in Roots : None(Letters(handing[h]), t)

(* An answer was given at a close of its thread that has been.              *)
Past(m) == m.kind = "answer" => m.close <= closes[About[m.request]]

AnswersPast ==
    /\ \A h \in Hand : \A k \in DOMAIN handing[h] : Past(handing[h][k].msg)
    /\ \A o \in Owner : \A k \in DOMAIN inbox[o] : Past(inbox[o][k])

OrderInv ==
    /\ OwnEvents /\ Elsewhere /\ AnswersPast
    /\ \A t \in Roots : OnWay(t) /\ Told(t)

-----------------------------------------------------------------------------
(* Letters are messages, in the places of their deliveries.                 *)
LEMMA LettersTyped ==
    ASSUME NEW ds \in Seq(Delivery)
    PROVE  /\ Letters(ds) \in Seq(Message) /\ DOMAIN Letters(ds) = DOMAIN ds
           /\ \A k \in DOMAIN ds : Letters(ds)[k] = ds[k].msg
<1>1. PICK n \in Nat : n = Len(ds)
  OBVIOUS
<1>2. DOMAIN ds = 1..n /\ \A k \in 1..n : ds[k].msg \in Message
  <2>1. DOMAIN ds = 1..n /\ \A k \in 1..n : ds[k] \in Delivery
    BY <1>1
  <2>2. \A d \in Delivery : d.msg \in Message
    BY DEF Delivery
  <2> QED
    BY <2>1, <2>2
<1>3. Letters(ds) \in [1..n -> Message]
  BY <1>2 DEF Letters
<1>4. Letters(ds) \in Seq(Message)
  BY <1>3, ListIsSeq
<1> QED
  BY <1>2, <1>4, Zenon DEF Letters

(* What is addressed to one tab.                                            *)
LEMMA LettersTo ==
    ASSUME NEW s \in Seq(Message), NEW o \in Owner
    PROVE  /\ To(o, s) \in Seq(Delivery) /\ Letters(To(o, s)) = s
           /\ \A k \in DOMAIN To(o, s) : To(o, s)[k].msg = s[k] /\ k \in DOMAIN s
<1>1. /\ To(o, s) \in Seq(Delivery) /\ DOMAIN To(o, s) = DOMAIN s
      /\ \A k \in DOMAIN s : To(o, s)[k].msg = s[k]
  BY Addressed
<1>2. DOMAIN Letters(To(o, s)) = DOMAIN s /\ \A k \in DOMAIN s : Letters(To(o, s))[k] = s[k]
  BY <1>1, Zenon DEF Letters
<1>3. Letters(To(o, s)) \in Seq(Message)
  BY <1>1, LettersTyped, Zenon
<1>4. PICK a : a = Letters(To(o, s))
  OBVIOUS
<1>5. a \in Seq(Message) /\ DOMAIN a = DOMAIN s /\ \A k \in DOMAIN s : a[k] = s[k]
  BY <1>2, <1>3, <1>4, Zenon
<1>6. a = s
  <2>1. s = [k \in DOMAIN s |-> s[k]] /\ a = [k \in DOMAIN a |-> a[k]]
    BY <1>5
  <2> QED
    BY <1>5, <2>1
<1> QED
  BY <1>1, <1>4, <1>6, Zenon

(* The first delivery, and the rest.                                        *)
LEMMA LettersAhead ==
    ASSUME NEW ds \in Seq(Delivery), ds # <<>>
    PROVE  /\ Head(ds) \in Delivery /\ Tail(ds) \in Seq(Delivery)
           /\ Letters(ds) # <<>> /\ Head(Letters(ds)) = Head(ds).msg
           /\ Tail(Letters(ds)) = Letters(Tail(ds))
           /\ \A k \in DOMAIN Tail(ds) : \E j \in DOMAIN ds : Tail(ds)[k] = ds[j]
           /\ \E j \in DOMAIN ds : Head(ds) = ds[j]
<1>1. PICK a, b, n : a = Tail(ds) /\ n = Len(ds) /\ b = Letters(ds)
  OBVIOUS
<1>2. /\ Head(ds) \in Delivery /\ Head(ds) = ds[1] /\ a \in Seq(Delivery) /\ n \in Nat \ {0}
      /\ DOMAIN ds = 1..n /\ DOMAIN a = 1..(n - 1) /\ \A k \in 1..(n - 1) : a[k] = ds[k + 1]
  BY <1>1, TailLeaves
<1>3. b \in Seq(Message) /\ DOMAIN b = 1..n /\ \A k \in 1..n : b[k] = ds[k].msg
  BY <1>1, <1>2, LettersTyped, Zenon
<1>4. b # <<>> /\ Len(b) = n
  BY <1>2, <1>3
<1>5. PICK d : d = Tail(b)
  OBVIOUS
<1>6. Head(b) = b[1] /\ d \in Seq(Message) /\ DOMAIN d = 1..(n - 1) /\ \A k \in 1..(n - 1) : d[k] = b[k + 1]
  BY <1>3, <1>4, <1>5, TailLeaves
<1>7. 1 \in 1..n /\ \A k \in 1..(n - 1) : k + 1 \in 1..n
  BY <1>2
<1>8. d = Letters(a)
  <2>1. \A k \in 1..(n - 1) : d[k] = a[k].msg
    BY <1>2, <1>3, <1>6, <1>7, Zenon
  <2>2. d = [k \in DOMAIN d |-> d[k]]
    BY <1>6
  <2> QED
    BY <1>2, <1>6, <2>1, <2>2 DEF Letters
<1>9. Head(b) = Head(ds).msg
  BY <1>2, <1>3, <1>6, <1>7, Zenon
<1>10. \A k \in DOMAIN a : \E j \in DOMAIN ds : a[k] = ds[j]
  BY <1>2, <1>7, Zenon
<1>11. \E j \in DOMAIN ds : Head(ds) = ds[j]
  BY <1>2, <1>7, Zenon
<1> QED
  BY <1>1, <1>2, <1>4, <1>5, <1>8, <1>9, <1>10, <1>11, Zenon

(* What the tabs were given of a thread, while no inbox changes.            *)
LEMMA GivenStays ==
    ASSUME inbox' = inbox, NEW t
    PROVE  Given(t)' = Given(t) /\ (Told(t) => Told(t)')
<1>1. Given(t)' = Given(t)
  BY DEF Given, Got
<1>2. Told(t)' <=> Told(t)
  <2>1. \A o : Ordered(o, t)' <=> Ordered(o, t)
    BY DEF Ordered
  <2>2. \A o : Fresh(o, t)' <=> Fresh(o, t)
    BY DEF Fresh
  <2>3. \A o, p : Shared(o, p, t)' <=> Shared(o, p, t)
    BY DEF Shared
  <2> QED
    BY <2>1, <2>2, <2>3, Zenon DEF Told
<1> QED
  BY <1>1, <1>2

(* What the tabs were given of a thread is in their inboxes.                *)
LEMMA GivenMeans ==
    ASSUME NEW t
    PROVE  /\ \A m : m \in Given(t) <=>
                    \E o \in Owner : \E k \in DOMAIN inbox[o] : m = inbox[o][k] /\ IsEvent(m, t)
           /\ \A m : m \in Given(t)' <=>
                    \E o \in Owner : \E k \in DOMAIN inbox'[o] : m = inbox'[o][k] /\ IsEvent(m, t)
<1>1. \A m : m \in Given(t) <=> (\E o \in Owner : m \in Got(o)) /\ IsEvent(m, t)
  BY DEF Given
<1>2. \A m : m \in Given(t)' <=> (\E o \in Owner : m \in Got(o)') /\ IsEvent(m, t)
  BY DEF Given
<1>3. \A m, o : m \in Got(o) <=> \E k \in DOMAIN inbox[o] : m = inbox[o][k]
  BY DEF Got
<1>4. \A m, o : m \in Got(o)' <=> \E k \in DOMAIN inbox'[o] : m = inbox'[o][k]
  BY DEF Got
<1>5. \A m : m \in Given(t) <=>
          \E o \in Owner : \E k \in DOMAIN inbox[o] : m = inbox[o][k] /\ IsEvent(m, t)
  <2>1. ASSUME NEW m, m \in Given(t)
        PROVE  \E o \in Owner : \E k \in DOMAIN inbox[o] : m = inbox[o][k] /\ IsEvent(m, t)
    BY <1>1, <1>3, <2>1, Zenon
  <2>2. ASSUME NEW m, NEW o \in Owner, NEW k \in DOMAIN inbox[o], m = inbox[o][k], IsEvent(m, t)
        PROVE  m \in Given(t)
    BY <1>1, <1>3, <2>2, Zenon
  <2> QED
    BY <2>1, <2>2, Zenon
<1>6. \A m : m \in Given(t)' <=>
          \E o \in Owner : \E k \in DOMAIN inbox'[o] : m = inbox'[o][k] /\ IsEvent(m, t)
  <2>1. ASSUME NEW m, m \in Given(t)'
        PROVE  \E o \in Owner : \E k \in DOMAIN inbox'[o] : m = inbox'[o][k] /\ IsEvent(m, t)
    BY <1>2, <1>4, <2>1, Zenon
  <2>2. ASSUME NEW m, NEW o \in Owner, NEW k \in DOMAIN inbox'[o], m = inbox'[o][k], IsEvent(m, t)
        PROVE  m \in Given(t)'
    BY <1>2, <1>4, <2>2, Zenon
  <2> QED
    BY <2>1, <2>2, Zenon
<1> QED
  BY <1>5, <1>6

(* What a tab was given are messages.                                       *)
LEMMA GivenTyped ==
    ASSUME Types, NEW t
    PROVE  Given(t) \in SUBSET Events(t)
<1>1. \A o \in Owner : \A k \in DOMAIN inbox[o] : inbox[o][k] \in Message
  <2>1. inbox \in [Owner -> Seq(Message)]
    BY Zenon DEF Types
  <2> QED
    BY <2>1
<1>2. \A m \in Given(t) : \E o \in Owner : \E k \in DOMAIN inbox[o] : m = inbox[o][k] /\ IsEvent(m, t)
  BY GivenMeans
<1>3. \A m \in Given(t) : m \in Message /\ IsEvent(m, t)
  BY <1>1, <1>2, Zenon
<1> QED
  BY <1>3, Zenon DEF Events

(* One more message for a tab.                                              *)
LEMMA InboxBehind ==
    ASSUME Types, NEW o \in Owner, NEW m \in Message, inbox' = [inbox EXCEPT ![o] = Append(@, m)]
    PROVE  /\ \A p \in Owner : p # o => inbox'[p] = inbox[p]
           /\ \E n \in Nat : /\ DOMAIN inbox[o] = 1..n /\ DOMAIN inbox'[o] = 1..(n + 1)
                             /\ inbox'[o][n + 1] = m /\ \A k \in 1..n : inbox'[o][k] = inbox[o][k]
<1>1. PICK s : s = inbox[o] /\ s \in Seq(Message)
  BY DEF Types
<1>2. PICK n : n = Len(s)
  OBVIOUS
<1>3. inbox'[o] = Append(s, m) /\ \A p \in Owner : p # o => inbox'[p] = inbox[p]
  BY <1>1 DEF Types
<1>4. /\ n \in Nat /\ DOMAIN s = 1..n /\ DOMAIN Append(s, m) = 1..(n + 1)
      /\ \A k \in DOMAIN s : Append(s, m)[k] = s[k]
      /\ Append(s, m)[n + 1] = m
  BY <1>1, <1>2, AppendAdds
<1> QED
  BY <1>1, <1>3, <1>4, Zenon

(* A message that is no event of the thread changes nothing of it.          *)
LEMMA GivenOther ==
    ASSUME Types, NEW o \in Owner, NEW m \in Message, inbox' = [inbox EXCEPT ![o] = Append(@, m)],
           NEW t \in Thread, ~IsEvent(m, t)
    PROVE  Given(t)' = Given(t) /\ (Told(t) => Told(t)')
<1>1. PICK n \in Nat : /\ DOMAIN inbox[o] = 1..n /\ DOMAIN inbox'[o] = 1..(n + 1)
                       /\ inbox'[o][n + 1] = m /\ \A k \in 1..n : inbox'[o][k] = inbox[o][k]
  BY InboxBehind
<1>2. \A p \in Owner : p # o => inbox'[p] = inbox[p]
  BY InboxBehind
<1>3. \A k \in 1..(n + 1) : k \in 1..n \/ k = n + 1
  BY <1>1
<1>4. \A k \in 1..n : k \in 1..(n + 1)
  BY <1>1
<1>5. \A p \in Owner : \A k \in DOMAIN inbox'[p] : IsEvent(inbox'[p][k], t) =>
          k \in DOMAIN inbox[p] /\ inbox'[p][k] = inbox[p][k]
  BY <1>1, <1>2, <1>3, Zenon
<1>6. \A p \in Owner : \A k \in DOMAIN inbox[p] : k \in DOMAIN inbox'[p] /\ inbox'[p][k] = inbox[p][k]
  BY <1>1, <1>2, <1>4, Zenon
<1>7. Given(t)' = Given(t)
  <2>0. /\ \A g : g \in Given(t) <=>
                  \E p \in Owner : \E k \in DOMAIN inbox[p] : g = inbox[p][k] /\ IsEvent(g, t)
        /\ \A g : g \in Given(t)' <=>
                  \E p \in Owner : \E k \in DOMAIN inbox'[p] : g = inbox'[p][k] /\ IsEvent(g, t)
    BY GivenMeans
  <2>1. \A g : g \in Given(t)' => g \in Given(t)
    BY <1>5, <2>0
  <2>2. \A g : g \in Given(t) => g \in Given(t)'
    BY <1>6, <2>0
  <2> QED
    BY <2>1, <2>2
<1>8. ASSUME Told(t) PROVE Told(t)'
  <2>1. ASSUME NEW p \in Owner PROVE Ordered(p, t)'
    <3> SUFFICES ASSUME NEW j \in DOMAIN inbox'[p], NEW k \in DOMAIN inbox'[p], j < k,
                        IsEvent(inbox'[p][j], t), IsEvent(inbox'[p][k], t)
                 PROVE  inbox'[p][j].n < inbox'[p][k].n
      BY Zenon DEF Ordered
    <3>1. /\ j \in DOMAIN inbox[p] /\ inbox'[p][j] = inbox[p][j]
          /\ k \in DOMAIN inbox[p] /\ inbox'[p][k] = inbox[p][k]
      BY <1>5, Zenon
    <3> QED
      BY <1>8, <3>1, Zenon DEF Told, Ordered
  <2>2. ASSUME NEW p \in Owner PROVE Fresh(p, t)'
    <3> SUFFICES ASSUME NEW j \in DOMAIN inbox'[p], NEW k \in DOMAIN inbox'[p], j < k,
                        inbox'[p][j].kind = "answer", inbox'[p][j].outcome = "ok",
                        About[inbox'[p][j].request] = t, IsEvent(inbox'[p][k], t)
                 PROVE  inbox'[p][k].close >= inbox'[p][j].close
      BY Zenon DEF Fresh
    <3>1. k \in DOMAIN inbox[p] /\ inbox'[p][k] = inbox[p][k]
      BY <1>5
    <3>2. j \in DOMAIN inbox[p]
      <4>1. CASE p # o
        BY <1>2, <4>1
      <4>2. CASE p = o
        <5>1. j \in 1..(n + 1) /\ k \in 1..n
          BY <1>1, <3>1, <4>2
        <5>2. j \in 1..n
          BY <5>1
        <5> QED
          BY <1>1, <4>2, <5>2
      <4> QED
        BY <4>1, <4>2
    <3>3. inbox'[p][j] = inbox[p][j]
      BY <1>6, <3>2
    <3> QED
      BY <1>8, <3>1, <3>2, <3>3, Zenon DEF Told, Fresh
  <2>3. ASSUME NEW p \in Owner, NEW q \in Owner, p # q PROVE ~Shared(p, q, t)'
    <3> SUFFICES ASSUME NEW j \in DOMAIN inbox'[p], NEW k \in DOMAIN inbox'[q],
                        IsEvent(inbox'[p][j], t), IsEvent(inbox'[q][k], t),
                        inbox'[p][j].n = inbox'[q][k].n
                 PROVE  FALSE
      BY Zenon DEF Shared
    <3>1. ~Shared(p, q, t)
      BY <1>8, <2>3, Zenon DEF Told
    <3>2. /\ j \in DOMAIN inbox[p] /\ inbox'[p][j] = inbox[p][j]
          /\ k \in DOMAIN inbox[q] /\ inbox'[q][k] = inbox[q][k]
      BY <1>5, Zenon
    <3> QED
      BY <3>1, <3>2, Zenon DEF Shared
  <2> QED
    BY <2>1, <2>2, <2>3, Zenon DEF Told
<1> QED
  BY <1>7, <1>8

(* The next event of the thread, for one of the tabs.                       *)
LEMMA GivenEvent ==
    ASSUME Types, AnswersPast, NEW o \in Owner, NEW m \in Message,
           inbox' = [inbox EXCEPT ![o] = Append(@, m)],
           NEW t \in Thread, IsEvent(m, t), m.close = closes[t],
           \A g \in Given(t) : g.n < m.n
    PROVE  Given(t)' = Given(t) \cup {m} /\ (Told(t) => Told(t)')
<1>1. PICK n \in Nat : /\ DOMAIN inbox[o] = 1..n /\ DOMAIN inbox'[o] = 1..(n + 1)
                       /\ inbox'[o][n + 1] = m /\ \A k \in 1..n : inbox'[o][k] = inbox[o][k]
  BY InboxBehind
<1>2. \A p \in Owner : p # o => inbox'[p] = inbox[p]
  BY InboxBehind
<1>3. \A k \in 1..(n + 1) : k \in 1..n \/ k = n + 1
  BY <1>1
<1>4. (\A k \in 1..n : k \in 1..(n + 1)) /\ n + 1 \in 1..(n + 1)
  BY <1>1
<1>5. \A p \in Owner : \A k \in DOMAIN inbox'[p] :
          (k \in DOMAIN inbox[p] /\ inbox'[p][k] = inbox[p][k]) \/ (p = o /\ k = n + 1 /\ inbox'[p][k] = m)
  BY <1>1, <1>2, <1>3, Zenon
<1>6. \A p \in Owner : \A k \in DOMAIN inbox[p] : k \in DOMAIN inbox'[p] /\ inbox'[p][k] = inbox[p][k]
  BY <1>1, <1>2, <1>4, Zenon
<1>7. \A p \in Owner : \A k \in DOMAIN inbox[p] : IsEvent(inbox[p][k], t) => inbox[p][k] \in Given(t)
  BY GivenMeans, Zenon
<1>8. Given(t)' = Given(t) \cup {m}
  <2>0. /\ \A g : g \in Given(t) <=>
                  \E p \in Owner : \E k \in DOMAIN inbox[p] : g = inbox[p][k] /\ IsEvent(g, t)
        /\ \A g : g \in Given(t)' <=>
                  \E p \in Owner : \E k \in DOMAIN inbox'[p] : g = inbox'[p][k] /\ IsEvent(g, t)
    BY GivenMeans
  <2>1. \A g : g \in Given(t)' => g \in Given(t) \/ g = m
    BY <1>5, <2>0
  <2>2. \A g : g \in Given(t) => g \in Given(t)'
    BY <1>6, <2>0
  <2>3. m \in Given(t)'
    BY <1>1, <1>4, <2>0, Zenon
  <2> QED
    BY <2>1, <2>2, <2>3
<1>9. ~(m.n < m.n) /\ m.n \in Nat
  BY EventParts
<1>10. ASSUME Told(t) PROVE Told(t)'
  <2>1. ASSUME NEW p \in Owner PROVE Ordered(p, t)'
    <3> SUFFICES ASSUME NEW j \in DOMAIN inbox'[p], NEW k \in DOMAIN inbox'[p], j < k,
                        IsEvent(inbox'[p][j], t), IsEvent(inbox'[p][k], t)
                 PROVE  inbox'[p][j].n < inbox'[p][k].n
      BY Zenon DEF Ordered
    <3>1. j \in DOMAIN inbox[p] /\ inbox'[p][j] = inbox[p][j]
      <4>1. p = o => j # n + 1
        <5> SUFFICES ASSUME p = o, j = n + 1 PROVE FALSE
          OBVIOUS
        <5>1. k \in 1..(n + 1)
          BY <1>1
        <5> QED
          BY <1>1, <5>1
      <4> QED
        BY <1>5, <4>1
    <3>2. CASE k \in DOMAIN inbox[p] /\ inbox'[p][k] = inbox[p][k]
      BY <1>10, <3>1, <3>2, Zenon DEF Told, Ordered
    <3>3. CASE inbox'[p][k] = m
      BY <1>7, <3>1, <3>3, Zenon
    <3> QED
      BY <1>5, <3>2, <3>3
  <2>2. ASSUME NEW p \in Owner PROVE Fresh(p, t)'
    <3> SUFFICES ASSUME NEW j \in DOMAIN inbox'[p], NEW k \in DOMAIN inbox'[p], j < k,
                        inbox'[p][j].kind = "answer", inbox'[p][j].outcome = "ok",
                        About[inbox'[p][j].request] = t, IsEvent(inbox'[p][k], t)
                 PROVE  inbox'[p][k].close >= inbox'[p][j].close
      BY Zenon DEF Fresh
    <3>1. j \in DOMAIN inbox[p] /\ inbox'[p][j] = inbox[p][j]
      <4>1. inbox'[p][j] # m
        BY DEF IsEvent
      <4> QED
        BY <1>5, <4>1
    <3>2. CASE k \in DOMAIN inbox[p] /\ inbox'[p][k] = inbox[p][k]
      BY <1>10, <3>1, <3>2, Zenon DEF Told, Fresh
    <3>3. CASE inbox'[p][k] = m
      <4>1. inbox[p][j].close <= closes[About[inbox[p][j].request]]
        BY <3>1, Zenon DEF AnswersPast, Past
      <4>2. inbox[p][j] \in Message
        <5>1. inbox \in [Owner -> Seq(Message)]
          BY Zenon DEF Types
        <5> QED
          BY <3>1, <5>1
      <4>3. inbox[p][j].close \in Nat
        BY <3>1, <4>2 DEF Message
      <4>4. m.close \in Nat
        BY EventParts
      <4> QED
        BY <3>1, <3>3, <4>1, <4>3, <4>4
    <3> QED
      BY <1>5, <3>2, <3>3
  <2>3. ASSUME NEW p \in Owner, NEW q \in Owner, p # q PROVE ~Shared(p, q, t)'
    <3> SUFFICES ASSUME NEW j \in DOMAIN inbox'[p], NEW k \in DOMAIN inbox'[q],
                        IsEvent(inbox'[p][j], t), IsEvent(inbox'[q][k], t),
                        inbox'[p][j].n = inbox'[q][k].n
                 PROVE  FALSE
      BY Zenon DEF Shared
    <3>1. ~Shared(p, q, t)
      BY <1>10, <2>3, Zenon DEF Told
    <3>2. CASE j \in DOMAIN inbox[p] /\ inbox'[p][j] = inbox[p][j] /\ k \in DOMAIN inbox[q] /\ inbox'[q][k] = inbox[q][k]
      BY <3>1, <3>2, Zenon DEF Shared
    <3>3. CASE p = o /\ inbox'[p][j] = m /\ k \in DOMAIN inbox[q] /\ inbox'[q][k] = inbox[q][k]
      <4>1. inbox'[q][k].n < m.n
        BY <1>7, <3>3, Zenon
      <4> QED
        BY <1>9, <3>3, <4>1
    <3>4. CASE q = o /\ inbox'[q][k] = m /\ j \in DOMAIN inbox[p] /\ inbox'[p][j] = inbox[p][j]
      <4>1. inbox'[p][j].n < m.n
        BY <1>7, <3>4, Zenon
      <4> QED
        BY <1>9, <3>4, <4>1
    <3> QED
      BY <1>5, <2>3, <3>2, <3>3, <3>4
  <2> QED
    BY <2>1, <2>2, <2>3, Zenon DEF Told
<1> QED
  BY <1>8, <1>10

(* The letters of the reader's hand, and what is held, are messages.        *)
LEMMA ReaderTyped ==
    ASSUME RouterInv
    PROVE  /\ "reader" \in Hand /\ handing \in [Hand -> Seq(Delivery)]
           /\ Letters(handing["reader"]) \in Seq(Message)
           /\ \A t \in Thread : early[t] \in Seq(Message) /\ emitted[t] \in Nat /\ closes[t] \in Nat
<1>1. "reader" \in Hand
  BY DEF Hand
<1>2. Types /\ Tables
  BY Zenon DEF RouterInv
<1>3. handing \in [Hand -> Seq(Delivery)] /\ emitted \in [Thread -> Nat] /\ closes \in [Thread -> Nat]
  BY <1>2, Zenon DEF Types
<1>4. early \in [Thread -> Seq(Message)]
  BY <1>2, Zenon DEF Tables
<1>5. handing["reader"] \in Seq(Delivery)
  BY <1>1, <1>3
<1>6. Letters(handing["reader"]) \in Seq(Message)
  BY <1>5, LettersTyped, Zenon
<1> QED
  BY <1>1, <1>3, <1>4, <1>6

(* An empty hand holds no event.                                            *)
LEMMA EmptyHand ==
    ASSUME NEW t
    PROVE  None(Letters(<<>>), t)
<1>1. DOMAIN <<>> = {}
  OBVIOUS
<1> QED
  BY <1>1 DEF Letters, None

(* A step that leaves a root thread, and what is on its way, aside.         *)
LEMMA WayAside ==
    ASSUME RouterInv, RouterInv', NEW t \in Roots, OnWay(t), inbox' = inbox,
           early'[t] = early[t], emitted'[t] = emitted[t], closes'[t] = closes[t],
           \/ alive' = alive /\ handing'["reader"] = handing["reader"]
           \/ /\ alive' => alive
              /\ None(Letters(handing["reader"]), t) /\ None(Letters(handing'["reader"]), t)
    PROVE  OnWay(t)'
<1>1. PICK G, H, E, e, c, live : /\ G = Given(t) /\ H = Letters(handing["reader"]) /\ E = early[t]
                                 /\ e = emitted[t] /\ c = closes[t] /\ live = alive
  OBVIOUS
<1>2. Way(t, G, H, E, e, c, live)
  BY <1>1, Zenon DEF OnWay
<1>3. Given(t)' = Given(t)
  BY GivenStays, Zenon
<1>4. PICK H2, live2 : H2 = Letters(handing'["reader"]) /\ live2 = alive'
  OBVIOUS
<1>5. OnWay(t)' <=> Way(t, G, H2, E, e, c, live2)
  BY <1>1, <1>3, <1>4, Zenon DEF OnWay, Letters
<1>6. CASE alive' = alive /\ handing'["reader"] = handing["reader"]
  <2>1. H2 = H /\ live2 = live
    BY <1>1, <1>4, <1>6
  <2> QED
    BY <1>2, <1>5, <2>1
<1>7. CASE /\ alive' => alive
           /\ None(Letters(handing["reader"]), t) /\ None(Letters(handing'["reader"]), t)
  <2>1. None(H, t) /\ None(H2, t) /\ (live2 => live)
    BY <1>1, <1>4, <1>7
  <2>2. H \in Seq(Message)
    BY <1>1, ReaderTyped
  <2>3. H2 \in Seq(Message)
    <3>1. Letters(handing'["reader"]) \in Seq(Message)
      <4>1. "reader" \in Hand
        BY DEF Hand
      <4>2. handing' \in [Hand -> Seq(Delivery)]
        BY Zenon DEF RouterInv, Types
      <4>3. handing'["reader"] \in Seq(Delivery)
        BY <4>1, <4>2
      <4> QED
        BY <4>3, LettersTyped, Zenon
    <3> QED
      BY <1>4, <3>1
  <2>4. Way(t, G, H2, E, e, c, live2)
    BY <1>2, <2>1, <2>2, <2>3, WayPasses
  <2> QED
    BY <1>5, <2>4
<1> QED
  BY <1>6, <1>7

(* A step after which nothing but an answer was handed over.                *)
LEMMA OrderStill ==
    ASSUME RouterInv, RouterInv', OrderInv, UNCHANGED <<early, handing, inbox, emitted, closes, alive>>
    PROVE  OrderInv'
<1>1. OwnEvents'
  BY DEF OrderInv, OwnEvents
<1>2. Elsewhere'
  BY DEF OrderInv, Elsewhere, Letters, None
<1>3. AnswersPast'
  BY DEF OrderInv, AnswersPast, Past
<1>4. ASSUME NEW t \in Roots PROVE OnWay(t)' /\ Told(t)'
  <2>1. OnWay(t) /\ Told(t)
    BY <1>4, Zenon DEF OrderInv
  <2>2. OnWay(t)'
    BY <2>1, WayAside
  <2>3. Told(t)'
    BY <2>1, GivenStays
  <2> QED
    BY <2>2, <2>3
<1> QED
  BY <1>1, <1>2, <1>3, <1>4, Zenon DEF OrderInv

(* What is put into a hand that was empty leaves the other hands alone and  *)
(* keeps answers behind the closes.                                         *)
LEMMA HandsKeep ==
    ASSUME RouterInv, RouterInv', OrderInv, NEW h \in Hand, NEW ds \in Seq(Delivery),
           handing' = [handing EXCEPT ![h] = ds], inbox' = inbox,
           \A t \in Thread : closes[t] <= closes'[t],
           \A k \in DOMAIN ds : Past(ds[k].msg),
           h = "reader" \/ \A t \in Roots : None(Letters(ds), t)
    PROVE  Elsewhere' /\ AnswersPast'
<1>1. handing \in [Hand -> Seq(Delivery)] /\ inbox \in [Owner -> Seq(Message)]
      /\ closes \in [Thread -> Nat] /\ closes' \in [Thread -> Nat]
  BY Zenon DEF RouterInv, Types
<1>2. handing'[h] = ds /\ \A i \in Hand : i # h => handing'[i] = handing[i]
  BY <1>1
<1>3. Elsewhere'
  <2> SUFFICES ASSUME NEW i \in Hand, i # "reader", NEW t \in Roots PROVE None(Letters(handing'[i]), t)
    BY Zenon DEF Elsewhere, Letters
  <2>1. None(Letters(handing[i]), t)
    BY Zenon DEF OrderInv, Elsewhere
  <2> QED
    BY <1>2, <2>1
<1>4. ASSUME NEW m \in Message, Past(m) PROVE Past(m)'
  <2> SUFFICES ASSUME m.kind = "answer" PROVE m.close <= closes'[About[m.request]]
    BY DEF Past
  <2>1. m.request \in Request /\ m.close \in Nat
    BY DEF Message
  <2>2. About[m.request] \in Thread
    BY <2>1, RouterAssumption DEF RouterAssumption
  <2>3. m.close <= closes[About[m.request]]
    BY <1>4 DEF Past
  <2> QED
    BY <1>1, <2>1, <2>2, <2>3
<1>5. ASSUME NEW i \in Hand, NEW k \in DOMAIN handing'[i] PROVE Past(handing[i][k].msg)'
  <2>1. PICK m : m = handing'[i][k].msg
    OBVIOUS
  <2>2. Past(m)
    BY <1>2, <2>1 DEF OrderInv, AnswersPast
  <2>3. m \in Message
    <3>1. handing'[i] \in Seq(Delivery)
      BY <1>1, <1>2
    <3>2. handing'[i][k] \in Delivery
      BY <1>5, <3>1
    <3> QED
      BY <2>1, <3>2 DEF Delivery
  <2>4. Past(m)'
    BY <1>4, <2>2, <2>3
  <2> QED
    BY <2>1, <2>4 DEF Past
<1>6. ASSUME NEW o \in Owner, NEW k \in DOMAIN inbox'[o] PROVE Past(inbox[o][k])'
  <2>1. PICK m : m = inbox'[o][k]
    OBVIOUS
  <2>2. Past(m)
    BY <2>1 DEF OrderInv, AnswersPast
  <2>3. inbox[o] \in Seq(Message)
    BY <1>1
  <2>4. m \in Message
    BY <1>6, <2>1, <2>3
  <2>5. Past(m)'
    BY <1>4, <2>2, <2>4
  <2> QED
    BY <2>1, <2>5 DEF Past
<1>7. AnswersPast'
  BY <1>5, <1>6, Zenon DEF AnswersPast
<1> QED
  BY <1>3, <1>7

(* An answer is no event, and was given at a close of its thread that has   *)
(* been.                                                                    *)
LEMMA AnswerPast ==
    ASSUME RouterInv, NEW r \in Request, NEW x \in {"ok", "error", "timeout", "notSent", "rejected"}
    PROVE  Answer(r, x) \in Message /\ Past(Answer(r, x)) /\ \A t \in Thread : ~IsEvent(Answer(r, x), t)
<1>1. closes \in [Thread -> Nat]
  BY Zenon DEF RouterInv, Types
<1>2. About[r] \in Thread
  BY RouterAssumption DEF RouterAssumption
<1>3. Answer(r, x) \in Message /\ Answer(r, x).kind = "answer" /\ Answer(r, x).request = r
  BY <1>1, AnswerTyped
<1>4. Answer(r, x).close = closes[About[r]]
  BY DEF Answer
<1>5. closes[About[r]] <= closes[About[r]]
  BY <1>1, <1>2
<1>6. Past(Answer(r, x))
  BY <1>3, <1>4, <1>5, Zenon DEF Past
<1> QED
  BY <1>3, <1>6 DEF IsEvent

(* A tab answers its own request, which was refused.                        *)
LEMMA OrderRefused ==
    ASSUME RouterInv, RouterInv', OrderInv, NEW r \in Request,
           UNCHANGED <<early, handing, emitted, closes, alive>>,
           inbox' = [inbox EXCEPT ![By[r]] = Append(@, Answer(r, "rejected"))]
    PROVE  OrderInv'
<1>1. PICK m, o : m = Answer(r, "rejected") /\ o = By[r]
  OBVIOUS
<1>2. o \in Owner
  BY <1>1, RouterAssumption DEF RouterAssumption
<1>3. m \in Message /\ Past(m) /\ \A t \in Thread : ~IsEvent(m, t)
  BY <1>1, AnswerPast
<1>4. inbox' = [inbox EXCEPT ![o] = Append(@, m)] /\ Types
  BY <1>1 DEF RouterInv
<1>5. OwnEvents'
  BY DEF OrderInv, OwnEvents
<1>6. Elsewhere'
  BY DEF OrderInv, Elsewhere, Letters, None
<1>7. AnswersPast'
  <2>1. \A i \in Hand : \A k \in DOMAIN handing[i] : Past(handing[i][k].msg)
    BY DEF OrderInv, AnswersPast
  <2>2. PICK n \in Nat : /\ DOMAIN inbox[o] = 1..n /\ DOMAIN inbox'[o] = 1..(n + 1)
                         /\ inbox'[o][n + 1] = m /\ \A k \in 1..n : inbox'[o][k] = inbox[o][k]
    BY <1>2, <1>3, <1>4, InboxBehind
  <2>3. \A p \in Owner : p # o => inbox'[p] = inbox[p]
    BY <1>2, <1>3, <1>4, InboxBehind
  <2>4. \A k \in 1..(n + 1) : k \in 1..n \/ k = n + 1
    BY <2>2
  <2>5. \A p \in Owner : \A k \in DOMAIN inbox[p] : Past(inbox[p][k])
    BY DEF OrderInv, AnswersPast
  <2>6. PICK X : X = inbox'
    OBVIOUS
  <2>7. \A p \in Owner : \A k \in DOMAIN X[p] : Past(X[p][k])
    BY <1>3, <2>2, <2>3, <2>4, <2>5, <2>6, Zenon
  <2> QED
    BY <2>1, <2>6, <2>7 DEF AnswersPast, Past
<1>8. ASSUME NEW t \in Roots PROVE OnWay(t)' /\ Told(t)'
  <2>1. OnWay(t) /\ Told(t)
    BY <1>8, Zenon DEF OrderInv
  <2>2. t \in Thread
    BY DEF Roots
  <2>3. Given(t)' = Given(t) /\ Told(t)'
    BY <1>2, <1>3, <1>4, <2>1, <2>2, GivenOther
  <2>4. OnWay(t)'
    BY <2>1, <2>3 DEF OnWay, Letters
  <2> QED
    BY <2>3, <2>4
<1> QED
  BY <1>5, <1>6, <1>7, <1>8, Zenon DEF OrderInv

(* A step that hands messages over which are no events of root threads.     *)
LEMMA OrderBeside ==
    ASSUME RouterInv, RouterInv', OrderInv, OwnEvents', NEW h \in Hand, NEW ds \in Seq(Delivery),
           handing[h] = <<>>, handing' = [handing EXCEPT ![h] = ds],
           UNCHANGED <<inbox, closes, alive>>,
           \A t \in Roots : early'[t] = early[t] /\ emitted'[t] = emitted[t] /\ None(Letters(ds), t),
           \A k \in DOMAIN ds : Past(ds[k].msg)
    PROVE  OrderInv'
<1>1. \A t \in Thread : closes[t] <= closes'[t]
  BY ReaderTyped
<1>2. Elsewhere' /\ AnswersPast'
  BY <1>1, HandsKeep
<1>3. ASSUME NEW t \in Roots PROVE OnWay(t)' /\ Told(t)'
  <2>1. OnWay(t) /\ Told(t)
    BY <1>3, Zenon DEF OrderInv
  <2>2. \/ alive' = alive /\ handing'["reader"] = handing["reader"]
        \/ /\ alive' => alive
           /\ None(Letters(handing["reader"]), t) /\ None(Letters(handing'["reader"]), t)
    <3>1. CASE h = "reader"
      <4>1. handing'["reader"] = ds
        BY <3>1, ReaderTyped
      <4> QED
        BY <3>1, <4>1, EmptyHand
    <3>2. CASE h # "reader"
      BY <3>2, ReaderTyped
    <3> QED
      BY <3>1, <3>2
  <2>3. OnWay(t)'
    BY <2>1, <2>2, WayAside
  <2>4. Told(t)'
    BY <2>1, GivenStays
  <2> QED
    BY <2>3, <2>4
<1> QED
  BY <1>2, <1>3, Zenon DEF OrderInv

(* Events that are held for a thread are its own, while what is held is     *)
(* taken or kept.                                                           *)
LEMMA OwnTaken ==
    ASSUME RouterInv, OrderInv, NEW t \in Thread, early' = [early EXCEPT ![t] = <<>>]
    PROVE  OwnEvents' /\ \A u \in Thread : u # t => early'[u] = early[u]
<1>1. early \in [Thread -> Seq(Message)]
  BY Zenon DEF RouterInv, Tables
<1>2. early'[t] = <<>> /\ DOMAIN <<>> = {} /\ \A u \in Thread : u # t => early'[u] = early[u]
  BY <1>1
<1>3. OwnEvents
  BY DEF OrderInv
<1> QED
  BY <1>2, <1>3, Zenon DEF OwnEvents

(* Letters of another thread are no events of this one.                     *)
LEMMA ForeignLetters ==
    ASSUME NEW t, NEW c, t # c, NEW o \in Owner, NEW s \in Seq(Message),
           \A k \in DOMAIN s : s[k].kind = "event" => s[k].thread = c,
           \A k \in DOMAIN s : s[k].kind # "answer"
    PROVE  /\ To(o, s) \in Seq(Delivery)
           /\ None(Letters(To(o, s)), t) /\ \A k \in DOMAIN To(o, s) : Past(To(o, s)[k].msg)
<1>1. To(o, s) \in Seq(Delivery) /\ Letters(To(o, s)) = s
      /\ \A k \in DOMAIN To(o, s) : To(o, s)[k].msg = s[k] /\ k \in DOMAIN s
  BY LettersTo
<1>2. None(s, t)
  BY DEF None, IsEvent
<1> QED
  BY <1>1, <1>2 DEF Past

(* claim_descendants hands over what was held for a descendant.             *)
LEMMA ClaimDescendantOrder ==
    ASSUME RouterInv, RouterInv', OrderInv, NEW o \in Owner, NEW c \in Thread, ClaimDescendant(o, c)
    PROVE  OrderInv'
<1>1. /\ Parent[c] # NoThread /\ handing[o] = <<>> /\ early' = [early EXCEPT ![c] = <<>>]
      /\ handing' = [handing EXCEPT ![o] = To(o, early[c])]
      /\ UNCHANGED <<inbox, closes, alive, emitted>>
  BY DEF ClaimDescendant, Claim, Busy, lifeVars, serverVars
<1>2. PICK s : s = early[c]
  OBVIOUS
<1>3. s \in Seq(Message)
  BY <1>2, ReaderTyped
<1>4. /\ \A k \in DOMAIN s : s[k].kind = "event" => s[k].thread = c
      /\ \A k \in DOMAIN s : s[k].kind # "answer"
  BY <1>2 DEF OrderInv, OwnEvents, RouterInv, Tables, Silent
<1>5. \A t \in Roots : t # c /\ t \in Thread
  BY <1>1 DEF Roots
<1>6. \A t \in Roots : None(Letters(To(o, s)), t)
  BY <1>3, <1>4, <1>5, ForeignLetters
<1>7. To(o, s) \in Seq(Delivery) /\ \A k \in DOMAIN To(o, s) : Past(To(o, s)[k].msg)
  <2>1. \A k \in DOMAIN To(o, s) : Past(To(o, s)[k].msg)
    BY <1>3, <1>4, LettersTo DEF Past
  <2> QED
    BY <1>3, <2>1, LettersTo
<1>8. OwnEvents' /\ \A u \in Thread : u # c => early'[u] = early[u]
  BY <1>1, OwnTaken
<1>9. o \in Hand
  BY DEF Hand
<1>10. PICK ds : ds = To(o, s)
  OBVIOUS
<1>11. handing' = [handing EXCEPT ![o] = ds]
  BY <1>1, <1>2, <1>10
<1>12. \A t \in Roots : early'[t] = early[t] /\ emitted'[t] = emitted[t] /\ None(Letters(ds), t)
  BY <1>1, <1>5, <1>6, <1>8, <1>10
<1>13. ds \in Seq(Delivery) /\ \A k \in DOMAIN ds : Past(ds[k].msg)
  BY <1>7, <1>10
<1> QED
  BY <1>1, <1>8, <1>9, <1>11, <1>12, <1>13, OrderBeside

(* The reader hands over what was held for a new descendant, and its start. *)
LEMMA OnThreadStartedOrder ==
    ASSUME RouterInv, RouterInv', OrderInv, NEW c \in Thread, OnThreadStarted(c)
    PROVE  OrderInv'
<1>1. /\ Parent[c] # NoThread /\ handing["reader"] = <<>> /\ owner[Parent[c]] # NoOwner
      /\ early' = [early EXCEPT ![c] = <<>>] /\ emitted' = [emitted EXCEPT ![c] = @ + 1]
      /\ handing' = [handing EXCEPT !["reader"] = To(owner[Parent[c]], Append(early[c], Event(c)))]
      /\ UNCHANGED <<inbox, closes, alive>>
  BY DEF OnThreadStarted, Claim, ReaderIdle, lifeVars
<1>2. PICK o, x, s : o = owner[Parent[c]] /\ x = Event(c) /\ s = Append(early[c], x)
  OBVIOUS
<1>3. o \in Owner
  BY <1>1, <1>2, RouterAssumption DEF RouterInv, Tables, RouterAssumption
<1>4. x \in Message /\ x.kind = "event" /\ x.thread = c
  <2>1. closes \in [Thread -> Nat] /\ emitted \in [Thread -> Nat]
    BY Zenon DEF RouterInv, Types
  <2> QED
    BY <1>2, <2>1, EventTyped DEF Event
<1>5. early[c] \in Seq(Message)
  BY ReaderTyped
<1>6. PICK n : n = Len(early[c])
  OBVIOUS
<1>7. /\ s \in Seq(Message) /\ n \in Nat /\ DOMAIN early[c] = 1..n /\ DOMAIN s = 1..(n + 1)
      /\ (\A k \in 1..n : s[k] = early[c][k]) /\ s[n + 1] = x
  BY <1>2, <1>4, <1>5, <1>6, AppendAdds
<1>8. \A k \in 1..(n + 1) : k \in 1..n \/ k = n + 1
  BY <1>7
<1>9. \A k \in DOMAIN early[c] : /\ early[c][k].kind = "event" => early[c][k].thread = c
                                 /\ early[c][k].kind # "answer"
  BY DEF OrderInv, OwnEvents, RouterInv, Tables, Silent
<1>10. /\ \A k \in DOMAIN s : s[k].kind = "event" => s[k].thread = c
       /\ \A k \in DOMAIN s : s[k].kind # "answer"
  <2>1. "event" # "answer"
    OBVIOUS
  <2> QED
    BY <1>4, <1>7, <1>8, <1>9, <2>1, Zenon
<1>11. \A t \in Roots : t # c /\ t \in Thread
  BY <1>1 DEF Roots
<1>12. PICK ds : ds = To(o, s)
  OBVIOUS
<1>13. \A t \in Roots : None(Letters(ds), t)
  BY <1>3, <1>7, <1>10, <1>11, <1>12, ForeignLetters
<1>14. ds \in Seq(Delivery) /\ \A k \in DOMAIN ds : Past(ds[k].msg)
  <2>1. \A k \in DOMAIN To(o, s) : Past(To(o, s)[k].msg)
    BY <1>3, <1>7, <1>10, LettersTo DEF Past
  <2> QED
    BY <1>3, <1>7, <1>12, <2>1, LettersTo
<1>15. OwnEvents' /\ \A u \in Thread : u # c => early'[u] = early[u]
  BY <1>1, OwnTaken
<1>16. handing' = [handing EXCEPT !["reader"] = ds]
  BY <1>1, <1>2, <1>12
<1>17. \A t \in Roots : early'[t] = early[t] /\ emitted'[t] = emitted[t] /\ None(Letters(ds), t)
  <2>1. emitted \in [Thread -> Nat]
    BY Zenon DEF RouterInv, Types
  <2> QED
    BY <1>1, <1>11, <1>13, <1>15, <2>1
<1>18. "reader" \in Hand
  BY DEF Hand
<1> QED
  BY <1>1, <1>14, <1>15, <1>16, <1>17, <1>18, OrderBeside

(* A message that is no event and was given at a close that has been.       *)
LEMMA OneBeside ==
    ASSUME NEW o \in Owner, NEW m \in Message, m.kind # "event", Past(m), NEW t
    PROVE  LET ds == To(o, <<m>>) IN
           /\ ds \in Seq(Delivery) /\ None(Letters(ds), t)
           /\ \A k \in DOMAIN ds : Past(ds[k].msg)
<1>1. PICK s : s = <<m>>
  OBVIOUS
<1>2. s \in Seq(Message) /\ \A k \in DOMAIN s : s[k] = m
  BY <1>1, One
<1>3. /\ To(o, s) \in Seq(Delivery) /\ Letters(To(o, s)) = s
      /\ \A k \in DOMAIN To(o, s) : To(o, s)[k].msg = s[k] /\ k \in DOMAIN s
  BY <1>2, LettersTo
<1>4. None(s, t)
  BY <1>2 DEF None, IsEvent
<1>5. \A k \in DOMAIN To(o, s) : Past(To(o, s)[k].msg)
  BY <1>2, <1>3, Zenon
<1> QED
  BY <1>1, <1>3, <1>4, <1>5

(* Nothing is handed over.                                                  *)
LEMMA NothingBeside ==
    ASSUME NEW t
    PROVE  <<>> \in Seq(Delivery) /\ None(Letters(<<>>), t) /\ \A k \in DOMAIN <<>> : Past(<<>>[k].msg)
<1>1. <<>> \in Seq(Delivery) /\ DOMAIN <<>> = {}
  OBVIOUS
<1> QED
  BY <1>1, EmptyHand

(* The timer answers a request whose deadline has passed.                   *)
LEMMA ExpireRequestsOrder ==
    ASSUME RouterInv, RouterInv', OrderInv, NEW r \in Request, ExpireRequests(r)
    PROVE  OrderInv'
<1>1. /\ handing["timer"] = <<>>
      /\ handing' = [handing EXCEPT !["timer"] = To(By[r], ExpireAnswers(r))]
      /\ UNCHANGED <<early, inbox, closes, emitted, alive>>
  BY DEF ExpireRequests, ownVars, lifeVars, serverVars
<1>2. PICK o, ds : o = By[r] /\ ds = To(By[r], ExpireAnswers(r))
  OBVIOUS
<1>3. o \in Owner
  BY <1>2, RouterAssumption DEF RouterAssumption
<1>4. PICK m : m = TimeoutAnswer(r)
  OBVIOUS
<1>5. m \in Message /\ Past(m) /\ m.kind # "event"
  <2>1. m = Answer(r, "notSent") \/ m = Answer(r, "timeout")
    BY <1>4 DEF TimeoutAnswer
  <2>2. m \in Message /\ Past(m)
    BY <2>1, AnswerPast
  <2>3. m.kind # "event"
    BY <2>1 DEF Answer
  <2> QED
    BY <2>2, <2>3
<1>6. ds = To(o, <<m>>) \/ ds = <<>>
  <2>1. To(o, <<>>) = <<>>
    BY DEF To
  <2> QED
    BY <1>2, <1>4, <2>1 DEF ExpireAnswers
<1>7. \A t \in Roots : None(Letters(ds), t)
  BY <1>3, <1>5, <1>6, OneBeside, NothingBeside
<1>8. ds \in Seq(Delivery) /\ \A k \in DOMAIN ds : Past(ds[k].msg)
  BY <1>3, <1>5, <1>6, OneBeside, NothingBeside
<1>9. OwnEvents'
  BY <1>1 DEF OrderInv, OwnEvents
<1>10. "timer" \in Hand
  BY DEF Hand
<1>11. \A t \in Roots : early'[t] = early[t] /\ emitted'[t] = emitted[t] /\ None(Letters(ds), t)
  BY <1>1, <1>7
<1>12. handing' = [handing EXCEPT !["timer"] = ds]
  BY <1>1, <1>2
<1> QED
  BY <1>1, <1>8, <1>9, <1>10, <1>11, <1>12, OrderBeside

(* The reader hands one message over which is no event.                     *)
LEMMA ReaderBeside ==
    ASSUME RouterInv, RouterInv', OrderInv, NEW o \in Owner, NEW m \in Message,
           m.kind # "event", Past(m), handing["reader"] = <<>>,
           handing' = [handing EXCEPT !["reader"] = To(o, <<m>>)],
           UNCHANGED <<early, inbox, closes, emitted, alive>>
    PROVE  OrderInv'
<1>1. PICK ds : ds = To(o, <<m>>)
  OBVIOUS
<1>2. \A t \in Roots : None(Letters(ds), t)
  BY <1>1, OneBeside
<1>3. ds \in Seq(Delivery) /\ \A k \in DOMAIN ds : Past(ds[k].msg)
  BY <1>1, OneBeside
<1>4. OwnEvents'
  BY DEF OrderInv, OwnEvents
<1>5. "reader" \in Hand
  BY DEF Hand
<1>6. \A t \in Roots : early'[t] = early[t] /\ emitted'[t] = emitted[t] /\ None(Letters(ds), t)
  BY <1>2
<1>7. handing' = [handing EXCEPT !["reader"] = ds]
  BY <1>1
<1> QED
  BY <1>3, <1>4, <1>5, <1>6, <1>7, OrderBeside

(* The answer that opens a thread is handed over before what was held for   *)
(* it, in order.                                                            *)
LEMMA ResponseOpens ==
    ASSUME RouterInv, RouterInv', OrderInv, NEW r \in Request, ReaderIdle,
           ReplaceRoot(By[r], About[r]),
           handing' = [handing EXCEPT !["reader"] = To(By[r], <<Answer(r, "ok")>> \o early[About[r]])],
           UNCHANGED <<inbox, closes, emitted, alive>>
    PROVE  OrderInv'
<1>1. PICK o, t, x, s, q : /\ o = By[r] /\ t = About[r] /\ x = Answer(r, "ok") /\ s = early[t]
                           /\ q = <<x>> \o s
  OBVIOUS
<1>2. o \in Owner /\ t \in Thread
  BY <1>1, RouterAssumption DEF RouterAssumption
<1>3. x \in Message /\ Past(x) /\ \A u \in Thread : ~IsEvent(x, u)
  BY <1>1, AnswerPast
<1>4. s \in Seq(Message)
  BY <1>1, <1>2, ReaderTyped
<1>5. /\ q \in Seq(Message) /\ q[1] = x
      /\ \A k \in DOMAIN q : k # 1 => \E j \in DOMAIN s : q[k] = s[j]
  BY <1>1, <1>3, <1>4, AnswerBefore
<1>6. PICK ds : ds = To(o, q)
  OBVIOUS
<1>7. /\ ds \in Seq(Delivery) /\ Letters(ds) = q
      /\ \A k \in DOMAIN ds : ds[k].msg = q[k] /\ k \in DOMAIN q
  BY <1>2, <1>5, <1>6, LettersTo
<1>8. /\ \A k \in DOMAIN s : s[k].kind = "event" => s[k].thread = t
      /\ \A k \in DOMAIN s : s[k].kind # "answer"
  BY <1>1, <1>2 DEF OrderInv, OwnEvents, RouterInv, Tables, Silent
<1>9. \A k \in DOMAIN ds : Past(ds[k].msg)
  <2>1. \A k \in DOMAIN s : Past(s[k])
    BY <1>8 DEF Past
  <2>2. \A k \in DOMAIN q : Past(q[k])
    BY <1>3, <1>5, <2>1, Zenon
  <2> QED
    BY <1>7, <2>2, Zenon
<1>10. handing["reader"] = <<>> /\ alive /\ early' = [early EXCEPT ![t] = <<>>]
       /\ handing' = [handing EXCEPT !["reader"] = ds]
  BY <1>1, <1>6 DEF ReaderIdle, ReplaceRoot
<1>11. handing'["reader"] = ds
  BY <1>10, ReaderTyped
<1>12. OwnEvents' /\ \A u \in Thread : u # t => early'[u] = early[u]
  BY <1>2, <1>10, OwnTaken
<1>13. early'[t] = <<>>
  BY <1>2, <1>10 DEF RouterInv, Tables
<1>14. Elsewhere' /\ AnswersPast'
  <2>1. \A u \in Thread : closes[u] <= closes'[u]
    BY ReaderTyped
  <2> QED
    BY <1>7, <1>9, <1>10, <2>1, HandsKeep, ReaderTyped
<1>15. ASSUME NEW u \in Roots PROVE OnWay(u)' /\ Told(u)'
  <2>1. OnWay(u) /\ Told(u) /\ u \in Thread
    BY <1>15, Zenon DEF OrderInv, Roots
  <2>2. Told(u)' /\ Given(u)' = Given(u)
    BY <2>1, GivenStays
  <2>3. CASE u # t
    <3>1. None(q, u)
      <4>1. \A k \in DOMAIN s : ~IsEvent(s[k], u)
        BY <1>8, <2>3 DEF IsEvent
      <4> QED
        BY <1>3, <1>5, <2>1, <4>1, Zenon DEF None
    <3>2. None(Letters(handing["reader"]), u) /\ None(Letters(handing'["reader"]), u)
      BY <1>7, <1>10, <1>11, <3>1, EmptyHand
    <3>3. OnWay(u)'
      BY <1>12, <2>1, <2>3, <3>2, WayAside
    <3> QED
      BY <2>2, <3>3
  <2>4. CASE u = t
    <3>1. PICK G, H, e, c : /\ G = Given(t) /\ H = Letters(handing["reader"])
                            /\ e = emitted[t] /\ c = closes[t]
      OBVIOUS
    <3>2. Way(t, G, H, s, e, c, TRUE)
      BY <1>1, <1>10, <2>1, <2>4, <3>1, Zenon DEF OnWay
    <3>3. H \in Seq(Message) /\ None(H, t)
      BY <1>10, <3>1, EmptyHand, ReaderTyped
    <3>4. Coming(s, t, G, e, c)
      BY <3>2, Zenon DEF Way
    <3>5. Coming(q, t, G, e, c) /\ EventsIn(q, t) = EventsIn(s, t)
      BY <1>1, <1>2, <1>3, <1>4, <3>4, ComingAfter
    <3>6. Way(t, G, q, <<>>, e, c, TRUE)
      BY <1>4, <1>5, <3>2, <3>3, <3>5, WayTurns
    <3>7. OnWay(t)'
      <4>1. OnWay(t)' <=> Way(t, Given(t)', Letters(handing'["reader"]), early'[t], emitted'[t], closes'[t], alive')
        BY Zenon DEF OnWay, Letters
      <4>2. /\ Given(t)' = G /\ Letters(handing'["reader"]) = q /\ early'[t] = <<>>
            /\ emitted'[t] = e /\ closes'[t] = c /\ alive' = TRUE
        BY <1>7, <1>10, <1>11, <1>13, <2>2, <2>4, <3>1, ReaderTyped DEF RouterInv, Types
      <4> QED
        BY <3>6, <4>1, <4>2, Zenon
    <3> QED
      BY <2>2, <2>4, <3>7
  <2> QED
    BY <2>3, <2>4
<1> QED
  BY <1>12, <1>14, <1>15, Zenon DEF OrderInv

(* The reader routes a response.                                            *)
LEMMA OnResponseOrder ==
    ASSUME RouterInv, RouterInv', OrderInv, NEW r \in Request, NEW ok \in BOOLEAN, OnResponse(r, ok)
    PROVE  OrderInv'
<1>1. ReaderIdle /\ handing["reader"] = <<>> /\ UNCHANGED <<inbox, closes, emitted, alive>>
  BY DEF OnResponse, ReaderIdle, lifeVars
<1>2. PICK o : o = By[r]
  OBVIOUS
<1>3. o \in Owner
  BY <1>2, RouterAssumption DEF RouterAssumption
<1>4. CASE ResponseInTime(r, ok)
  <2>1. CASE Purpose[r] = "root" /\ ok /\ ~Conflict(r)
    BY <1>1, <1>4, <2>1, ResponseOpens DEF ResponseInTime
  <2>2. CASE ~(Purpose[r] = "root" /\ ok /\ ~Conflict(r))
    <3>1. PICK m : m = Answer(r, IF ok /\ Purpose[r] # "root" THEN "ok" ELSE "error")
      OBVIOUS
    <3>2. handing' = [handing EXCEPT !["reader"] = To(o, <<m>>)] /\ early' = early
      BY <1>2, <1>4, <2>2, <3>1 DEF ResponseInTime
    <3>3. m \in Message /\ Past(m)
      BY <3>1, AnswerPast
    <3>4. m.kind # "event"
      BY <3>1 DEF Answer
    <3> QED
      BY <1>1, <1>3, <3>2, <3>3, <3>4, ReaderBeside
  <2> QED
    BY <2>1, <2>2
<1>5. CASE ResponseLate(r)
  <2>1. PICK m : m = TimeoutAnswer(r)
    OBVIOUS
  <2>2. handing' = [handing EXCEPT !["reader"] = To(o, <<m>>)] /\ early' = early
    BY <1>2, <1>5, <2>1 DEF ResponseLate
  <2>3. m = Answer(r, "notSent") \/ m = Answer(r, "timeout")
    BY <2>1 DEF TimeoutAnswer
  <2>4. m \in Message /\ Past(m)
    BY <2>3, AnswerPast
  <2>5. m.kind # "event"
    BY <2>3 DEF Answer
  <2> QED
    BY <1>1, <1>3, <2>2, <2>4, <2>5, ReaderBeside
<1>6. CASE ResponseStray(r)
  <2>1. UNCHANGED <<handing, early>>
    BY <1>6 DEF ResponseStray
  <2> QED
    BY <1>1, <2>1, OrderStill
<1> QED
  BY <1>4, <1>5, <1>6 DEF OnResponse

(* Holding a message for one thread leaves what is held for the others.     *)
LEMMA HeldBehind ==
    ASSUME RouterInv, NEW t \in Thread, NEW m \in Message, early' = [early EXCEPT ![t] = Hold(t, m)]
    PROVE  early'[t] = Append(early[t], m) /\ \A u \in Thread : u # t => early'[u] = early[u]
<1>1. early \in [Thread -> Seq(Message)]
  BY Zenon DEF RouterInv, Tables
<1> QED
  BY <1>1 DEF Hold

(* Events that are held for a thread are its own, with one message more.    *)
LEMMA OwnBehind ==
    ASSUME RouterInv, OrderInv, NEW t \in Thread, NEW m \in Message,
           early' = [early EXCEPT ![t] = Hold(t, m)], m.kind = "event" => m.thread = t
    PROVE  OwnEvents'
<1>1. PICK X : X = early'
  OBVIOUS
<1>2. X[t] = Append(early[t], m) /\ \A u \in Thread : u # t => X[u] = early[u]
  BY <1>1, HeldBehind
<1>3. early[t] \in Seq(Message)
  BY ReaderTyped
<1>4. PICK n : n = Len(early[t])
  OBVIOUS
<1>5. /\ n \in Nat /\ DOMAIN early[t] = 1..n /\ DOMAIN X[t] = 1..(n + 1)
      /\ (\A k \in 1..n : X[t][k] = early[t][k]) /\ X[t][n + 1] = m
  BY <1>2, <1>3, <1>4, AppendAdds
<1>6. \A k \in 1..(n + 1) : k \in 1..n \/ k = n + 1
  BY <1>5
<1>7. OwnEvents
  BY DEF OrderInv
<1>8. \A u \in Thread : \A k \in DOMAIN X[u] : X[u][k].kind = "event" => X[u][k].thread = u
  <2>1. \A u \in Thread : u # t => \A k \in DOMAIN X[u] : X[u][k].kind = "event" => X[u][k].thread = u
    BY <1>2, <1>7, Zenon DEF OwnEvents
  <2>2. \A k \in 1..n : X[t][k].kind = "event" => X[t][k].thread = t
    BY <1>5, <1>7, Zenon DEF OwnEvents
  <2>3. \A k \in DOMAIN X[t] : X[t][k].kind = "event" => X[t][k].thread = t
    BY <1>5, <1>6, <2>2
  <2> QED
    BY <2>1, <2>3, Zenon
<1> QED
  BY <1>1, <1>8, Zenon DEF OwnEvents

(* The reader routes a message that is no event: to the owner, or held.     *)
LEMMA RouteBeside ==
    ASSUME RouterInv, RouterInv', OrderInv, NEW t \in Thread, NEW m \in Message,
           m.kind \notin {"event", "answer"}, Route(t, m), handing["reader"] = <<>>,
           UNCHANGED <<inbox, closes, emitted, alive>>
    PROVE  OrderInv'
<1>1. CASE /\ owner[t] \in Owner /\ early' = early
           /\ handing' = [handing EXCEPT !["reader"] = To(owner[t], <<m>>)]
  <2>1. Past(m)
    BY DEF Past
  <2>2. PICK o \in Owner : o = owner[t]
    BY <1>1
  <2>3. handing' = [handing EXCEPT !["reader"] = To(o, <<m>>)]
    BY <1>1, <2>2
  <2>4. m.kind # "event"
    OBVIOUS
  <2> QED
    BY <1>1, <2>1, <2>3, <2>4, ReaderBeside
<1>2. CASE handing' = handing /\ early' = [early EXCEPT ![t] = Hold(t, m)]
  <2>1. early'[t] = Append(early[t], m) /\ \A u \in Thread : u # t => early'[u] = early[u]
    BY <1>2, HeldBehind
  <2>2. OwnEvents'
    BY <1>2, OwnBehind
  <2>3. Elsewhere'
    BY <1>2 DEF OrderInv, Elsewhere, Letters, None
  <2>4. AnswersPast'
    BY <1>2 DEF OrderInv, AnswersPast, Past
  <2>5. ASSUME NEW u \in Roots PROVE OnWay(u)' /\ Told(u)'
    <3>1. OnWay(u) /\ Told(u) /\ u \in Thread
      BY <2>5, Zenon DEF OrderInv, Roots
    <3>2. Told(u)' /\ Given(u)' = Given(u)
      BY <3>1, GivenStays
    <3>3. CASE u # t
      <4>1. OnWay(u)'
        BY <1>2, <2>1, <3>1, <3>3, WayAside
      <4> QED
        BY <3>2, <4>1
    <3>4. CASE u = t
      <4>1. PICK G, H, E, e, c, live : /\ G = Given(t) /\ H = Letters(handing["reader"]) /\ E = early[t]
                                       /\ e = emitted[t] /\ c = closes[t] /\ live = alive
        OBVIOUS
      <4>2. Way(t, G, H, E, e, c, live)
        BY <3>1, <3>4, <4>1, Zenon DEF OnWay
      <4>3. H \in Seq(Message) /\ E \in Seq(Message)
        BY <4>1, ReaderTyped
      <4>4. ~IsEvent(m, t)
        BY DEF IsEvent
      <4>5. Way(t, G, H, Append(E, m), e, c, live)
        BY <4>2, <4>3, <4>4, WayHoldsOther
      <4>6. OnWay(t)' <=> Way(t, Given(t)', Letters(handing'["reader"]), early'[t], emitted'[t], closes'[t], alive')
        BY Zenon DEF OnWay, Letters
      <4>7. /\ Given(t)' = G /\ Letters(handing'["reader"]) = H /\ early'[t] = Append(E, m)
            /\ emitted'[t] = e /\ closes'[t] = c /\ alive' = live
        BY <1>2, <2>1, <3>2, <3>4, <4>1
      <4>8. OnWay(t)'
        BY <4>5, <4>6, <4>7, Zenon
      <4> QED
        BY <3>2, <3>4, <4>8
    <3> QED
      BY <3>3, <3>4
  <2> QED
    BY <2>2, <2>3, <2>4, <2>5, Zenon DEF OrderInv
<1>3. m.kind # "answer"
  OBVIOUS
<1> QED
  BY <1>1, <1>2, <1>3, Routes DEF RouterInv

(* A request of the server, and its resolution, are routed.                 *)
LEMMA OnAskOrder ==
    ASSUME RouterInv, RouterInv', OrderInv, NEW a \in Ask, OnAsk(a) \/ OnResolved(a)
    PROVE  OrderInv'
<1>1. PICK t, m : t = AskThread[a] /\ (m = AskMessage(a) \/ m = Resolved(a)) /\ Route(t, m)
  BY DEF OnAsk, OnResolved
<1>2. t \in Thread /\ m \in Message /\ m.kind \notin {"event", "answer"}
  <2>1. m.kind \in {"ask", "resolved"}
    BY <1>1, AskTyped
  <2> QED
    BY <1>1, <2>1, AskTyped, RouterAssumption DEF RouterAssumption
<1>3. handing["reader"] = <<>> /\ UNCHANGED <<inbox, closes, emitted, alive>>
  BY DEF OnAsk, OnResolved, ReaderIdle, lifeVars
<1> QED
  BY <1>1, <1>2, <1>3, RouteBeside

(* A thread says something: its owner is given it, or it is held.           *)
LEMMA OnNotificationOrder ==
    ASSUME RouterInv, RouterInv', OrderInv, NEW t \in Thread, OnNotification(t)
    PROVE  OrderInv'
<1>1. PICK x : x = Event(t)
  OBVIOUS
<1>2. /\ handing["reader"] = <<>> /\ alive /\ Route(t, x) /\ emitted' = [emitted EXCEPT ![t] = @ + 1]
      /\ UNCHANGED <<inbox, closes, alive>>
  BY <1>1 DEF OnNotification, ReaderIdle, lifeVars
<1>3. closes \in [Thread -> Nat] /\ emitted \in [Thread -> Nat] /\ alive' = TRUE
  BY <1>2, Zenon DEF RouterInv, Types
<1>4. /\ x \in Message /\ x.kind = "event" /\ x.thread = t /\ IsEvent(x, t)
      /\ x.n = emitted[t] + 1 /\ x.close = closes[t]
  BY <1>1, <1>3, EventTyped DEF Event, IsEvent
<1>5. emitted'[t] = emitted[t] + 1 /\ \A u \in Thread : u # t => emitted'[u] = emitted[u]
  BY <1>2, <1>3
<1>6. Past(x) /\ \A u \in Thread : u # t => ~IsEvent(x, u)
  BY <1>4 DEF Past, IsEvent
<1>7. ASSUME t \in Roots
      PROVE  /\ Way(t, Given(t), <<>>, Append(early[t], x), emitted[t] + 1, closes[t], TRUE)
             /\ <<>> \in Seq(Message) /\ None(<<>>, t)
  <2>1. PICK G, H, E, e, c : /\ G = Given(t) /\ H = Letters(handing["reader"]) /\ E = early[t]
                             /\ e = emitted[t] /\ c = closes[t]
    OBVIOUS
  <2>2. OnWay(t)
    BY <1>7, Zenon DEF OrderInv
  <2>3. Way(t, G, H, E, e, c, TRUE)
    BY <1>2, <2>1, <2>2, Zenon DEF OnWay
  <2>4. H = <<>> /\ <<>> \in Seq(Message) /\ None(<<>>, t)
    BY <1>2, <2>1 DEF Letters, None
  <2>5. E \in Seq(Message) /\ e \in Nat /\ c \in Nat /\ G \in SUBSET Events(t)
    BY <2>1, ReaderTyped, GivenTyped DEF RouterInv
  <2>6. Latest(G \cup EventsIn(E, t), e, c)
    <3>1. Latest(G \cup EventsIn(H, t) \cup EventsIn(E, t), e, c)
      BY <2>3, Zenon DEF Way
    <3>2. EventsIn(H, t) = {}
      BY <2>4, NoneMeans, Zenon
    <3>3. G \cup EventsIn(H, t) \cup EventsIn(E, t) = G \cup EventsIn(E, t)
      BY <3>2
    <3> QED
      BY <3>1, <3>3
  <2>7. Way(t, G, <<>>, Append(E, x), e + 1, c, TRUE)
    BY <1>4, <2>1, <2>3, <2>4, <2>5, <2>6, WayHolds
  <2> QED
    BY <2>1, <2>4, <2>7
<1>8. CASE /\ owner[t] \in Owner /\ early' = early
           /\ handing' = [handing EXCEPT !["reader"] = To(owner[t], <<x>>)]
  <2>1. PICK o \in Owner : o = owner[t]
    BY <1>8
  <2>2. PICK q, ds : q = <<x>> /\ ds = To(o, q)
    OBVIOUS
  <2>3. q \in Seq(Message) /\ \A k \in DOMAIN q : q[k] = x
    BY <1>4, <2>2, One
  <2>4. /\ ds \in Seq(Delivery) /\ Letters(ds) = q
        /\ \A k \in DOMAIN ds : ds[k].msg = q[k] /\ k \in DOMAIN q
    BY <2>2, <2>3, LettersTo
  <2>5. handing' = [handing EXCEPT !["reader"] = ds]
    BY <1>8, <2>1, <2>2
  <2>6. handing'["reader"] = ds
    BY <2>5, ReaderTyped
  <2>7. OwnEvents'
    BY <1>8 DEF OrderInv, OwnEvents
  <2>8. Elsewhere' /\ AnswersPast'
    <3>1. \A u \in Thread : closes[u] <= closes'[u]
      BY <1>2, ReaderTyped
    <3>2. \A k \in DOMAIN ds : Past(ds[k].msg)
      BY <1>6, <2>3, <2>4, Zenon
    <3> QED
      BY <1>2, <2>4, <2>5, <3>1, <3>2, HandsKeep, ReaderTyped
  <2>9. ASSUME NEW u \in Roots PROVE OnWay(u)' /\ Told(u)'
    <3>1. OnWay(u) /\ Told(u) /\ u \in Thread
      BY <2>9, Zenon DEF OrderInv, Roots
    <3>2. Told(u)' /\ Given(u)' = Given(u)
      BY <1>2, <3>1, GivenStays
    <3>3. CASE u # t
      <4>1. None(q, u)
        BY <1>6, <2>3, <3>1, <3>3 DEF None
      <4>2. None(Letters(handing["reader"]), u) /\ None(Letters(handing'["reader"]), u)
        BY <1>2, <2>4, <2>6, <4>1, EmptyHand
      <4>3. OnWay(u)'
        BY <1>2, <1>5, <1>8, <3>1, <3>3, <4>2, WayAside
      <4> QED
        BY <3>2, <4>3
    <3>4. CASE u = t
      <4>1. PICK G, e, c : G = Given(t) /\ e = emitted[t] + 1 /\ c = closes[t]
        OBVIOUS
      <4>2. early[t] = <<>>
        BY <1>8, RouterAssumption DEF RouterInv, Tables, TablesAgree, RouterAssumption
      <4>3. q = Append(<<>>, x)
        BY <2>2
      <4>4. Way(t, G, <<>>, q, e, c, TRUE) /\ <<>> \in Seq(Message) /\ None(<<>>, t)
        BY <1>7, <3>4, <4>1, <4>2, <4>3
      <4>5. Coming(q, t, G, e, c)
        BY <4>4, Zenon DEF Way
      <4>6. Way(t, G, q, <<>>, e, c, TRUE)
        BY <2>3, <4>4, <4>5, WayTurns
      <4>7. OnWay(t)' <=> Way(t, Given(t)', Letters(handing'["reader"]), early'[t], emitted'[t], closes'[t], alive')
        BY Zenon DEF OnWay, Letters
      <4>8. /\ Given(t)' = G /\ Letters(handing'["reader"]) = q /\ early'[t] = <<>>
            /\ emitted'[t] = e /\ closes'[t] = c /\ alive' = TRUE
        BY <1>2, <1>3, <1>5, <1>8, <2>4, <2>6, <3>2, <3>4, <4>1, <4>2
      <4>9. OnWay(t)'
        BY <4>6, <4>7, <4>8, Zenon
      <4> QED
        BY <3>2, <3>4, <4>9
    <3> QED
      BY <3>3, <3>4
  <2> QED
    BY <2>7, <2>8, <2>9, Zenon DEF OrderInv
<1>9. CASE handing' = handing /\ early' = [early EXCEPT ![t] = Hold(t, x)]
  <2>1. early'[t] = Append(early[t], x) /\ \A u \in Thread : u # t => early'[u] = early[u]
    BY <1>4, <1>9, HeldBehind
  <2>2. OwnEvents'
    BY <1>4, <1>9, OwnBehind
  <2>3. Elsewhere'
    BY <1>9 DEF OrderInv, Elsewhere, Letters, None
  <2>4. AnswersPast'
    BY <1>2, <1>9 DEF OrderInv, AnswersPast, Past
  <2>5. ASSUME NEW u \in Roots PROVE OnWay(u)' /\ Told(u)'
    <3>1. OnWay(u) /\ Told(u) /\ u \in Thread
      BY <2>5, Zenon DEF OrderInv, Roots
    <3>2. Told(u)' /\ Given(u)' = Given(u)
      BY <1>2, <3>1, GivenStays
    <3>3. CASE u # t
      <4>1. OnWay(u)'
        BY <1>2, <1>5, <1>9, <2>1, <3>1, <3>3, WayAside
      <4> QED
        BY <3>2, <4>1
    <3>4. CASE u = t
      <4>1. PICK G, e, c, E : G = Given(t) /\ e = emitted[t] + 1 /\ c = closes[t] /\ E = Append(early[t], x)
        OBVIOUS
      <4>2. Way(t, G, <<>>, E, e, c, TRUE)
        BY <1>7, <3>4, <4>1
      <4>3. OnWay(t)' <=> Way(t, Given(t)', Letters(handing'["reader"]), early'[t], emitted'[t], closes'[t], alive')
        BY Zenon DEF OnWay, Letters
      <4>4. /\ Given(t)' = G /\ early'[t] = E
            /\ emitted'[t] = e /\ closes'[t] = c /\ alive' = TRUE
        BY <1>2, <1>3, <1>5, <2>1, <3>2, <3>4, <4>1
      <4>5. Letters(handing'["reader"]) = <<>>
        BY <1>2, <1>9 DEF Letters
      <4>6. OnWay(t)'
        BY <4>2, <4>3, <4>4, <4>5, Zenon
      <4> QED
        BY <3>2, <3>4, <4>6
    <3> QED
      BY <3>3, <3>4
  <2> QED
    BY <2>2, <2>3, <2>4, <2>5, Zenon DEF OrderInv
<1>10. x.kind # "answer"
  BY <1>4
<1> QED
  BY <1>2, <1>4, <1>8, <1>9, <1>10, Routes DEF RouterInv

(* The reader finds a thread closed: what was held for it is let go.        *)
LEMMA OnClosedOrder ==
    ASSUME RouterInv, RouterInv', OrderInv, NEW t \in Thread, OnClosed(t)
    PROVE  OrderInv'
<1>1. /\ handing["reader"] = <<>> /\ alive /\ closes' = [closes EXCEPT ![t] = @ + 1]
      /\ early' = [early EXCEPT ![t] = <<>>] /\ UNCHANGED <<inbox, emitted, alive>>
  BY DEF OnClosed, ReaderIdle, RemoveThread, Forget, lifeVars
<1>2. handing = [handing EXCEPT !["reader"] = <<>>]
  BY <1>1, ReaderTyped
<1>3. PICK ds \in Seq(Delivery) :
          /\ handing' = [handing EXCEPT !["reader"] = ds]
          /\ \A u \in Roots : None(Letters(ds), u)
          /\ \A k \in DOMAIN ds : Past(ds[k].msg)
  <2>1. CASE owner[t] # NoOwner
    <3>1. PICK m : m = Closed(t)
      OBVIOUS
    <3>2. m \in Message /\ m.kind = "closed"
      BY <3>1, ClosedTyped
    <3>3. PICK o \in Owner : o = owner[t]
      BY <2>1 DEF RouterInv, Tables
    <3>4. PICK ds : ds = To(o, <<m>>)
      OBVIOUS
    <3>5. handing' = [handing EXCEPT !["reader"] = ds]
      BY <2>1, <3>1, <3>3, <3>4 DEF OnClosed
    <3>6. Past(m) /\ m.kind # "event"
      BY <3>2 DEF Past
    <3>7. \A u \in Roots : None(Letters(ds), u)
      BY <3>2, <3>4, <3>6, OneBeside
    <3>8. ds \in Seq(Delivery) /\ \A k \in DOMAIN ds : Past(ds[k].msg)
      BY <3>2, <3>4, <3>6, OneBeside
    <3> QED
      BY <3>5, <3>7, <3>8
  <2>2. CASE owner[t] = NoOwner
    <3>1. handing' = [handing EXCEPT !["reader"] = <<>>]
      BY <1>2, <2>2 DEF OnClosed
    <3> QED
      BY <3>1, NothingBeside
  <2> QED
    BY <2>1, <2>2
<1>4. handing'["reader"] = ds
  BY <1>3, ReaderTyped
<1>5. closes \in [Thread -> Nat]
  BY Zenon DEF RouterInv, Types
<1>6. closes'[t] = closes[t] + 1 /\ \A u \in Thread : u # t => closes'[u] = closes[u]
  BY <1>1, <1>5
<1>7. \A u \in Thread : closes[u] <= closes'[u]
  <2>1. closes[t] <= closes'[t]
    BY <1>5, <1>6
  <2>2. \A u \in Thread : u # t => closes[u] <= closes'[u]
    BY <1>5, <1>6
  <2> QED
    BY <2>1, <2>2
<1>8. Elsewhere' /\ AnswersPast'
  BY <1>1, <1>3, <1>7, HandsKeep, ReaderTyped
<1>9. OwnEvents' /\ \A u \in Thread : u # t => early'[u] = early[u]
  BY <1>1, OwnTaken
<1>10. early'[t] = <<>>
  BY <1>1 DEF RouterInv, Tables
<1>11. ASSUME NEW u \in Roots PROVE OnWay(u)' /\ Told(u)'
  <2>1. OnWay(u) /\ Told(u) /\ u \in Thread
    BY <1>11, Zenon DEF OrderInv, Roots
  <2>2. Told(u)' /\ Given(u)' = Given(u)
    BY <1>1, <2>1, GivenStays
  <2>3. None(Letters(handing["reader"]), u) /\ None(Letters(handing'["reader"]), u)
    BY <1>1, <1>3, <1>4, EmptyHand
  <2>4. CASE u # t
    <3>1. OnWay(u)'
      BY <1>1, <1>6, <1>9, <2>1, <2>3, <2>4, WayAside
    <3> QED
      BY <2>2, <3>1
  <2>5. CASE u = t
    <3>1. PICK G, H, E, e, c, d, H2 : /\ G = Given(t) /\ H = Letters(handing["reader"]) /\ E = early[t]
                                      /\ e = emitted[t] /\ c = closes[t] /\ d = closes'[t] /\ H2 = Letters(ds)
      OBVIOUS
    <3>2. Way(t, G, H, E, e, c, TRUE)
      BY <1>1, <2>1, <2>5, <3>1, Zenon DEF OnWay
    <3>3. H \in Seq(Message) /\ E \in Seq(Message) /\ H2 \in Seq(Message)
      BY <3>1, LettersTyped, ReaderTyped
    <3>4. G \in SUBSET Events(t) /\ c \in Nat /\ d \in Nat /\ c < d /\ c <= d
      BY <1>5, <1>6, <3>1, GivenTyped DEF RouterInv
    <3>5. None(H, t) /\ None(H2, t)
      BY <1>4, <2>3, <2>5, <3>1
    <3>6. Way(t, G, H2, <<>>, e, d, TRUE)
      BY <3>2, <3>3, <3>4, <3>5, WayForgets
    <3>7. OnWay(t)' <=> Way(t, Given(t)', Letters(handing'["reader"]), early'[t], emitted'[t], closes'[t], alive')
      BY Zenon DEF OnWay, Letters
    <3>8. /\ Given(t)' = G /\ Letters(handing'["reader"]) = H2 /\ early'[t] = <<>>
          /\ emitted'[t] = e /\ closes'[t] = d
      BY <1>1, <1>4, <1>10, <2>2, <2>5, <3>1
    <3>9. alive' = TRUE
      BY <1>1, Zenon DEF RouterInv, Types
    <3>10. OnWay(t)'
      BY <3>6, <3>7, <3>8, <3>9, Zenon
    <3> QED
      BY <2>2, <2>5, <3>10
  <2> QED
    BY <2>4, <2>5
<1> QED
  BY <1>8, <1>9, <1>11, Zenon DEF OrderInv

(* The reader finds the output closed.                                      *)
LEMMA StdoutClosedOrder ==
    ASSUME RouterInv, RouterInv', OrderInv, StdoutClosed
    PROVE  OrderInv'
<1>1. /\ handing["reader"] = <<>> /\ alive' = FALSE
      /\ UNCHANGED <<early, handing, inbox, emitted, closes>>
  BY DEF StdoutClosed, ReaderIdle, ownVars, serverVars
<1>2. OwnEvents'
  BY <1>1 DEF OrderInv, OwnEvents
<1>3. Elsewhere'
  BY <1>1 DEF OrderInv, Elsewhere, Letters, None
<1>4. AnswersPast'
  BY <1>1 DEF OrderInv, AnswersPast, Past
<1>5. ASSUME NEW t \in Roots PROVE OnWay(t)' /\ Told(t)'
  <2>1. OnWay(t) /\ Told(t)
    BY <1>5, Zenon DEF OrderInv
  <2>2. None(Letters(handing["reader"]), t) /\ None(Letters(handing'["reader"]), t)
    BY <1>1, EmptyHand
  <2>3. OnWay(t)'
    BY <1>1, <2>1, <2>2, WayAside
  <2>4. Told(t)'
    BY <1>1, <2>1, GivenStays
  <2> QED
    BY <2>3, <2>4
<1> QED
  BY <1>2, <1>3, <1>4, <1>5, Zenon DEF OrderInv

(* The end of the process: the tables are cleared, and the tabs are told.   *)
LEMMA ClearStateOrder ==
    ASSUME RouterInv, RouterInv', OrderInv, ClearState
    PROVE  OrderInv'
<1>1. /\ ~alive /\ early' = [t \in Thread |-> <<>>]
      /\ UNCHANGED <<inbox, closes, emitted, alive>>
  BY DEF ClearState, serverVars
<1>2. PICK seq \in [1..Cardinality(sessions) -> sessions] :
          handing' = [handing EXCEPT !["reader"] = IF expected THEN <<>> ELSE ExitNotices(seq)]
  BY DEF ClearState
<1>3. PICK ds : ds = IF expected THEN <<>> ELSE ExitNotices(seq)
  OBVIOUS
<1>4. \A k \in DOMAIN ds : ds[k].msg = Exit
  <2>1. CASE expected
    <3>1. ds = <<>> /\ DOMAIN <<>> = {}
      BY <1>3, <2>1
    <3> QED
      BY <3>1
  <2>2. CASE ~expected
    <3>1. ds = ExitNotices(seq)
      BY <1>3, <2>2
    <3> QED
      BY <3>1 DEF ExitNotices
  <2> QED
    BY <2>1, <2>2
<1>5. handing' = [handing EXCEPT !["reader"] = ds]
  BY <1>2, <1>3
<1>6. handing'["reader"] = ds
  BY <1>5, ReaderTyped
<1>7. ds \in Seq(Delivery)
  <2>1. handing' \in [Hand -> Seq(Delivery)]
    BY Zenon DEF RouterInv, Types
  <2> QED
    BY <1>6, <2>1, ReaderTyped
<1>8. /\ \A k \in DOMAIN ds : Past(ds[k].msg)
      /\ \A t \in Roots : None(Letters(ds), t)
  <2>1. Past(Exit) /\ \A t \in Roots : ~IsEvent(Exit, t)
    BY ExitTyped DEF Past, IsEvent
  <2>2. DOMAIN Letters(ds) = DOMAIN ds /\ \A k \in DOMAIN ds : Letters(ds)[k] = ds[k].msg
    BY <1>7, LettersTyped, Zenon
  <2>3. \A k \in DOMAIN ds : Past(ds[k].msg)
    BY <1>4, <2>1
  <2>4. \A t \in Roots : None(Letters(ds), t)
    BY <1>4, <2>1, <2>2, Zenon DEF None
  <2> QED
    BY <2>3, <2>4
<1>9. Elsewhere' /\ AnswersPast'
  <2>1. \A t \in Thread : closes[t] <= closes'[t]
    BY <1>1, ReaderTyped
  <2> QED
    BY <1>1, <1>5, <1>7, <1>8, <2>1, HandsKeep, ReaderTyped
<1>10. OwnEvents'
  <2>1. \A t \in Thread : early'[t] = <<>> /\ DOMAIN <<>> = {}
    BY <1>1
  <2> QED
    BY <2>1, Zenon DEF OwnEvents
<1>11. ASSUME NEW t \in Roots PROVE OnWay(t)' /\ Told(t)'
  <2>1. OnWay(t) /\ Told(t) /\ t \in Thread
    BY <1>11, Zenon DEF OrderInv, Roots
  <2>2. Told(t)' /\ Given(t)' = Given(t)
    BY <1>1, <2>1, GivenStays
  <2>3. PICK G, H, E, e, c, H2 : /\ G = Given(t) /\ H = Letters(handing["reader"]) /\ E = early[t]
                                 /\ e = emitted[t] /\ c = closes[t] /\ H2 = Letters(ds)
    OBVIOUS
  <2>4. alive = FALSE /\ alive' = FALSE
    BY <1>1, Zenon DEF RouterInv, Types
  <2>5. Way(t, G, H, E, e, c, FALSE)
    BY <2>1, <2>3, <2>4, Zenon DEF OnWay
  <2>6. None(H, t)
    BY <2>5, Zenon DEF Way
  <2>7. H \in Seq(Message) /\ E \in Seq(Message) /\ H2 \in Seq(Message)
    BY <1>7, <2>1, <2>3, LettersTyped, ReaderTyped
  <2>8. G \in SUBSET Events(t) /\ c \in Nat /\ c <= c
    BY <2>1, <2>3, GivenTyped, ReaderTyped DEF RouterInv
  <2>9. None(H2, t)
    BY <1>8, <2>3
  <2>10. Way(t, G, H2, <<>>, e, c, FALSE)
    BY <2>5, <2>6, <2>7, <2>8, <2>9, WayForgets
  <2>11. OnWay(t)' <=> Way(t, Given(t)', Letters(handing'["reader"]), early'[t], emitted'[t], closes'[t], alive')
    BY Zenon DEF OnWay, Letters
  <2>12. /\ Given(t)' = G /\ Letters(handing'["reader"]) = H2 /\ early'[t] = <<>>
         /\ emitted'[t] = e /\ closes'[t] = c
    BY <1>1, <1>6, <2>1, <2>2, <2>3
  <2>13. OnWay(t)'
    BY <2>4, <2>10, <2>11, <2>12, Zenon
  <2> QED
    BY <2>2, <2>13
<1> QED
  BY <1>9, <1>10, <1>11, Zenon DEF OrderInv

(* A message reaches its tab: in the order in which the reader holds them.  *)
LEMMA HandOverOrder ==
    ASSUME RouterInv, RouterInv', OrderInv, NEW h \in Hand, HandOver(h)
    PROVE  OrderInv'
<1>1. PICK s, d, o, m, z : s = handing[h] /\ d = Head(s) /\ o = d.to /\ m = d.msg /\ z = Tail(s)
  OBVIOUS
<1>2. s # <<>> /\ inbox' = [inbox EXCEPT ![o] = Append(@, m)] /\ handing' = [handing EXCEPT ![h] = z]
      /\ UNCHANGED <<early, emitted, closes, alive>>
  BY <1>1 DEF HandOver, ownVars, lifeVars, serverVars
<1>3. handing \in [Hand -> Seq(Delivery)] /\ Types
  BY Zenon DEF RouterInv, Types
<1>4. s \in Seq(Delivery)
  BY <1>1, <1>3
<1>5. /\ d \in Delivery /\ z \in Seq(Delivery)
      /\ Letters(s) # <<>> /\ Head(Letters(s)) = m /\ Tail(Letters(s)) = Letters(z)
      /\ \A k \in DOMAIN z : \E j \in DOMAIN s : z[k] = s[j]
      /\ \E j \in DOMAIN s : d = s[j]
  BY <1>1, <1>2, <1>4, LettersAhead
<1>6. o \in Owner /\ m \in Message
  BY <1>1, <1>5 DEF Delivery
<1>7. handing'[h] = z /\ \A i \in Hand : i # h => handing'[i] = handing[i]
  BY <1>2, <1>3
<1>8. OwnEvents'
  BY <1>2 DEF OrderInv, OwnEvents
<1>9. \A k \in DOMAIN s : Past(s[k].msg)
  BY <1>1 DEF OrderInv, AnswersPast
<1>10. Past(m)
  BY <1>1, <1>5, <1>9
<1>11. AnswersPast'
  <2>1. PICK X, Y : X = inbox' /\ Y = handing'
    OBVIOUS
  <2>2. \A i \in Hand : \A k \in DOMAIN Y[i] : Past(Y[i][k].msg)
    <3>1. \A i \in Hand : \A k \in DOMAIN handing[i] : Past(handing[i][k].msg)
      BY DEF OrderInv, AnswersPast
    <3>2. \A k \in DOMAIN z : Past(z[k].msg)
      BY <1>5, <1>9
    <3> QED
      BY <1>7, <2>1, <3>1, <3>2, Zenon
  <2>3. \A p \in Owner : \A k \in DOMAIN X[p] : Past(X[p][k])
    <3>1. PICK n \in Nat : /\ DOMAIN inbox[o] = 1..n /\ DOMAIN inbox'[o] = 1..(n + 1)
                           /\ inbox'[o][n + 1] = m /\ \A k \in 1..n : inbox'[o][k] = inbox[o][k]
      BY <1>2, <1>3, <1>6, InboxBehind
    <3>2. \A p \in Owner : p # o => inbox'[p] = inbox[p]
      BY <1>2, <1>3, <1>6, InboxBehind
    <3>3. \A k \in 1..(n + 1) : k \in 1..n \/ k = n + 1
      BY <3>1
    <3>4. \A p \in Owner : \A k \in DOMAIN inbox[p] : Past(inbox[p][k])
      BY DEF OrderInv, AnswersPast
    <3> QED
      BY <1>10, <2>1, <3>1, <3>2, <3>3, <3>4, Zenon
  <2> QED
    BY <1>2, <2>1, <2>2, <2>3 DEF AnswersPast, Past
<1>12. Elsewhere'
  <2> SUFFICES ASSUME NEW i \in Hand, i # "reader", NEW t \in Roots PROVE None(Letters(handing'[i]), t)
    BY Zenon DEF Elsewhere, Letters
  <2>1. None(Letters(handing[i]), t)
    BY Zenon DEF OrderInv, Elsewhere
  <2>2. CASE i = h
    <3>1. None(Letters(s), t)
      BY <1>1, <2>1, <2>2
    <3>2. /\ DOMAIN Letters(s) = DOMAIN s /\ \A k \in DOMAIN s : Letters(s)[k] = s[k].msg
          /\ DOMAIN Letters(z) = DOMAIN z /\ \A k \in DOMAIN z : Letters(z)[k] = z[k].msg
      BY <1>4, <1>5, LettersTyped, Zenon
    <3>3. None(Letters(z), t)
      BY <1>5, <3>1, <3>2 DEF None
    <3> QED
      BY <1>7, <2>2, <3>3
  <2>3. CASE i # h
    BY <1>7, <2>1, <2>3
  <2> QED
    BY <2>2, <2>3
<1>13. ASSUME NEW t \in Roots PROVE OnWay(t)' /\ Told(t)'
  <2>1. OnWay(t) /\ Told(t) /\ t \in Thread
    BY <1>13, Zenon DEF OrderInv, Roots
  <2>2. PICK G, H, E, e, c, live : /\ G = Given(t) /\ H = Letters(handing["reader"]) /\ E = early[t]
                                   /\ e = emitted[t] /\ c = closes[t] /\ live = alive
    OBVIOUS
  <2>3. Way(t, G, H, E, e, c, live)
    BY <2>1, <2>2, Zenon DEF OnWay
  <2>4. OnWay(t)' <=> Way(t, Given(t)', Letters(handing'["reader"]), early'[t], emitted'[t], closes'[t], alive')
    BY Zenon DEF OnWay, Letters
  <2>5. early'[t] = E /\ emitted'[t] = e /\ closes'[t] = c /\ alive' = live
    BY <1>2, <2>2
  <2>6. CASE h # "reader"
    <3>1. ~IsEvent(m, t)
      <4>1. None(Letters(s), t)
        BY <1>1, <2>6, Zenon DEF OrderInv, Elsewhere
      <4>2. \E j \in DOMAIN Letters(s) : m = Letters(s)[j]
        <5>1. DOMAIN Letters(s) = DOMAIN s /\ \A k \in DOMAIN s : Letters(s)[k] = s[k].msg
          BY <1>4, LettersTyped, Zenon
        <5> QED
          BY <1>1, <1>5, <5>1
      <4> QED
        BY <4>1, <4>2 DEF None
    <3>2. Given(t)' = G /\ Told(t)'
      BY <1>2, <1>3, <1>6, <2>1, <2>2, <3>1, GivenOther
    <3>3. Letters(handing'["reader"]) = H
      BY <1>7, <2>2, <2>6, ReaderTyped
    <3>4. OnWay(t)'
      BY <2>3, <2>4, <2>5, <3>2, <3>3, Zenon
    <3> QED
      BY <3>2, <3>4
  <2>7. CASE h = "reader"
    <3>1. H = Letters(s) /\ H # <<>> /\ Head(H) = m /\ Tail(H) = Letters(z)
      BY <1>1, <1>5, <2>2, <2>7
    <3>2. H \in Seq(Message) /\ E \in Seq(Message) /\ c \in Nat /\ G \in SUBSET Events(t)
      BY <1>3, <2>1, <2>2, GivenTyped, ReaderTyped
    <3>3. Letters(handing'["reader"]) = Tail(H)
      BY <1>7, <2>7, <3>1
    <3>4. PICK G2 : G2 = IF IsEvent(Head(H), t) THEN G \cup {Head(H)} ELSE G
      OBVIOUS
    <3>5. Way(t, G2, Tail(H), E, e, c, live)
      BY <2>3, <3>1, <3>2, <3>4, WayGives
    <3>6. Given(t)' = G2 /\ Told(t)'
      <4>1. CASE IsEvent(m, t)
        <5>1. m.close = c /\ \A g \in G : g.n < m.n
          <6>1. Coming(H, t, G, e, c)
            BY <2>3, Zenon DEF Way
          <6>2. 1 \in DOMAIN H /\ H[1] = m
            BY <3>1, <3>2
          <6> QED
            BY <4>1, <6>1, <6>2, Zenon DEF Coming
        <5>2. AnswersPast
          BY DEF OrderInv
        <5>3. Given(t)' = Given(t) \cup {m} /\ Told(t)'
          BY <1>2, <1>3, <1>6, <2>1, <2>2, <4>1, <5>1, <5>2, GivenEvent
        <5> QED
          BY <2>2, <3>1, <3>4, <4>1, <5>3
      <4>2. CASE ~IsEvent(m, t)
        <5>1. Given(t)' = Given(t) /\ Told(t)'
          BY <1>2, <1>3, <1>6, <2>1, <4>2, GivenOther
        <5> QED
          BY <2>2, <3>1, <3>4, <4>2, <5>1
      <4> QED
        BY <4>1, <4>2
    <3>7. OnWay(t)'
      BY <2>4, <2>5, <3>3, <3>5, <3>6, Zenon
    <3> QED
      BY <3>6, <3>7
  <2> QED
    BY <2>6, <2>7
<1> QED
  BY <1>8, <1>11, <1>12, <1>13, Zenon DEF OrderInv

(* Nothing has been said yet.                                               *)
LEMMA InitOrder == Init => OrderInv
<1> SUFFICES ASSUME Init PROVE OrderInv
  OBVIOUS
<1>1. <<>> \in Seq(Message) /\ DOMAIN <<>> = {}
  OBVIOUS
<1>2. /\ \A t \in Thread : early[t] = <<>> /\ emitted[t] = 0 /\ closes[t] = 0
      /\ \A h \in Hand : handing[h] = <<>>
      /\ \A o \in Owner : inbox[o] = <<>>
      /\ alive = TRUE /\ "reader" \in Hand
  BY DEF Init, Hand
<1>3. OwnEvents
  BY <1>1, <1>2 DEF OwnEvents
<1>4. Elsewhere
  BY <1>2, EmptyHand DEF Elsewhere
<1>5. AnswersPast
  BY <1>1, <1>2 DEF AnswersPast
<1>6. ASSUME NEW t \in Roots PROVE OnWay(t) /\ Told(t)
  <2>1. t \in Thread
    BY DEF Roots
  <2>2. Given(t) = {}
    <3>1. \A m : m \notin Given(t)
      BY <1>1, <1>2, GivenMeans
    <3> QED
      BY <3>1
  <2>3. Letters(handing["reader"]) = <<>> /\ None(<<>>, t) /\ EventsIn(<<>>, t) = {}
    <3>1. Letters(<<>>) = <<>>
      BY DEF Letters
    <3>2. None(<<>>, t)
      BY <1>1 DEF None
    <3> QED
      BY <1>2, <3>1, <3>2, NoneMeans
  <2>4. Coming(<<>>, t, {}, 0, 0)
    BY <2>3, Zenon DEF None, Coming
  <2>5. Way(t, {}, <<>>, <<>>, 0, 0, TRUE)
    <3>1. {} \cup EventsIn(<<>>, t) \cup EventsIn(<<>>, t) = {}
      BY <2>3
    <3>2. Latest({}, 0, 0)
      BY DEF Latest
    <3> QED
      BY <2>3, <2>4, <3>1, <3>2, Zenon DEF Way
  <2>6. OnWay(t)
    BY <1>2, <2>1, <2>2, <2>3, <2>5, Zenon DEF OnWay
  <2>7. Told(t)
    BY <1>1, <1>2 DEF Told, Ordered, Fresh, Shared
  <2> QED
    BY <2>6, <2>7
<1> QED
  BY <1>3, <1>4, <1>5, <1>6, Zenon DEF OrderInv

(* Every step of the router, the tabs and the server preserves OrderInv.    *)
LEMMA StepOrder == RouterInv /\ RouterInv' /\ OrderInv /\ [Next]_<<vars, plan>> => OrderInv'
<1> SUFFICES ASSUME RouterInv, RouterInv', OrderInv, [Next]_<<vars, plan>> PROVE OrderInv'
  OBVIOUS
<1>1. ASSUME NEW r \in Request,
             \/ SendStart(r) \/ PrepareOutgoing(r) \/ Write(r) \/ WriteRefused(r)
             \/ AttachInput(r) \/ TimePasses(r) \/ ExpireRequests(r)
             \/ \E ok \in BOOLEAN : OnResponse(r, ok)
             \/ RetainRequests(By[r], r)
      PROVE  OrderInv'
  <2>1. CASE SendStart(r)
    <3>1. UNCHANGED <<early, handing, emitted, closes, alive>>
      BY <2>1 DEF SendStart, ownVars, lifeVars, serverVars
    <3>2. CASE alive
      <4>1. inbox' = inbox
        BY <2>1, <3>2 DEF SendStart
      <4> QED
        BY <3>1, <4>1, OrderStill
    <3>3. CASE ~alive
      <4>1. inbox' = [inbox EXCEPT ![By[r]] = Append(@, Answer(r, "rejected"))]
        BY <2>1, <3>3 DEF SendStart
      <4> QED
        BY <3>1, <4>1, OrderRefused
    <3> QED
      BY <3>2, <3>3
  <2>2. CASE PrepareOutgoing(r) \/ Write(r) \/ AttachInput(r) \/ TimePasses(r) \/ RetainRequests(By[r], r)
    <3>1. UNCHANGED <<early, handing, inbox, emitted, closes, alive>>
      BY <2>2 DEF PrepareOutgoing, Write, AttachInput, TimePasses, RetainRequests, ownVars, lifeVars, serverVars
    <3> QED
      BY <3>1, OrderStill
  <2>3. CASE WriteRefused(r)
    <3>1. /\ UNCHANGED <<early, handing, emitted, closes, alive>>
          /\ inbox' = [inbox EXCEPT ![By[r]] = Append(@, Answer(r, "rejected"))]
      BY <2>3 DEF WriteRefused, ownVars, lifeVars, serverVars
    <3> QED
      BY <3>1, OrderRefused
  <2> QED
    BY <1>1, <2>1, <2>2, <2>3, ExpireRequestsOrder, OnResponseOrder
<1>2. ASSUME NEW o \in Owner,
             \/ Learn(o) \/ Detach(o)
             \/ \E a \in Ask : AnswerAsk(o, a)
             \/ \E c \in Thread : ClaimDescendant(o, c)
      PROVE  OrderInv'
  <2>1. CASE Learn(o) \/ Detach(o) \/ \E a \in Ask : AnswerAsk(o, a)
    <3>1. UNCHANGED <<early, handing, inbox, emitted, closes, alive>>
      BY <2>1 DEF Learn, Detach, AnswerAsk, ownVars, lifeVars, serverVars
    <3> QED
      BY <3>1, OrderStill
  <2> QED
    BY <1>2, <2>1, ClaimDescendantOrder
<1>3. ASSUME NEW t \in Thread, OnNotification(t) \/ OnThreadStarted(t) \/ OnClosed(t)
      PROVE  OrderInv'
  BY <1>3, OnNotificationOrder, OnThreadStartedOrder, OnClosedOrder
<1>4. ASSUME NEW a \in Ask, OnAsk(a) \/ OnResolved(a)
      PROVE  OrderInv'
  BY <1>4, OnAskOrder
<1>5. CASE ServerTakes
  <2>1. UNCHANGED <<early, handing, inbox, emitted, closes, alive>>
    BY <1>5 DEF ServerTakes, ownVars, lifeVars
  <2> QED
    BY <2>1, OrderStill
<1>6. CASE StdoutClosed \/ ClearState
  BY <1>6, StdoutClosedOrder, ClearStateOrder
<1>7. ASSUME NEW h \in Hand, HandOver(h)
      PROVE  OrderInv'
  BY <1>7, HandOverOrder
<1>8. CASE UNCHANGED <<vars, plan>>
  <2>1. UNCHANGED <<early, handing, inbox, emitted, closes, alive>>
    BY <1>8 DEF vars, ownVars, lifeVars, serverVars
  <2> QED
    BY <2>1, OrderStill
<1> QED
  BY <1>1, <1>2, <1>3, <1>4, <1>5, <1>6, <1>7, <1>8 DEF Next, Step

(* What was given of a thread follows on itself: what is still on its way   *)
(* was said later.                                                          *)
LEMMA InvOrders == RouterInv /\ OrderInv => RootOrder
<1> SUFFICES ASSUME RouterInv, OrderInv, NEW t \in Roots
             PROVE  /\ \A o \in Owner : Ordered(o, t) /\ Fresh(o, t)
                    /\ \A o, p \in Owner : o # p => ~Shared(o, p, t)
                    /\ \A m \in Given(t) : Follows(m, Given(t))
  BY Zenon DEF RootOrder
<1>1. OnWay(t) /\ Told(t) /\ t \in Thread
  BY Zenon DEF OrderInv, Roots
<1>2. PICK G, H, E, e, c, live : /\ G = Given(t) /\ H = Letters(handing["reader"]) /\ E = early[t]
                                 /\ e = emitted[t] /\ c = closes[t] /\ live = alive
  OBVIOUS
<1>3. Way(t, G, H, E, e, c, live)
  BY <1>1, <1>2, Zenon DEF OnWay
<1>4. H \in Seq(Message) /\ E \in Seq(Message) /\ c \in Nat /\ G \in SUBSET Events(t)
  BY <1>1, <1>2, GivenTyped, ReaderTyped DEF RouterInv
<1>5. PICK D : D = EventsIn(H, t) \cup EventsIn(E, t)
  OBVIOUS
<1>6. D \in SUBSET Events(t)
  BY <1>4, <1>5, EventsTyped
<1>7. \A g \in G, d \in D : g.n < d.n
  BY <1>3, <1>4, <1>5, WaySaid
<1>8. \A m \in G \cup D : Follows(m, G \cup D)
  <2>1. G \cup D = G \cup EventsIn(H, t) \cup EventsIn(E, t)
    BY <1>5
  <2> QED
    BY <1>3, <2>1, Zenon DEF Way
<1>9. \A m \in G : Follows(m, G)
  BY <1>4, <1>6, <1>7, <1>8, FollowsLess
<1> QED
  BY <1>1, <1>2, <1>9, Zenon DEF Told

(* What the server says of a root thread (router.rs: route_notification,    *)
(* claim_thread, remove_thread) reaches one tab each, in the server's       *)
(* order, with nothing lost within one opening of the thread and nothing    *)
(* from before its last close - whatever tabs open it, leave it and take it *)
(* over, and whatever is held or being handed over meanwhile.               *)
THEOREM RootsInOrder == Spec => []RootOrder
<1>1. Init => RouterInv /\ OrderInv
  BY InitInv, InitOrder
<1>2. RouterInv /\ OrderInv /\ [Next]_<<vars, plan>> => (RouterInv /\ OrderInv)'
  BY StepInv, StepOrder
<1>3. RouterInv /\ OrderInv => RootOrder
  BY InvOrders
<1> QED
  BY <1>1, <1>2, <1>3, PTL DEF Spec

=============================================================================
