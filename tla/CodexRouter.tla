---------------------------- MODULE CodexRouter -----------------------------
(***************************************************************************)
(* The router of the Codex app-server that every Codex tab shares: which   *)
(* tab a reply, a notification or a request of the server belongs to.      *)
(*                                                                         *)
(* Source: crates/agent/src/codex/app_server/host/{router,mod}.rs          *)
(*                                                                         *)
(* Three kinds of thread interleave: a tab's own (send, claim, detach), the*)
(* process reader (on_message, on_stdout_closed) and the deadline timer.   *)
(* Each changes the state under one lock and hands the messages over after *)
(* releasing it, so what it hands over is a step of its own here.  The     *)
(* queue behind write_tracked is the one of AgentProcess.                  *)
(***************************************************************************)
EXTENDS Naturals, Sequences, FiniteSets, TLC

CONSTANTS
    Owner,      \* the tabs (RegistrationId)
    Thread,     \* conversation threads of the server
    Request,    \* the requests the tabs may send
    By,         \* [Request -> Owner]: the tab that sends it
    Purpose,    \* [Request -> {"root", "local", "control"}]
    About,      \* [Request -> Thread]: the thread it opens or leaves
    Parent,     \* [Thread -> Thread \cup {NoThread}]: of a descendant
    Ask,        \* requests of the server to a tab
    AskThread,  \* [Ask -> Thread]
    Plans,      \* bounds: what may happen, one plan per behaviour
    NoOwner, NoThread

ASSUME RouterAssumption ==
    /\ By \in [Request -> Owner]
    /\ Purpose \in [Request -> {"root", "local", "control"}]
    /\ About \in [Request -> Thread]
    /\ Parent \in [Thread -> Thread \cup {NoThread}]
    /\ AskThread \in [Ask -> Thread]
    /\ \A p \in Plans :
          /\ p.requests \subseteq Request /\ p.asks \subseteq Ask
          /\ p.slow \subseteq Request /\ p.fickle \subseteq Request
          /\ p.events \in [Thread -> Nat] /\ p.closes \in [Thread -> Nat]
          /\ p.exits \in BOOLEAN
    /\ NoOwner \notin Owner /\ NoThread \notin Thread /\ IsFiniteSet(Owner)

(* A plan bounds one behaviour, and a step never changes it: the requests   *)
(* and asks it may have, the notifications and closes of each thread, the   *)
(* requests whose deadline may pass (slow) or which their tab may retire    *)
(* (fickle), and whether the process may end by itself (exits).             *)
VARIABLES
    plan,
    sessions,  \* registered tabs
    owner,     \* thread_owners
    root,      \* root_by_owner
    early,     \* early_messages
    asked,     \* server_requests: the owner a request of the server waits for
    route,     \* pending_requests: "none", "open", or "overdue"
    held,      \* the route has its input ticket
    ticket,    \* the input's ticket: "none", "queued", "started", "cancelled"
    stage,     \* how far host.send has come in the tab's thread
    wire,      \* inputs that wait for the writer
    alive,     \* Router.alive
    cleared,   \* on_stdout_closed has cleared the state
    expected,  \* expected_shutdown
    handing,   \* per thread of the program: messages it still has to hand over
    inbox,     \* per tab: messages handed over
    known,     \* per tab: the root it knows of
    retired,   \* requests whose tab has retired their route
    emitted, closes, subscribed, taken, askState  \* the server

routeVars == <<route, held, ticket, stage, wire>>
ownVars == <<sessions, owner, root, early, asked>>
lifeVars == <<alive, cleared, expected>>
serverVars == <<emitted, closes, subscribed, taken, askState>>
vars == <<ownVars, routeVars, lifeVars, handing, inbox, known, retired, serverVars>>

Hand == Owner \cup {"reader", "timer"}
Answer(r, outcome) == [kind |-> "answer", request |-> r, outcome |-> outcome,
                       close |-> closes[About[r]]]
Event(t) == [kind |-> "event", thread |-> t, n |-> emitted[t] + 1, close |-> closes[t]]
Closed(t) == [kind |-> "closed", thread |-> t]
AskMessage(a) == [kind |-> "ask", ask |-> a, thread |-> AskThread[a]]
Resolved(a) == [kind |-> "resolved", ask |-> a, thread |-> AskThread[a]]
Exit == [kind |-> "exit"]
To(o, msgs) == [k \in DOMAIN msgs |-> [to |-> o, msg |-> msgs[k]]]

TypeOK ==
    /\ sessions \subseteq Owner
    /\ owner \in [Thread -> Owner \cup {NoOwner}]
    /\ root \in [Owner -> Thread \cup {NoThread}]
    /\ asked \in [Ask -> Owner \cup {NoOwner}]
    /\ route \in [Request -> {"none", "open", "overdue"}]
    /\ held \in [Request -> BOOLEAN]
    /\ ticket \in [Request -> {"none", "queued", "started", "cancelled"}]
    /\ stage \in [Request -> {"new", "checked", "prepared", "written", "sent", "failed"}]
    /\ wire \in Seq(Request)
    /\ alive \in BOOLEAN /\ cleared \in BOOLEAN /\ expected \in BOOLEAN
    /\ known \in [Owner -> Thread \cup {NoThread}]
    /\ retired \subseteq Request
    /\ DOMAIN early = Thread /\ DOMAIN handing = Hand /\ DOMAIN inbox = Owner

Init ==
    /\ plan \in Plans
    /\ sessions = Owner
    /\ owner = [t \in Thread |-> NoOwner]
    /\ root = [o \in Owner |-> NoThread]
    /\ early = [t \in Thread |-> <<>>]
    /\ asked = [a \in Ask |-> NoOwner]
    /\ route = [r \in Request |-> "none"] /\ held = [r \in Request |-> FALSE]
    /\ ticket = [r \in Request |-> "none"] /\ stage = [r \in Request |-> "new"]
    /\ wire = <<>>
    /\ alive = TRUE /\ cleared = FALSE /\ expected = FALSE
    /\ handing = [h \in Hand |-> <<>>] /\ inbox = [o \in Owner |-> <<>>]
    /\ known = [o \in Owner |-> NoThread] /\ retired = {}
    /\ emitted = [t \in Thread |-> 0] /\ closes = [t \in Thread |-> 0]
    /\ subscribed = [t \in Thread |-> FALSE]
    /\ taken = [r \in Request |-> "no"] /\ askState = [a \in Ask |-> "unsent"]

-----------------------------------------------------------------------------
(* Tickets.                                                                 *)

Cancellable(r) == held[r] /\ ticket[r] = "queued"

(* PendingRoute::drop of every route in gone, with what attach_input does   *)
(* for a ticket in late.                                                    *)
Retires(r) == Purpose[r] # "control"
CancelInputs(gone, late) ==
    LET off == {r \in gone : Cancellable(r)} \cup {r \in late : ticket[r] = "queued"}
    IN  /\ ticket' = [r \in Request |-> IF r \in off THEN "cancelled" ELSE ticket[r]]
        /\ LET kept == {k \in DOMAIN wire : wire[k] \notin off}
           IN  \E at \in [1..Cardinality(kept) -> kept] :  \* in order: one choice
                  /\ \A j, k \in DOMAIN at : j < k => at[j] < at[k]
                  /\ wire' = [k \in DOMAIN at |-> wire[at[k]]]

Drop(rs) ==
    /\ route' = [r \in Request |-> IF r \in rs THEN "none" ELSE route[r]]
    /\ CancelInputs({r \in rs : Retires(r)}, {})

(* timeout_response cancels whatever its class.                             *)
Expired(rs) ==
    /\ route' = [r \in Request |-> IF r \in rs THEN "none" ELSE route[r]]
    /\ CancelInputs(rs, {})

MutTimeoutAnswer(r) == Answer(r, IF ticket[r] = "queued" THEN "notSent" ELSE "timeout")
TimeoutAnswer(r) == Answer(r, IF Cancellable(r) THEN "notSent" ELSE "timeout")

-----------------------------------------------------------------------------
(* A tab's thread.  Session holds itself mutably, so one call at a time.    *)

Busy(o) ==
    \/ handing[o] # <<>>
    \/ \E r \in Request : By[r] = o /\ stage[r] \in {"checked", "prepared", "written"}

(* prepare_outgoing reads alive before it takes the lock.                   *)
SendStart(r) ==
    /\ r \in plan.requests /\ stage[r] = "new" /\ By[r] \in sessions /\ ~Busy(By[r])
    /\ stage' = [stage EXCEPT ![r] = IF alive THEN "checked" ELSE "failed"]
    /\ inbox' = IF alive THEN inbox
                ELSE [inbox EXCEPT ![By[r]] = Append(@, Answer(r, "rejected"))]
    /\ UNCHANGED <<ownVars, route, held, ticket, wire, lifeVars, handing, known,
                   retired, serverVars>>

PrepareOutgoing(r) ==
    /\ stage[r] = "checked"
    /\ stage' = [stage EXCEPT ![r] = "prepared"]
    /\ route' = [route EXCEPT ![r] = "open"]
    /\ UNCHANGED <<ownVars, held, ticket, wire, lifeVars, handing, inbox, known,
                   retired, serverVars>>

(* write_tracked: accepted by the queue, or refused once it is closed.      *)
Write(r) ==
    /\ stage[r] = "prepared"
    /\ stage' = [stage EXCEPT ![r] = "written"]
    /\ ticket' = [ticket EXCEPT ![r] = "queued"]
    /\ wire' = Append(wire, r)
    /\ UNCHANGED <<ownVars, route, held, lifeVars, handing, inbox, known, retired,
                   serverVars>>

(* reject_outgoing; the session answers its own request with the error.     *)
RejectOutgoing(r) == route' = [route EXCEPT ![r] = "none"]

WriteRefused(r) ==
    /\ stage[r] = "prepared" /\ (plan.exits \/ ~alive)
    /\ stage' = [stage EXCEPT ![r] = "failed"]
    /\ RejectOutgoing(r)
    /\ inbox' = [inbox EXCEPT ![By[r]] = Append(@, Answer(r, "rejected"))]
    /\ UNCHANGED <<ownVars, held, ticket, wire, lifeVars, handing, known, retired,
                   serverVars>>

AttachInput(r) ==
    /\ stage[r] = "written"
    /\ stage' = [stage EXCEPT ![r] = "sent"]
    /\ IF route[r] # "none"
          THEN held' = [held EXCEPT ![r] = TRUE] /\ UNCHANGED <<ticket, wire>>
          ELSE CancelInputs({}, {r}) /\ held' = held
    /\ UNCHANGED <<ownVars, route, lifeVars, handing, inbox, known, retired,
                   serverVars>>

(* retain_requests: the tab keeps the routes it still has a use for.        *)
RetainRequests(o, r) ==
    /\ o \in sessions /\ ~Busy(o) /\ By[r] = o /\ route[r] # "none"
    /\ stage[r] = "sent" /\ r \in plan.fickle
    /\ Drop({r})
    /\ retired' = retired \cup {r}
    /\ UNCHANGED <<ownVars, held, stage, lifeVars, handing, inbox, known, serverVars>>

(* The answer to a request of the server, in prepare_outgoing; write_line   *)
(* follows.                                                                 *)
MayAnswer(o, a) == asked[a] = o

AnswerAsk(o, a) ==
    /\ o \in sessions /\ ~Busy(o) /\ alive /\ MayAnswer(o, a)
    /\ asked' = [asked EXCEPT ![a] = NoOwner]
    /\ askState' = [askState EXCEPT ![a] = IF @ = "sent" THEN "answered" ELSE "twice"]
    /\ UNCHANGED <<sessions, owner, root, early, routeVars, lifeVars, handing,
                   inbox, known, retired, emitted, closes, subscribed, taken>>

-----------------------------------------------------------------------------
(* Ownership, under the lock.                                               *)

(* What the replay of a thread's early messages leaves in server_requests:  *)
(* the requests among them that are not resolved further on.                *)
AsksIn(msgs) ==
    {msgs[k].ask : k \in {j \in DOMAIN msgs :
        /\ msgs[j].kind = "ask"
        /\ \A l \in j..Len(msgs) : msgs[l] # Resolved(msgs[j].ask)}}

(* claim_thread for a thread nobody owns, over the asked map in `before`.   *)
Claim(o, t, before) ==
    /\ owner' = [owner EXCEPT ![t] = o]
    /\ early' = [early EXCEPT ![t] = <<>>]
    /\ asked' = [a \in Ask |-> IF a \in AsksIn(early[t]) THEN o ELSE before[a]]

(* replace_root: the owner's other threads and server requests are let go.  *)
ReplaceRoot(o, t) ==
    LET kept == [u \in Thread |-> IF owner[u] = o THEN NoOwner ELSE owner[u]]
        left == [a \in Ask |-> IF asked[a] = o THEN NoOwner ELSE asked[a]]
    IN  /\ owner' = [kept EXCEPT ![t] = o]
        /\ early' = [early EXCEPT ![t] = <<>>]
        /\ asked' = [a \in Ask |-> IF a \in AsksIn(early[t]) THEN o ELSE left[a]]
        /\ root' = [root EXCEPT ![o] = t]

RemoveThread(t) ==
    /\ asked' = [a \in Ask |-> IF AskThread[a] = t THEN NoOwner ELSE asked[a]]
    /\ owner' = [owner EXCEPT ![t] = NoOwner]
    /\ root' = [o \in Owner |-> IF root[o] = t THEN NoThread ELSE root[o]]
    /\ early' = [early EXCEPT ![t] = <<>>]

(* claim_descendants, which a tab calls after each message it processes,    *)
(* with the descendants of the root it knows (those the plan lets speak).   *)
ClaimDescendant(o, c) ==
    /\ o \in sessions /\ ~Busy(o) /\ alive
    /\ plan.events[c] > 0
    /\ Parent[c] # NoThread /\ known[o] = Parent[c] /\ owner[c] = NoOwner
    /\ Claim(o, c, asked)
    /\ handing' = [handing EXCEPT ![o] = To(o, early[c])]
    /\ UNCHANGED <<sessions, root, routeVars, lifeVars, inbox, known, retired,
                   serverVars>>

(* A tab comes to know the root the router has given it.                    *)
Learn(o) ==
    /\ o \in sessions /\ known[o] # root[o]
    /\ known' = [known EXCEPT ![o] = root[o]]
    /\ UNCHANGED <<ownVars, routeVars, lifeVars, handing, inbox, retired, serverVars>>

(* Session::shutdown: detach, and the host's end when no tab is left.       *)
MutReleased(o) == owner
Released(o) == [t \in Thread |-> IF owner[t] = o THEN NoOwner ELSE owner[t]]

Detach(o) ==
    /\ o \in sessions /\ ~Busy(o)
    /\ sessions' = sessions \ {o}
    /\ Drop({r \in Request : By[r] = o})
    /\ asked' = [a \in Ask |-> IF asked[a] = o THEN NoOwner ELSE asked[a]]
    /\ owner' = Released(o)
    /\ root' = [root EXCEPT ![o] = NoThread]
    /\ expected' = (expected \/ sessions = {o})
    /\ UNCHANGED <<early, held, stage, alive, cleared, handing, inbox, known,
                   retired, serverVars>>

-----------------------------------------------------------------------------
(* The timer.                                                               *)

TimePasses(r) ==
    /\ r \in plan.slow /\ route[r] = "open"
    /\ route' = [route EXCEPT ![r] = "overdue"]
    /\ UNCHANGED <<ownVars, held, ticket, stage, wire, lifeVars, handing, inbox,
                   known, retired, serverVars>>

Overdue == {r \in Request : route[r] = "overdue"}

(* One overdue route at a time: the callback takes all of them, in any      *)
(* order, and they do not interfere.                                        *)
MutExpireAnswers(r) == IF Cancellable(r) THEN <<TimeoutAnswer(r)>> ELSE <<>>
ExpireAnswers(r) == IF By[r] \in sessions THEN <<TimeoutAnswer(r)>> ELSE <<>>

ExpireRequests(r) ==
    /\ handing["timer"] = <<>> /\ r \in Overdue
    /\ Expired({r})
    /\ handing' = [handing EXCEPT !["timer"] = To(By[r], ExpireAnswers(r))]
    /\ UNCHANGED <<ownVars, held, stage, lifeVars, inbox, known, retired, serverVars>>

-----------------------------------------------------------------------------
(* The server (outside this program) and the reader.  The reader handles    *)
(* one message at a time, in the order of the server's output, so what the  *)
(* server emits and how it is routed are one step.                          *)

ReaderIdle == alive /\ handing["reader"] = <<>>

(* The writer passes the next input on.                                     *)
ServerTakes ==
    /\ alive /\ wire # <<>>
    /\ LET r == Head(wire) IN
        /\ wire' = Tail(wire)
        /\ ticket' = [ticket EXCEPT ![r] = "started"]
        /\ taken' = [taken EXCEPT ![r] = "taken"]
        /\ subscribed' =
              CASE Purpose[r] = "root"    -> [subscribed EXCEPT ![About[r]] = TRUE]
                [] Purpose[r] = "control" -> [subscribed EXCEPT ![About[r]] = FALSE]
                [] OTHER                  -> subscribed
    /\ UNCHANGED <<ownVars, route, held, stage, lifeVars, handing, inbox, known,
                   retired, emitted, closes, askState>>

(* A thread speaks while this connection follows it or its parent.          *)
Speaks(t) == subscribed[t] \/ (Parent[t] # NoThread /\ subscribed[Parent[t]])

Hold(t, msg) == Append(early[t], msg)

(* A message of thread t: to its owner, or kept until there is one.         *)
Route(t, msg) ==
    IF owner[t] # NoOwner
       THEN /\ handing' = [handing EXCEPT !["reader"] = To(owner[t], <<msg>>)]
            /\ early' = early
       ELSE /\ early' = [early EXCEPT ![t] = Hold(t, msg)]
            /\ handing' = handing

OnNotification(t) ==
    /\ ReaderIdle /\ Speaks(t) /\ emitted[t] < plan.events[t]
    /\ Route(t, Event(t))
    /\ emitted' = [emitted EXCEPT ![t] = @ + 1]
    /\ UNCHANGED <<sessions, owner, root, asked, routeVars, lifeVars, inbox, known,
                   retired, closes, subscribed, taken, askState>>

(* thread/started of a descendant nobody owns yet, under an owned parent.   *)
OnThreadStarted(c) ==
    /\ ReaderIdle /\ Speaks(c) /\ emitted[c] < plan.events[c]
    /\ Parent[c] # NoThread /\ owner[c] = NoOwner
    /\ owner[Parent[c]] # NoOwner
    /\ Claim(owner[Parent[c]], c, asked)
    /\ handing' = [handing EXCEPT !["reader"] =
                      To(owner[Parent[c]], Append(early[c], Event(c)))]
    /\ emitted' = [emitted EXCEPT ![c] = @ + 1]
    /\ UNCHANGED <<sessions, root, routeVars, lifeVars, inbox, known, retired,
                   closes, subscribed, taken, askState>>

MutForget(t) == early' = early
Forget(t) == early' = [early EXCEPT ![t] = <<>>]

(* thread/closed or thread/deleted, once the thread is unloaded.            *)
OnClosed(t) ==
    /\ ReaderIdle /\ ~Speaks(t) /\ closes[t] < plan.closes[t]
    /\ IF owner[t] # NoOwner
          THEN /\ RemoveThread(t)
               /\ handing' = [handing EXCEPT !["reader"] = To(owner[t], <<Closed(t)>>)]
          ELSE Forget(t) /\ UNCHANGED <<asked, owner, root, handing>>
    /\ closes' = [closes EXCEPT ![t] = @ + 1]
    /\ UNCHANGED <<sessions, routeVars, lifeVars, inbox, known, retired, emitted,
                   subscribed, taken, askState>>

(* route_server_request.                                                    *)
OnAsk(a) ==
    /\ ReaderIdle /\ a \in plan.asks /\ Speaks(AskThread[a]) /\ askState[a] = "unsent"
    /\ Route(AskThread[a], AskMessage(a))
    /\ asked' = [asked EXCEPT ![a] = owner[AskThread[a]]]
    /\ askState' = [askState EXCEPT ![a] = "sent"]
    /\ UNCHANGED <<sessions, owner, root, routeVars, lifeVars, inbox, known,
                   retired, emitted, closes, subscribed, taken>>

(* serverRequest/resolved: the server no longer waits for the answer.       *)
OnResolved(a) ==
    /\ ReaderIdle /\ askState[a] = "sent"
    /\ Route(AskThread[a], Resolved(a))
    /\ asked' = [asked EXCEPT ![a] = NoOwner]
    /\ askState' = [askState EXCEPT ![a] = "resolved"]
    /\ UNCHANGED <<sessions, owner, root, routeVars, lifeVars, inbox, known,
                   retired, emitted, closes, subscribed, taken>>

Conflict(r) == owner[About[r]] \notin {NoOwner, By[r]}

(* route_response for a route that is in time: a request that opens a       *)
(* thread makes it the tab's root, unless another tab owns it.  Answers may *)
(* be errors of the server's own.                                           *)
ResponseInTime(r, ok) ==
    /\ route[r] = "open"
    /\ route' = [route EXCEPT ![r] = "none"]
    /\ IF Purpose[r] = "root" /\ ok /\ ~Conflict(r)
          THEN /\ ReplaceRoot(By[r], About[r])
               /\ handing' = [handing EXCEPT !["reader"] =
                     To(By[r], <<Answer(r, "ok")>> \o early[About[r]])]
          ELSE /\ handing' = [handing EXCEPT !["reader"] =
                     To(By[r], <<Answer(r, IF ok /\ Purpose[r] # "root" THEN "ok"
                                           ELSE "error")>>)]
               /\ UNCHANGED <<owner, early, asked, root>>
    /\ UNCHANGED <<ticket, wire>>

(* A reply to a route whose deadline has passed but which the timer has not *)
(* taken yet is answered as a timeout.                                      *)
ResponseLate(r) ==
    /\ route[r] = "overdue"
    /\ Expired({r})
    /\ handing' = [handing EXCEPT !["reader"] = To(By[r], <<TimeoutAnswer(r)>>)]
    /\ UNCHANGED <<owner, early, asked, root>>

(* The route is gone: the reply is dropped.                                 *)
ResponseStray(r) ==
    /\ route[r] = "none"
    /\ UNCHANGED <<route, ticket, wire, handing, owner, early, asked, root>>

OnResponse(r, ok) ==
    /\ ReaderIdle /\ taken[r] = "taken"
    /\ taken' = [taken EXCEPT ![r] = "answered"]
    /\ ResponseInTime(r, ok) \/ ResponseLate(r) \/ ResponseStray(r)
    /\ UNCHANGED <<sessions, held, stage, lifeVars, inbox, known, retired, emitted,
                   closes, subscribed, askState>>

-----------------------------------------------------------------------------
(* The end of the process.                                                  *)

StdoutClosed ==
    /\ ReaderIdle /\ (plan.exits \/ expected)
    /\ alive' = FALSE
    /\ UNCHANGED <<ownVars, routeVars, cleared, expected, handing, inbox, known,
                   retired, serverVars>>

ExitNotices(seq) == [k \in DOMAIN seq |-> [to |-> seq[k], msg |-> Exit]]

(* on_stdout_closed after the swap: every table is cleared, and unless the  *)
(* end was asked for every tab is told, in some order.                      *)
ClearState ==
    /\ ~alive /\ ~cleared /\ cleared' = TRUE
    /\ Drop(Request)
    /\ asked' = [a \in Ask |-> NoOwner]
    /\ owner' = [t \in Thread |-> NoOwner]
    /\ root' = [o \in Owner |-> NoThread]
    /\ early' = [t \in Thread |-> <<>>]
    /\ \E seq \in [1..Cardinality(sessions) -> sessions] :
          /\ \A j, k \in DOMAIN seq : seq[j] = seq[k] => j = k
          /\ handing' = [handing EXCEPT !["reader"] =
                           IF expected THEN <<>> ELSE ExitNotices(seq)]
    /\ UNCHANGED <<sessions, held, stage, alive, expected, inbox, known, retired,
                   serverVars>>

(* A thread of the program hands over the next message it routed.           *)
HandOver(h) ==
    /\ handing[h] # <<>>
    /\ LET d == Head(handing[h]) IN
         inbox' = [inbox EXCEPT ![d.to] = Append(@, d.msg)]
    /\ handing' = [handing EXCEPT ![h] = Tail(@)]
    /\ UNCHANGED <<ownVars, routeVars, lifeVars, known, retired, serverVars>>

-----------------------------------------------------------------------------

Step ==
    \/ \E r \in Request :
          \/ SendStart(r) \/ PrepareOutgoing(r) \/ Write(r) \/ WriteRefused(r)
          \/ AttachInput(r) \/ TimePasses(r) \/ ExpireRequests(r)
          \/ \E ok \in BOOLEAN : OnResponse(r, ok)
          \/ RetainRequests(By[r], r)
    \/ \E o \in Owner :
          \/ Learn(o) \/ Detach(o)
          \/ \E a \in Ask : AnswerAsk(o, a)
          \/ \E c \in Thread : ClaimDescendant(o, c)
    \/ \E t \in Thread : OnNotification(t) \/ OnThreadStarted(t) \/ OnClosed(t)
    \/ \E a \in Ask : OnAsk(a) \/ OnResolved(a)
    \/ ServerTakes \/ StdoutClosed \/ ClearState
    \/ \E h \in Hand : HandOver(h)

Next == Step /\ UNCHANGED plan

Spec == Init /\ [][Next]_<<vars, plan>>

(* The runtime's threads go on with what they have started, and time        *)
(* passes.  The server may stay silent.                                     *)
Fairness ==
    /\ \A r \in Request :
          WF_vars(PrepareOutgoing(r)) /\ WF_vars(Write(r) \/ WriteRefused(r))
          /\ WF_vars(AttachInput(r)) /\ WF_vars(TimePasses(r))
          /\ WF_vars(ExpireRequests(r))
    /\ WF_vars(ClearState)
    /\ \A h \in Hand : WF_vars(HandOver(h))

FairSpec == Spec /\ Fairness

-----------------------------------------------------------------------------
(* Properties.                                                              *)

Got(o) == {inbox[o][k] : k \in DOMAIN inbox[o]}
Answers(o, r) == {k \in DOMAIN inbox[o] : inbox[o][k].kind = "answer"
                                          /\ inbox[o][k].request = r}
Underway(r) == {h \in Hand : \E k \in DOMAIN handing[h] :
                  handing[h][k].msg.kind = "answer" /\ handing[h][k].msg.request = r}

(* The tables agree: a tab's root is a thread it owns, an owner is a        *)
(* registered tab, a request of the server waits for the owner of its       *)
(* thread, and nothing is still held for a thread that has an owner ("held  *)
(* until the claim arrives", router.rs:5) - across conflicting resumes,     *)
(* closes, detaching tabs and replays.                                      *)
TablesAgree ==
    /\ \A o \in Owner : root[o] # NoThread => owner[root[o]] = o
    /\ \A t \in Thread : owner[t] # NoOwner => owner[t] \in sessions /\ early[t] = <<>>
    /\ \A a \in Ask : asked[a] # NoOwner => asked[a] = owner[AskThread[a]]

(* Nothing is answered twice: a tab's request by the server, the timer and  *)
(* a late reply together, and a request of the server by the tabs it passes *)
(* between, nor after the server has resolved it.  (A deadline that passes  *)
(* inside host.send, before a write that is then refused, is reported beside*)
(* the refusal: the only second answer there is.)  And an answer that says  *)
(* the request "was not sent" (router.rs:83) is true: the server never gets *)
(* that request.                                                            *)
OneAnswer ==
    /\ \A r \in Request :
          LET routed == {k \in Answers(By[r], r) : inbox[By[r]][k].outcome # "rejected"}
          IN  Cardinality(routed) + Cardinality(Underway(r)) <= 1
    /\ \A a \in Ask : askState[a] # "twice"
    /\ \A r \in Request : \A k \in Answers(By[r], r) :
          inbox[By[r]][k].outcome = "notSent" => taken[r] = "no" /\ ticket[r] = "cancelled"

(* What the server says of a root thread reaches one tab each, in its order,*)
(* and none is lost between two that were given under one opening of the    *)
(* thread, whether they came before or after a claim, and although the      *)
(* thread passes from tab to tab.  A descendant's may be overtaken:         *)
(* claim_descendants hands what it held over on the tab's thread, while the *)
(* reader may hand over what came later.  And a tab that opens a thread gets*)
(* nothing from before the thread's last close: "holding it would hand a    *)
(* stale close, and the traffic before it, to whichever tab later resumes   *)
(* the thread" (router.rs:568).                                             *)
Roots == {t \in Thread : Parent[t] = NoThread}
IsEvent(m, t) == m.kind = "event" /\ m.thread = t
Given(t) == {m \in UNION {Got(o) : o \in Owner} : IsEvent(m, t)}

Ordered(o, t) ==
    \A j, k \in DOMAIN inbox[o] :
        j < k /\ IsEvent(inbox[o][j], t) /\ IsEvent(inbox[o][k], t) => inbox[o][j].n < inbox[o][k].n
Shared(o, p, t) ==
    \E j \in DOMAIN inbox[o], k \in DOMAIN inbox[p] :
        IsEvent(inbox[o][j], t) /\ IsEvent(inbox[p][k], t) /\ inbox[o][j].n = inbox[p][k].n
(* The first notification of all, or of those since the last close that any *)
(* tab was given; or its predecessor is among them.                         *)
Follows(m, G) ==
    \/ m.n = 1 \/ \E l \in G : l.n + 1 = m.n
    \/ m.close > 0 /\ \A l \in G : l.n < m.n => l.close < m.close
Fresh(o, t) ==
    \A j, k \in DOMAIN inbox[o] :
        /\ j < k /\ inbox[o][j].kind = "answer" /\ inbox[o][j].outcome = "ok"
        /\ About[inbox[o][j].request] = t /\ IsEvent(inbox[o][k], t)
        => inbox[o][k].close >= inbox[o][j].close

RootOrder ==
    \A t \in Roots :
        /\ \A o \in Owner : Ordered(o, t) /\ Fresh(o, t)
        /\ \A o, p \in Owner : o # p => ~Shared(o, p, t)
        /\ \A m \in Given(t) : Follows(m, Given(t))

(* A request a tab has sent is answered or the tab hears that the host is   *)
(* gone, however the reply, the deadline and the end of the process fall -  *)
(* unless the tab leaves or retires the request itself.  (The plan has to   *)
(* let the request's deadline pass: in the code it always does.)            *)
Settled(r) ==
    \/ Answers(By[r], r) # {} \/ Exit \in Got(By[r])
    \/ By[r] \notin sessions \/ r \in retired
Settles == <>[](\A r \in plan.slow : stage[r] = "sent" => Settled(r))
====
