----------------------------- MODULE BcSession ------------------------------
(***************************************************************************)
(* The Baichuan session (baichuan.py): the tasks that send commands, log   *)
(* in under _login_mutex, subscribe to events, keep the subscription       *)
(* alive, re-establish it after a loss, and log out, on a connection that  *)
(* may be lost at any time.  A step runs from one await to the next.  The  *)
(* connection itself is BcConnection's; here it is up or down.             *)
(***************************************************************************)
EXTENDS Naturals, SequencesExt

CONSTANTS Sender,          \* tasks that send one command each
          MaxFaults,       \* bound: losses, timeouts, refusals, connections that fail
          MaxCalls,        \* bound: calls of the user
          RETRY_ATTEMPTS

ASSUME BcSessionAssumption ==
    /\ MaxFaults \in Nat /\ MaxCalls \in Nat /\ RETRY_ATTEMPTS \in Nat \ {0}
    /\ Sender \cap {"user", "keepalive", "reestablish", "closer"} = {}

\* user subscribes and unsubscribes, one call after the other; the others are tasks of Baichuan.
Task == Sender \cup {"user", "keepalive", "reestablish", "closer"}

VARIABLES
    battery,       \* http_api.is_battery
    logged_in,     \* _logged_in
    recent,        \* _last_login is less than 15 s ago
    subscribed,    \* _subscribed
    webhook,       \* _webhook_subscribed
    events_active, \* _events_active
    kicked,        \* _time_reestablish is less than 60 s ago
    loop,          \* _battery_close_task is not None
    updating,      \* http_api._updating
    mutex,         \* the tasks at _login_mutex: its holder, then those that wait
    tasks,         \* where every task is
    up,            \* the connection is open
    nonce,         \* camera: it has given a nonce on this connection
    authed,        \* camera: the connection is logged in
    pushing,       \* camera: the connection is subscribed to events
    faults,        \* faults so far
    calls          \* calls of the user so far

flags == <<battery, subscribed, webhook, kicked, updating>>
ends == <<recent, loop>>
net == <<up, nonce, authed, pushing>>
vars == <<flags, ends, logged_in, events_active, mutex, tasks, net, faults, calls>>

\* op: what the task wants to send; cmd: what it has sent; ans: the answer, of an idle task how the
\* last send ended; retry, inner: the attempts left for op, for the commands of its login.
Fresh == [pc |-> "idle", op |-> "none", cmd |-> "none", retry |-> 0, inner |-> 0, ans |-> "none"]
Idle(t) == tasks[t].pc = "idle"

Init ==
    /\ battery \in BOOLEAN
    /\ logged_in = FALSE /\ recent = FALSE /\ subscribed = FALSE /\ webhook = FALSE
    /\ events_active = FALSE /\ kicked = FALSE /\ loop = FALSE /\ updating = FALSE
    /\ mutex = << >> /\ tasks = [t \in Task |-> Fresh]
    /\ up = FALSE /\ nonce = FALSE /\ authed = FALSE /\ pushing = FALSE
    /\ faults = 0 /\ calls = 0

Fault == faults < MaxFaults /\ faults' = faults + 1

\* No task can go on by itself: only then is there time for a new connection or for seconds of
\* silence.  After rspCode 400 a task sleeps.
Settled ==
    /\ \A t \in Task : \/ tasks[t].pc \notin {"start", "next", "answered", "clear"}
                       \/ tasks[t].ans = "refused"
    /\ mutex # << >> => tasks[Head(mutex)].pc \notin {"mutex", "lmutex"}

-----------------------------------------------------------------------------
(* send: the message is written at once when the connection is open.       *)

Written(r, cmd) == [r EXCEPT !.cmd = cmd, !.pc = IF up THEN "answer" ELSE "connect", !.ans = "none"]

\* send by a task t that is r: log in first.
Sending(t, r) ==
    IF logged_in THEN tasks' = [tasks EXCEPT ![t] = Written(r, "Op")] /\ UNCHANGED mutex
    ELSE tasks' = [tasks EXCEPT ![t] = [r EXCEPT !.pc = "mutex"]] /\ mutex' = Append(mutex, t)
Send(t, op) == Sending(t, [Fresh EXCEPT !.op = op, !.retry = RETRY_ATTEMPTS - 1])

\* _connect_if_needed.
Connect(t) ==
    /\ tasks[t].pc = "connect" /\ (up \/ Settled)
    /\ up' = TRUE
    /\ tasks' = [tasks EXCEPT ![t].pc = "answer"]
    /\ UNCHANGED <<flags, ends, logged_in, events_active, mutex, nonce, authed, pushing, faults, calls>>

Answer(t, ans) == tasks' = [tasks EXCEPT ![t].pc = "answered", ![t].ans = ans]

ConnectFails(t) ==
    /\ tasks[t].pc = "connect" /\ ~up /\ Fault
    /\ Answer(t, "lost")
    /\ UNCHANGED <<flags, ends, logged_in, events_active, mutex, net, calls>>

\* Mutant: during a firmware update the callback returns before it resets _events_active.
LoseUpdating(ts) ==
    LET mains == ~battery /\ ~webhook
        again == mains /\ subscribed /\ events_active /\ ~updating /\ ~kicked
        failed == [t \in Task |-> IF ts[t].pc = "answer"
                                  THEN [ts[t] EXCEPT !.pc = "answered", !.ans = "lost"] ELSE ts[t]]
    IN  /\ up' = FALSE /\ nonce' = FALSE /\ authed' = FALSE /\ pushing' = FALSE
        /\ logged_in' = FALSE
        /\ events_active' = (events_active /\ (~mains \/ updating))
        /\ kicked' = (kicked \/ again)
        /\ tasks' = IF again THEN [failed EXCEPT !["reestablish"] = [Fresh EXCEPT !.pc = "start"]]
                    ELSE failed
        /\ UNCHANGED <<battery, subscribed, webhook, updating, ends>>

\* The connection ends, the tasks being ts otherwise: every command that waits for its answer
\* fails, and _close_callback runs.
Lose(ts) ==
    LET mains == ~battery /\ ~webhook
        again == mains /\ subscribed /\ events_active /\ ~updating /\ ~kicked
        failed == [t \in Task |-> IF ts[t].pc = "answer"
                                  THEN [ts[t] EXCEPT !.pc = "answered", !.ans = "lost"] ELSE ts[t]]
    IN  /\ up' = FALSE /\ nonce' = FALSE /\ authed' = FALSE /\ pushing' = FALSE
        /\ logged_in' = FALSE
        /\ events_active' = (events_active /\ ~mains)
        /\ kicked' = (kicked \/ again)
        /\ tasks' = IF again THEN [failed EXCEPT !["reestablish"] = [Fresh EXCEPT !.pc = "start"]]
                    ELSE failed
        /\ UNCHANGED <<battery, subscribed, webhook, updating, ends>>

Lost ==
    /\ up /\ Fault /\ Lose(tasks)
    /\ UNCHANGED <<mutex, calls>>

\* The camera answers; it takes a login only with the nonce of the connection, and ends a connection
\* on which another command comes before a login.
Reply(t) ==
    LET r == tasks[t]
        answers(ans) == Answer(t, ans) /\ UNCHANGED <<flags, ends, up, logged_in, events_active>>
    IN  /\ r.pc = "answer"
        /\ \/ /\ r.cmd = "Nonce" /\ answers("ok")
              /\ nonce' = TRUE /\ UNCHANGED <<authed, pushing>>
           \/ /\ r.cmd = "Login" /\ answers(IF nonce THEN "ok" ELSE "error")
              /\ authed' = (authed \/ nonce) /\ UNCHANGED <<nonce, pushing>>
           \/ /\ r.cmd = "Logout" /\ answers("ok")
              /\ authed' = FALSE /\ pushing' = FALSE /\ UNCHANGED nonce
           \/ /\ r.cmd = "Op" /\ authed /\ answers("ok")
              /\ pushing' = (pushing \/ r.op = "subscribe") /\ UNCHANGED <<nonce, authed>>
           \/ r.cmd = "Op" /\ ~authed /\ Lose(tasks)
        /\ UNCHANGED <<mutex, faults, calls>>

\* No answer in time; refused: rspCode 400, that of a camera that wakes up; error: another one.
Fails(t) ==
    /\ tasks[t].pc = "answer" /\ Fault
    /\ \E ans \in {"lost", "refused", "error"} : Answer(t, ans)
    /\ UNCHANGED <<flags, ends, logged_in, events_active, mutex, net, calls>>

-----------------------------------------------------------------------------
(* login, by a task that has _login_mutex: the nonce, then the login.      *)

\* What becomes of a task whose send is over.
Over(t, how) ==
    CASE t = "keepalive" -> [Fresh EXCEPT !.pc = "sleep"]
      [] t = "user"      -> [Fresh EXCEPT !.pc = "next", !.op = tasks[t].op, !.ans = how]
      [] OTHER           -> [Fresh EXCEPT !.ans = how]

LogIn(t, cmd) == [tasks EXCEPT ![t] = Written([@ EXCEPT !.inner = RETRY_ATTEMPTS - 1], cmd)]

Granted(t) ==
    /\ tasks[t].pc = "mutex" /\ Head(mutex) = t
    /\ \/ logged_in /\ mutex' = Tail(mutex) /\ tasks' = [tasks EXCEPT ![t] = Written(@, "Op")]
       \/ ~logged_in /\ recent /\ mutex' = Tail(mutex) /\ tasks' = [tasks EXCEPT ![t] = Over(t, "raised")]
       \/ ~logged_in /\ ~recent /\ tasks' = LogIn(t, "Nonce") /\ UNCHANGED mutex
    /\ UNCHANGED <<flags, ends, logged_in, events_active, net, faults, calls>>

NonceOk(t) ==
    /\ tasks[t].pc = "answered" /\ tasks[t].cmd = "Nonce" /\ tasks[t].ans = "ok"
    /\ tasks' = LogIn(t, "Login")
    /\ UNCHANGED <<flags, ends, logged_in, events_active, mutex, net, faults, calls>>

LoginAgain(t) ==
    LET r == tasks[t]
    IN  /\ r.pc = "answered" /\ r.cmd \in {"Nonce", "Login"} /\ r.ans \in {"lost", "refused"} /\ r.inner > 0
        /\ tasks' = [tasks EXCEPT ![t] = Written([r EXCEPT !.inner = @ - 1], r.cmd)]
        /\ UNCHANGED <<flags, ends, logged_in, events_active, mutex, net, faults, calls>>

\* The finally clause of login: the time of the attempt, and the loop that closes the connection of
\* a battery camera.
LoginEnds ==
    /\ recent' = TRUE /\ loop' = (loop \/ battery)
    /\ mutex' = Tail(mutex)

LoginOk(t) ==
    /\ tasks[t].pc = "answered" /\ tasks[t].cmd = "Login" /\ tasks[t].ans = "ok"
    /\ logged_in' = TRUE
    /\ LoginEnds
    /\ tasks' = [tasks EXCEPT ![t] = Written([@ EXCEPT !.inner = 0], "Op")]
    /\ UNCHANGED <<flags, events_active, net, faults, calls>>

LoginRaises(t) ==
    LET r == tasks[t]
    IN  /\ r.pc = "answered" /\ r.cmd \in {"Nonce", "Login"}
        /\ r.ans = "error" \/ (r.ans # "ok" /\ r.inner = 0)
        /\ tasks' = [tasks EXCEPT ![t] = Over(t, "raised")]
        /\ UNCHANGED <<flags, logged_in, events_active, net, faults, calls>>

LoginFailed(t) == LoginRaises(t) /\ LoginEnds

\* A login that ends with status 401 leaves the time of the last attempt as it was.
LoginDenied(t) ==
    /\ LoginRaises(t) /\ tasks[t].cmd = "Login" /\ tasks[t].ans = "error"
    /\ loop' = (loop \/ battery) /\ mutex' = Tail(mutex)
    /\ UNCHANGED recent

-----------------------------------------------------------------------------
(* The answer of the command.                                              *)

Done(t) ==
    LET r == tasks[t]
    IN  /\ r.pc = "answered" /\ r.cmd = "Op"
        /\ r.ans \in {"ok", "error"} \/ r.retry = 0
        /\ tasks' = [tasks EXCEPT ![t] = Over(t, IF r.ans = "ok" THEN "ok" ELSE "raised")]
        /\ UNCHANGED <<flags, ends, logged_in, events_active, mutex, net, faults, calls>>

Again(t) ==
    LET r == tasks[t]
    IN  /\ r.pc = "answered" /\ r.cmd = "Op" /\ r.ans \in {"lost", "refused"} /\ r.retry > 0
        /\ Sending(t, [Fresh EXCEPT !.op = r.op, !.retry = r.retry - 1])
        /\ UNCHANGED <<flags, ends, logged_in, events_active, net, faults, calls>>

\* A task sends a command: once for each sender.
Begin(t) ==
    /\ t \in Sender /\ Idle(t) /\ tasks[t].ans = "none"
    /\ Send(t, "state")
    /\ UNCHANGED <<flags, ends, logged_in, events_active, net, faults, calls>>

\* _reestablish_connection.
Reestablish ==
    /\ tasks["reestablish"].pc = "start"
    /\ Send("reestablish", "subscribe")
    /\ UNCHANGED <<flags, ends, logged_in, events_active, net, faults, calls>>

\* Mutant: the keepalive never subscribes again.
WakeLinkType ==
    /\ tasks["keepalive"].pc = "sleep" /\ Settled
    /\ Send("keepalive", "keepalive")
    /\ UNCHANGED <<flags, ends, logged_in, events_active, net, faults, calls>>

\* _keepalive_loop: with LinkType, or with a subscription when no event came since the last one.
Wake ==
    /\ tasks["keepalive"].pc = "sleep" /\ Settled
    /\ Send("keepalive", IF events_active THEN "keepalive" ELSE "subscribe")
    /\ UNCHANGED <<flags, ends, logged_in, events_active, net, faults, calls>>

-----------------------------------------------------------------------------
(* The user subscribes, checks the subscription, unsubscribes, logs out.   *)

Call == Idle("user") /\ calls < MaxCalls /\ calls' = calls + 1

\* subscribe_events, or check_subscribe_events while there is no subscription.
Subscribe ==
    /\ Call /\ ~subscribed
    /\ subscribed' = ~(battery /\ ~webhook)
    /\ Send("user", IF battery /\ ~webhook THEN "webhook_on" ELSE "subscribe")
    /\ UNCHANGED <<battery, webhook, kicked, updating, ends, logged_in, events_active, net, faults>>

\* check_subscribe_events: the keepalive loop hangs.
CheckRestarts ==
    /\ Call /\ Fault /\ subscribed /\ ~battery /\ tasks["keepalive"].pc \notin {"idle", "sleep"}
    /\ events_active' = FALSE
    /\ mutex' = RemoveFirst(mutex, "keepalive")
    /\ tasks' = [tasks EXCEPT !["keepalive"] = [Fresh EXCEPT !.pc = "sleep"]]
    /\ recent' = (recent \/ (mutex # << >> /\ Head(mutex) = "keepalive" /\ tasks["keepalive"].pc # "mutex"))
    /\ UNCHANGED <<flags, loop, logged_in, net>>

WebhookChecked ==
    LET r == tasks["user"]
    IN  /\ r.pc = "next" /\ r.op \in {"webhook_on", "webhook_check"}
        /\ \/ /\ r.ans = "raised"
              /\ tasks' = [tasks EXCEPT !["user"] = Fresh] /\ UNCHANGED <<mutex, webhook, subscribed>>
           \/ /\ r.ans = "ok" /\ r.op = "webhook_on"
              /\ Send("user", "webhook_check") /\ UNCHANGED <<webhook, subscribed>>
           \/ /\ r.ans = "ok" /\ r.op = "webhook_check"
              /\ webhook' = TRUE /\ subscribed' = TRUE
              /\ Send("user", "subscribe")
        /\ UNCHANGED <<battery, kicked, updating, ends, logged_in, events_active, net, faults, calls>>

\* The subscription was sent, with or without success: the keepalive loop goes on from here.
Subscribed ==
    /\ tasks["user"].pc = "next" /\ tasks["user"].op = "subscribe"
    /\ tasks' = [tasks EXCEPT !["user"] = Fresh,
                              !["keepalive"] = IF Idle("keepalive") /\ ~battery
                                               THEN [Fresh EXCEPT !.pc = "sleep"] ELSE @]
    /\ UNCHANGED <<flags, ends, logged_in, events_active, mutex, net, faults, calls>>

\* Mutant: the keepalive that is cancelled does not give _login_mutex back.
UnsubscribedHeld ==
    LET k == tasks["keepalive"]
    IN  /\ subscribed' = FALSE /\ events_active' = FALSE
        /\ mutex' = Append(mutex, "user")
        /\ tasks' = [tasks EXCEPT !["keepalive"] = Fresh, !["user"] = [Fresh EXCEPT !.pc = "lmutex"]]
        /\ recent' = (recent \/ (mutex # << >> /\ Head(mutex) = "keepalive" /\ k.pc # "mutex"))
        /\ UNCHANGED <<battery, kicked, updating, loop, logged_in, net>>

\* The end of unsubscribe_events: the keepalive is cancelled, wherever it is, and logout begins.
Unsubscribed ==
    LET k == tasks["keepalive"]
    IN  /\ subscribed' = FALSE /\ events_active' = FALSE
        /\ mutex' = Append(RemoveFirst(mutex, "keepalive"), "user")
        /\ tasks' = [tasks EXCEPT !["keepalive"] = Fresh, !["user"] = [Fresh EXCEPT !.pc = "lmutex"]]
        /\ recent' = (recent \/ (mutex # << >> /\ Head(mutex) = "keepalive" /\ k.pc # "mutex"))
        /\ UNCHANGED <<battery, kicked, updating, loop, logged_in, net>>

Unsubscribe ==
    /\ Call /\ UNCHANGED faults
    /\ \/ ~webhook /\ Unsubscribed /\ UNCHANGED webhook
       \/ /\ webhook /\ events_active' = FALSE
          /\ Send("user", "webhook_off")
          /\ UNCHANGED <<flags, ends, logged_in, net>>

WebhookOff ==
    /\ tasks["user"].pc = "next" /\ tasks["user"].op = "webhook_off"
    /\ webhook' = (tasks["user"].ans # "ok")
    /\ Unsubscribed
    /\ UNCHANGED <<faults, calls>>

LogoutCall ==
    /\ Call
    /\ tasks' = [tasks EXCEPT !["user"].pc = "lmutex"] /\ mutex' = Append(mutex, "user")
    /\ UNCHANGED <<flags, ends, logged_in, events_active, net, faults>>

-----------------------------------------------------------------------------
(* logout, of the user, or of the loop that closes an idle connection.     *)

\* Mutant: while a response is awaited the loop ends, where it should sleep again.
LoopEnds ==
    /\ loop /\ Idle("closer")
    /\ loop' = FALSE
    /\ IF logged_in /\ \E t \in Task : tasks[t].pc = "answer" THEN UNCHANGED <<tasks, mutex>>
       ELSE tasks' = [tasks EXCEPT !["closer"].pc = "lmutex"] /\ mutex' = Append(mutex, "closer")
    /\ UNCHANGED <<flags, recent, logged_in, events_active, net, faults, calls>>

\* _battery_close_loop: not logged in any more, or no command for a while.
LoopBreaks ==
    /\ loop /\ Idle("closer")
    /\ logged_in => Settled /\ \A t \in Task : tasks[t].pc # "answer"
    /\ loop' = FALSE
    /\ tasks' = [tasks EXCEPT !["closer"].pc = "lmutex"] /\ mutex' = Append(mutex, "closer")
    /\ UNCHANGED <<flags, recent, logged_in, events_active, net, faults, calls>>

LogoutGranted(t) ==
    /\ tasks[t].pc = "lmutex" /\ Head(mutex) = t
    /\ \/ /\ subscribed /\ ~battery
          /\ mutex' = Tail(mutex) /\ tasks' = [tasks EXCEPT ![t] = Fresh] /\ UNCHANGED loop
       \/ /\ ~subscribed \/ battery
          /\ loop' = FALSE
          /\ tasks' = [tasks EXCEPT ![t].pc = IF logged_in THEN "drain" ELSE "clear"]
          /\ UNCHANGED mutex
    /\ UNCHANGED <<flags, recent, logged_in, events_active, net, faults, calls>>

\* Nothing waits for an answer, or 5 s have passed.
Drained(t) ==
    /\ tasks[t].pc = "drain"
    /\ \/ (\A u \in Task : tasks[u].pc # "answer") /\ UNCHANGED faults
       \/ (\E u \in Task : tasks[u].pc = "answer") /\ Fault
    /\ tasks' = [tasks EXCEPT ![t] = Written(@, "Logout")]
    /\ UNCHANGED <<flags, ends, logged_in, events_active, mutex, net, calls>>

Close(t) ==
    /\ tasks[t].pc = "answered" /\ tasks[t].cmd = "Logout"
    /\ LET closed == [tasks EXCEPT ![t].pc = "clear"]
       IN  \/ up /\ Lose(closed)
           \/ ~up /\ tasks' = closed /\ UNCHANGED <<flags, ends, logged_in, events_active, net>>
    /\ UNCHANGED <<mutex, faults, calls>>

\* Mutant: the time of the last login is kept.
ClearTimed(t) ==
    /\ tasks[t].pc = "clear"
    /\ events_active' = (events_active /\ webhook)
    /\ logged_in' = FALSE
    /\ mutex' = Tail(mutex)
    /\ tasks' = [tasks EXCEPT ![t] = Fresh]
    /\ UNCHANGED <<flags, ends, net, faults, calls>>

\* The end of _logout_no_mutex.
Clear(t) ==
    /\ tasks[t].pc = "clear"
    /\ events_active' = (events_active /\ webhook)
    /\ logged_in' = FALSE /\ recent' = FALSE
    /\ mutex' = Tail(mutex)
    /\ tasks' = [tasks EXCEPT ![t] = Fresh]
    /\ UNCHANGED <<flags, loop, net, faults, calls>>

-----------------------------------------------------------------------------
(* Events, the time, and a firmware update.                                *)

\* _parse_xml: an event comes over the connection.
PushEvent ==
    /\ ~events_active /\ up /\ pushing /\ subscribed
    /\ events_active' = TRUE
    /\ UNCHANGED <<flags, ends, logged_in, mutex, tasks, net, faults, calls>>

\* webhook_push_callback: the camera calls the webhook, to test it or with an event.
WebhookEvent ==
    /\ ~events_active /\ (webhook \/ tasks["user"].op = "webhook_check")
    /\ events_active' = TRUE
    /\ UNCHANGED <<flags, ends, logged_in, mutex, tasks, net, faults, calls>>

Later15 ==
    /\ recent /\ recent' = FALSE
    /\ UNCHANGED <<flags, loop, logged_in, events_active, mutex, tasks, net, faults, calls>>

Later60 ==
    /\ kicked /\ Idle("reestablish") /\ kicked' = FALSE
    /\ UNCHANGED <<battery, subscribed, webhook, updating, ends, logged_in, events_active, mutex, tasks,
                   net, faults, calls>>

UpdateBegins ==
    /\ ~updating /\ Fault /\ updating' = TRUE
    /\ UNCHANGED <<battery, subscribed, webhook, kicked, ends, logged_in, events_active, mutex, tasks, net,
                   calls>>

UpdateEnds ==
    /\ updating /\ updating' = FALSE
    /\ UNCHANGED <<battery, subscribed, webhook, kicked, ends, logged_in, events_active, mutex, tasks, net,
                   faults, calls>>

-----------------------------------------------------------------------------
Step(t) ==
    \/ Connect(t) \/ Reply(t) \/ Granted(t) \/ NonceOk(t) \/ LoginAgain(t) \/ LoginOk(t) \/ LoginFailed(t)
    \/ LoginDenied(t) \/ Done(t) \/ Again(t) \/ LogoutGranted(t) \/ Drained(t) \/ Close(t) \/ Clear(t)

UserStep == Step("user") \/ WebhookChecked \/ Subscribed \/ WebhookOff
ReestablishStep == Step("reestablish") \/ Reestablish
KeepaliveStep == Step("keepalive") \/ Wake
CloserStep == Step("closer") \/ LoopBreaks

Next ==
    \/ \E t \in Sender : Step(t) \/ Begin(t)
    \/ \E t \in Task : ConnectFails(t) \/ Fails(t)
    \/ UserStep \/ ReestablishStep \/ KeepaliveStep \/ CloserStep
    \/ Subscribe \/ CheckRestarts \/ Unsubscribe \/ LogoutCall
    \/ Lost \/ PushEvent \/ WebhookEvent \/ Later15 \/ Later60 \/ UpdateBegins \/ UpdateEnds

\* Every task goes on, every command is answered in the end, time passes, and a camera that pushes
\* has an event to push.
Fairness ==
    /\ \A t \in Sender : WF_vars(Step(t))
    /\ WF_vars(UserStep) /\ WF_vars(ReestablishStep) /\ WF_vars(KeepaliveStep) /\ WF_vars(CloserStep)
    /\ WF_vars(Later15) /\ WF_vars(PushEvent)

Spec == Init /\ [][Next]_vars /\ Fairness

-----------------------------------------------------------------------------
\* Types; and _login_mutex is held or waited for by exactly the tasks that log in or out.
TypeOK ==
    /\ {battery, logged_in, recent, subscribed, webhook, events_active, kicked, loop, updating, up, nonce,
        authed, pushing} \subseteq BOOLEAN
    /\ faults \in 0..MaxFaults /\ calls \in 0..MaxCalls
    /\ tasks \in [Task -> [pc : {"idle", "start", "sleep", "next", "mutex", "lmutex", "connect", "answer",
                                 "answered", "drain", "clear"},
                           op : {"none", "state", "subscribe", "keepalive", "webhook_on", "webhook_check",
                                 "webhook_off"},
                           cmd : {"none", "Nonce", "Login", "Op", "Logout"},
                           retry : 0..(RETRY_ATTEMPTS - 1), inner : 0..(RETRY_ATTEMPTS - 1),
                           ans : {"none", "ok", "lost", "refused", "error", "raised"}]]
    /\ IsInjective(mutex)
    /\ ToSet(mutex) = {t \in Task : \/ tasks[t].pc \in {"mutex", "lmutex", "drain", "clear"}
                                    \/ /\ tasks[t].cmd \in {"Nonce", "Login", "Logout"}
                                       /\ tasks[t].pc \in {"connect", "answer", "answered"}}

\* Between losses, re-subscriptions, logouts and events of a connection that is gone, a mains-powered
\* camera is taken to push events only while it does: what the keepalive sends depends on it.
EventsAreReal == events_active /\ ~battery => pushing

\* A logout, of the user or of the loop that spares the battery, costs no command of another task:
\* what it cuts off is sent again after a login that the 15 s between logins do not forbid.
OnlyFaultsRaise == \A s \in Sender : tasks[s].ans = "raised" => faults > 0

\* However often the connection is lost, a mains-powered camera that is subscribed pushes events again.
Resubscribed == []<>(battery \/ ~subscribed \/ events_active)

\* A battery camera is logged out whenever nobody sends: no order of logins, logouts and losses leaves
\* it logged in without a loop that closes the connection.
BatterySleeps == []<>(~battery \/ ~logged_in)

=============================================================================
