---------------------------- MODULE HttpSession -----------------------------
(***************************************************************************)
(* The HTTP session of Host (api.py): tasks that send a command share one  *)
(* token, log in under _login_mutex when its lease is over, and post one   *)
(* at a time under _send_mutex.  expire_session, which every kind of error *)
(* calls, ends the lease and closes the aiohttp session under the feet of  *)
(* the other tasks; the lease also runs out by itself.  A step runs from   *)
(* one await to the next.  Commands are opaque here; HttpBatch has what is *)
(* inside them.                                                            *)
(***************************************************************************)
EXTENDS Naturals, FiniteSets, SequencesExt

CONSTANTS Sender,         \* tasks that send a command
          Leaver,         \* tasks that call logout
          Ports,          \* the ports to try, in order
          MaxLogins,      \* bound: sessions the camera gives out
          MaxMishaps,     \* bound: requests and answers that go wrong, and leases that run out
          RETRY_ATTEMPTS

ASSUME HttpSessionAssumption ==
    /\ Sender \cap Leaver = {}
    /\ Ports \in Seq(Range(Ports)) /\ Ports # << >>
    /\ MaxLogins \in Nat /\ MaxMishaps \in Nat /\ RETRY_ATTEMPTS \in Nat \ {0}

Task == Sender \cup Leaver

VARIABLES
    port,      \* _port and _use_https, "none" before the first login
    token,     \* _token, 0 for None
    lease,     \* _lease_time is more than 300 s from now
    closed,    \* _aiohttp_session is closed
    mutex,     \* the tasks at _login_mutex: its holder, then those that wait
    wire,      \* the tasks at _send_mutex
    tasks,     \* where every task is
    open,      \* camera: the port its HTTP API listens on
    rtmp,      \* camera: its RTMP port is open, without which some refuse the login
    sessions,  \* camera: the tokens it accepts
    issued,    \* camera: number of tokens given out
    forgot,    \* history: the camera has restarted
    lost,      \* history: answers to Login and Logout requests that were lost
    faults,    \* faults so far
    ended,     \* leases that ran out so far
    overtaken  \* history: senders the lease of whose token ended while they were sending with it

client == <<port, token, lease, closed, mutex>>
camera == <<open, rtmp, sessions, issued, forgot>>
vars == <<client, wire, tasks, camera, lost, faults, ended, overtaken>>

Fresh == [pc |-> "idle", cmd |-> "Cmd", tok |-> 0, retry |-> 0, inner |-> 0, attempt |-> 1,
          try |-> << >>, bc |-> TRUE, ans |-> "none"]
Ended(r, how) == [Fresh EXCEPT !.pc = how]

Init ==
    /\ port = "none" /\ token = 0 /\ lease = FALSE /\ closed = FALSE
    /\ mutex = << >> /\ wire = << >>
    /\ tasks = [t \in Task |-> Fresh]
    /\ open \in Range(Ports) /\ rtmp \in BOOLEAN /\ sessions = {} /\ issued = 0 /\ forgot = FALSE
    /\ lost = 0 /\ faults = 0 /\ ended = 0 /\ overtaken = {}

Fault(t) == faults + ended < MaxMishaps /\ faults' = faults + 1
Valid == token # 0 /\ lease
Holds(t) == mutex # << >> /\ Head(mutex) = t

-----------------------------------------------------------------------------
(* send_chunk up to the request: log in, take the token.                   *)

\* Mutant: a login that another task has begun is taken for done.
LogInBegun(t, r) ==
    IF Valid \/ mutex # << >>
    THEN /\ tasks' = [tasks EXCEPT ![t] = [r EXCEPT !.pc = "send", !.cmd = "Cmd", !.tok = token]]
         /\ UNCHANGED mutex
    ELSE /\ tasks' = [tasks EXCEPT ![t] = [r EXCEPT !.pc = "mutex"]]
         /\ mutex' = Append(mutex, t)

\* login(), called by task t that goes on as r: nothing to do, or wait for the mutex.
LogIn(t, r) ==
    IF Valid THEN /\ tasks' = [tasks EXCEPT ![t] = [r EXCEPT !.pc = "send", !.cmd = "Cmd", !.tok = token]]
                  /\ UNCHANGED mutex
    ELSE /\ tasks' = [tasks EXCEPT ![t] = [r EXCEPT !.pc = "mutex"]]
         /\ mutex' = Append(mutex, t)

\* An attempt to send: _login_open_port, or the search for the port the first time.
Attempt(t, r) ==
    IF port = "none" THEN tasks' = [tasks EXCEPT ![t] = [r EXCEPT !.pc = "probe"]] /\ UNCHANGED mutex
    ELSE LogIn(t, [r EXCEPT !.attempt = 1])

Start(t) ==
    /\ t \in Sender /\ tasks[t].pc = "idle"
    /\ port = "none" => \A u \in Task : tasks[u].pc \in {"idle", "ok", "raised"}
    /\ Attempt(t, [tasks[t] EXCEPT !.retry = RETRY_ATTEMPTS - 1])
    /\ UNCHANGED <<port, token, lease, closed, wire, camera, lost, faults>>

\* _login_try_ports asks over Baichuan which ports are enabled, else it tries the default ones.
Probe(t) ==
    /\ tasks[t].pc = "probe"
    /\ \E available \in BOOLEAN :
          /\ IF available THEN UNCHANGED faults ELSE Fault(t)
          /\ LET try == IF available THEN <<open>> ELSE Ports
             IN  /\ port' = Head(try)
                 /\ LogIn(t, [tasks[t] EXCEPT !.attempt = 0, !.try = Tail(try), !.bc = available])
    /\ UNCHANGED <<token, lease, closed, wire, camera, lost>>

\* LoginError: the next port; or the port that Baichuan says is open, and once more after the RTMP
\* port was opened too.
NextPort(t) ==
    LET r == tasks[t]
        Raise == tasks' = [tasks EXCEPT ![t] = Ended(r, "raised")] /\ UNCHANGED <<port, mutex, rtmp>>
    IN  /\ r.pc = "ports"
        /\ CASE r.attempt = 0 /\ r.try # << >> ->
                  /\ port' = Head(r.try)
                  /\ LogIn(t, [r EXCEPT !.try = Tail(r.try)])
                  /\ UNCHANGED <<rtmp, faults>>
             [] r.attempt = 1 \/ (r.attempt = 0 /\ r.try = << >> /\ r.bc) ->
                  \/ /\ port' = open
                     /\ LogIn(t, [r EXCEPT !.attempt = 2])
                     /\ UNCHANGED <<rtmp, faults>>
                  \/ Fault(t) /\ Raise
             [] r.attempt = 2 /\ ~rtmp ->
                  \/ /\ rtmp' = TRUE
                     /\ LogIn(t, [r EXCEPT !.attempt = 3])
                     /\ UNCHANGED <<port, faults>>
                  \/ Fault(t) /\ Raise
             [] OTHER -> Raise /\ UNCHANGED faults
        /\ UNCHANGED <<token, lease, closed, wire, open, sessions, issued, forgot, lost>>

Leave(t) ==
    /\ t \in Leaver /\ tasks[t].pc = "idle"
    /\ tasks' = [tasks EXCEPT ![t].pc = "mutex"]
    /\ mutex' = Append(mutex, t)
    /\ UNCHANGED <<port, token, lease, closed, wire, camera, lost, faults>>

Exchange(r, cmd) == [r EXCEPT !.pc = "send", !.cmd = cmd, !.tok = IF cmd = "Login" THEN 0 ELSE token,
                              !.inner = RETRY_ATTEMPTS - 1]

\* The aiohttp session is closed by task t, everything else being cs: answers that other tasks are
\* reading may be cut off.
CutOff(t, cs) ==
    /\ closed' = TRUE
    /\ \E cut \in SUBSET {u \in Task \ {t} : tasks[u].pc = "answered"} :
          /\ tasks' = [u \in Task |-> IF u \in cut THEN [cs[u] EXCEPT !.ans = "lost"] ELSE cs[u]]
          /\ lost' = lost + Cardinality({u \in cut : cs[u].cmd # "Cmd" /\ cs[u].ans # "lost"})

\* clear_token, after the Logout or when there was no token.
LoggedOut(t, r, broken) ==
    LET cs == [tasks EXCEPT ![t] = IF t \in Leaver THEN Ended(r, "ok") ELSE Exchange(r, "Login")]
    IN  /\ token' = 0 /\ lease' = FALSE
        /\ mutex' = IF t \in Leaver THEN Tail(mutex) ELSE mutex
        /\ IF broken \/ t \in Leaver THEN CutOff(t, cs) ELSE tasks' = cs /\ UNCHANGED <<closed, lost>>

\* Mutant: the lease is not looked at again when the mutex is granted.
GrantedAgain(t) ==
    LET r == tasks[t]
    IN  /\ r.pc = "mutex" /\ Holds(t)
        /\ IF token # 0 THEN tasks' = [tasks EXCEPT ![t] = Exchange(r, "Logout")]
                             /\ UNCHANGED <<token, lease, closed, mutex, lost>>
           ELSE LoggedOut(t, r, FALSE)
        /\ UNCHANGED <<port, wire, camera, faults>>

\* Mutant: no Logout before the Login.
GrantedNoLogout(t) ==
    LET r == tasks[t]
    IN  /\ r.pc = "mutex" /\ Holds(t)
        /\ IF t \in Sender /\ Valid
           THEN /\ mutex' = Tail(mutex)
                /\ tasks' = [tasks EXCEPT ![t] = [r EXCEPT !.pc = "send", !.cmd = "Cmd", !.tok = token]]
                /\ UNCHANGED <<token, lease, closed, lost>>
           ELSE LoggedOut(t, r, FALSE)
        /\ UNCHANGED <<port, wire, camera, faults>>

Granted(t) ==
    LET r == tasks[t]
    IN  /\ r.pc = "mutex" /\ Holds(t)
        /\ \/ /\ t \in Sender /\ Valid
              /\ mutex' = Tail(mutex)
              /\ tasks' = [tasks EXCEPT ![t] = [r EXCEPT !.pc = "send", !.cmd = "Cmd", !.tok = token]]
              /\ UNCHANGED <<token, lease, closed, lost>>
           \/ /\ ~(t \in Sender /\ Valid) /\ token # 0
              /\ tasks' = [tasks EXCEPT ![t] = Exchange(r, "Logout")]
              /\ UNCHANGED <<token, lease, closed, mutex, lost>>
           \/ /\ token = 0
              /\ LoggedOut(t, r, FALSE)
        /\ UNCHANGED <<port, wire, camera, faults>>

-----------------------------------------------------------------------------
(* The request: the commands that go over Baichuan were waited for since   *)
(* the token was taken; then the turn at _send_mutex.                      *)

Queue(t) ==
    /\ tasks[t].pc = "send"
    /\ tasks' = [tasks EXCEPT ![t].pc = "queued"]
    /\ wire' = Append(wire, t)
    /\ closed' = FALSE
    /\ UNCHANGED <<port, token, lease, mutex, camera, lost, faults>>

Answered(t, tok, ans) == tasks' = [tasks EXCEPT ![t].pc = "answered", ![t].tok = tok, ![t].ans = ans]

\* What the camera does with the request, answering ans unless the answer is lost.
Effect(t, tok, reply) ==
    CASE tasks[t].cmd = "Cmd"    -> /\ reply = IF tasks[t].tok \in sessions THEN "ok" ELSE "nologin"
                                    /\ tok = tasks[t].tok /\ UNCHANGED camera
      [] tasks[t].cmd = "Logout" -> /\ reply = "ok" /\ tok = tasks[t].tok
                                    /\ sessions' = sessions \ {tok} /\ UNCHANGED <<open, rtmp, issued, forgot>>
      [] tasks[t].cmd = "Login"  -> \/ /\ reply = "ok" /\ tok = issued + 1 /\ issued < MaxLogins /\ rtmp
                                       /\ issued' = issued + 1 /\ sessions' = sessions \cup {tok}
                                       /\ UNCHANGED <<open, rtmp, forgot>>
                                    \/ /\ reply = "refused" /\ tok = 0 /\ (issued = MaxLogins \/ ~rtmp)
                                       /\ UNCHANGED camera

Turn(t) == tasks[t].pc = "queued" /\ Head(wire) = t /\ ~closed /\ wire' = Tail(wire)

Serve(t) ==
    /\ Turn(t) /\ port = open
    /\ \E tok \in 0..MaxLogins, reply \in {"ok", "nologin", "refused"} : Effect(t, tok, reply) /\ Answered(t, tok, reply)
    /\ UNCHANGED <<client, lost, faults>>

NoServer(t) ==
    /\ Turn(t) /\ port # open
    /\ tasks' = [tasks EXCEPT ![t].pc = "answered", ![t].ans = "lost"]
    /\ lost' = lost + (IF tasks[t].cmd = "Cmd" THEN 0 ELSE 1)
    /\ UNCHANGED <<client, camera, faults>>

\* The connection fails or the answer takes too long, before or after the camera acted on it.
Lost(t) ==
    /\ Turn(t) /\ port = open /\ Fault(t)
    /\ \/ UNCHANGED camera
       \/ \E tok \in 0..MaxLogins, reply \in {"ok", "nologin", "refused"} : Effect(t, tok, reply)
    /\ \E ans \in {"lost", "timeout"} :
          tasks' = [tasks EXCEPT ![t].pc = "answered", ![t].ans = ans]
    /\ lost' = lost + (IF tasks[t].cmd = "Cmd" THEN 0 ELSE 1)
    /\ UNCHANGED client

\* HTTP status 404 or 502; another error; a Login refused for too many sessions.
Failed(t) ==
    /\ Turn(t) /\ port = open /\ Fault(t)
    /\ \E ans \in {"gone", "error", "refused"} :
          /\ ans = "refused" => tasks[t].cmd = "Login"
          /\ tasks' = [tasks EXCEPT ![t].pc = "answered", ![t].ans = ans]
    /\ lost' = lost + (IF tasks[t].cmd = "Logout" THEN 1 ELSE 0)
    /\ UNCHANGED <<client, camera>>

\* The aiohttp session was closed while the request waited for its turn, or was being posted.
Closed(t) ==
    /\ tasks[t].pc = "queued" /\ Head(wire) = t /\ closed
    /\ wire' = Tail(wire)
    /\ \E ans \in {"closed", "lost"} : Answered(t, tasks[t].tok, ans)
    /\ lost' = lost + (IF tasks[t].cmd = "Cmd" THEN 0 ELSE 1)
    /\ UNCHANGED <<client, camera, faults>>

\* The timeout includes the wait for the mutex.
TurnTimeout(t) ==
    /\ tasks[t].pc = "queued" /\ Head(wire) # t /\ Fault(t)
    /\ wire' = RemoveFirst(wire, t)
    /\ Answered(t, tasks[t].tok, "timeout")
    /\ lost' = lost + (IF tasks[t].cmd = "Cmd" THEN 0 ELSE 1)
    /\ UNCHANGED <<client, camera>>

-----------------------------------------------------------------------------
(* The answer.                                                             *)

\* expire_session.
Expire(t, cs) == lease' = FALSE /\ CutOff(t, cs)

CmdOk(t) ==
    /\ tasks[t].pc = "answered" /\ tasks[t].cmd = "Cmd" /\ tasks[t].ans = "ok"
    /\ tasks' = [tasks EXCEPT ![t] = Ended(@, "ok")]
    /\ UNCHANGED <<client, wire, camera, lost, faults>>

Left(r) == IF r.cmd = "Cmd" THEN r.retry ELSE r.inner

\* send again: Login and Logout as they are, another command logs in first.  (After an expire the
\* lease is over.)
Resent(r) == IF r.cmd = "Cmd" THEN [r EXCEPT !.retry = @ - 1, !.attempt = 1, !.ans = "none"]
             ELSE [r EXCEPT !.pc = "send", !.inner = @ - 1, !.ans = "none"]

\* Errors that are tried again without ending the session.
Again(t) ==
    LET r == tasks[t]
    IN  /\ r.pc = "answered" /\ r.ans \in {"lost", "timeout", "closed"} /\ Left(r) > 0
        /\ IF r.cmd = "Cmd" THEN Attempt(t, Resent(r))
           ELSE tasks' = [tasks EXCEPT ![t] = Resent(r)] /\ UNCHANGED mutex
        /\ UNCHANGED <<port, token, lease, closed, wire, camera, lost, faults>>

\* Errors that end the session and are tried again.
ExpireAgain(t) ==
    LET r == tasks[t]
    IN  /\ r.pc = "answered" /\ r.ans \in {"nologin", "gone"} /\ Left(r) > 0
        /\ IF r.cmd = "Cmd"
           THEN Expire(t, [tasks EXCEPT ![t] = [Resent(r) EXCEPT !.pc = "mutex"]]) /\ mutex' = Append(mutex, t)
           ELSE Expire(t, [tasks EXCEPT ![t] = Resent(r)]) /\ UNCHANGED mutex
        /\ UNCHANGED <<port, token, wire, camera, faults>>

\* The last error of a command is raised, after the session was ended.
CmdRaised(t) ==
    LET r == tasks[t]
    IN  /\ r.pc = "answered" /\ r.cmd = "Cmd"
        /\ r.ans = "error" \/ (r.ans # "ok" /\ r.retry = 0)
        /\ Expire(t, [tasks EXCEPT ![t] = Ended(r, "raised")])
        /\ UNCHANGED <<port, token, mutex, wire, camera, faults>>

\* A Logout that failed is only logged, unless it ends with the RuntimeError of aiohttp.
LogoutEnds(t) ==
    LET r == tasks[t]
    IN  /\ r.pc = "answered" /\ r.cmd = "Logout"
        /\ r.ans = "ok" \/ r.ans = "error" \/ (r.ans \notin {"ok", "closed"} /\ r.inner = 0)
        /\ LoggedOut(t, r, r.ans # "ok")
        /\ UNCHANGED <<port, wire, camera, faults>>

LoginOk(t) ==
    LET r == tasks[t]
    IN  /\ r.pc = "answered" /\ r.cmd = "Login" /\ r.ans = "ok"
        /\ token' = r.tok /\ lease' = TRUE
        /\ mutex' = Tail(mutex)
        /\ tasks' = [tasks EXCEPT ![t] = [r EXCEPT !.pc = "send", !.cmd = "Cmd", !.ans = "none"]]
        /\ UNCHANGED <<port, closed, wire, camera, lost, faults>>

\* Mutant: the next port is tried with the mutex held.
LoginFailedHolds(t) ==
    LET r == tasks[t]
    IN  /\ r.pc = "answered" /\ r.cmd = "Login"
        /\ r.ans \in {"error", "refused"} \/ (r.ans \in {"lost", "gone"} /\ r.inner = 0)
        /\ Expire(t, [tasks EXCEPT ![t] = [r EXCEPT !.pc = "ports", !.cmd = "Cmd", !.ans = "none"]])
        /\ UNCHANGED <<port, token, mutex, wire, camera, faults>>

\* LoginError: the mutex is released, and _login_open_port looks for another port.
LoginFailed(t) ==
    LET r == tasks[t]
    IN  /\ r.pc = "answered" /\ r.cmd = "Login"
        /\ r.ans \in {"error", "refused"} \/ (r.ans \in {"lost", "gone"} /\ r.inner = 0)
        /\ mutex' = Tail(mutex)
        /\ LET cs == [tasks EXCEPT ![t] = [r EXCEPT !.pc = "ports", !.cmd = "Cmd", !.ans = "none"]]
           IN  IF r.ans = "refused" THEN tasks' = cs /\ UNCHANGED <<lease, closed, lost>> ELSE Expire(t, cs)
        /\ UNCHANGED <<port, token, wire, camera, faults>>

\* Mutant: the mutex is not released when the login ends with an error that is not caught.
LoginEscapesHolds(t) ==
    LET r == tasks[t]
    IN  /\ r.pc = "answered" /\ r.inner = 0
        /\ (r.cmd = "Login" /\ r.ans = "timeout") \/ (r.cmd \in {"Login", "Logout"} /\ r.ans = "closed")
        /\ Expire(t, [tasks EXCEPT ![t] = Ended(r, "raised")])
        /\ UNCHANGED <<port, token, mutex, wire, camera, faults>>

\* The timeout of a Login is not made a LoginError, nor is the RuntimeError of aiohttp: both pass
\* through login and _login_open_port.
LoginEscapes(t) ==
    LET r == tasks[t]
    IN  /\ r.pc = "answered" /\ r.inner = 0
        /\ (r.cmd = "Login" /\ r.ans = "timeout") \/ (r.cmd \in {"Login", "Logout"} /\ r.ans = "closed")
        /\ mutex' = Tail(mutex)
        /\ Expire(t, [tasks EXCEPT ![t] = Ended(r, "raised")])
        /\ UNCHANGED <<port, token, wire, camera, faults>>

-----------------------------------------------------------------------------
(* The camera restarts, or moves its HTTP API to another port.             *)

Restart ==
    /\ faults + ended < MaxMishaps /\ faults' = faults + 1
    /\ sessions' = {} /\ forgot' = TRUE
    /\ open' \in Range(Ports)
    /\ UNCHANGED <<client, wire, tasks, rtmp, issued, lost>>

Step(t) ==
    \/ Probe(t) \/ NextPort(t) \/ Granted(t) \/ Queue(t)
    \/ Serve(t) \/ NoServer(t) \/ Lost(t) \/ Failed(t) \/ Closed(t) \/ TurnTimeout(t)
    \/ CmdOk(t) \/ Again(t) \/ ExpireAgain(t) \/ CmdRaised(t)
    \/ LogoutEnds(t) \/ LoginOk(t) \/ LoginFailed(t) \/ LoginEscapes(t)

\* The lease comes within 300 s of its end.  The camera accepts the token for another 300 s; that a
\* request takes longer than that is left out.
LeaseOver ==
    /\ lease /\ faults + ended < MaxMishaps
    /\ lease' = FALSE /\ ended' = ended + 1
    /\ UNCHANGED <<port, token, closed, mutex, wire, tasks, camera, lost, faults>>

\* Task t has taken the token for a command and has not looked at what came of it.
Sending(t) == tasks[t].cmd = "Cmd" /\ tasks[t].pc \in {"send", "queued", "answered"}

\* Which of the tasks that go on with an attempt have had the lease of their token end.
Noted ==
    overtaken' = {t \in Sender : /\ Sending(t) /\ Sending(t)'
                                 /\ ~(tasks[t].pc = "answered" /\ tasks'[t].pc = "send")
                                 /\ t \in overtaken \/ (lease /\ ~lease')}

Next == /\ \/ (\E t \in Task : Start(t) \/ Leave(t) \/ Step(t)) /\ UNCHANGED ended
           \/ Restart /\ UNCHANGED ended
           \/ LeaseOver
        /\ Noted

\* An await is answered or times out: as long as a call can go on, one does.
Spec == Init /\ [][Next]_vars /\ WF_vars((\E t \in Task : Step(t)) /\ UNCHANGED ended /\ Noted)

-----------------------------------------------------------------------------
(* Properties.                                                             *)

\* Type invariant: the holder of _login_mutex is in login or logout, and a task posts once at a time.
TypeOK ==
    /\ port \in Range(Ports) \cup {"none"} /\ token \in 0..MaxLogins /\ lease \in BOOLEAN
    /\ sessions \subseteq 1..issued /\ issued \in 0..MaxLogins /\ faults \in 0..MaxMishaps
    /\ IsInjective(mutex) /\ IsInjective(wire)
    /\ Range(wire) = {t \in Task : tasks[t].pc = "queued"}
    /\ \A t \in Task : tasks[t].cmd # "Cmd" => Holds(t)

\* The token of a running lease is one the camera knows, unless the camera has restarted, or the task
\* that logs out has sent its Logout.  A task that took its token before may still post an older one.
TokenKnown ==
    Valid => \/ token \in sessions \/ forgot
             \/ \E t \in Leaver : tasks[t].pc \in {"answered", "queued", "send"}

\* The camera holds at most one session of this client for each lost answer to a Login or a
\* Logout, besides the current one: "Ensure there would be no "max session" error".
SessionsAccounted ==
    LET arriving == {tasks[t].tok : t \in {u \in Task : tasks[u].cmd = "Login"}}
    IN  Cardinality(sessions \ (arriving \cup {token})) <= lost

\* As long as nothing goes wrong and nobody logs out, a command is answered the first time, the first
\* ones of several tasks included, unless the lease of its token ended after it was taken: because
\* it ran out, or because such a command of another task failed and ended the session.
FirstTry ==
    (faults = 0 /\ \A t \in Leaver : tasks[t].pc = "idle")
        => \A t \in Sender : tasks[t].cmd = "Cmd" /\ tasks[t].ans \notin {"none", "ok"}
                              => ended > 0 /\ t \in overtaken

\* Every call of send and of logout ends: none waits for ever at one of the two mutexes, and the
\* attempts of tasks that end each other's session run out.
EveryCallEnds == []<>(\A t \in Task : tasks[t].pc \in {"idle", "ok", "raised"})
=============================================================================
