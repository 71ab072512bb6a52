------------------------- MODULE HttpSessionProofs --------------------------
(***************************************************************************)
(* Proofs about HttpSession, for any tasks, ports, bounds and number of    *)
(* attempts.                                                               *)
(***************************************************************************)
EXTENDS HttpSession, DataLemmas, FiniteSetTheorems

USE HttpSessionAssumption

Pcs == {"idle", "ok", "raised", "probe", "ports", "mutex", "send", "queued", "answered"}
Answers == {"none", "ok", "nologin", "refused", "lost", "timeout", "gone", "error", "closed"}
Attempts == 0..(RETRY_ATTEMPTS - 1)

Record == [pc : Pcs, cmd : {"Cmd", "Login", "Logout"}, tok : 0..MaxLogins, retry : Attempts,
           inner : Attempts, attempt : 0..3, try : Seq(Range(Ports)), bc : BOOLEAN, ans : Answers]

Types == /\ tasks \in [Task -> Record]
         /\ mutex \in Seq(Task)
         /\ token \in 0..MaxLogins
         /\ lease \in BOOLEAN

Busy == {"send", "queued", "answered"}

(* Who logs in or out has the mutex; the lease does not run while a sender *)
(* logs out, there is no token while one logs in, and a token that arrives *)
(* is one of the camera.                                                   *)
TaskInv(t) ==
    LET r == tasks[t]
    IN  /\ r.cmd # "Cmd" => Holds(t) /\ r.pc \in Busy
        /\ t \in Leaver => /\ r.cmd # "Login" /\ r.pc \notin {"probe", "ports"}
                           /\ r.pc \in Busy => r.cmd = "Logout"
        /\ t \in Sender /\ r.cmd = "Logout" => ~Valid
        /\ r.cmd = "Login" => token = 0
        /\ r.cmd = "Login" /\ r.pc = "answered" /\ r.ans = "ok" => r.tok \in sessions \/ forgot

IInv == Types /\ TokenKnown /\ \A t \in Task : TaskInv(t)

-----------------------------------------------------------------------------
(* Other tasks change by CutOff only.                                      *)
Same(r, old) == /\ r.pc = old.pc /\ r.cmd = old.cmd /\ r.tok = old.tok
                /\ r.ans = old.ans \/ r.ans = "lost"

(* A step of task t.                                                       *)
StepOf(t) == /\ tasks' \in [Task -> Record]
             /\ \A u \in Task \ {t} : Same(tasks'[u], tasks[u])
             /\ mutex' \in Seq(Task)
             /\ \A u \in Task \ {t} : Holds(u) => Holds(u)'
             /\ lease' \in BOOLEAN

(* Token and sessions stay, and the lease does not begin.                  *)
Calm == UNCHANGED <<token, sessions, forgot>> /\ (lease' = lease \/ lease' = FALSE)

LEMMA ValidStays ==
  ASSUME IInv, Calm
  PROVE  Valid' => Valid
<1>1. lease \in BOOLEAN
  BY DEF IInv, Types
<1>2. CASE lease' = lease
  BY <1>2 DEF Calm, Valid
<1>3. CASE lease' = FALSE
  BY <1>3 DEF Valid
<1> QED
  BY <1>2, <1>3 DEF Calm

LEMMA Disjoint == \A t \in Task : t \in Leaver <=> t \notin Sender
  BY DEF Task

LEMMA GoesOn ==
  ASSUME IInv, NEW t \in Task, StepOf(t), Calm, TaskInv(t)',
         t \in Leaver /\ tasks[t].pc \in Busy => tasks'[t].pc \in Busy \/ ~Valid'
  PROVE  IInv'
<1>1. Types'
  BY DEF StepOf, Calm, IInv, Types
<1>2. ASSUME NEW u \in Task \ {t} PROVE TaskInv(u)'
  <2>1. TaskInv(u) /\ Same(tasks'[u], tasks[u]) /\ (Holds(u) => Holds(u)')
    BY DEF IInv, StepOf
  <2>2. Valid' => Valid
    BY ValidStays
  <2> QED
    BY <2>1, <2>2 DEF TaskInv, Same, Calm
<1>3. TokenKnown'
  <2> SUFFICES ASSUME Valid' PROVE TokenKnown'
    BY DEF TokenKnown
  <2>1. Valid
    BY ValidStays
  <2>2. CASE token \in sessions \/ forgot
    BY <2>2 DEF TokenKnown, Calm
  <2>3. CASE \E l \in Leaver : tasks[l].pc \in Busy
    <3>1. PICK l \in Leaver : tasks[l].pc \in Busy
      BY <2>3
    <3>2. l \in Task
      BY DEF Task
    <3>3. tasks'[l].pc \in Busy
      BY <3>1, <3>2 DEF StepOf, Same
    <3> QED
      BY <3>3 DEF TokenKnown, Busy
  <2> QED
    BY <2>1, <2>2, <2>3 DEF IInv, TokenKnown, Busy
<1> QED
  BY <1>1, <1>2, <1>3 DEF IInv

(* The holder of the mutex may change the token and the sessions.          *)
LEMMA HolderGoesOn ==
  ASSUME IInv, NEW t \in Task, StepOf(t), Holds(t), token' \in 0..MaxLogins, TaskInv(t)', TokenKnown'
  PROVE  IInv'
<1>1. Types'
  BY DEF StepOf, IInv, Types
<1>2. ASSUME NEW u \in Task \ {t} PROVE TaskInv(u)'
  <2>1. TaskInv(u) /\ Same(tasks'[u], tasks[u])
    BY DEF IInv, StepOf
  <2>2. tasks[u].cmd = "Cmd"
    BY <2>1 DEF Holds, TaskInv
  <2> QED
    BY <2>1, <2>2 DEF TaskInv, Same
<1> QED
  BY <1>1, <1>2 DEF IInv

LEMMA MutexStep ==
  ASSUME NEW t \in Task, mutex \in Seq(Task),
         mutex' = mutex \/ mutex' = Append(mutex, t) \/ (Holds(t) /\ mutex' = Tail(mutex))
  PROVE  mutex' \in Seq(Task) /\ \A u \in Task \ {t} : Holds(u) => Holds(u)'
<1>1. mutex' \in Seq(Task)
  <2>1. CASE mutex' = mutex
    BY <2>1
  <2>2. CASE mutex' = Append(mutex, t)
    BY <2>2
  <2>3. CASE Holds(t) /\ mutex' = Tail(mutex)
    BY <2>3 DEF Holds
  <2> QED
    BY <2>1, <2>2, <2>3
<1>2. \A u \in Task \ {t} : Holds(u) => Holds(u)'
  BY DEF Holds
<1> QED
  BY <1>1, <1>2

(* A step of one task and the mutex, the other tasks being left alone.     *)
LEMMA StepOfOne ==
  ASSUME IInv, NEW t \in Task, NEW w \in Record, tasks' = [tasks EXCEPT ![t] = w],
         mutex' = mutex \/ mutex' = Append(mutex, t) \/ (Holds(t) /\ mutex' = Tail(mutex)),
         lease' \in BOOLEAN
  PROVE  StepOf(t) /\ tasks'[t] = w
<1>1. tasks \in [Task -> Record] /\ mutex \in Seq(Task)
  BY DEF IInv, Types
<1>2. tasks' \in [Task -> Record] /\ tasks'[t] = w /\ \A u \in Task \ {t} : Same(tasks'[u], tasks[u])
  BY <1>1 DEF Same
<1>3. mutex' \in Seq(Task) /\ \A u \in Task \ {t} : Holds(u) => Holds(u)'
  BY <1>1, MutexStep
<1> QED
  BY <1>2, <1>3 DEF StepOf

(* The same, with the aiohttp session closed.                              *)
LEMMA StepOfCut ==
  ASSUME IInv, NEW t \in Task, NEW w \in Record, CutOff(t, [tasks EXCEPT ![t] = w]),
         mutex' = mutex \/ mutex' = Append(mutex, t) \/ (Holds(t) /\ mutex' = Tail(mutex)),
         lease' \in BOOLEAN
  PROVE  StepOf(t) /\ tasks'[t] = w
<1> DEFINE cs == [tasks EXCEPT ![t] = w]
<1>1. tasks \in [Task -> Record] /\ mutex \in Seq(Task)
  BY DEF IInv, Types
<1>2. cs \in [Task -> Record] /\ cs[t] = w /\ \A u \in Task \ {t} : cs[u] = tasks[u]
  BY <1>1
<1>3. PICK cut \in SUBSET (Task \ {t}) :
         tasks' = [u \in Task |-> IF u \in cut THEN [cs[u] EXCEPT !.ans = "lost"] ELSE cs[u]]
  BY DEF CutOff
<1> HIDE DEF cs
<1>4. \A r \in Record : LET c == [r EXCEPT !.ans = "lost"] IN c \in Record /\ Same(c, r)
  BY DEF Record, Answers, Same
<1>5. \A r \in Record : Same(r, r)
  BY DEF Same
<1>6. tasks' \in [Task -> Record] /\ tasks'[t] = w /\ \A u \in Task \ {t} : Same(tasks'[u], tasks[u])
  BY <1>2, <1>3, <1>4, <1>5
<1>7. mutex' \in Seq(Task) /\ \A u \in Task \ {t} : Holds(u) => Holds(u)'
  BY <1>1, MutexStep
<1> QED
  BY <1>6, <1>7 DEF StepOf

(* A task that sends goes on, without a Login or Logout.                   *)
LEMMA SenderGoesOn ==
  ASSUME IInv, Calm, NEW t \in Sender, StepOf(t), tasks'[t].cmd = "Cmd"
  PROVE  IInv'
<1>1. t \in Task /\ t \notin Leaver
  BY Disjoint DEF Task
<1>2. TaskInv(t)'
  BY <1>1 DEF TaskInv
<1> QED
  BY <1>1, <1>2, GoesOn

(* A task goes on with the same command, without the answer to a Login.    *)
LEMMA BusyGoesOn ==
  ASSUME IInv, Calm, NEW t \in Task, StepOf(t), UNCHANGED mutex,
         tasks[t].pc \in Busy, tasks'[t].pc \in Busy, tasks'[t].cmd = tasks[t].cmd,
         tasks'[t].pc = "answered" /\ tasks'[t].ans = "ok" => tasks[t].cmd # "Login"
  PROVE  IInv'
<1>1. TaskInv(t) /\ (Valid' => Valid)
  BY ValidStays DEF IInv
<1>2. TaskInv(t)'
  BY <1>1 DEF TaskInv, Busy, Holds, Calm
<1> QED
  BY <1>2, GoesOn

-----------------------------------------------------------------------------
(* The records of the steps.                                               *)
LEMMA ToSend ==
  ASSUME NEW r \in Record, token \in 0..MaxLogins
  PROVE  LET w == [r EXCEPT !.pc = "send", !.cmd = "Cmd", !.tok = token]
         IN  w \in Record /\ w.pc = "send" /\ w.cmd = "Cmd" /\ w.tok = token /\ w.ans = r.ans
BY DEF Record, Pcs

LEMMA ToPc ==
  ASSUME NEW r \in Record, NEW p \in Pcs
  PROVE  LET w == [r EXCEPT !.pc = p]
         IN  w \in Record /\ w.pc = p /\ w.cmd = r.cmd /\ w.tok = r.tok /\ w.ans = r.ans
BY DEF Record, Pcs

LEMMA EndedRecord ==
  ASSUME NEW r, NEW p \in Pcs
  PROVE  LET w == Ended(r, p)
         IN  w \in Record /\ w.pc = p /\ w.cmd = "Cmd" /\ w.ans = "none"
<1>1. << >> \in Seq(Range(Ports)) /\ 0 \in Attempts /\ 0 \in 0..MaxLogins
  BY DEF Attempts
<1>2. Fresh \in Record /\ Fresh.cmd = "Cmd" /\ Fresh.ans = "none"
  BY <1>1 DEF Record, Fresh, Pcs, Answers
<1> QED
  BY <1>2, ToPc DEF Ended

LEMMA ExchangeRecord ==
  ASSUME NEW r \in Record, NEW c \in {"Login", "Logout"}, token \in 0..MaxLogins
  PROVE  LET w == Exchange(r, c)
         IN  w \in Record /\ w.pc = "send" /\ w.cmd = c /\ w.ans = r.ans
<1> DEFINE n == IF c = "Login" THEN 0 ELSE token
           m == RETRY_ATTEMPTS - 1
<1>1. n \in 0..MaxLogins /\ m \in Attempts
  BY DEF Attempts
<1>2. Exchange(r, c) = [r EXCEPT !.pc = "send", !.cmd = c, !.tok = n, !.inner = m]
  BY Zenon DEF Exchange
<1> HIDE DEF n, m
<1> QED
  BY <1>1, <1>2 DEF Record, Pcs

LEMMA ResentRecord ==
  ASSUME NEW r \in Record, Left(r) > 0
  PROVE  LET w == Resent(r)
         IN  w \in Record /\ w.cmd = r.cmd /\ w.tok = r.tok /\ w.ans = "none"
             /\ w.pc = IF r.cmd = "Cmd" THEN r.pc ELSE "send"
<1>1. CASE r.cmd = "Cmd"
  <2> DEFINE n == r.retry - 1
  <2>1. n \in Attempts
    BY <1>1 DEF Record, Attempts, Left
  <2>2. Resent(r) = [r EXCEPT !.retry = n, !.attempt = 1, !.ans = "none"]
    BY <1>1, Zenon DEF Resent
  <2>3. 1 \in 0..3 /\ "none" \in Answers
    BY DEF Answers
  <2> HIDE DEF n
  <2> QED
    BY <1>1, <2>1, <2>2, <2>3 DEF Record
<1>2. CASE r.cmd # "Cmd"
  <2> DEFINE n == r.inner - 1
  <2>1. n \in Attempts
    BY <1>2 DEF Record, Attempts, Left
  <2>2. Resent(r) = [r EXCEPT !.pc = "send", !.inner = n, !.ans = "none"]
    BY <1>2, Zenon DEF Resent
  <2> HIDE DEF n
  <2> QED
    BY <1>2, <2>1, <2>2 DEF Record, Answers, Pcs
<1> QED
  BY <1>1, <1>2

-----------------------------------------------------------------------------
(* The parts of the actions.                                               *)

LEMMA Who ==
  ASSUME IInv, NEW t \in Task
  PROVE  /\ tasks[t] \in Record /\ token \in 0..MaxLogins /\ lease \in BOOLEAN /\ mutex \in Seq(Task)
         /\ tasks[t].pc \in {"probe", "ports"} => t \in Sender /\ tasks[t].cmd = "Cmd"
         /\ tasks[t].pc \in {"idle", "mutex"} => tasks[t].cmd = "Cmd"
         /\ tasks[t].pc \in Busy /\ tasks[t].cmd = "Cmd" => t \in Sender
         /\ tasks[t].cmd = "Login" => t \in Sender
         /\ tasks[t].cmd # "Cmd" => Holds(t)
<1>1. TaskInv(t)
  BY DEF IInv
<1>2. tasks[t] \in Record /\ token \in 0..MaxLogins /\ lease \in BOOLEAN /\ mutex \in Seq(Task)
  BY DEF IInv, Types
<1> QED
  BY <1>1, <1>2, Disjoint DEF TaskInv, Busy

LEMMA LogInKeeps ==
  ASSUME IInv, Calm, NEW t \in Sender, NEW r \in Record, r.cmd = "Cmd", LogIn(t, r)
  PROVE  IInv'
<1>1. t \in Task /\ token \in 0..MaxLogins /\ lease' \in BOOLEAN
  BY DEF Task, IInv, Types, Calm
<1>2. CASE Valid
  <2> DEFINE w == [r EXCEPT !.pc = "send", !.cmd = "Cmd", !.tok = token]
  <2>1. w \in Record /\ w.cmd = "Cmd"
    BY <1>1, ToSend
  <2>2. tasks' = [tasks EXCEPT ![t] = w] /\ mutex' = mutex
    BY <1>2 DEF LogIn
  <2> HIDE DEF w
  <2>3. StepOf(t) /\ tasks'[t] = w
    BY <1>1, <2>1, <2>2, StepOfOne
  <2> QED
    BY <2>1, <2>3, SenderGoesOn
<1>3. CASE ~Valid
  <2> DEFINE w == [r EXCEPT !.pc = "mutex"]
  <2>1. "mutex" \in Pcs
    BY DEF Pcs
  <2>2. w \in Record /\ w.cmd = "Cmd"
    BY <2>1, ToPc
  <2>3. tasks' = [tasks EXCEPT ![t] = w] /\ mutex' = Append(mutex, t)
    BY <1>3 DEF LogIn
  <2> HIDE DEF w
  <2>4. StepOf(t) /\ tasks'[t] = w
    BY <1>1, <2>2, <2>3, StepOfOne
  <2> QED
    BY <2>2, <2>4, SenderGoesOn
<1> QED
  BY <1>2, <1>3

LEMMA AttemptKeeps ==
  ASSUME IInv, Calm, NEW t \in Sender, NEW r \in Record, r.cmd = "Cmd", Attempt(t, r)
  PROVE  IInv'
<1>1. CASE port = "none"
  <2> DEFINE w == [r EXCEPT !.pc = "probe"]
  <2>1. "probe" \in Pcs
    BY DEF Pcs
  <2>2. w \in Record /\ w.cmd = "Cmd"
    BY <2>1, ToPc
  <2>3. tasks' = [tasks EXCEPT ![t] = w] /\ mutex' = mutex
    BY <1>1 DEF Attempt
  <2>4. t \in Task /\ lease' \in BOOLEAN
    BY DEF Task, IInv, Types, Calm
  <2> HIDE DEF w
  <2>5. StepOf(t) /\ tasks'[t] = w
    BY <2>2, <2>3, <2>4, StepOfOne
  <2> QED
    BY <2>2, <2>5, SenderGoesOn
<1>2. CASE port # "none"
  <2> DEFINE q == [r EXCEPT !.attempt = 1]
  <2>1. q \in Record /\ q.cmd = "Cmd"
    BY DEF Record
  <2>2. LogIn(t, q)
    BY <1>2 DEF Attempt
  <2> HIDE DEF q
  <2> QED
    BY <2>1, <2>2, LogInKeeps
<1> QED
  BY <1>1, <1>2

LEMMA LoggedOutKeeps ==
  ASSUME IInv, NEW t \in Task, Holds(t), NEW broken \in BOOLEAN, LoggedOut(t, tasks[t], broken),
         UNCHANGED <<sessions, forgot>>
  PROVE  IInv'
<1>1. token' = 0 /\ lease' = FALSE
  BY Zenon DEF LoggedOut
<1>2. 0 \in 0..MaxLogins
  OBVIOUS
<1>3. token' = 0 /\ token' \in 0..MaxLogins /\ lease' = FALSE /\ lease' \in BOOLEAN
  BY <1>1, <1>2, Zenon
<1>4. ~Valid' /\ TokenKnown'
  BY <1>3 DEF Valid, TokenKnown
<1>5. tasks[t] \in Record /\ token \in 0..MaxLogins
  BY Who
<1>6. CASE t \in Leaver
  <2> DEFINE w == Ended(tasks[t], "ok")
  <2>1. "ok" \in Pcs
    BY DEF Pcs
  <2>2. w \in Record /\ w.cmd = "Cmd" /\ w.pc = "ok"
    BY <2>1, EndedRecord
  <2>3. CutOff(t, [tasks EXCEPT ![t] = w]) /\ mutex' = Tail(mutex)
    BY <1>6 DEF LoggedOut
  <2> HIDE DEF w
  <2>4. StepOf(t) /\ tasks'[t] = w
    BY <1>3, <2>2, <2>3, StepOfCut
  <2>5. TaskInv(t)'
    BY <2>2, <2>4 DEF TaskInv, Busy
  <2> QED
    BY <1>3, <1>4, <2>4, <2>5, HolderGoesOn
<1>7. CASE t \notin Leaver
  <2> DEFINE w == Exchange(tasks[t], "Login")
  <2>1. w \in Record /\ w.cmd = "Login" /\ w.pc = "send"
    BY <1>5, ExchangeRecord
  <2>2. mutex' = mutex
    BY <1>7 DEF LoggedOut
  <2>3. CutOff(t, [tasks EXCEPT ![t] = w]) \/ tasks' = [tasks EXCEPT ![t] = w]
    BY <1>7 DEF LoggedOut
  <2> HIDE DEF w
  <2>4. StepOf(t) /\ tasks'[t] = w
    BY <1>3, <2>1, <2>2, <2>3, StepOfCut, StepOfOne
  <2>5. TaskInv(t)'
    BY <1>3, <1>7, <2>1, <2>2, <2>4 DEF TaskInv, Busy, Holds
  <2> QED
    BY <1>3, <1>4, <2>4, <2>5, HolderGoesOn
<1> QED
  BY <1>6, <1>7

(* What the camera does with a request, task t going on as w.              *)
LEMMA EffectKeeps ==
  ASSUME IInv, NEW t \in Task, tasks[t].pc = "queued", UNCHANGED client,
         NEW tok \in 0..MaxLogins, NEW reply \in {"ok", "nologin", "refused"}, Effect(t, tok, reply),
         NEW w \in Record, tasks' = [tasks EXCEPT ![t] = w], w.pc = "answered", w.cmd = tasks[t].cmd,
         w.ans = "ok" => reply = "ok" /\ w.tok = tok
  PROVE  IInv'
<1>1. UNCHANGED <<token, lease, mutex>> /\ token' \in 0..MaxLogins /\ lease' \in BOOLEAN
  BY Who DEF client
<1>2. StepOf(t) /\ tasks'[t] = w
  BY <1>1, StepOfOne
<1>3. TaskInv(t) /\ w.cmd \in {"Cmd", "Login", "Logout"} /\ "answered" \in Busy /\ "queued" \in Busy
  BY DEF IInv, Record, Busy
<1>4. CASE UNCHANGED camera /\ (w.cmd = "Cmd" \/ reply = "refused")
  <2>1. Calm
    BY <1>1, <1>4 DEF Calm, camera
  <2> QED
    BY <1>1, <1>2, <1>3, <1>4, <2>1, BusyGoesOn
<1>5. CASE w.cmd = "Logout"
  <2>1. Holds(t) /\ TaskInv(t)'
    BY <1>1, <1>2, <1>3, <1>5 DEF TaskInv, Holds, Busy, Valid
  <2>2. CASE t \in Leaver
    BY <1>1, <1>2, <2>1, <2>2, HolderGoesOn DEF TokenKnown
  <2>3. CASE t \notin Leaver
    <3>1. ~Valid'
      BY <1>1, <1>3, <1>5, <2>3 DEF TaskInv, Valid, Task
    <3> QED
      BY <1>1, <1>2, <2>1, <3>1, HolderGoesOn DEF TokenKnown
  <2> QED
    BY <2>2, <2>3
<1>6. CASE w.cmd = "Login" /\ reply = "ok"
  <2>1. tok \in sessions'
    BY <1>6 DEF Effect
  <2>2. Holds(t) /\ ~Valid'
    BY <1>1, <1>3, <1>6 DEF TaskInv, Valid
  <2>3. TaskInv(t)'
    BY <1>1, <1>2, <1>3, <1>6, <2>1 DEF TaskInv, Holds, Busy
  <2> QED
    BY <1>1, <1>2, <2>2, <2>3, HolderGoesOn DEF TokenKnown
<1>7. \/ UNCHANGED camera /\ (w.cmd = "Cmd" \/ reply = "refused")
      \/ w.cmd = "Logout"
      \/ w.cmd = "Login" /\ reply = "ok"
  BY <1>3 DEF Effect
<1> QED
  BY <1>4, <1>5, <1>6, <1>7

-----------------------------------------------------------------------------
(* The actions.                                                            *)

LEMMA StartKeeps ==
  ASSUME IInv, NEW t \in Task, Start(t)
  PROVE  IInv'
<1> DEFINE n == RETRY_ATTEMPTS - 1
           r == [tasks[t] EXCEPT !.retry = n]
<1>1. n \in Attempts
  BY DEF Attempts
<1>2. t \in Sender /\ Attempt(t, r) /\ Calm
  BY DEF Start, Calm, camera
<1>3. tasks[t] \in Record /\ tasks[t].cmd = "Cmd"
  BY Who DEF Start
<1> HIDE DEF n
<1>4. r \in Record /\ r.cmd = "Cmd"
  BY <1>1, <1>3 DEF Record
<1> HIDE DEF r
<1> QED
  BY <1>2, <1>4, AttemptKeeps

LEMMA ProbeKeeps ==
  ASSUME IInv, NEW t \in Task, Probe(t), open \in Range(Ports)
  PROVE  IInv'
<1>1. PICK available \in BOOLEAN :
         LET try == IF available THEN <<open>> ELSE Ports
         IN  LogIn(t, [tasks[t] EXCEPT !.attempt = 0, !.try = Tail(try), !.bc = available])
  BY DEF Probe
<1> DEFINE try == IF available THEN <<open>> ELSE Ports
           rest == Tail(try)
           r == [tasks[t] EXCEPT !.attempt = 0, !.try = rest, !.bc = available]
<1>2. Calm /\ tasks[t].pc = "probe"
  BY DEF Probe, Calm, camera
<1>3. tasks[t] \in Record /\ tasks[t].cmd = "Cmd" /\ t \in Sender
  BY <1>2, Who
<1>4. try \in Seq(Range(Ports)) /\ try # << >>
  OBVIOUS
<1> HIDE DEF try
<1>5. rest \in Seq(Range(Ports))
  BY <1>4
<1>6. LogIn(t, r)
  BY <1>1 DEF try
<1> HIDE DEF rest
<1>7. 0 \in 0..3
  OBVIOUS
<1>8. r \in Record /\ r.cmd = "Cmd"
  BY <1>3, <1>5, <1>7 DEF Record
<1> HIDE DEF r
<1> QED
  BY <1>2, <1>3, <1>6, <1>8, LogInKeeps

LEMMA NextPortKeeps ==
  ASSUME IInv, NEW t \in Task, NextPort(t)
  PROVE  IInv'
<1> DEFINE r == tasks[t]
           rest == [r EXCEPT !.try = Tail(r.try)]
           again(n) == [r EXCEPT !.attempt = n]
           raised == Ended(r, "raised")
<1>1. Calm /\ r.pc = "ports"
  BY DEF NextPort, Calm
<1>2. r \in Record /\ r.cmd = "Cmd" /\ t \in Sender /\ lease' \in BOOLEAN
  BY <1>1, Who DEF Calm
<1>3. \/ r.try # << >> /\ LogIn(t, rest)
      \/ LogIn(t, again(2))
      \/ LogIn(t, again(3))
      \/ tasks' = [tasks EXCEPT ![t] = raised] /\ mutex' = mutex
  BY DEF NextPort
<1>4. CASE r.try # << >> /\ LogIn(t, rest)
  <2>1. r.try \in Seq(Range(Ports))
    BY <1>2 DEF Record
  <2>2. Tail(r.try) \in Seq(Range(Ports))
    BY <1>4, <2>1
  <2>3. rest \in Record /\ rest.cmd = "Cmd"
    BY <1>2, <2>2 DEF Record
  <2> HIDE DEF rest
  <2> QED
    BY <1>1, <1>2, <1>4, <2>3, LogInKeeps
<1>5. ASSUME NEW n \in {2, 3}, LogIn(t, again(n)) PROVE IInv'
  <2>1. n \in 0..3
    OBVIOUS
  <2>2. again(n) \in Record /\ again(n).cmd = "Cmd"
    BY <1>2, <2>1 DEF Record
  <2> HIDE DEF again
  <2> QED
    BY <1>1, <1>2, <1>5, <2>2, LogInKeeps
<1>6. CASE tasks' = [tasks EXCEPT ![t] = raised] /\ mutex' = mutex
  <2>1. "raised" \in Pcs
    BY DEF Pcs
  <2>2. raised \in Record /\ raised.cmd = "Cmd"
    BY <2>1, EndedRecord
  <2> HIDE DEF raised
  <2>3. StepOf(t) /\ tasks'[t] = raised
    BY <1>2, <1>6, <2>2, StepOfOne
  <2> QED
    BY <1>1, <1>2, <2>2, <2>3, SenderGoesOn
<1> QED
  BY <1>3, <1>4, <1>5, <1>6

LEMMA LeaveKeeps ==
  ASSUME IInv, NEW t \in Task, Leave(t)
  PROVE  IInv'
<1> DEFINE w == [tasks[t] EXCEPT !.pc = "mutex"]
<1>1. tasks[t] \in Record /\ tasks[t].cmd = "Cmd" /\ tasks[t].pc = "idle" /\ t \in Leaver
  BY Who DEF Leave
<1>2. Calm /\ lease' \in BOOLEAN
  BY Who DEF Leave, Calm, camera
<1>3. "mutex" \in Pcs
  BY DEF Pcs
<1>4. w \in Record /\ w.cmd = "Cmd" /\ w.pc = "mutex"
  BY <1>1, <1>3, ToPc
<1>5. tasks' = [tasks EXCEPT ![t] = w] /\ mutex' = Append(mutex, t)
  BY DEF Leave
<1> HIDE DEF w
<1>6. StepOf(t) /\ tasks'[t] = w
  BY <1>2, <1>4, <1>5, StepOfOne
<1>7. TaskInv(t)' /\ tasks[t].pc \notin Busy
  BY <1>1, <1>4, <1>6, Disjoint DEF TaskInv, Busy
<1> QED
  BY <1>2, <1>6, <1>7, GoesOn

LEMMA GrantedKeeps ==
  ASSUME IInv, NEW t \in Task, Granted(t)
  PROVE  IInv'
<1>1. tasks[t].pc = "mutex" /\ Holds(t) /\ UNCHANGED camera
  BY DEF Granted
<1>2. tasks[t] \in Record /\ tasks[t].cmd = "Cmd" /\ token \in 0..MaxLogins /\ lease \in BOOLEAN
  BY <1>1, Who
<1>3. CASE /\ t \in Sender /\ mutex' = Tail(mutex) /\ UNCHANGED <<token, lease>>
           /\ tasks' = [tasks EXCEPT ![t] = [tasks[t] EXCEPT !.pc = "send", !.cmd = "Cmd", !.tok = token]]
  <2> DEFINE w == [tasks[t] EXCEPT !.pc = "send", !.cmd = "Cmd", !.tok = token]
  <2>1. w \in Record /\ w.cmd = "Cmd"
    BY <1>2, ToSend
  <2>2. Calm /\ lease' \in BOOLEAN
    BY <1>1, <1>2, <1>3 DEF Calm, camera
  <2>3. tasks' = [tasks EXCEPT ![t] = w]
    BY <1>3
  <2> HIDE DEF w
  <2>4. StepOf(t) /\ tasks'[t] = w
    BY <1>1, <1>3, <2>1, <2>2, <2>3, StepOfOne
  <2> QED
    BY <1>3, <2>1, <2>2, <2>4, SenderGoesOn
<1>4. CASE /\ ~(t \in Sender /\ Valid) /\ UNCHANGED <<token, lease, mutex>>
           /\ tasks' = [tasks EXCEPT ![t] = Exchange(tasks[t], "Logout")]
  <2> DEFINE w == Exchange(tasks[t], "Logout")
  <2>1. w \in Record /\ w.cmd = "Logout" /\ w.pc = "send"
    BY <1>2, ExchangeRecord
  <2>2. Calm /\ lease' \in BOOLEAN
    BY <1>1, <1>2, <1>4 DEF Calm, camera
  <2>3. tasks' = [tasks EXCEPT ![t] = w] /\ mutex' = mutex
    BY <1>4
  <2> HIDE DEF w
  <2>4. StepOf(t) /\ tasks'[t] = w
    BY <2>1, <2>2, <2>3, StepOfOne
  <2>5. TaskInv(t)'
    BY <1>1, <1>4, <2>1, <2>4 DEF TaskInv, Busy, Holds, Valid
  <2>6. tasks[t].pc \notin Busy
    BY <1>1 DEF Busy
  <2> QED
    BY <2>2, <2>4, <2>5, <2>6, GoesOn
<1>5. CASE LoggedOut(t, tasks[t], FALSE)
  <2>1. UNCHANGED <<sessions, forgot>>
    BY <1>1 DEF camera
  <2> QED
    BY <1>1, <1>5, <2>1, LoggedOutKeeps
<1>6. \/ /\ t \in Sender /\ mutex' = Tail(mutex) /\ UNCHANGED <<token, lease>>
         /\ tasks' = [tasks EXCEPT ![t] = [tasks[t] EXCEPT !.pc = "send", !.cmd = "Cmd", !.tok = token]]
      \/ /\ ~(t \in Sender /\ Valid) /\ UNCHANGED <<token, lease, mutex>>
         /\ tasks' = [tasks EXCEPT ![t] = Exchange(tasks[t], "Logout")]
      \/ LoggedOut(t, tasks[t], FALSE)
  BY DEF Granted
<1> QED
  BY <1>3, <1>4, <1>5, <1>6

(* The fields that change when an answer arrives.                          *)
LEMMA AnsweredRecord ==
  ASSUME NEW r \in Record, NEW a \in Answers
  PROVE  LET w == [r EXCEPT !.pc = "answered", !.ans = a]
         IN  w \in Record /\ w.pc = "answered" /\ w.cmd = r.cmd /\ w.ans = a
BY DEF Record, Pcs

(* A request waits, or ends without an effect on the camera, and not with  *)
(* the answer ok.                                                          *)
LEMMA WaitKeeps ==
  ASSUME IInv, NEW t \in Task, tasks[t].pc \in Busy, Calm, UNCHANGED mutex,
         NEW w \in Record, w.pc \in Busy, w.cmd = tasks[t].cmd, w.pc = "answered" => w.ans # "ok",
         tasks' = [tasks EXCEPT ![t] = w]
  PROVE  IInv'
<1>1. lease' \in BOOLEAN
  BY Who DEF Calm
<1>2. StepOf(t) /\ tasks'[t] = w
  BY <1>1, StepOfOne
<1> QED
  BY <1>2, BusyGoesOn

LEMMA QueueKeeps ==
  ASSUME IInv, NEW t \in Task, Queue(t)
  PROVE  IInv'
<1> DEFINE w == [tasks[t] EXCEPT !.pc = "queued"]
<1>1. "queued" \in Pcs /\ "queued" \in Busy /\ "send" \in Busy
  BY DEF Pcs, Busy
<1>2. tasks[t] \in Record /\ tasks[t].pc \in Busy
  BY <1>1, Who DEF Queue
<1>3. w \in Record /\ w.pc = "queued" /\ w.cmd = tasks[t].cmd
  BY <1>1, <1>2, ToPc
<1>4. tasks' = [tasks EXCEPT ![t] = w] /\ mutex' = mutex /\ Calm
  BY DEF Queue, Calm, camera
<1> HIDE DEF w
<1> QED
  BY <1>1, <1>2, <1>3, <1>4, WaitKeeps

LEMMA NoAnswerKeeps ==
  ASSUME IInv, NEW t \in Task, tasks[t].pc = "queued", Calm, UNCHANGED mutex,
         NEW a \in Answers \ {"ok"}, tasks' = [tasks EXCEPT ![t].pc = "answered", ![t].ans = a]
  PROVE  IInv'
<1> DEFINE w == [tasks[t] EXCEPT !.pc = "answered", !.ans = a]
<1>1. "queued" \in Busy /\ "answered" \in Busy /\ tasks[t] \in Record
  BY Who DEF Busy
<1>2. w \in Record /\ w.pc \in Busy /\ w.cmd = tasks[t].cmd /\ w.ans # "ok"
  BY <1>1, AnsweredRecord
<1>3. tasks \in [Task -> Record]
  BY DEF IInv, Types
<1>4. tasks' = [tasks EXCEPT ![t] = w]
  BY <1>3
<1> HIDE DEF w
<1> QED
  BY <1>1, <1>2, <1>4, WaitKeeps

(* Answered, which sets the token of the task too.                         *)
LEMMA AnsweredStep ==
  ASSUME IInv, NEW t \in Task, NEW tok \in 0..MaxLogins, NEW a \in Answers, Answered(t, tok, a)
  PROVE  \E w \in Record : /\ tasks' = [tasks EXCEPT ![t] = w] /\ w.pc = "answered"
                           /\ w.cmd = tasks[t].cmd /\ w.ans = a /\ w.tok = tok
<1> DEFINE w == [tasks[t] EXCEPT !.pc = "answered", !.tok = tok, !.ans = a]
<1>1. tasks \in [Task -> Record] /\ tasks[t] \in Record
  BY DEF IInv, Types
<1>2. tasks' = [tasks EXCEPT ![t] = w]
  BY <1>1 DEF Answered
<1>3. w \in Record /\ w.pc = "answered" /\ w.cmd = tasks[t].cmd /\ w.ans = a /\ w.tok = tok
  BY <1>1 DEF Record, Pcs
<1> QED
  BY <1>2, <1>3

LEMMA NoAnswerTokKeeps ==
  ASSUME IInv, NEW t \in Task, tasks[t].pc = "queued", Calm, UNCHANGED mutex,
         NEW a \in Answers \ {"ok"}, Answered(t, tasks[t].tok, a)
  PROVE  IInv'
<1>1. "queued" \in Busy /\ "answered" \in Busy /\ tasks[t] \in Record
  BY Who DEF Busy
<1>2. tasks[t].tok \in 0..MaxLogins
  BY <1>1 DEF Record
<1>3. PICK w \in Record : /\ tasks' = [tasks EXCEPT ![t] = w] /\ w.pc = "answered"
                          /\ w.cmd = tasks[t].cmd /\ w.ans = a
  BY <1>2, AnsweredStep
<1> QED
  BY <1>1, <1>3, WaitKeeps

LEMMA ServeKeeps ==
  ASSUME IInv, NEW t \in Task, Serve(t)
  PROVE  IInv'
<1>1. PICK tok \in 0..MaxLogins, reply \in {"ok", "nologin", "refused"} :
         Effect(t, tok, reply) /\ Answered(t, tok, reply)
  BY DEF Serve
<1>2. tasks[t].pc = "queued" /\ UNCHANGED client /\ reply \in Answers
  BY DEF Serve, Turn, Answers
<1>3. PICK w \in Record : /\ tasks' = [tasks EXCEPT ![t] = w] /\ w.pc = "answered"
                          /\ w.cmd = tasks[t].cmd /\ w.ans = reply /\ w.tok = tok
  BY <1>1, <1>2, AnsweredStep
<1> QED
  BY <1>1, <1>2, <1>3, EffectKeeps

LEMMA LostKeeps ==
  ASSUME IInv, NEW t \in Task, Lost(t)
  PROVE  IInv'
<1>1. PICK a \in {"lost", "timeout"} : tasks' = [tasks EXCEPT ![t].pc = "answered", ![t].ans = a]
  BY DEF Lost
<1>2. tasks[t].pc = "queued" /\ UNCHANGED client /\ a \in Answers \ {"ok"} /\ mutex' = mutex
  BY DEF Lost, Turn, Answers, client
<1>3. CASE UNCHANGED camera
  <2>1. Calm
    BY <1>2, <1>3 DEF Calm, camera, client
  <2> QED
    BY <1>1, <1>2, <2>1, NoAnswerKeeps
<1>4. CASE \E tok \in 0..MaxLogins, reply \in {"ok", "nologin", "refused"} : Effect(t, tok, reply)
  <2>1. PICK tok \in 0..MaxLogins, reply \in {"ok", "nologin", "refused"} : Effect(t, tok, reply)
    BY <1>4
  <2> DEFINE w == [tasks[t] EXCEPT !.pc = "answered", !.ans = a]
  <2>2. tasks \in [Task -> Record] /\ tasks[t] \in Record
    BY DEF IInv, Types
  <2>3. w \in Record /\ w.pc = "answered" /\ w.cmd = tasks[t].cmd /\ w.ans # "ok"
    BY <1>2, <2>2, AnsweredRecord
  <2>4. tasks' = [tasks EXCEPT ![t] = w]
    BY <1>1, <2>2
  <2> HIDE DEF w
  <2> QED
    BY <1>2, <2>1, <2>3, <2>4, EffectKeeps
<1> QED
  BY <1>3, <1>4 DEF Lost

LEMMA UnansweredKeeps ==
  ASSUME IInv, NEW t \in Task, NoServer(t) \/ Failed(t) \/ Closed(t) \/ TurnTimeout(t)
  PROVE  IInv'
<1>1. tasks[t].pc = "queued" /\ UNCHANGED client /\ UNCHANGED camera
  BY DEF NoServer, Failed, Closed, TurnTimeout, Turn
<1>2. Calm /\ mutex' = mutex
  BY <1>1 DEF Calm, client, camera
<1>3. CASE NoServer(t)
  <2>1. tasks' = [tasks EXCEPT ![t].pc = "answered", ![t].ans = "lost"] /\ "lost" \in Answers \ {"ok"}
    BY <1>3 DEF NoServer, Answers
  <2> QED
    BY <1>1, <1>2, <2>1, NoAnswerKeeps
<1>4. CASE Failed(t)
  <2>1. PICK a \in {"gone", "error", "refused"} : tasks' = [tasks EXCEPT ![t].pc = "answered", ![t].ans = a]
    BY <1>4 DEF Failed
  <2> QED
    BY <1>1, <1>2, <2>1, NoAnswerKeeps DEF Answers
<1>5. CASE Closed(t)
  <2>1. PICK a \in {"closed", "lost"} : Answered(t, tasks[t].tok, a)
    BY <1>5 DEF Closed
  <2> QED
    BY <1>1, <1>2, <2>1, NoAnswerTokKeeps DEF Answers
<1>6. CASE TurnTimeout(t)
  BY <1>1, <1>2, <1>6, NoAnswerTokKeeps DEF TurnTimeout, Answers
<1> QED
  BY <1>3, <1>4, <1>5, <1>6

LEMMA CmdOkKeeps ==
  ASSUME IInv, NEW t \in Task, CmdOk(t)
  PROVE  IInv'
<1> DEFINE w == Ended(tasks[t], "ok")
<1>1. "ok" \in Pcs /\ "answered" \in Busy
  BY DEF Pcs, Busy
<1>2. t \in Sender /\ lease' \in BOOLEAN /\ Calm /\ mutex' = mutex
  BY <1>1, Who DEF CmdOk, Calm, client, camera
<1>3. w \in Record /\ w.cmd = "Cmd"
  BY <1>1, EndedRecord
<1>4. tasks \in [Task -> Record]
  BY DEF IInv, Types
<1>5. tasks' = [tasks EXCEPT ![t] = w]
  BY <1>4 DEF CmdOk
<1> HIDE DEF w
<1>6. StepOf(t) /\ tasks'[t] = w
  BY <1>2, <1>3, <1>5, StepOfOne
<1> QED
  BY <1>2, <1>3, <1>6, SenderGoesOn

LEMMA AgainKeeps ==
  ASSUME IInv, NEW t \in Task, Again(t)
  PROVE  IInv'
<1> DEFINE w == Resent(tasks[t])
<1>1. tasks[t] \in Record /\ tasks[t].pc = "answered" /\ Left(tasks[t]) > 0
  BY Who DEF Again
<1>2. Calm
  BY DEF Again, Calm, camera
<1>3. w \in Record /\ w.cmd = tasks[t].cmd /\ w.ans = "none"
      /\ w.pc = IF tasks[t].cmd = "Cmd" THEN tasks[t].pc ELSE "send"
  BY <1>1, ResentRecord
<1>4. "answered" \in Busy /\ "send" \in Busy
  BY DEF Busy
<1>5. CASE tasks[t].cmd = "Cmd"
  <2>1. t \in Sender
    BY <1>1, <1>4, <1>5, Who
  <2>2. Attempt(t, w)
    BY <1>5 DEF Again
  <2> HIDE DEF w
  <2> QED
    BY <1>2, <1>3, <1>5, <2>1, <2>2, AttemptKeeps
<1>6. CASE tasks[t].cmd # "Cmd"
  <2>1. tasks' = [tasks EXCEPT ![t] = w] /\ mutex' = mutex
    BY <1>6 DEF Again
  <2> HIDE DEF w
  <2>2. w.pc \in Busy /\ w.ans # "ok"
    BY <1>3, <1>4, <1>6
  <2> QED
    BY <1>1, <1>2, <1>3, <1>4, <2>1, <2>2, WaitKeeps
<1> QED
  BY <1>5, <1>6

LEMMA ExpireAgainKeeps ==
  ASSUME IInv, NEW t \in Task, ExpireAgain(t)
  PROVE  IInv'
<1> DEFINE r == Resent(tasks[t])
           w == [r EXCEPT !.pc = "mutex"]
<1>1. tasks[t] \in Record /\ tasks[t].pc = "answered" /\ Left(tasks[t]) > 0
  BY Who DEF ExpireAgain
<1>2. UNCHANGED <<token, camera>>
  BY DEF ExpireAgain
<1>3. r \in Record /\ r.cmd = tasks[t].cmd /\ r.ans = "none"
      /\ r.pc = IF tasks[t].cmd = "Cmd" THEN tasks[t].pc ELSE "send"
  BY <1>1, ResentRecord
<1>4. "answered" \in Busy /\ "send" \in Busy /\ "mutex" \in Pcs
  BY DEF Busy, Pcs
<1>5. CASE tasks[t].cmd = "Cmd"
  <2>1. t \in Sender
    BY <1>1, <1>4, <1>5, Who
  <2>2. Expire(t, [tasks EXCEPT ![t] = w]) /\ mutex' = Append(mutex, t)
    BY <1>5 DEF ExpireAgain
  <2>3. lease' = FALSE /\ CutOff(t, [tasks EXCEPT ![t] = w])
    BY <2>2 DEF Expire
  <2> HIDE DEF r
  <2>4. w \in Record /\ w.cmd = "Cmd"
    BY <1>3, <1>4, <1>5, ToPc
  <2> HIDE DEF w
  <2>5. lease' \in BOOLEAN /\ Calm
    BY <1>2, <2>3 DEF Calm, camera
  <2>6. StepOf(t) /\ tasks'[t] = w
    BY <2>2, <2>3, <2>4, <2>5, StepOfCut
  <2> QED
    BY <2>1, <2>4, <2>5, <2>6, SenderGoesOn
<1>6. CASE tasks[t].cmd # "Cmd"
  <2>1. Expire(t, [tasks EXCEPT ![t] = r]) /\ mutex' = mutex
    BY <1>6 DEF ExpireAgain
  <2>2. lease' = FALSE /\ CutOff(t, [tasks EXCEPT ![t] = r])
    BY <2>1 DEF Expire
  <2> HIDE DEF r
  <2>3. r.pc \in Busy /\ r.ans # "ok"
    BY <1>3, <1>4, <1>6
  <2>4. lease' \in BOOLEAN /\ Calm
    BY <1>2, <2>2 DEF Calm, camera
  <2>5. StepOf(t) /\ tasks'[t] = r
    BY <1>3, <2>1, <2>2, <2>4, StepOfCut
  <2> QED
    BY <1>1, <1>3, <1>4, <2>1, <2>3, <2>4, <2>5, BusyGoesOn
<1> QED
  BY <1>5, <1>6

LEMMA CmdRaisedKeeps ==
  ASSUME IInv, NEW t \in Task, CmdRaised(t)
  PROVE  IInv'
<1> DEFINE w == Ended(tasks[t], "raised")
<1>1. "raised" \in Pcs /\ "answered" \in Busy
  BY DEF Pcs, Busy
<1>2. t \in Sender /\ UNCHANGED <<token, mutex, camera>>
  BY <1>1, Who DEF CmdRaised
<1>3. w \in Record /\ w.cmd = "Cmd"
  BY <1>1, EndedRecord
<1>4. lease' = FALSE /\ CutOff(t, [tasks EXCEPT ![t] = w])
  BY DEF CmdRaised, Expire
<1> HIDE DEF w
<1>5. lease' \in BOOLEAN /\ Calm
  BY <1>2, <1>4 DEF Calm, camera
<1>6. StepOf(t) /\ tasks'[t] = w
  BY <1>2, <1>3, <1>4, <1>5, StepOfCut
<1> QED
  BY <1>2, <1>3, <1>5, <1>6, SenderGoesOn

LEMMA LogoutEndsKeeps ==
  ASSUME IInv, NEW t \in Task, LogoutEnds(t)
  PROVE  IInv'
<1>1. Holds(t) /\ UNCHANGED <<sessions, forgot>>
  BY Who DEF LogoutEnds, camera
<1> DEFINE broken == tasks[t].ans # "ok"
<1>2. LoggedOut(t, tasks[t], broken) /\ broken \in BOOLEAN
  BY DEF LogoutEnds
<1> HIDE DEF broken
<1> QED
  BY <1>1, <1>2, LoggedOutKeeps

LEMMA LoginOkKeeps ==
  ASSUME IInv, NEW t \in Task, LoginOk(t)
  PROVE  IInv'
<1> DEFINE r == tasks[t]
           w == [r EXCEPT !.pc = "send", !.cmd = "Cmd", !.ans = "none"]
<1>1. r \in Record /\ r.pc = "answered" /\ r.cmd = "Login" /\ r.ans = "ok" /\ TaskInv(t)
  BY Who DEF LoginOk, IInv
<1>2. Holds(t) /\ t \in Sender /\ t \notin Leaver
  BY <1>1, Who, Disjoint
<1>3. token' = r.tok /\ lease' = TRUE /\ UNCHANGED camera
  BY DEF LoginOk
<1>4. w \in Record /\ w.cmd = "Cmd"
  BY <1>1 DEF Record, Pcs, Answers
<1>5. tasks' = [tasks EXCEPT ![t] = w] /\ mutex' = Tail(mutex)
  BY DEF LoginOk
<1>6. r.tok \in 0..MaxLogins /\ (r.tok \in sessions \/ forgot)
  BY <1>1 DEF TaskInv, Record
<1> HIDE DEF w, r
<1>7. StepOf(t) /\ tasks'[t] = w
  BY <1>2, <1>3, <1>4, <1>5, StepOfOne
<1>8. TaskInv(t)'
  BY <1>2, <1>4, <1>7 DEF TaskInv
<1>9. TokenKnown'
  BY <1>3, <1>6 DEF TokenKnown, camera
<1> QED
  BY <1>2, <1>3, <1>6, <1>7, <1>8, <1>9, HolderGoesOn

LEMMA LoginFailedKeeps ==
  ASSUME IInv, NEW t \in Task, LoginFailed(t)
  PROVE  IInv'
<1> DEFINE w == [tasks[t] EXCEPT !.pc = "ports", !.cmd = "Cmd", !.ans = "none"]
<1>1. tasks[t] \in Record /\ tasks[t].cmd = "Login" /\ t \in Sender /\ Holds(t)
  BY Who DEF LoginFailed
<1>2. UNCHANGED <<token, camera>> /\ mutex' = Tail(mutex)
  BY DEF LoginFailed
<1>3. w \in Record /\ w.cmd = "Cmd"
  BY <1>1 DEF Record, Pcs, Answers
<1>4. \/ tasks' = [tasks EXCEPT ![t] = w] /\ lease' = lease
      \/ CutOff(t, [tasks EXCEPT ![t] = w]) /\ lease' = FALSE
  BY DEF LoginFailed, Expire
<1>5. lease' \in BOOLEAN
  BY <1>4, Who
<1>6. Calm
  BY <1>2, <1>4, Zenon DEF Calm, camera
<1> HIDE DEF w
<1>7. StepOf(t) /\ tasks'[t] = w
  BY <1>1, <1>2, <1>3, <1>4, <1>5, StepOfOne, StepOfCut
<1> QED
  BY <1>1, <1>3, <1>6, <1>7, SenderGoesOn

LEMMA LoginEscapesKeeps ==
  ASSUME IInv, NEW t \in Task, LoginEscapes(t)
  PROVE  IInv'
<1> DEFINE w == Ended(tasks[t], "raised")
<1>1. "raised" \in Pcs /\ Holds(t)
  BY Who DEF Pcs, LoginEscapes
<1>2. UNCHANGED <<token, camera>> /\ mutex' = Tail(mutex)
  BY DEF LoginEscapes
<1>3. w \in Record /\ w.cmd = "Cmd" /\ w.pc = "raised"
  BY <1>1, EndedRecord
<1>4. lease' = FALSE /\ CutOff(t, [tasks EXCEPT ![t] = w])
  BY DEF LoginEscapes, Expire
<1> HIDE DEF w
<1>5. lease' \in BOOLEAN /\ Calm /\ ~Valid'
  BY <1>2, <1>4 DEF Calm, camera, Valid
<1>6. StepOf(t) /\ tasks'[t] = w
  BY <1>1, <1>2, <1>3, <1>4, <1>5, StepOfCut
<1>7. TaskInv(t)'
  BY <1>3, <1>6 DEF TaskInv, Busy
<1> QED
  BY <1>5, <1>6, <1>7, GoesOn

LEMMA RestartKeeps ==
  ASSUME IInv, Restart
  PROVE  IInv'
<1>1. forgot' = TRUE /\ UNCHANGED <<tasks, client>>
  BY DEF Restart
<1>2. Types'
  BY <1>1 DEF IInv, Types, client
<1>3. TokenKnown'
  BY <1>1 DEF TokenKnown
<1>4. \A t \in Task : TaskInv(t)'
  BY <1>1 DEF IInv, TaskInv, client, Valid, Holds
<1> QED
  BY <1>2, <1>3, <1>4 DEF IInv

-----------------------------------------------------------------------------
(* The theorem.  The camera listens on one of the ports, too.              *)

LEMMA LeaseOverKeeps ==
  ASSUME IInv, LeaseOver
  PROVE  IInv'
<1>1. ~Valid' /\ UNCHANGED <<token, mutex, tasks, sessions, forgot>> /\ lease' = FALSE
  BY DEF LeaseOver, camera, Valid
<1>2. Types' /\ TokenKnown'
  BY <1>1 DEF IInv, Types, TokenKnown
<1>3. ASSUME NEW t \in Task PROVE TaskInv(t)'
  <2>1. TaskInv(t)
    BY DEF IInv
  <2> QED
    BY <1>1, <2>1 DEF TaskInv, Holds
<1> QED
  BY <1>2, <1>3 DEF IInv

LEMMA InitKeeps == Init => IInv /\ open \in Range(Ports)
<1> SUFFICES ASSUME Init PROVE IInv /\ open \in Range(Ports)
  OBVIOUS
<1>1. tasks = [t \in Task |-> Fresh] /\ mutex = << >> /\ token = 0 /\ lease = FALSE /\ open \in Range(Ports)
  BY DEF Init
<1>2. << >> \in Seq(Range(Ports)) /\ 0 \in Attempts /\ 0 \in 0..MaxLogins /\ 1 \in 0..3
  BY DEF Attempts
<1>3. Fresh \in Record /\ Fresh.cmd = "Cmd" /\ Fresh.pc = "idle"
  BY <1>2 DEF Fresh, Record, Pcs, Answers
<1>4. Types
  <2>1. tasks \in [Task -> Record] /\ mutex \in Seq(Task) /\ token \in 0..MaxLogins
    BY <1>1, <1>2, <1>3
  <2>2. lease \in BOOLEAN
    BY <1>1
  <2> QED
    BY <2>1, <2>2 DEF Types
<1>5. TokenKnown
  BY <1>1 DEF TokenKnown, Valid
<1>6. ASSUME NEW t \in Task PROVE TaskInv(t)
  BY <1>1, <1>3 DEF TaskInv, Busy
<1> QED
  BY <1>1, <1>4, <1>5, <1>6 DEF IInv

LEMMA OpenKeeps ==
  ASSUME IInv, open \in Range(Ports), [Next]_vars
  PROVE  open' \in Range(Ports)
<1>1. CASE UNCHANGED vars
  BY <1>1 DEF vars, camera
<1>2. CASE Restart \/ LeaseOver
  BY <1>2 DEF Restart, LeaseOver, camera
<1>3. ASSUME NEW t \in Task, Start(t) \/ Leave(t) \/ Step(t) PROVE open' = open
  <2>1. CASE Start(t) \/ Leave(t) \/ Probe(t) \/ NextPort(t) \/ Granted(t) \/ Queue(t)
    BY <2>1 DEF Start, Leave, Probe, NextPort, Granted, Queue, camera
  <2> DEFINE effect == \E tok \in 0..MaxLogins, reply \in {"ok", "nologin", "refused"} : Effect(t, tok, reply)
  <2>2. CASE effect
    <3>1. tasks[t].cmd \in {"Cmd", "Login", "Logout"}
      BY Who DEF Record
    <3> QED
      BY <2>2, <3>1 DEF Effect, camera
  <2>3. CASE Serve(t)
    BY <2>3, <2>2 DEF Serve
  <2>4. CASE Lost(t)
    BY <2>4, <2>2 DEF Lost, camera
  <2>5. CASE NoServer(t) \/ Failed(t) \/ Closed(t) \/ TurnTimeout(t)
    BY <2>5 DEF NoServer, Failed, Closed, TurnTimeout, camera
  <2>6. CASE CmdOk(t) \/ Again(t) \/ ExpireAgain(t) \/ CmdRaised(t)
    BY <2>6 DEF CmdOk, Again, ExpireAgain, CmdRaised, camera
  <2>7. CASE LogoutEnds(t) \/ LoginOk(t) \/ LoginFailed(t) \/ LoginEscapes(t)
    BY <2>7 DEF LogoutEnds, LoginOk, LoginFailed, LoginEscapes, camera
  <2> QED
    BY <1>3, <2>1, <2>3, <2>4, <2>5, <2>6, <2>7 DEF Step
<1> QED
  BY <1>1, <1>2, <1>3 DEF Next

LEMMA NextKeeps ==
  ASSUME IInv, open \in Range(Ports), [Next]_vars
  PROVE  IInv'
<1>1. CASE UNCHANGED vars
  BY <1>1 DEF vars, client, camera, IInv, Types, TokenKnown, TaskInv, Valid, Holds
<1>2. CASE Restart \/ LeaseOver
  BY <1>2, RestartKeeps, LeaseOverKeeps
<1>3. ASSUME NEW t \in Task, Start(t) \/ Leave(t) \/ Step(t) PROVE IInv'
  <2>1. CASE Start(t) \/ Leave(t) \/ Probe(t) \/ NextPort(t) \/ Granted(t) \/ Queue(t)
    BY <2>1, StartKeeps, LeaveKeeps, ProbeKeeps, NextPortKeeps, GrantedKeeps, QueueKeeps
  <2>2. CASE Serve(t) \/ Lost(t) \/ NoServer(t) \/ Failed(t) \/ Closed(t) \/ TurnTimeout(t)
    BY <2>2, ServeKeeps, LostKeeps, UnansweredKeeps
  <2>3. CASE CmdOk(t) \/ Again(t) \/ ExpireAgain(t) \/ CmdRaised(t)
    BY <2>3, CmdOkKeeps, AgainKeeps, ExpireAgainKeeps, CmdRaisedKeeps
  <2>4. CASE LogoutEnds(t) \/ LoginOk(t) \/ LoginFailed(t) \/ LoginEscapes(t)
    BY <2>4, LogoutEndsKeeps, LoginOkKeeps, LoginFailedKeeps, LoginEscapesKeeps
  <2> QED
    BY <1>3, <2>1, <2>2, <2>3, <2>4 DEF Step
<1> QED
  BY <1>1, <1>2, <1>3 DEF Next

(* The token of a running lease is one the camera knows, unless the camera *)
(* has restarted or a task that logs out has got to its Logout: whatever   *)
(* the number of tasks, ports, attempts, lost answers and leases that run  *)
(* out, a task that finds a lease takes a token the camera accepts (login, *)
(* expire_session and send_chunk of api.py).                               *)
THEOREM TokenStaysKnown == Spec => []TokenKnown
<1>1. Init => IInv /\ open \in Range(Ports)
  BY InitKeeps
<1>2. (IInv /\ open \in Range(Ports)) /\ [Next]_vars => (IInv /\ open \in Range(Ports))'
  BY NextKeeps, OpenKeeps
<1>3. IInv => TokenKnown
  BY DEF IInv
<1> QED
  BY <1>1, <1>2, <1>3, PTL DEF Spec

HIDE HttpSessionAssumption

-----------------------------------------------------------------------------
(* The queues at the two mutexes, and the counts.                          *)

Waits(r) == r.pc = "mutex" \/ r.cmd # "Cmd"

Queues == /\ QueueOf(mutex, {t \in Task : Waits(tasks[t])})
          /\ QueueOf(wire, {t \in Task : tasks[t].pc = "queued"})

Numbers == /\ port \in Range(Ports) \cup {"none"} /\ open \in Range(Ports)
           /\ issued \in 0..MaxLogins /\ sessions \subseteq 1..issued
           /\ faults \in 0..MaxMishaps /\ lost \in Nat

(* The token that the camera may still know without an answer having been  *)
(* lost: the current one, until a Logout went wrong, or the one of a Login *)
(* that was answered.                                                      *)
Counted == {x \in {token} : \A t \in Task : tasks[t].cmd = "Logout" /\ tasks[t].pc = "answered"
                                               => tasks[t].ans = "ok"}
           \cup {tasks[t].tok : t \in {u \in Task : /\ tasks[u].cmd = "Login" /\ tasks[u].pc = "answered"
                                                    /\ tasks[u].ans = "ok"}}

Accounted == Cardinality(sessions \ Counted) <= lost

LogoutTrue(r) == r.cmd = "Logout" => r.tok = token /\ (r.pc = "answered" /\ r.ans = "ok" => token \notin sessions)

(* Nothing has gone wrong, nobody has logged out, and no lease has run out *)
(* (ended = 0).                                                            *)
Lull == faults = 0 /\ \A t \in Leaver : tasks[t].pc = "idle"
Quiet == Lull /\ ended = 0

QuietTask(r) ==
    /\ r.cmd # "Logout" /\ r.try = << >>
    /\ r.pc \in {"mutex", "ports"} \cup Busy => port = open
    /\ r.cmd = "Cmd" => r.ans \in {"none", "ok"}
    /\ r.cmd = "Cmd" /\ r.pc \in {"send", "queued"} => r.tok \in sessions
    /\ r.cmd = "Cmd" /\ r.pc = "answered" => r.ans = "ok"
    /\ r.cmd = "Login" /\ r.pc = "answered" => r.ans \in {"ok", "refused"}
    /\ r.cmd = "Login" /\ r.pc = "answered" /\ r.ans = "ok" => r.tok \in sessions

QuietInv ==
    Quiet => /\ port \in {"none", open} /\ ~closed
             /\ token # 0 => lease /\ token \in sessions
             /\ \A t \in Task : QuietTask(tasks[t])

All == IInv /\ Queues /\ Numbers /\ Accounted /\ (\A t \in Task : LogoutTrue(tasks[t])) /\ QuietInv
       /\ ended \in Nat

-----------------------------------------------------------------------------
(* A step of task t: of the others, some that read their answer are cut    *)
(* off.                                                                    *)
Cuts(t) == \A u \in Task \ {t} :
    \/ tasks'[u] = tasks[u]
    \/ /\ closed' = TRUE /\ tasks[u].pc = "answered" /\ tasks'[u] = [tasks[u] EXCEPT !.ans = "lost"]
       /\ tasks[u].cmd # "Cmd" /\ tasks[u].ans # "lost" => lost' > lost

Moved(t) == tasks' \in [Task -> Record] /\ Cuts(t) /\ lost' \in Nat /\ lost' >= lost

LEMMA MoveOfOne ==
  ASSUME All, NEW t \in Task, NEW w \in Record, tasks' = [tasks EXCEPT ![t] = w],
         lost' = lost \/ lost' = lost + 1
  PROVE  Moved(t) /\ tasks'[t] = w
<1>1. tasks \in [Task -> Record] /\ lost \in Nat
  BY DEF All, IInv, Types, Numbers
<1>2. tasks' \in [Task -> Record] /\ tasks'[t] = w /\ \A u \in Task \ {t} : tasks'[u] = tasks[u]
  BY <1>1
<1>3. lost' \in Nat /\ lost' >= lost
  BY <1>1
<1> QED
  BY <1>2, <1>3 DEF Moved, Cuts

(* Who logs in or out holds the mutex, so that it is one task.             *)
LEMMA OneLogsIn ==
  ASSUME All, NEW t \in Task, NEW u \in Task, tasks[t].cmd # "Cmd", tasks[u].cmd # "Cmd"
  PROVE  t = u
<1>1. Holds(t) /\ Holds(u)
  BY Who DEF All
<1> QED
  BY <1>1 DEF Holds

LEMMA MoveOfCut ==
  ASSUME All, NEW t \in Task, NEW w \in Record, CutOff(t, [tasks EXCEPT ![t] = w])
  PROVE  Moved(t) /\ tasks'[t] = w /\ closed' = TRUE
<1> DEFINE cs == [tasks EXCEPT ![t] = w]
<1>1. tasks \in [Task -> Record] /\ lost \in Nat
  BY DEF All, IInv, Types, Numbers
<1>2. cs \in [Task -> Record] /\ cs[t] = w /\ \A u \in Task \ {t} : cs[u] = tasks[u]
  BY <1>1
<1>3. closed' = TRUE
  BY DEF CutOff
<1>4. PICK cut \in SUBSET {u \in Task \ {t} : tasks[u].pc = "answered"} :
         /\ tasks' = [u \in Task |-> IF u \in cut THEN [cs[u] EXCEPT !.ans = "lost"] ELSE cs[u]]
         /\ lost' = lost + Cardinality({u \in cut : cs[u].cmd # "Cmd" /\ cs[u].ans # "lost"})
  BY DEF CutOff
<1> HIDE DEF cs
<1> DEFINE hurt == {u \in cut : cs[u].cmd # "Cmd" /\ cs[u].ans # "lost"}
<1>5. \A u \in hurt : u \in Task \ {t} /\ tasks[u].cmd # "Cmd"
  BY <1>2, <1>4
<1>5a. lost' = lost + Cardinality(hurt)
  BY <1>4
<1>5b. \A u \in cut : tasks[u].cmd # "Cmd" /\ tasks[u].ans # "lost" => u \in hurt
  BY <1>2, <1>4
<1> HIDE DEF hurt
<1>6. Cardinality(hurt) \in Nat /\ (hurt # {} => Cardinality(hurt) = 1)
  <2>1. CASE hurt = {}
    BY <2>1, FS_EmptySet
  <2>2. CASE hurt # {}
    <3>1. PICK u \in hurt : TRUE
      BY <2>2
    <3>2. hurt = {u}
      BY <1>5, <3>1, OneLogsIn
    <3> QED
      BY <3>2, FS_Singleton
  <2> QED
    BY <2>1, <2>2
<1>7. \A r \in Record : [r EXCEPT !.ans = "lost"] \in Record
  BY DEF Record, Answers
<1>8. tasks' \in [Task -> Record] /\ tasks'[t] = w
  BY <1>2, <1>4, <1>7
<1>9. lost' \in Nat /\ lost' >= lost /\ (hurt # {} => lost' > lost)
  BY <1>1, <1>5a, <1>6
<1>10. Cuts(t)
  <2> SUFFICES ASSUME NEW u \in Task \ {t}, tasks'[u] # tasks[u]
               PROVE  /\ tasks[u].pc = "answered" /\ tasks'[u] = [tasks[u] EXCEPT !.ans = "lost"]
                      /\ tasks[u].cmd # "Cmd" /\ tasks[u].ans # "lost" => lost' > lost
    BY <1>3 DEF Cuts
  <2>1. u \in cut /\ tasks'[u] = [tasks[u] EXCEPT !.ans = "lost"]
    BY <1>2, <1>4
  <2> QED
    BY <1>4, <1>5b, <1>9, <2>1
<1> QED
  BY <1>3, <1>8, <1>9, <1>10 DEF Moved

-----------------------------------------------------------------------------
(* What a step must do to keep the queues.                                 *)
MutexMove(t) ==
    \/ mutex' = mutex /\ (Waits(tasks'[t]) <=> Waits(tasks[t]))
    \/ mutex' = Append(mutex, t) /\ ~Waits(tasks[t]) /\ Waits(tasks'[t])
    \/ mutex' = Tail(mutex) /\ Holds(t) /\ ~Waits(tasks'[t])

WireMove(t) ==
    \/ wire' = wire /\ (tasks'[t].pc = "queued" <=> tasks[t].pc = "queued")
    \/ wire' = Append(wire, t) /\ tasks[t].pc # "queued" /\ tasks'[t].pc = "queued"
    \/ /\ wire' = RemoveFirst(wire, t) \/ (wire' = Tail(wire) /\ Head(wire) = t)
       /\ tasks[t].pc = "queued" /\ tasks'[t].pc # "queued"

LEMMA OthersSame ==
  ASSUME All, NEW t \in Task, Moved(t), NEW u \in Task \ {t}
  PROVE  /\ tasks'[u].pc = tasks[u].pc /\ tasks'[u].cmd = tasks[u].cmd /\ tasks'[u].tok = tasks[u].tok
         /\ Waits(tasks'[u]) <=> Waits(tasks[u])
<1>1. tasks[u] \in Record
  BY DEF All, IInv, Types
<1>2. tasks'[u] = tasks[u] \/ tasks'[u] = [tasks[u] EXCEPT !.ans = "lost"]
  BY DEF Moved, Cuts
<1>3. tasks'[u].pc = tasks[u].pc /\ tasks'[u].cmd = tasks[u].cmd /\ tasks'[u].tok = tasks[u].tok
  BY <1>1, <1>2 DEF Record
<1> QED
  BY <1>3 DEF Waits

LEMMA QueuesKeep ==
  ASSUME All, NEW t \in Task, Moved(t), MutexMove(t), WireMove(t)
  PROVE  Queues'
<1> DEFINE M == {u \in Task : Waits(tasks[u])}
           N == {u \in Task : Waits(tasks'[u])}
           P == {u \in Task : tasks[u].pc = "queued"}
           Q == {u \in Task : tasks'[u].pc = "queued"}
<1>1. QueueOf(mutex, M) /\ QueueOf(wire, P)
  BY DEF All, Queues
<1>2. \A u \in Task \ {t} : (u \in M <=> u \in N) /\ (u \in P <=> u \in Q)
  BY OthersSame
<1>3. M \subseteq Task /\ N \subseteq Task /\ P \subseteq Task /\ Q \subseteq Task
  OBVIOUS
<1>4. (t \in M <=> Waits(tasks[t])) /\ (t \in N <=> Waits(tasks'[t]))
      /\ (t \in P <=> tasks[t].pc = "queued") /\ (t \in Q <=> tasks'[t].pc = "queued")
  OBVIOUS
<1> HIDE DEF M, N, P, Q
<1>5. QueueOf(mutex', N)
  <2>1. CASE mutex' = mutex /\ (t \in N <=> t \in M)
    <3>1. N = M
      BY <1>2, <1>3, <2>1
    <3> QED
      BY <1>1, <2>1, <3>1
  <2>2. CASE mutex' = Append(mutex, t) /\ t \notin M /\ t \in N
    <3>1. N = M \cup {t}
      BY <1>2, <1>3, <2>2
    <3> QED
      BY <1>1, <2>2, <3>1, QueueAppend
  <2>3. CASE mutex' = Tail(mutex) /\ Holds(t) /\ t \notin N
    <3>1. N = M \ {Head(mutex)} /\ mutex # << >>
      BY <1>2, <1>3, <2>3 DEF Holds
    <3> QED
      BY <1>1, <2>3, <3>1, QueueTail
  <2> QED
    BY <1>4, <2>1, <2>2, <2>3 DEF MutexMove
<1>6. QueueOf(wire', Q)
  <2>1. CASE wire' = wire /\ (t \in Q <=> t \in P)
    <3>1. Q = P
      BY <1>2, <1>3, <2>1
    <3> QED
      BY <1>1, <2>1, <3>1
  <2>2. CASE wire' = Append(wire, t) /\ t \notin P /\ t \in Q
    <3>1. Q = P \cup {t}
      BY <1>2, <1>3, <2>2
    <3> QED
      BY <1>1, <2>2, <3>1, QueueAppend
  <2>3. CASE t \in P /\ t \notin Q /\ (wire' = RemoveFirst(wire, t) \/ (wire' = Tail(wire) /\ Head(wire) = t))
    <3>1. Q = P \ {t} /\ P # {}
      BY <1>2, <1>3, <2>3
    <3>2. wire # << >>
      BY <1>1, <3>1, QueueHead
    <3>3. CASE wire' = Tail(wire) /\ Head(wire) = t
      BY <1>1, <3>1, <3>2, <3>3, QueueTail
    <3>4. CASE wire' = RemoveFirst(wire, t)
      BY <1>1, <2>3, <3>1, <3>4, QueueRemove
    <3> QED
      BY <2>3, <3>3, <3>4
  <2> QED
    BY <1>4, <2>1, <2>2, <2>3 DEF WireMove
<1> QED
  BY <1>5, <1>6 DEF Queues, M, N, P, Q
-----------------------------------------------------------------------------
(* The counts.  Of task r, the tokens counted when token is tk.            *)
Cur(r, tk) == {x \in {tk} : r.cmd = "Logout" /\ r.pc = "answered" => r.ans = "ok"}
              \cup {x \in {r.tok} : r.cmd = "Login" /\ r.pc = "answered" /\ r.ans = "ok"}

Ledger(t) ==
    \/ tasks[t].cmd = "Cmd" /\ tasks'[t].cmd = "Cmd" /\ UNCHANGED <<token, sessions>>
    \/ /\ Holds(t)
       /\ tasks'[t].cmd = "Logout" => LogoutTrue(tasks[t])'
       /\ LET before == sessions \ Cur(tasks[t], token)
              after == sessions' \ Cur(tasks'[t], token')
          IN  after \subseteq before \/ (lost' > lost /\ \E x : after \subseteq before \cup {x})

LEMMA HolderCounts ==
  ASSUME NEW t \in Task, \A u \in Task \ {t} : tasks[u].cmd = "Cmd"
  PROVE  Counted = Cur(tasks[t], token)
BY DEF Counted, Cur

LEMMA SessionsFinite ==
  ASSUME NEW n \in Nat, NEW S \in SUBSET (1..n)
  PROVE  IsFiniteSet(S) /\ Cardinality(S) \in Nat
<1>1. IsFiniteSet(1..n)
  BY FS_Interval
<1> QED
  BY <1>1, FS_Subset, FS_CardinalityType

LEMMA CountStays ==
  ASSUME Numbers, NEW after,
         \/ after \subseteq sessions \ Counted
         \/ lost' > lost /\ \E x : after \subseteq (sessions \ Counted) \cup {x},
         lost' \in Nat, lost' >= lost, Accounted
  PROVE  Cardinality(after) <= lost'
<1> DEFINE before == sessions \ Counted
<1>1. issued \in Nat /\ lost \in Nat /\ before \in SUBSET (1..issued)
  <2>1. issued \in 0..MaxLogins /\ sessions \subseteq 1..issued /\ lost \in Nat
    BY Zenon DEF Numbers
  <2>2. before \in SUBSET (1..issued)
    BY <2>1, Zenon
  <2> QED
    BY <2>1, <2>2
<1>2. IsFiniteSet(before) /\ Cardinality(before) \in Nat
  BY <1>1, SessionsFinite
<1>3. Cardinality(before) <= lost
  BY DEF Accounted
<1> HIDE DEF before
<1>4. CASE after \subseteq before
  <2>1. Cardinality(after) \in Nat /\ Cardinality(after) <= Cardinality(before)
    BY <1>2, <1>4, FS_Subset, FS_CardinalityType
  <2> QED
    BY <1>1, <1>2, <1>3, <2>1
<1>5. CASE lost' > lost /\ \E x : after \subseteq before \cup {x}
  <2>1. PICK x : after \subseteq before \cup {x}
    BY <1>5
  <2> DEFINE more == before \cup {x}
  <2>2. IsFiniteSet(more) /\ Cardinality(more) = IF x \in before THEN Cardinality(before) ELSE Cardinality(before) + 1
    BY <1>2, FS_AddElement
  <2>3. after \in SUBSET more
    BY <2>1
  <2> HIDE DEF more
  <2>4. IsFiniteSet(after) /\ Cardinality(after) <= Cardinality(more)
    BY <2>2, <2>3, FS_Subset
  <2>5. Cardinality(after) \in Nat
    BY <2>4, FS_CardinalityType
  <2> QED
    BY <1>1, <1>2, <1>3, <1>5, <2>2, <2>4, <2>5
<1> QED
  BY <1>4, <1>5 DEF before

LEMMA CountStaysTo ==
  ASSUME Numbers, Accounted, lost' \in Nat, lost' >= lost,
         \/ sessions' \ Counted' \subseteq sessions \ Counted
         \/ lost' > lost /\ \E x : sessions' \ Counted' \subseteq (sessions \ Counted) \cup {x}
  PROVE  Accounted'
<1> DEFINE after == sessions' \ Counted'
<1>1. \/ after \subseteq sessions \ Counted
      \/ lost' > lost /\ \E x : after \subseteq (sessions \ Counted) \cup {x}
  OBVIOUS
<1> HIDE DEF after
<1>2. Cardinality(after) <= lost'
  BY <1>1, CountStays
<1> QED
  BY <1>2 DEF after, Accounted

LEMMA AccountedKeeps ==
  ASSUME All, NEW t \in Task, Moved(t), Ledger(t)
  PROVE  Accounted' /\ \A u \in Task : LogoutTrue(tasks[u])'
<1>1. Numbers /\ Accounted /\ lost' \in Nat /\ lost' >= lost
  BY DEF All, Moved
<1>2. \A u \in Task \ {t} : LogoutTrue(tasks[u])
  BY DEF All
<1>3. CASE tasks[t].cmd = "Cmd" /\ tasks'[t].cmd = "Cmd" /\ UNCHANGED <<token, sessions>>
  <2>1. ASSUME NEW u \in Task PROVE LogoutTrue(tasks[u])'
    <3>1. CASE u = t
      BY <1>3, <3>1 DEF LogoutTrue
    <3>2. CASE u # t
      <4>1. tasks[u] \in Record
        BY DEF All, IInv, Types
      <4>2. tasks'[u] = tasks[u] \/ tasks'[u] = [tasks[u] EXCEPT !.ans = "lost"]
        BY <3>2 DEF Moved, Cuts
      <4> QED
        BY <1>2, <1>3, <3>2, <4>1, <4>2 DEF LogoutTrue, Record
    <3> QED
      BY <3>1, <3>2
  <2>2. CASE lost' > lost
    <3>1. CASE \E u \in Task : tasks[u].cmd # "Cmd"
      <4>1. PICK u \in Task : tasks[u].cmd # "Cmd"
        BY <3>1
      <4>2. \A v \in Task \ {u} : tasks[v].cmd = "Cmd" /\ tasks'[v].cmd = "Cmd"
        BY <1>3, <4>1, OneLogsIn, OthersSame
      <4>3. u # t /\ tasks'[u].cmd = tasks[u].cmd
        BY <1>3, <4>1, OthersSame
      <4>4. Counted = Cur(tasks[u], token) /\ Counted' = Cur(tasks'[u], token)
        BY <1>3, <4>1, <4>2 DEF Counted, Cur
      <4>5. \E x : Cur(tasks[u], token) \subseteq Cur(tasks'[u], token) \cup {x}
        <5>1. CASE tasks[u].cmd = "Login"
          <6>1. Cur(tasks[u], token) \subseteq Cur(tasks'[u], token) \cup {tasks[u].tok}
            BY <4>3, <5>1 DEF Cur
          <6> QED
            BY <6>1
        <5>2. CASE tasks[u].cmd # "Login"
          <6>1. Cur(tasks[u], token) \subseteq Cur(tasks'[u], token) \cup {token}
            BY <5>2 DEF Cur
          <6> QED
            BY <6>1
        <5> QED
          BY <5>1, <5>2
      <4>6. \E x : sessions' \ Counted' \subseteq (sessions \ Counted) \cup {x}
        BY <1>3, <4>4, <4>5
      <4> QED
        BY <1>1, <2>1, <2>2, <4>6, CountStaysTo
    <3>2. CASE \A u \in Task : tasks[u].cmd = "Cmd"
      <4>1. \A u \in Task : tasks'[u].cmd = "Cmd"
        BY <1>3, <3>2, OthersSame
      <4>2. Counted' = Counted
        BY <1>3, <3>2, <4>1 DEF Counted
      <4>3. sessions' \ Counted' \subseteq sessions \ Counted
        BY <1>3, <4>2
      <4> QED
        BY <1>1, <2>1, <4>3, CountStaysTo
    <3> QED
      BY <3>1, <3>2
  <2>3. CASE ~(lost' > lost)
    <3>1. ASSUME NEW u \in Task
          PROVE  /\ tasks'[u].cmd = tasks[u].cmd
                 /\ tasks[u].cmd # "Cmd" => tasks'[u].tok = tasks[u].tok
                 /\ tasks[u].cmd # "Cmd" => /\ tasks'[u].pc = tasks[u].pc
                                            /\ tasks'[u].ans = "ok" <=> tasks[u].ans = "ok"
      <4>1. CASE u = t
        BY <1>3, <4>1
      <4>2. CASE u # t
        <5>1. tasks'[u].cmd = tasks[u].cmd /\ tasks'[u].tok = tasks[u].tok /\ tasks'[u].pc = tasks[u].pc
          BY <4>2, OthersSame
        <5>2. tasks[u] \in Record
          BY DEF All, IInv, Types
        <5>3. tasks'[u] = tasks[u] \/ (tasks'[u] = [tasks[u] EXCEPT !.ans = "lost"]
                                      /\ (tasks[u].cmd = "Cmd" \/ tasks[u].ans = "lost"))
          BY <2>3, <4>2 DEF Moved, Cuts
        <5>4. tasks[u].cmd # "Cmd" => (tasks'[u].ans = "ok" <=> tasks[u].ans = "ok")
          BY <5>2, <5>3 DEF Record
        <5> QED
          BY <5>1, <5>4
      <4> QED
        BY <4>1, <4>2
    <3>2. Counted' = Counted
      BY <1>3, <3>1 DEF Counted
    <3>3. sessions' \ Counted' \subseteq sessions \ Counted
      BY <1>3, <3>2
    <3> QED
      BY <1>1, <2>1, <3>3, CountStaysTo
  <2> QED
    BY <2>1, <2>2, <2>3
<1>4. CASE Holds(t) /\ ~(tasks[t].cmd = "Cmd" /\ tasks'[t].cmd = "Cmd" /\ UNCHANGED <<token, sessions>>)
  <2>1. \A u \in Task \ {t} : tasks[u].cmd = "Cmd" /\ tasks'[u].cmd = "Cmd"
    BY <1>4, Who, OthersSame DEF Holds, All
  <2>2. Counted = Cur(tasks[t], token)
    BY <2>1, HolderCounts
  <2>3. Counted' = Cur(tasks'[t], token')
    BY <2>1 DEF Counted, Cur
  <2>4. Accounted'
    BY <1>1, <1>4, <2>2, <2>3, CountStaysTo DEF Ledger
  <2>5. \A u \in Task : LogoutTrue(tasks[u])'
    BY <1>4, <2>1 DEF LogoutTrue, Ledger
  <2> QED
    BY <2>4, <2>5
<1> QED
  BY <1>3, <1>4 DEF Ledger

-----------------------------------------------------------------------------
(* As long as nothing goes wrong.                                          *)
QuietMove(t) ==
    /\ ~closed' /\ port' \in {"none", open'} /\ (port = open => port' = open')
    /\ sessions \subseteq sessions'
    /\ token' # 0 => lease' /\ token' \in sessions'
    /\ QuietTask(tasks[t])'

LEMMA QuietKeeps ==
  ASSUME All, NEW t \in Task, Moved(t), faults' \in Nat, faults' >= faults, tasks'[t].pc # "idle",
         ended' = ended, t \in Sender /\ Quiet /\ faults' = faults => QuietMove(t)
  PROVE  QuietInv'
<1> SUFFICES ASSUME Quiet'
             PROVE  /\ port' \in {"none", open'} /\ ~closed'
                    /\ token' # 0 => lease' /\ token' \in sessions'
                    /\ \A u \in Task : QuietTask(tasks[u])'
  BY DEF QuietInv
<1>1. faults' = 0 /\ faults = 0 /\ t \in Sender
  <2>1. faults \in Nat
    BY DEF All, Numbers
  <2> QED
    BY <2>1 DEF Quiet, Lull, Task
<1>2. Quiet
  <2>1. \A u \in Task \ {t} : tasks'[u].pc = tasks[u].pc
    BY OthersSame
  <2>2. \A u \in Leaver : u \in Task /\ u # t
    BY <1>1, Disjoint DEF Task
  <2> QED
    BY <1>1, <2>1, <2>2 DEF Quiet, Lull
<1>3. QuietMove(t)
  BY <1>1, <1>2
<1>4. ASSUME NEW u \in Task \ {t} PROVE QuietTask(tasks[u])'
  <2>1. QuietTask(tasks[u])
    BY <1>2 DEF All, QuietInv
  <2>2. tasks'[u] = tasks[u]
    BY <1>3 DEF Moved, Cuts, QuietMove
  <2> QED
    BY <1>3, <2>1, <2>2 DEF QuietTask, QuietMove
<1> QED
  BY <1>3, <1>4 DEF QuietMove

-----------------------------------------------------------------------------
(* What every step of a task is.                                           *)
Kept(t) == Moved(t) /\ MutexMove(t) /\ WireMove(t) /\ Ledger(t)

Good(t) ==
    /\ Kept(t) /\ tasks'[t].pc # "idle"
    /\ faults' = faults \/ Fault(t)
    /\ t \in Sender /\ Quiet /\ faults' = faults => QuietMove(t)

LEMMA FaultsGrow ==
  ASSUME Numbers, ended \in Nat, NEW t, faults' = faults \/ Fault(t)
  PROVE  faults' \in 0..MaxMishaps /\ faults' \in Nat /\ faults' >= faults
<1>1. faults \in 0..MaxMishaps /\ MaxMishaps \in Nat
  BY HttpSessionAssumption DEF Numbers
<1> QED
  BY <1>1 DEF Fault

LEMMA GoodKeeps ==
  ASSUME All, NEW t \in Task, Good(t), IInv', Numbers', ended' = ended
  PROVE  All'
<1>1. faults' \in Nat /\ faults' >= faults
  BY FaultsGrow DEF All, Good
<1> QED
  BY <1>1, QueuesKeep, AccountedKeeps, QuietKeeps DEF Good, Kept, All

(* In quiet times, a step of a task that has its try answered leaves the   *)
(* token alone.                                                            *)
LEMMA QuietCalm ==
  ASSUME All, Quiet, NEW t \in Sender, port' \in {port, open'}, closed' = closed \/ closed' = FALSE,
         UNCHANGED <<token, lease, sessions, open>>, QuietTask(tasks[t])'
  PROVE  QuietMove(t)
<1>1. ~closed' /\ (token' # 0 => lease' /\ token' \in sessions')
  <2>1. ~closed /\ (token # 0 => lease /\ token \in sessions)
    BY DEF All, QuietInv
  <2>2. ~closed'
    BY <2>1, Zenon
  <2>3. token' # 0 => lease' /\ token' \in sessions'
    BY <2>1, Zenon
  <2> QED
    BY <2>2, <2>3
<1>2. port' \in {"none", open'} /\ (port = open => port' = open')
  BY DEF All, QuietInv
<1> QED
  BY <1>1, <1>2 DEF QuietMove

LEMMA QuietWho ==
  ASSUME All, Quiet, NEW t \in Sender
  PROVE  QuietTask(tasks[t]) /\ ~closed /\ port \in {"none", open}
BY DEF All, QuietInv, Task

-----------------------------------------------------------------------------
(* The steps to the request.                                               *)

LEMMA WhoAll ==
  ASSUME All, NEW t \in Task
  PROVE  /\ tasks \in [Task -> Record] /\ tasks[t] \in Record /\ token \in 0..MaxLogins
         /\ tasks[t].pc \in {"probe", "ports"} => t \in Sender /\ tasks[t].cmd = "Cmd"
         /\ tasks[t].pc \in {"idle", "mutex"} => tasks[t].cmd = "Cmd"
         /\ tasks[t].pc \in Busy /\ tasks[t].cmd = "Cmd" => t \in Sender
         /\ tasks[t].cmd = "Login" => t \in Sender /\ token = 0
         /\ tasks[t].cmd # "Cmd" => Holds(t) /\ tasks[t].pc \in Busy
         /\ tasks[t].cmd = "Logout" /\ tasks[t].pc = "answered" /\ tasks[t].ans = "ok" => token \notin sessions
         /\ tasks[t].cmd = "Logout" => tasks[t].tok = token
<1>1. IInv /\ TaskInv(t) /\ LogoutTrue(tasks[t])
  BY DEF All, IInv
<1>2. tasks \in [Task -> Record]
  BY <1>1 DEF IInv, Types
<1> QED
  BY <1>1, <1>2, Who DEF TaskInv, LogoutTrue

LEMMA LogInKept ==
  ASSUME All, NEW t \in Sender, NEW r \in Record, r.cmd = "Cmd", LogIn(t, r), tasks[t].cmd = "Cmd",
         tasks[t].pc \notin {"mutex", "queued"}, UNCHANGED <<wire, token, sessions, lost>>
  PROVE  /\ Kept(t)
         /\ tasks'[t].cmd = "Cmd" /\ tasks'[t].try = r.try /\ tasks'[t].ans = r.ans
         /\ tasks'[t].pc = "mutex" \/ (tasks'[t].pc = "send" /\ Valid /\ tasks'[t].tok = token)
<1>1. t \in Task /\ token \in 0..MaxLogins
  BY WhoAll DEF Task
<1>2. CASE Valid
  <2> DEFINE w == [r EXCEPT !.pc = "send", !.cmd = "Cmd", !.tok = token]
  <2>1. w \in Record /\ w.cmd = "Cmd" /\ w.try = r.try /\ w.ans = r.ans /\ w.pc = "send" /\ w.tok = token
    BY <1>1 DEF Record, Pcs
  <2>2. tasks' = [tasks EXCEPT ![t] = w] /\ mutex' = mutex
    BY <1>2 DEF LogIn
  <2> HIDE DEF w
  <2>3. Moved(t) /\ tasks'[t] = w
    BY <1>1, <2>1, <2>2, MoveOfOne
  <2> QED
    BY <1>2, <2>1, <2>2, <2>3 DEF Kept, MutexMove, WireMove, Ledger, Waits
<1>3. CASE ~Valid
  <2> DEFINE w == [r EXCEPT !.pc = "mutex"]
  <2>1. w \in Record /\ w.cmd = "Cmd" /\ w.try = r.try /\ w.ans = r.ans /\ w.pc = "mutex"
    BY DEF Record, Pcs
  <2>2. tasks' = [tasks EXCEPT ![t] = w] /\ mutex' = Append(mutex, t)
    BY <1>3 DEF LogIn
  <2> HIDE DEF w
  <2>3. Moved(t) /\ tasks'[t] = w
    BY <1>1, <2>1, <2>2, MoveOfOne
  <2> QED
    BY <2>1, <2>2, <2>3 DEF Kept, MutexMove, WireMove, Ledger, Waits
<1> QED
  BY <1>2, <1>3

LEMMA LogInQuiet ==
  ASSUME All, Quiet, NEW t \in Sender, port' = open', UNCHANGED <<token, lease, sessions, open, closed>>,
         tasks'[t].cmd = "Cmd", tasks'[t].try = << >>, tasks'[t].ans \in {"none", "ok"},
         tasks'[t].pc = "mutex" \/ (tasks'[t].pc = "send" /\ Valid /\ tasks'[t].tok = token)
  PROVE  QuietMove(t)
<1>1. Valid => token \in sessions
  BY DEF Valid, All, QuietInv
<1>2. QuietTask(tasks[t])'
  BY <1>1 DEF QuietTask
<1> QED
  BY <1>2, QuietCalm

LEMMA AttemptGood ==
  ASSUME All, NEW t \in Sender, NEW r \in Record, r.cmd = "Cmd", Attempt(t, r), tasks[t].cmd = "Cmd",
         tasks[t].pc \notin {"mutex", "queued"}, UNCHANGED <<wire, token, lease, sessions, lost, faults, open, closed, port>>,
         r.try = tasks[t].try, r.ans \in {tasks[t].ans, "none"}
  PROVE  Good(t)
<1>1. t \in Task
  BY DEF Task
<1>2. CASE port = "none"
  <2> DEFINE w == [r EXCEPT !.pc = "probe"]
  <2>1. w \in Record /\ w.cmd = "Cmd" /\ w.try = r.try /\ w.ans = r.ans /\ w.pc = "probe"
    BY DEF Record, Pcs
  <2>2. tasks' = [tasks EXCEPT ![t] = w] /\ mutex' = mutex
    BY <1>2 DEF Attempt
  <2> HIDE DEF w
  <2>3. Moved(t) /\ tasks'[t] = w
    BY <1>1, <2>1, <2>2, MoveOfOne
  <2>4. Kept(t)
    BY <2>1, <2>2, <2>3 DEF Kept, MutexMove, WireMove, Ledger, Waits
  <2>5. ASSUME Quiet PROVE QuietMove(t)
    <3>1. QuietTask(tasks[t])
      BY <2>5, QuietWho
    <3>2. QuietTask(tasks[t])'
      BY <2>1, <2>3, <3>1 DEF QuietTask, Busy
    <3> QED
      BY <2>5, <3>2, QuietCalm
  <2> QED
    BY <2>1, <2>3, <2>4, <2>5 DEF Good
<1>3. CASE port # "none"
  <2> DEFINE q == [r EXCEPT !.attempt = 1]
  <2>1. q \in Record /\ q.cmd = "Cmd" /\ q.try = r.try /\ q.ans = r.ans
    BY DEF Record
  <2>2. LogIn(t, q)
    BY <1>3 DEF Attempt
  <2> HIDE DEF q
  <2>3. /\ Kept(t) /\ tasks'[t].cmd = "Cmd" /\ tasks'[t].try = r.try /\ tasks'[t].ans = r.ans
        /\ tasks'[t].pc = "mutex" \/ (tasks'[t].pc = "send" /\ Valid /\ tasks'[t].tok = token)
    BY <2>1, <2>2, LogInKept
  <2>4. ASSUME Quiet PROVE QuietMove(t)
    <3>1. QuietTask(tasks[t]) /\ port = open
      BY <1>3, <2>4, QuietWho
    <3> QED
      BY <2>3, <2>4, <3>1, LogInQuiet DEF QuietTask
  <2> QED
    BY <2>3, <2>4 DEF Good
<1> QED
  BY <1>2, <1>3

LEMMA StartGood ==
  ASSUME All, NEW t \in Task, Start(t)
  PROVE  Good(t)
<1> DEFINE n == RETRY_ATTEMPTS - 1
           r == [tasks[t] EXCEPT !.retry = n]
<1>1. n \in Attempts
  BY HttpSessionAssumption DEF Attempts
<1>2. t \in Sender /\ Attempt(t, r) /\ UNCHANGED <<wire, token, lease, sessions, lost, faults, open, closed, port>>
  BY DEF Start, camera
<1>3. tasks[t] \in Record /\ tasks[t].cmd = "Cmd" /\ tasks[t].pc = "idle"
  BY WhoAll DEF Start
<1> HIDE DEF n
<1>4. r \in Record /\ r.cmd = "Cmd" /\ r.try = tasks[t].try /\ r.ans = tasks[t].ans
  BY <1>1, <1>3 DEF Record
<1> HIDE DEF r
<1> QED
  BY <1>2, <1>3, <1>4, AttemptGood

LEMMA ProbeGood ==
  ASSUME All, NEW t \in Task, Probe(t)
  PROVE  Good(t)
<1>1. PICK available \in BOOLEAN :
         /\ IF available THEN UNCHANGED faults ELSE Fault(t)
         /\ LET try == IF available THEN <<open>> ELSE Ports
            IN  port' = Head(try) /\ LogIn(t, [tasks[t] EXCEPT !.attempt = 0, !.try = Tail(try), !.bc = available])
  BY DEF Probe
<1> DEFINE try == IF available THEN <<open>> ELSE Ports
           rest == Tail(try)
           r == [tasks[t] EXCEPT !.attempt = 0, !.try = rest, !.bc = available]
<1>2. UNCHANGED <<token, lease, closed, wire, camera, lost>> /\ tasks[t].pc = "probe"
  BY DEF Probe
<1>3. tasks[t] \in Record /\ tasks[t].cmd = "Cmd" /\ t \in Sender /\ open \in Range(Ports)
  BY <1>2, WhoAll DEF All, Numbers
<1>4. try \in Seq(Range(Ports)) /\ try # << >>
  BY <1>3, HttpSessionAssumption
<1>4a. available => port' = open /\ rest = << >>
  BY <1>1
<1> HIDE DEF try
<1>5. rest \in Seq(Range(Ports))
  BY <1>4
<1>6. LogIn(t, r)
  BY <1>1 DEF try
<1> HIDE DEF rest
<1>7. 0 \in 0..3
  OBVIOUS
<1>8. r \in Record /\ r.cmd = "Cmd" /\ r.try = rest /\ r.ans = tasks[t].ans
  BY <1>3, <1>5, <1>7 DEF Record
<1> HIDE DEF r
<1>9. /\ Kept(t) /\ tasks'[t].cmd = "Cmd" /\ tasks'[t].try = r.try /\ tasks'[t].ans = r.ans
      /\ tasks'[t].pc = "mutex" \/ (tasks'[t].pc = "send" /\ Valid /\ tasks'[t].tok = token)
  BY <1>2, <1>3, <1>6, <1>8, LogInKept DEF camera
<1>10. ASSUME Quiet, faults' = faults PROVE QuietMove(t)
  <2>1. faults \in Nat
    BY DEF All, Numbers
  <2>2. available
    BY <1>1, <1>10, <2>1 DEF Fault
  <2>3. QuietTask(tasks[t])
    BY <1>3, <1>10, QuietWho
  <2>4. tasks'[t].ans \in {"none", "ok"} /\ tasks'[t].try = << >> /\ port' = open' /\ UNCHANGED <<open, sessions>>
    BY <1>2, <1>3, <1>4a, <1>8, <1>9, <2>2, <2>3 DEF QuietTask, camera
  <2> QED
    BY <1>2, <1>3, <1>9, <1>10, <2>4, LogInQuiet
<1> QED
  BY <1>1, <1>9, <1>10 DEF Good

LEMMA KeptCmd ==
  ASSUME NEW t \in Task, Moved(t), tasks[t].cmd = "Cmd", tasks'[t].cmd = "Cmd",
         UNCHANGED <<token, sessions, mutex, wire>>,
         tasks[t].pc \notin {"mutex", "queued"}, tasks'[t].pc \notin {"mutex", "queued"}
  PROVE  Kept(t)
BY DEF Kept, MutexMove, WireMove, Ledger, Waits

LEMMA EndedShape ==
  ASSUME NEW r, NEW p \in {"ok", "raised"}
  PROVE  LET w == Ended(r, p)
         IN  w \in Record /\ w.pc = p /\ w.cmd = "Cmd" /\ w.ans = "none" /\ w.try = << >>
<1>1. p \in Pcs
  BY DEF Pcs
<1>2. Ended(r, p).try = << >>
  BY DEF Ended, Fresh
<1> QED
  BY <1>1, <1>2, EndedRecord

LEMMA EndedQuiet ==
  ASSUME NEW t \in Task, tasks'[t].cmd = "Cmd", tasks'[t].ans = "none", tasks'[t].try = << >>,
         tasks'[t].pc \in {"ok", "raised"}
  PROVE  QuietTask(tasks[t])'
BY DEF QuietTask, Busy

LEMMA NextPortGood ==
  ASSUME All, NEW t \in Task, NextPort(t)
  PROVE  Good(t)
<1> DEFINE r == tasks[t]
           rest == [r EXCEPT !.try = Tail(r.try)]
           again(n) == [r EXCEPT !.attempt = n]
           raised == Ended(r, "raised")
<1>1. UNCHANGED <<token, lease, closed, wire, open, sessions, lost>> /\ r.pc = "ports"
  BY DEF NextPort
<1>2. r \in Record /\ r.cmd = "Cmd" /\ t \in Sender
  BY <1>1, WhoAll
<1>3. \/ r.try # << >> /\ LogIn(t, rest) /\ faults' = faults
      \/ port' = open /\ LogIn(t, again(2)) /\ faults' = faults
      \/ port' = port /\ LogIn(t, again(3)) /\ faults' = faults
      \/ tasks' = [tasks EXCEPT ![t] = raised] /\ UNCHANGED <<mutex, port>> /\ (faults' = faults \/ Fault(t))
  BY DEF NextPort
<1>4. Quiet => QuietTask(r)
  BY <1>2, QuietWho
<1>5. CASE r.try # << >> /\ LogIn(t, rest) /\ faults' = faults
  <2>1. r.try \in Seq(Range(Ports))
    BY <1>2 DEF Record
  <2>2. Tail(r.try) \in Seq(Range(Ports))
    BY <1>5, <2>1
  <2>3. rest \in Record /\ rest.cmd = "Cmd"
    BY <1>2, <2>2 DEF Record
  <2>4. ~Quiet
    BY <1>4, <1>5 DEF QuietTask
  <2> HIDE DEF rest
  <2> QED
    BY <1>1, <1>2, <1>5, <2>3, <2>4, LogInKept DEF Good
<1>6. ASSUME NEW n \in {2, 3}, LogIn(t, again(n)), faults' = faults, port' = open \/ port' = port PROVE Good(t)
  <2>1. n \in 0..3
    OBVIOUS
  <2>2. again(n) \in Record /\ again(n).cmd = "Cmd" /\ again(n).try = r.try /\ again(n).ans = r.ans
    BY <1>2, <2>1 DEF Record
  <2> HIDE DEF again
  <2>3. /\ Kept(t)
        /\ tasks'[t].cmd = "Cmd" /\ tasks'[t].try = r.try /\ tasks'[t].ans = r.ans
        /\ tasks'[t].pc = "mutex" \/ (tasks'[t].pc = "send" /\ Valid /\ tasks'[t].tok = token)
    BY <1>1, <1>2, <1>6, <2>2, LogInKept
  <2>4. ASSUME Quiet PROVE QuietMove(t)
    <3>1. port' = open' /\ r.try = << >> /\ r.ans \in {"none", "ok"}
      BY <1>1, <1>2, <1>4, <1>6, <2>4 DEF QuietTask
    <3> QED
      BY <1>1, <1>2, <2>3, <2>4, <3>1, LogInQuiet
  <2> QED
    BY <1>6, <2>3, <2>4 DEF Good
<1>7. CASE tasks' = [tasks EXCEPT ![t] = raised] /\ UNCHANGED <<mutex, port>> /\ (faults' = faults \/ Fault(t))
  <2>1. raised \in Record /\ raised.cmd = "Cmd" /\ raised.pc = "raised" /\ raised.ans = "none" /\ raised.try = << >>
    BY EndedShape
  <2> HIDE DEF raised
  <2>2. Moved(t) /\ tasks'[t] = raised
    BY <1>1, <1>7, <2>1, MoveOfOne
  <2>3. Kept(t)
    BY <1>1, <1>2, <1>7, <2>1, <2>2, KeptCmd
  <2>4. ASSUME Quiet PROVE QuietMove(t)
    BY <1>1, <1>2, <1>7, <2>1, <2>2, <2>4, QuietCalm, EndedQuiet
  <2> QED
    BY <1>7, <2>1, <2>2, <2>3, <2>4 DEF Good
<1> QED
  BY <1>3, <1>5, <1>6, <1>7

LEMMA LeaveGood ==
  ASSUME All, NEW t \in Task, Leave(t)
  PROVE  Good(t)
<1> DEFINE w == [tasks[t] EXCEPT !.pc = "mutex"]
<1>1. /\ tasks[t] \in Record /\ tasks[t].cmd = "Cmd" /\ tasks[t].pc = "idle" /\ t \notin Sender
      /\ UNCHANGED <<token, sessions, wire, lost, faults>>
  BY WhoAll, Disjoint DEF Leave, camera
<1>2. w \in Record /\ w.cmd = "Cmd" /\ w.pc = "mutex"
  BY <1>1 DEF Record, Pcs
<1>3. tasks' = [tasks EXCEPT ![t] = w] /\ mutex' = Append(mutex, t)
  BY DEF Leave
<1> HIDE DEF w
<1>4. Moved(t) /\ tasks'[t] = w
  BY <1>1, <1>2, <1>3, MoveOfOne
<1> QED
  BY <1>1, <1>2, <1>3, <1>4 DEF Good, Kept, MutexMove, WireMove, Ledger, Waits

LEMMA ExchangeShape ==
  ASSUME NEW r \in Record, NEW c \in {"Login", "Logout"}, token \in 0..MaxLogins
  PROVE  LET w == Exchange(r, c)
         IN  w \in Record /\ w.pc = "send" /\ w.cmd = c /\ w.try = r.try /\ (c = "Logout" => w.tok = token)
<1>1. Exchange(r, c).try = r.try /\ (c = "Logout" => Exchange(r, c).tok = token)
  BY DEF Exchange, Record
<1> QED
  BY <1>1, ExchangeRecord, HttpSessionAssumption

LEMMA LoggedOutGood ==
  ASSUME All, NEW t \in Task, Holds(t), NEW broken \in BOOLEAN, LoggedOut(t, tasks[t], broken),
         UNCHANGED <<wire, sessions, port, faults, open>>,
         \/ tasks[t].cmd = "Cmd" /\ tasks[t].pc = "mutex" /\ token = 0 /\ ~broken
         \/ tasks[t].cmd = "Logout" /\ tasks[t].pc = "answered"
  PROVE  Good(t)
<1>1. tasks[t] \in Record /\ token \in 0..MaxLogins
  BY WhoAll
<1>2. token' = 0 /\ Numbers
  BY DEF LoggedOut, All
<1>3. 0 \notin sessions
  BY <1>2 DEF Numbers
<1>4. sessions' \ {0} \subseteq sessions \ Cur(tasks[t], token)
  BY <1>3, WhoAll DEF Cur
<1>5. CASE t \in Leaver
  <2> DEFINE w == Ended(tasks[t], "ok")
  <2>1. w \in Record /\ w.cmd = "Cmd" /\ w.pc = "ok"
    BY EndedShape
  <2>2. CutOff(t, [tasks EXCEPT ![t] = w]) /\ mutex' = Tail(mutex)
    BY <1>5 DEF LoggedOut
  <2> HIDE DEF w
  <2>3. Moved(t) /\ tasks'[t] = w
    BY <2>1, <2>2, MoveOfCut
  <2>4. Cur(tasks'[t], token') = {0}
    BY <1>2, <2>1, <2>3 DEF Cur
  <2>5. Ledger(t)
    BY <1>4, <2>1, <2>3, <2>4 DEF Ledger
  <2> QED
    BY <1>5, <2>1, <2>2, <2>3, <2>5, Disjoint DEF Good, Kept, MutexMove, WireMove, Waits
<1>6. CASE t \notin Leaver
  <2> DEFINE w == Exchange(tasks[t], "Login")
  <2>1. w \in Record /\ w.cmd = "Login" /\ w.pc = "send" /\ w.try = tasks[t].try
    BY <1>1, ExchangeShape
  <2>2. mutex' = mutex
    BY <1>6 DEF LoggedOut
  <2>3. CutOff(t, [tasks EXCEPT ![t] = w]) \/ (~broken /\ tasks' = [tasks EXCEPT ![t] = w] /\ UNCHANGED <<closed, lost>>)
    BY <1>6 DEF LoggedOut
  <2>3a. ~broken => UNCHANGED closed
    BY <1>6 DEF LoggedOut
  <2> HIDE DEF w
  <2>4. Moved(t) /\ tasks'[t] = w
    BY <2>1, <2>3, MoveOfCut, MoveOfOne
  <2>5. Cur(tasks'[t], token') = {0}
    BY <1>2, <2>1, <2>4 DEF Cur
  <2>6. Ledger(t)
    BY <1>4, <2>1, <2>4, <2>5 DEF Ledger
  <2>7. ASSUME t \in Sender, Quiet PROVE QuietMove(t)
    <3>1. QuietTask(tasks[t]) /\ ~closed
      BY <2>7, QuietWho
    <3>2. port = open /\ ~closed' /\ tasks[t].try = << >>
      BY <2>3a, <3>1 DEF QuietTask
    <3>3. QuietTask(tasks[t])'
      BY <2>1, <2>4, <3>2 DEF QuietTask, Busy
    <3> QED
      BY <1>2, <3>2, <3>3 DEF QuietMove
  <2> QED
    BY <2>1, <2>2, <2>4, <2>6, <2>7 DEF Good, Kept, MutexMove, WireMove, Waits
<1> QED
  BY <1>5, <1>6

LEMMA GrantedGood ==
  ASSUME All, NEW t \in Task, Granted(t)
  PROVE  Good(t)
<1>1. tasks[t].pc = "mutex" /\ Holds(t) /\ UNCHANGED <<port, wire, camera, faults>>
  BY DEF Granted
<1>2. tasks[t] \in Record /\ tasks[t].cmd = "Cmd" /\ token \in 0..MaxLogins
  BY <1>1, WhoAll
<1>3. CASE /\ t \in Sender /\ Valid /\ mutex' = Tail(mutex) /\ UNCHANGED <<token, lease, closed, lost>>
           /\ tasks' = [tasks EXCEPT ![t] = [tasks[t] EXCEPT !.pc = "send", !.cmd = "Cmd", !.tok = token]]
  <2> DEFINE w == [tasks[t] EXCEPT !.pc = "send", !.cmd = "Cmd", !.tok = token]
  <2>1. /\ w \in Record /\ w.cmd = "Cmd" /\ w.pc = "send" /\ w.try = tasks[t].try /\ w.tok = token
        /\ w.ans = tasks[t].ans
    BY <1>2 DEF Record, Pcs
  <2>2. tasks' = [tasks EXCEPT ![t] = w]
    BY <1>3
  <2> HIDE DEF w
  <2>3. Moved(t) /\ tasks'[t] = w
    BY <1>3, <2>1, <2>2, MoveOfOne
  <2>4. Kept(t)
    BY <1>1, <1>2, <1>3, <2>1, <2>3 DEF Kept, MutexMove, WireMove, Ledger, Waits, camera
  <2>5. ASSUME Quiet PROVE QuietMove(t)
    <3>1. QuietTask(tasks[t])
      BY <1>3, <2>5, QuietWho
    <3>2. port' = open' /\ tasks[t].try = << >> /\ tasks[t].ans \in {"none", "ok"}
      BY <1>1, <1>2, <3>1 DEF QuietTask, camera
    <3> QED
      BY <1>1, <1>3, <2>1, <2>3, <2>5, <3>2, LogInQuiet DEF camera
  <2> QED
    BY <1>1, <2>1, <2>3, <2>4, <2>5 DEF Good
<1>4. CASE /\ ~(t \in Sender /\ Valid) /\ token # 0 /\ UNCHANGED <<token, lease, closed, mutex, lost>>
           /\ tasks' = [tasks EXCEPT ![t] = Exchange(tasks[t], "Logout")]
  <2> DEFINE w == Exchange(tasks[t], "Logout")
  <2>1. w \in Record /\ w.cmd = "Logout" /\ w.pc = "send" /\ w.tok = token
    BY <1>2, ExchangeShape
  <2>2. tasks' = [tasks EXCEPT ![t] = w]
    BY <1>4
  <2> HIDE DEF w
  <2>3. Moved(t) /\ tasks'[t] = w
    BY <1>4, <2>1, <2>2, MoveOfOne
  <2>4. Cur(tasks[t], token) = Cur(tasks'[t], token)
    BY <1>2, <2>1, <2>3 DEF Cur
  <2>5. Ledger(t)
    BY <1>1, <1>4, <2>1, <2>3, <2>4 DEF Ledger, LogoutTrue, camera
  <2>6. ~(t \in Sender /\ Quiet)
    BY <1>4 DEF Valid, All, QuietInv
  <2> QED
    BY <1>1, <1>2, <1>4, <2>1, <2>3, <2>5, <2>6 DEF Good, Kept, MutexMove, WireMove, Waits
<1>5. CASE token = 0 /\ LoggedOut(t, tasks[t], FALSE)
  BY <1>1, <1>2, <1>5, LoggedOutGood DEF camera
<1>6. \/ /\ t \in Sender /\ Valid /\ mutex' = Tail(mutex) /\ UNCHANGED <<token, lease, closed, lost>>
         /\ tasks' = [tasks EXCEPT ![t] = [tasks[t] EXCEPT !.pc = "send", !.cmd = "Cmd", !.tok = token]]
      \/ /\ ~(t \in Sender /\ Valid) /\ token # 0 /\ UNCHANGED <<token, lease, closed, mutex, lost>>
         /\ tasks' = [tasks EXCEPT ![t] = Exchange(tasks[t], "Logout")]
      \/ token = 0 /\ LoggedOut(t, tasks[t], FALSE)
  BY DEF Granted
<1> QED
  BY <1>3, <1>4, <1>5, <1>6

-----------------------------------------------------------------------------
(* The request and its answer.                                             *)

LEMMA QueueGood ==
  ASSUME All, NEW t \in Task, Queue(t)
  PROVE  Good(t)
<1> DEFINE w == [tasks[t] EXCEPT !.pc = "queued"]
<1>1. /\ tasks[t] \in Record /\ tasks[t].pc = "send" /\ closed' = FALSE /\ wire' = Append(wire, t)
      /\ UNCHANGED <<port, token, lease, mutex, open, sessions, lost, faults>>
  BY WhoAll DEF Queue, camera
<1>2. /\ w \in Record /\ w.pc = "queued" /\ w.cmd = tasks[t].cmd /\ w.tok = tasks[t].tok
      /\ w.try = tasks[t].try /\ w.ans = tasks[t].ans
  BY <1>1 DEF Record, Pcs
<1>3. tasks' = [tasks EXCEPT ![t] = w]
  BY DEF Queue
<1> HIDE DEF w
<1>4. Moved(t) /\ tasks'[t] = w
  BY <1>1, <1>2, <1>3, MoveOfOne
<1>5. Cur(tasks[t], token) = Cur(tasks'[t], token')
  BY <1>1, <1>2, <1>4 DEF Cur
<1>6. Ledger(t)
  BY <1>1, <1>2, <1>4, <1>5, WhoAll DEF Ledger, LogoutTrue
<1>7. ASSUME t \in Sender, Quiet PROVE QuietMove(t)
  <2>1. QuietTask(tasks[t])
    BY <1>7, QuietWho
  <2>2. QuietTask(tasks[t])'
    BY <1>1, <1>2, <1>4, <2>1 DEF QuietTask, Busy
  <2> QED
    BY <1>1, <1>7, <2>2, QuietCalm
<1> QED
  BY <1>1, <1>2, <1>4, <1>6, <1>7 DEF Good, Kept, MutexMove, WireMove, Waits

LEMMA LedgerCmd ==
  ASSUME NEW t, tasks[t].cmd = "Cmd", tasks'[t].cmd = "Cmd", UNCHANGED <<token, sessions>>
  PROVE  Ledger(t)
BY DEF Ledger

LEMMA LedgerHolder ==
  ASSUME NEW t, Holds(t), tasks'[t].cmd = "Logout" => LogoutTrue(tasks[t])',
         sessions' \ Cur(tasks'[t], token') \subseteq sessions \ Cur(tasks[t], token)
  PROVE  Ledger(t)
BY DEF Ledger

LEMMA LedgerLost ==
  ASSUME NEW t, Holds(t), tasks'[t].cmd = "Logout" => LogoutTrue(tasks[t])', lost' > lost,
         NEW x, sessions' \ Cur(tasks'[t], token') \subseteq (sessions \ Cur(tasks[t], token)) \cup {x}
  PROVE  Ledger(t)
BY DEF Ledger

LEMMA AnswerKept ==
  ASSUME All, NEW t \in Task, tasks[t].pc = "queued", UNCHANGED <<token, mutex>>,
         wire' = RemoveFirst(wire, t) \/ (wire' = Tail(wire) /\ Head(wire) = t),
         NEW w \in Record, w.pc = "answered", w.cmd = tasks[t].cmd, tasks' = [tasks EXCEPT ![t] = w],
         lost' = lost \/ lost' = lost + 1,
         w.cmd = "Cmd" => UNCHANGED sessions,
         w.cmd = "Logout" => /\ w.tok = tasks[t].tok /\ sessions' \subseteq sessions
                             /\ w.ans = "ok" => token \notin sessions'
                             /\ w.ans # "ok" => lost' = lost + 1,
         w.cmd = "Login" => \/ w.ans = "ok" /\ sessions' \subseteq sessions \cup {w.tok}
                            \/ sessions' = sessions
                            \/ lost' = lost + 1 /\ \E x : sessions' \subseteq sessions \cup {x}
  PROVE  Kept(t) /\ tasks'[t] = w
<1>1. Moved(t) /\ tasks'[t] = w /\ lost \in Nat
  BY MoveOfOne DEF All, Numbers
<1>2. lost' = lost + 1 => lost' > lost
  BY <1>1
<1>3. Cur(tasks[t], token) = {token} /\ token' = token
  BY DEF Cur
<1> DEFINE after == sessions' \ Cur(tasks'[t], token')
           before == sessions \ Cur(tasks[t], token)
<1>4. ASSUME w.cmd = "Cmd" PROVE Ledger(t)
  <2>1. tasks[t].cmd = "Cmd" /\ tasks'[t].cmd = "Cmd" /\ UNCHANGED <<token, sessions>>
    BY <1>1, <1>4
  <2> QED
    BY <2>1, LedgerCmd
<1>5. ASSUME w.cmd = "Logout" PROVE Ledger(t)
  <2>1. tasks[t].cmd = "Logout" /\ tasks[t].tok = w.tok /\ (w.ans = "ok" => token \notin sessions')
    BY <1>5
  <2>2. LogoutTrue(tasks[t])' /\ Holds(t)
    BY <1>1, <1>3, <2>1, WhoAll DEF LogoutTrue
  <2>3. CASE w.ans = "ok"
    <3>1. token \in Cur(tasks'[t], token')
      BY <1>1, <1>3, <2>3 DEF Cur
    <3>2. after \subseteq before
      BY <1>3, <1>5, <3>1
    <3> QED
      BY <2>2, <3>2, LedgerHolder
  <2>4. CASE w.ans # "ok"
    <3>1. after \subseteq before \cup {token} /\ lost' > lost
      BY <1>2, <1>3, <1>5, <2>4
    <3> QED
      BY <2>2, <3>1, LedgerLost
  <2> QED
    BY <2>3, <2>4
<1>6. ASSUME w.cmd = "Login" PROVE Ledger(t)
  <2>1. tasks'[t].cmd # "Logout" /\ Holds(t)
    BY <1>1, <1>6, WhoAll
  <2>2. token \in Cur(tasks'[t], token') /\ (w.ans = "ok" => w.tok \in Cur(tasks'[t], token'))
    BY <1>1, <1>3, <1>6 DEF Cur
  <2>3. CASE (w.ans = "ok" /\ sessions' \subseteq sessions \cup {w.tok}) \/ sessions' = sessions
    <3>1. after \subseteq before
      BY <1>3, <2>2, <2>3
    <3> QED
      BY <2>1, <3>1, LedgerHolder
  <2>4. CASE lost' = lost + 1 /\ \E x : sessions' \subseteq sessions \cup {x}
    <3>1. PICK x : sessions' \subseteq sessions \cup {x}
      BY <2>4
    <3>2. after \subseteq before \cup {x} /\ lost' > lost
      BY <1>2, <1>3, <2>2, <2>4, <3>1
    <3> QED
      BY <2>1, <3>2, LedgerLost
  <2> QED
    BY <1>6, <2>3, <2>4
<1>7. w.cmd \in {"Cmd", "Login", "Logout"}
  BY DEF Record
<1>8. Ledger(t)
  BY <1>4, <1>5, <1>6, <1>7
<1> QED
  BY <1>1, <1>8 DEF Kept, MutexMove, WireMove, Waits

(* The two ways in which an answer is written down.                        *)
LEMMA AnswerWithToken ==
  ASSUME All, NEW t \in Task, NEW tok \in 0..MaxLogins, NEW a \in Answers, Answered(t, tok, a)
  PROVE  \E w \in Record : /\ tasks' = [tasks EXCEPT ![t] = w] /\ w.pc = "answered" /\ w.cmd = tasks[t].cmd
                           /\ w.ans = a /\ w.tok = tok /\ w.try = tasks[t].try
<1> DEFINE w == [tasks[t] EXCEPT !.pc = "answered", !.tok = tok, !.ans = a]
<1>1. tasks \in [Task -> Record] /\ tasks[t] \in Record
  BY WhoAll
<1>2. tasks' = [tasks EXCEPT ![t] = w]
  BY <1>1 DEF Answered
<1>3. /\ w \in Record /\ w.pc = "answered" /\ w.cmd = tasks[t].cmd /\ w.ans = a /\ w.tok = tok
      /\ w.try = tasks[t].try
  BY <1>1 DEF Record, Pcs
<1> QED
  BY <1>2, <1>3

LEMMA AnswerAlone ==
  ASSUME All, NEW t \in Task, NEW a \in Answers, tasks' = [tasks EXCEPT ![t].pc = "answered", ![t].ans = a]
  PROVE  \E w \in Record : /\ tasks' = [tasks EXCEPT ![t] = w] /\ w.pc = "answered" /\ w.cmd = tasks[t].cmd
                           /\ w.ans = a /\ w.tok = tasks[t].tok
<1> DEFINE w == [tasks[t] EXCEPT !.pc = "answered", !.ans = a]
<1>1. tasks \in [Task -> Record] /\ tasks[t] \in Record
  BY WhoAll
<1>2. tasks' = [tasks EXCEPT ![t] = w]
  BY <1>1
<1>3. w \in Record /\ w.pc = "answered" /\ w.cmd = tasks[t].cmd /\ w.ans = a /\ w.tok = tasks[t].tok
  BY <1>1 DEF Record, Pcs
<1> QED
  BY <1>2, <1>3

(* What a request does at the camera.                                      *)
LEMMA EffectShape ==
  ASSUME All, NEW t \in Task, NEW tok \in 0..MaxLogins, NEW reply, Effect(t, tok, reply)
  PROVE  /\ open' = open /\ tasks[t].cmd \in {"Cmd", "Login", "Logout"}
         /\ tasks[t].cmd = "Cmd" => UNCHANGED sessions /\ (tasks[t].tok \in sessions => reply = "ok")
         /\ tasks[t].cmd = "Logout" => tok = tasks[t].tok /\ reply = "ok" /\ sessions' = sessions \ {token}
         /\ tasks[t].cmd = "Login" => \/ reply = "ok" /\ sessions' = sessions \cup {tok}
                                      \/ reply = "refused" /\ sessions' = sessions
<1>1. tasks[t].cmd \in {"Cmd", "Login", "Logout"} /\ (tasks[t].cmd = "Logout" => tasks[t].tok = token)
  BY WhoAll DEF Record
<1> QED
  BY <1>1 DEF Effect, camera

LEMMA ServeGood ==
  ASSUME All, NEW t \in Task, Serve(t)
  PROVE  Good(t)
<1>1. PICK tok \in 0..MaxLogins, reply \in {"ok", "nologin", "refused"} :
         Effect(t, tok, reply) /\ Answered(t, tok, reply)
  BY DEF Serve
<1>2. /\ tasks[t].pc = "queued" /\ UNCHANGED <<port, token, lease, closed, mutex, lost, faults>>
      /\ wire' = Tail(wire) /\ Head(wire) = t /\ reply \in Answers /\ port = open
  BY DEF Serve, Turn, Answers, client
<1>3. PICK w \in Record : /\ tasks' = [tasks EXCEPT ![t] = w] /\ w.pc = "answered" /\ w.cmd = tasks[t].cmd
                          /\ w.ans = reply /\ w.tok = tok /\ w.try = tasks[t].try
  BY <1>1, <1>2, AnswerWithToken
<1>4. /\ open' = open /\ w.cmd \in {"Cmd", "Login", "Logout"}
      /\ w.cmd = "Cmd" => UNCHANGED sessions /\ (tasks[t].tok \in sessions => reply = "ok")
      /\ w.cmd = "Logout" => tok = tasks[t].tok /\ reply = "ok" /\ sessions' = sessions \ {token}
      /\ w.cmd = "Login" => \/ reply = "ok" /\ sessions' = sessions \cup {tok}
                            \/ reply = "refused" /\ sessions' = sessions
  BY <1>1, <1>3, EffectShape
<1>5. Kept(t) /\ tasks'[t] = w
  BY <1>2, <1>3, <1>4, AnswerKept
<1>6. ASSUME t \in Sender, Quiet PROVE QuietMove(t)
  <2>1. QuietTask(tasks[t]) /\ ~closed /\ (token # 0 => lease /\ token \in sessions)
    BY <1>6, QuietWho DEF All, QuietInv
  <2>2. w.cmd # "Logout" /\ sessions \subseteq sessions'
    BY <1>3, <1>4, <2>1 DEF QuietTask
  <2>3. QuietTask(tasks[t])'
    BY <1>2, <1>3, <1>4, <1>5, <2>1, <2>2 DEF QuietTask
  <2>4. ~closed' /\ (token' # 0 => lease')
    <3>1. ~closed'
      BY <1>2, <2>1, Zenon
    <3>2. token' # 0 => lease'
      BY <1>2, <2>1, Zenon
    <3> QED
      BY <3>1, <3>2
  <2> QED
    BY <1>2, <1>4, <2>1, <2>2, <2>3, <2>4 DEF QuietMove
<1> QED
  BY <1>2, <1>3, <1>5, <1>6 DEF Good

LEMMA NeverInQuiet ==
  ASSUME All, NEW t \in Task, NoServer(t) \/ Lost(t) \/ Failed(t) \/ Closed(t) \/ TurnTimeout(t)
  PROVE  ~(t \in Sender /\ Quiet /\ faults' = faults)
<1> SUFFICES ASSUME t \in Sender, Quiet, faults' = faults PROVE FALSE
  OBVIOUS
<1>1. faults \in Nat /\ QuietTask(tasks[t]) /\ ~closed
  BY QuietWho DEF All, Numbers
<1>2. ~Fault(t)
  BY <1>1 DEF Fault
<1>3. tasks[t].pc = "queued" => port = open
  BY <1>1 DEF QuietTask, Busy
<1> QED
  BY <1>1, <1>2, <1>3 DEF NoServer, Lost, Failed, Closed, TurnTimeout, Turn

LEMMA LostGood ==
  ASSUME All, NEW t \in Task, Lost(t)
  PROVE  Good(t)
<1>1. PICK a \in {"lost", "timeout"} : tasks' = [tasks EXCEPT ![t].pc = "answered", ![t].ans = a]
  BY DEF Lost
<1>2. /\ tasks[t].pc = "queued" /\ UNCHANGED <<token, mutex>> /\ wire' = Tail(wire) /\ Head(wire) = t
      /\ a \in Answers /\ a # "ok" /\ Fault(t)
      /\ lost' = lost + (IF tasks[t].cmd = "Cmd" THEN 0 ELSE 1)
  BY DEF Lost, Turn, Answers, client
<1>3. tasks[t].tok \in 0..MaxLogins /\ tasks[t].cmd \in {"Cmd", "Login", "Logout"} /\ lost \in Nat
  BY WhoAll DEF Record, All, Numbers
<1>4. PICK w \in Record : /\ tasks' = [tasks EXCEPT ![t] = w] /\ w.pc = "answered" /\ w.cmd = tasks[t].cmd
                          /\ w.ans = a /\ w.tok = tasks[t].tok
  BY <1>1, <1>2, AnswerAlone
<1>5. /\ w.cmd = "Cmd" => UNCHANGED sessions
      /\ w.cmd = "Logout" => sessions' \subseteq sessions
      /\ w.cmd = "Login" => \E x : sessions' \subseteq sessions \cup {x}
  <2>1. CASE UNCHANGED camera
    BY <2>1 DEF camera
  <2>2. CASE \E tok \in 0..MaxLogins, reply \in {"ok", "nologin", "refused"} : Effect(t, tok, reply)
    <3>1. PICK tok \in 0..MaxLogins, reply \in {"ok", "nologin", "refused"} : Effect(t, tok, reply)
      BY <2>2
    <3>2. CASE w.cmd = "Login"
      <4>1. sessions' \subseteq sessions \cup {tok}
        BY <1>4, <3>1, <3>2, EffectShape
      <4> QED
        BY <3>2, <4>1
    <3> QED
      BY <1>4, <3>1, <3>2, EffectShape
  <2> QED
    BY <2>1, <2>2 DEF Lost
<1>6. lost' = lost \/ lost' = lost + 1
  BY <1>2, <1>3
<1>7. w.cmd # "Cmd" => lost' = lost + 1
  BY <1>2, <1>3, <1>4
<1>8. Kept(t) /\ tasks'[t] = w
  BY <1>2, <1>4, <1>5, <1>6, <1>7, AnswerKept
<1> QED
  BY <1>2, <1>4, <1>8, NeverInQuiet DEF Good

LEMMA UnansweredGood ==
  ASSUME All, NEW t \in Task, NoServer(t) \/ Failed(t) \/ Closed(t) \/ TurnTimeout(t)
  PROVE  Good(t)
<1>1. /\ tasks[t].pc = "queued" /\ UNCHANGED <<token, mutex, sessions>>
      /\ wire' = RemoveFirst(wire, t) \/ (wire' = Tail(wire) /\ Head(wire) = t)
      /\ faults' = faults \/ Fault(t)
  BY DEF NoServer, Failed, Closed, TurnTimeout, Turn, client, camera
<1>2. \E a \in {"lost", "gone", "error", "refused", "closed", "timeout"} :
         \/ Answered(t, tasks[t].tok, a)
         \/ tasks' = [tasks EXCEPT ![t].pc = "answered", ![t].ans = a]
  BY DEF NoServer, Failed, Closed, TurnTimeout
<1>3. PICK a \in Answers \ {"ok"} :
         \/ Answered(t, tasks[t].tok, a)
         \/ tasks' = [tasks EXCEPT ![t].pc = "answered", ![t].ans = a]
  BY <1>2 DEF Answers
<1>4. tasks[t].tok \in 0..MaxLogins /\ tasks[t].cmd \in {"Cmd", "Login", "Logout"} /\ lost \in Nat
  BY WhoAll DEF Record, All, Numbers
<1>5. PICK w \in Record : /\ tasks' = [tasks EXCEPT ![t] = w] /\ w.pc = "answered" /\ w.cmd = tasks[t].cmd
                          /\ w.ans = a /\ w.tok = tasks[t].tok
  BY <1>3, <1>4, AnswerWithToken, AnswerAlone
<1>6. lost' \in {lost, lost + 1} /\ (w.cmd = "Logout" => lost' = lost + 1)
  BY <1>4, <1>5 DEF NoServer, Failed, Closed, TurnTimeout
<1>7. Kept(t) /\ tasks'[t] = w
  BY <1>1, <1>3, <1>5, <1>6, AnswerKept
<1> QED
  BY <1>1, <1>5, <1>7, NeverInQuiet DEF Good

LEMMA CmdOkGood ==
  ASSUME All, NEW t \in Task, CmdOk(t)
  PROVE  Good(t)
<1> DEFINE w == Ended(tasks[t], "ok")
<1>1. /\ tasks[t].pc = "answered" /\ tasks[t].cmd = "Cmd"
      /\ UNCHANGED <<port, token, lease, closed, mutex, wire, open, sessions, lost, faults>>
  BY DEF CmdOk, client, camera
<1>2. w \in Record /\ w.cmd = "Cmd" /\ w.pc = "ok" /\ w.ans = "none" /\ w.try = << >>
  BY EndedShape
<1>3. tasks' = [tasks EXCEPT ![t] = w]
  BY WhoAll DEF CmdOk
<1> HIDE DEF w
<1>4. Moved(t) /\ tasks'[t] = w
  BY <1>1, <1>2, <1>3, MoveOfOne
<1>5. Kept(t)
  BY <1>1, <1>2, <1>4, KeptCmd
<1>6. ASSUME t \in Sender, Quiet PROVE QuietMove(t)
  BY <1>1, <1>2, <1>4, <1>6, QuietCalm, EndedQuiet
<1> QED
  BY <1>1, <1>2, <1>4, <1>5, <1>6 DEF Good

LEMMA NoErrorInQuiet ==
  ASSUME All, NEW t \in Task, tasks[t].pc = "answered", tasks[t].ans \notin {"ok", "refused"} \/ CmdRaised(t)
  PROVE  ~(t \in Sender /\ Quiet)
<1> SUFFICES ASSUME t \in Sender, Quiet PROVE FALSE
  OBVIOUS
<1>1. QuietTask(tasks[t]) /\ tasks[t].cmd \in {"Cmd", "Login", "Logout"}
  BY QuietWho, WhoAll DEF Record
<1> QED
  BY <1>1 DEF QuietTask, CmdRaised

LEMMA ResentShape ==
  ASSUME NEW r \in Record, Left(r) > 0
  PROVE  LET w == Resent(r)
         IN  w \in Record /\ w.cmd = r.cmd /\ w.tok = r.tok /\ w.ans = "none" /\ w.try = r.try
             /\ w.pc = IF r.cmd = "Cmd" THEN r.pc ELSE "send"
<1>1. Resent(r).try = r.try
  BY DEF Resent, Record
<1> QED
  BY <1>1, ResentRecord, HttpSessionAssumption

(* A Login or a Logout that is sent again.                                 *)
LEMMA ResentKept ==
  ASSUME All, NEW t \in Task, tasks[t].pc = "answered", tasks[t].cmd # "Cmd", tasks[t].ans # "ok",
         NEW w \in Record, w.pc = "send", w.cmd = tasks[t].cmd, w.tok = tasks[t].tok,
         tasks'[t] = w, Moved(t), UNCHANGED <<token, sessions, mutex, wire>>
  PROVE  Kept(t)
<1>1. Holds(t) /\ (w.cmd = "Logout" => w.tok = token) /\ token' = token
  BY WhoAll
<1>2. LogoutTrue(tasks[t])'
  BY <1>1 DEF LogoutTrue
<1>3. token \in Cur(tasks'[t], token') /\ Cur(tasks[t], token) \subseteq {token}
  BY <1>1 DEF Cur
<1>4. sessions' \ Cur(tasks'[t], token') \subseteq sessions \ Cur(tasks[t], token)
  BY <1>3
<1>5. Ledger(t)
  BY <1>1, <1>2, <1>4, LedgerHolder
<1> QED
  BY <1>5 DEF Kept, MutexMove, WireMove, Waits

LEMMA AgainGood ==
  ASSUME All, NEW t \in Task, Again(t)
  PROVE  Good(t)
<1> DEFINE w == Resent(tasks[t])
<1>1. tasks[t] \in Record /\ tasks[t].pc = "answered" /\ Left(tasks[t]) > 0 /\ tasks[t].ans \in {"lost", "timeout", "closed"}
  BY WhoAll DEF Again
<1>2. UNCHANGED <<port, token, lease, closed, wire, open, sessions, lost, faults>>
  BY DEF Again, camera
<1>3. w \in Record /\ w.cmd = tasks[t].cmd /\ w.tok = tasks[t].tok /\ w.ans = "none" /\ w.try = tasks[t].try
      /\ w.pc = IF tasks[t].cmd = "Cmd" THEN tasks[t].pc ELSE "send"
  BY <1>1, ResentShape
<1>4. CASE tasks[t].cmd = "Cmd"
  <2>1. t \in Sender
    BY <1>1, <1>4, WhoAll DEF Busy
  <2>2. Attempt(t, w)
    BY <1>4 DEF Again
  <2> HIDE DEF w
  <2> QED
    BY <1>1, <1>2, <1>3, <1>4, <2>1, <2>2, AttemptGood
<1>5. CASE tasks[t].cmd # "Cmd"
  <2>1. tasks' = [tasks EXCEPT ![t] = w] /\ mutex' = mutex
    BY <1>5 DEF Again
  <2> HIDE DEF w
  <2>2. Moved(t) /\ tasks'[t] = w
    BY <1>2, <1>3, <2>1, MoveOfOne
  <2>3. Kept(t)
    BY <1>1, <1>2, <1>3, <1>5, <2>1, <2>2, ResentKept
  <2> QED
    BY <1>1, <1>2, <1>3, <1>5, <2>2, <2>3, NoErrorInQuiet DEF Good
<1> QED
  BY <1>4, <1>5

LEMMA ExpireAgainGood ==
  ASSUME All, NEW t \in Task, ExpireAgain(t)
  PROVE  Good(t)
<1> DEFINE r == Resent(tasks[t])
           w == [r EXCEPT !.pc = "mutex"]
<1>1. tasks[t] \in Record /\ tasks[t].pc = "answered" /\ Left(tasks[t]) > 0 /\ tasks[t].ans \in {"nologin", "gone"}
  BY WhoAll DEF ExpireAgain
<1>2. UNCHANGED <<token, sessions, wire, faults>>
  BY DEF ExpireAgain, camera
<1>3. r \in Record /\ r.cmd = tasks[t].cmd /\ r.tok = tasks[t].tok
      /\ r.pc = IF tasks[t].cmd = "Cmd" THEN tasks[t].pc ELSE "send"
  BY <1>1, ResentShape
<1>4. ~(t \in Sender /\ Quiet)
  BY <1>1, NoErrorInQuiet
<1>5. CASE tasks[t].cmd = "Cmd"
  <2>1. CutOff(t, [tasks EXCEPT ![t] = w]) /\ mutex' = Append(mutex, t)
    BY <1>5 DEF ExpireAgain, Expire
  <2> HIDE DEF r
  <2>2. w \in Record /\ w.cmd = "Cmd" /\ w.pc = "mutex"
    BY <1>3, <1>5 DEF Record, Pcs
  <2> HIDE DEF w
  <2>3. Moved(t) /\ tasks'[t] = w
    BY <2>1, <2>2, MoveOfCut
  <2>4. Ledger(t)
    BY <1>2, <1>5, <2>2, <2>3, LedgerCmd
  <2> QED
    BY <1>1, <1>2, <1>4, <1>5, <2>1, <2>2, <2>3, <2>4 DEF Good, Kept, MutexMove, WireMove, Waits
<1>6. CASE tasks[t].cmd # "Cmd"
  <2>1. CutOff(t, [tasks EXCEPT ![t] = r]) /\ mutex' = mutex
    BY <1>6 DEF ExpireAgain, Expire
  <2> HIDE DEF r
  <2>2. Moved(t) /\ tasks'[t] = r
    BY <1>3, <2>1, MoveOfCut
  <2>3. Kept(t)
    BY <1>1, <1>2, <1>3, <1>6, <2>1, <2>2, ResentKept
  <2> QED
    BY <1>2, <1>3, <1>4, <1>6, <2>2, <2>3 DEF Good
<1> QED
  BY <1>5, <1>6

LEMMA CmdRaisedGood ==
  ASSUME All, NEW t \in Task, CmdRaised(t)
  PROVE  Good(t)
<1> DEFINE w == Ended(tasks[t], "raised")
<1>1. tasks[t].pc = "answered" /\ tasks[t].cmd = "Cmd" /\ UNCHANGED <<token, mutex, wire, sessions, faults>>
  BY DEF CmdRaised, camera
<1>2. w \in Record /\ w.cmd = "Cmd" /\ w.pc = "raised"
  BY EndedShape
<1>3. CutOff(t, [tasks EXCEPT ![t] = w])
  BY DEF CmdRaised, Expire
<1> HIDE DEF w
<1>4. Moved(t) /\ tasks'[t] = w
  BY <1>2, <1>3, MoveOfCut
<1>5. Kept(t)
  BY <1>1, <1>2, <1>4, KeptCmd
<1> QED
  BY <1>1, <1>2, <1>4, <1>5, NoErrorInQuiet DEF Good

LEMMA LogoutEndsGood ==
  ASSUME All, NEW t \in Task, LogoutEnds(t)
  PROVE  Good(t)
<1> DEFINE broken == tasks[t].ans # "ok"
<1>1. /\ tasks[t].pc = "answered" /\ tasks[t].cmd = "Logout" /\ LoggedOut(t, tasks[t], broken)
      /\ UNCHANGED <<port, wire, sessions, open, faults>> /\ broken \in BOOLEAN
  BY DEF LogoutEnds, camera
<1> HIDE DEF broken
<1>2. Holds(t)
  BY <1>1, WhoAll
<1> QED
  BY <1>1, <1>2, LoggedOutGood

LEMMA LoginOkGood ==
  ASSUME All, NEW t \in Task, LoginOk(t)
  PROVE  Good(t)
<1> DEFINE r == tasks[t]
           w == [r EXCEPT !.pc = "send", !.cmd = "Cmd", !.ans = "none"]
<1>1. r \in Record /\ r.pc = "answered" /\ r.cmd = "Login" /\ r.ans = "ok" /\ Holds(t) /\ token = 0 /\ t \in Sender
  BY WhoAll DEF LoginOk
<1>2. /\ token' = r.tok /\ lease' = TRUE /\ mutex' = Tail(mutex)
      /\ UNCHANGED <<port, closed, wire, open, sessions, lost, faults>>
  BY DEF LoginOk, camera
<1>3. w \in Record /\ w.cmd = "Cmd" /\ w.pc = "send" /\ w.ans = "none" /\ w.tok = r.tok /\ w.try = r.try
  BY <1>1 DEF Record, Pcs, Answers
<1>4. tasks' = [tasks EXCEPT ![t] = w]
  BY DEF LoginOk
<1> HIDE DEF w
<1>5. Moved(t) /\ tasks'[t] = w
  BY <1>2, <1>3, <1>4, MoveOfOne
<1>6. 0 \notin sessions
  BY DEF All, Numbers
<1>7. r.tok \in Cur(tasks'[t], token') /\ Cur(tasks[t], token) \subseteq {0, r.tok}
  BY <1>1, <1>2, <1>3, <1>5 DEF Cur
<1>8. sessions' \ Cur(tasks'[t], token') \subseteq sessions \ Cur(tasks[t], token)
  BY <1>2, <1>6, <1>7
<1>9. tasks'[t].cmd # "Logout"
  BY <1>3, <1>5
<1>10. Ledger(t)
  BY <1>1, <1>8, <1>9, LedgerHolder
<1>11. ASSUME Quiet PROVE QuietMove(t)
  <2>1. QuietTask(r) /\ ~closed
    BY <1>1, <1>11, QuietWho
  <2>2. port = open /\ r.tok \in sessions /\ r.try = << >>
    BY <1>1, <2>1 DEF QuietTask, Busy
  <2>3. QuietTask(tasks[t])'
    BY <1>2, <1>3, <1>5, <2>2 DEF QuietTask
  <2>4. ~closed'
    BY <1>2, <2>1, Zenon
  <2> QED
    BY <1>2, <2>2, <2>3, <2>4 DEF QuietMove
<1> QED
  BY <1>1, <1>2, <1>3, <1>5, <1>10, <1>11 DEF Good, Kept, MutexMove, WireMove, Waits

LEMMA LoginFailedGood ==
  ASSUME All, NEW t \in Task, LoginFailed(t)
  PROVE  Good(t)
<1> DEFINE w == [tasks[t] EXCEPT !.pc = "ports", !.cmd = "Cmd", !.ans = "none"]
<1>1. /\ tasks[t] \in Record /\ tasks[t].cmd = "Login" /\ tasks[t].pc = "answered" /\ tasks[t].ans # "ok"
      /\ t \in Sender /\ Holds(t)
  BY WhoAll DEF LoginFailed
<1>2. UNCHANGED <<port, token, wire, open, sessions, faults>> /\ mutex' = Tail(mutex)
  BY DEF LoginFailed, camera
<1>3. w \in Record /\ w.cmd = "Cmd" /\ w.pc = "ports" /\ w.ans = "none" /\ w.try = tasks[t].try
  BY <1>1 DEF Record, Pcs, Answers
<1>4. \/ tasks[t].ans = "refused" /\ tasks' = [tasks EXCEPT ![t] = w] /\ UNCHANGED <<lease, closed, lost>>
      \/ tasks[t].ans # "refused" /\ CutOff(t, [tasks EXCEPT ![t] = w])
  BY DEF LoginFailed, Expire
<1> HIDE DEF w
<1>5. Moved(t) /\ tasks'[t] = w
  BY <1>3, <1>4, MoveOfOne, MoveOfCut
<1>6. token \in Cur(tasks'[t], token') /\ Cur(tasks[t], token) \subseteq {token}
  BY <1>1, <1>2, <1>3, <1>5 DEF Cur
<1>7. sessions' \ Cur(tasks'[t], token') \subseteq sessions \ Cur(tasks[t], token) /\ tasks'[t].cmd # "Logout"
  BY <1>2, <1>3, <1>5, <1>6
<1>8. Ledger(t)
  BY <1>1, <1>7, LedgerHolder
<1>9. ASSUME Quiet PROVE QuietMove(t)
  <2>1. QuietTask(tasks[t])
    BY <1>1, <1>9, QuietWho
  <2>2. port = open /\ tasks[t].try = << >> /\ tasks[t].ans = "refused"
    BY <1>1, <2>1 DEF QuietTask, Busy
  <2>3. QuietTask(tasks[t])'
    BY <1>2, <1>3, <1>5, <2>2 DEF QuietTask, Busy
  <2> QED
    BY <1>1, <1>2, <1>4, <1>9, <2>2, <2>3, QuietCalm
<1> QED
  BY <1>1, <1>2, <1>3, <1>5, <1>8, <1>9 DEF Good, Kept, MutexMove, WireMove, Waits

LEMMA LoginEscapesGood ==
  ASSUME All, NEW t \in Task, LoginEscapes(t)
  PROVE  Good(t)
<1> DEFINE w == Ended(tasks[t], "raised")
<1>1. /\ tasks[t].pc = "answered" /\ tasks[t].ans \in {"timeout", "closed"} /\ tasks[t].cmd # "Cmd" /\ Holds(t)
      /\ UNCHANGED <<port, token, wire, open, sessions, faults>> /\ mutex' = Tail(mutex)
  BY WhoAll DEF LoginEscapes, camera
<1>2. w \in Record /\ w.cmd = "Cmd" /\ w.pc = "raised"
  BY EndedShape
<1>3. CutOff(t, [tasks EXCEPT ![t] = w])
  BY DEF LoginEscapes, Expire
<1> HIDE DEF w
<1>4. Moved(t) /\ tasks'[t] = w
  BY <1>2, <1>3, MoveOfCut
<1>5. token \in Cur(tasks'[t], token') /\ Cur(tasks[t], token) \subseteq {token}
  BY <1>1, <1>2, <1>4 DEF Cur
<1>6. sessions' \ Cur(tasks'[t], token') \subseteq sessions \ Cur(tasks[t], token) /\ tasks'[t].cmd # "Logout"
  BY <1>1, <1>2, <1>4, <1>5
<1>7. Ledger(t)
  BY <1>1, <1>6, LedgerHolder
<1> QED
  BY <1>1, <1>2, <1>4, <1>7, NoErrorInQuiet DEF Good, Kept, MutexMove, WireMove, Waits

-----------------------------------------------------------------------------
(* All steps.                                                              *)

LEMMA StepGood ==
  ASSUME All, NEW t \in Task, Start(t) \/ Leave(t) \/ Step(t)
  PROVE  Good(t)
<1>1. CASE Start(t) \/ Leave(t) \/ Probe(t) \/ NextPort(t) \/ Granted(t) \/ Queue(t)
  BY <1>1, StartGood, LeaveGood, ProbeGood, NextPortGood, GrantedGood, QueueGood
<1>2. CASE Serve(t) \/ Lost(t) \/ NoServer(t) \/ Failed(t) \/ Closed(t) \/ TurnTimeout(t)
  BY <1>2, ServeGood, LostGood, UnansweredGood
<1>3. CASE CmdOk(t) \/ Again(t) \/ ExpireAgain(t) \/ CmdRaised(t)
  BY <1>3, CmdOkGood, AgainGood, ExpireAgainGood, CmdRaisedGood
<1>4. CASE LogoutEnds(t) \/ LoginOk(t) \/ LoginFailed(t) \/ LoginEscapes(t)
  BY <1>4, LogoutEndsGood, LoginOkGood, LoginFailedGood, LoginEscapesGood
<1> QED
  BY <1>1, <1>2, <1>3, <1>4 DEF Step

(* The tokens that the camera gives out.                                   *)
LEMMA IssuedKeep ==
  ASSUME All, NEW t \in Task, Start(t) \/ Leave(t) \/ Step(t)
  PROVE  issued' \in 0..MaxLogins /\ sessions' \subseteq 1..issued'
<1>1. issued \in 0..MaxLogins /\ sessions \subseteq 1..issued /\ MaxLogins \in Nat
  BY HttpSessionAssumption DEF All, Numbers
<1>2. CASE UNCHANGED <<issued, sessions>>
  BY <1>1, <1>2
<1>3. ASSUME NEW tok, NEW reply, Effect(t, tok, reply)
      PROVE  issued' \in 0..MaxLogins /\ sessions' \subseteq 1..issued'
  <2>1. tasks[t].cmd \in {"Cmd", "Login", "Logout"}
    BY WhoAll DEF Record
  <2>2. CASE UNCHANGED camera
    BY <1>2, <2>2 DEF camera
  <2>3. CASE sessions' = sessions \ {tok} /\ issued' = issued
    BY <1>1, <2>3
  <2>4. CASE tok = issued + 1 /\ issued < MaxLogins /\ issued' = issued + 1 /\ sessions' = sessions \cup {tok}
    BY <1>1, <2>4
  <2>5. \/ UNCHANGED camera
        \/ sessions' = sessions \ {tok} /\ issued' = issued
        \/ tok = issued + 1 /\ issued < MaxLogins /\ issued' = issued + 1 /\ sessions' = sessions \cup {tok}
    BY <1>3, <2>1 DEF Effect
  <2> QED
    BY <2>2, <2>3, <2>4, <2>5
<1>4. CASE Start(t) \/ Leave(t) \/ Probe(t) \/ NextPort(t) \/ Granted(t) \/ Queue(t)
  BY <1>2, <1>4 DEF Start, Leave, Probe, NextPort, Granted, Queue, camera
<1>5. CASE Serve(t) \/ Lost(t)
  BY <1>2, <1>3, <1>5 DEF Serve, Lost, camera
<1>6. CASE NoServer(t) \/ Failed(t) \/ Closed(t) \/ TurnTimeout(t)
  BY <1>2, <1>6 DEF NoServer, Failed, Closed, TurnTimeout, camera
<1>7. CASE CmdOk(t) \/ Again(t) \/ ExpireAgain(t) \/ CmdRaised(t)
  BY <1>2, <1>7 DEF CmdOk, Again, ExpireAgain, CmdRaised, camera
<1>8. CASE LogoutEnds(t) \/ LoginOk(t) \/ LoginFailed(t) \/ LoginEscapes(t)
  BY <1>2, <1>8 DEF LogoutEnds, LoginOk, LoginFailed, LoginEscapes, camera
<1> QED
  BY <1>4, <1>5, <1>6, <1>7, <1>8 DEF Step

LEMMA PortKeeps ==
  ASSUME All, NEW t \in Task, Start(t) \/ Leave(t) \/ Step(t)
  PROVE  port' \in Range(Ports) \cup {"none"}
<1>1. port \in Range(Ports) \cup {"none"} /\ open \in Range(Ports) /\ Ports \in Seq(Range(Ports)) /\ Ports # << >>
  BY HttpSessionAssumption DEF All, Numbers
<1>2. CASE port' = port
  BY <1>1, <1>2
<1>3. CASE Probe(t)
  <2>1. port' = Head(<<open>>) \/ port' = Head(Ports)
    BY <1>3 DEF Probe
  <2>2. Head(Ports) \in Range(Ports) /\ Head(<<open>>) = open
    BY <1>1
  <2> QED
    BY <1>1, <2>1, <2>2
<1>4. CASE NextPort(t)
  <2>1. tasks[t].try \in Seq(Range(Ports))
    BY WhoAll DEF Record
  <2>2. tasks[t].try # << >> => Head(tasks[t].try) \in Range(Ports)
    BY <2>1
  <2>3. port' = port \/ port' = open \/ (tasks[t].try # << >> /\ port' = Head(tasks[t].try))
    BY <1>4 DEF NextPort
  <2> QED
    BY <1>1, <2>2, <2>3
<1>5. CASE Start(t) \/ Leave(t) \/ Granted(t) \/ Queue(t) \/ CmdOk(t) \/ Again(t) \/ ExpireAgain(t) \/ CmdRaised(t)
  BY <1>2, <1>5 DEF Start, Leave, Granted, Queue, CmdOk, Again, ExpireAgain, CmdRaised, client
<1>6. CASE Serve(t) \/ Lost(t) \/ NoServer(t) \/ Failed(t) \/ Closed(t) \/ TurnTimeout(t)
  BY <1>2, <1>6 DEF Serve, Lost, NoServer, Failed, Closed, TurnTimeout, client
<1>7. CASE LogoutEnds(t) \/ LoginOk(t) \/ LoginFailed(t) \/ LoginEscapes(t)
  BY <1>2, <1>7 DEF LogoutEnds, LoginOk, LoginFailed, LoginEscapes
<1> QED
  BY <1>3, <1>4, <1>5, <1>6, <1>7 DEF Step

LEMMA RestartAll ==
  ASSUME All, Restart, IInv', ended' = ended
  PROVE  All'
<1>1. /\ sessions' = {} /\ open' \in Range(Ports) /\ faults + ended < MaxMishaps /\ faults' = faults + 1
      /\ UNCHANGED <<port, token, lease, closed, mutex, wire, tasks, issued, lost>>
  BY DEF Restart, client
<1>2. faults \in 0..MaxMishaps /\ MaxMishaps \in Nat /\ ended \in Nat /\ issued \in 0..MaxLogins /\ lost \in Nat
  BY HttpSessionAssumption DEF All, Numbers
<1>3. Queues'
  BY <1>1 DEF All, Queues, Waits
<1>4. Numbers'
  <2>1. faults' \in 0..MaxMishaps
    BY <1>1, <1>2
  <2> QED
    BY <1>1, <2>1 DEF All, Numbers
<1>5. Accounted'
  <2>1. sessions' \ Counted' = {}
    BY <1>1
  <2> QED
    BY <1>1, <1>2, <2>1, FS_EmptySet DEF Accounted
<1>6. \A t \in Task : LogoutTrue(tasks[t])'
  BY <1>1 DEF All, LogoutTrue
<1>7. QuietInv'
  <2>1. faults' # 0
    BY <1>1, <1>2
  <2> QED
    BY <2>1 DEF QuietInv, Quiet, Lull
<1> QED
  BY <1>3, <1>4, <1>5, <1>6, <1>7 DEF All

LEMMA LeaseOverAll ==
  ASSUME All, LeaseOver, IInv'
  PROVE  All'
<1>1. UNCHANGED <<port, token, closed, mutex, wire, tasks, open, sessions, issued, lost, faults>>
  BY DEF LeaseOver, camera
<1>2. Queues' /\ Numbers' /\ Accounted'
  BY <1>1 DEF All, Queues, Numbers, Accounted, Counted, Waits
<1>3. \A t \in Task : LogoutTrue(tasks[t])'
  BY <1>1 DEF All, LogoutTrue
<1>4. ended \in Nat /\ ended' \in Nat /\ ended' # 0
  BY DEF All, LeaseOver
<1>5. QuietInv'
  BY <1>4 DEF QuietInv, Quiet
<1> QED
  BY <1>2, <1>3, <1>4, <1>5 DEF All

LEMMA NextAll ==
  ASSUME All, [Next]_vars
  PROVE  All'
<1>1. IInv /\ open \in Range(Ports)
  BY DEF All, Numbers
<1>2. IInv' /\ open' \in Range(Ports)
  BY <1>1, NextKeeps, OpenKeeps
<1>3. CASE UNCHANGED vars
  <2>1. UNCHANGED <<port, token, lease, closed, mutex, wire, tasks, open, sessions, issued, lost, faults, ended>>
    BY <1>3 DEF vars, client, camera
  <2>2. Queues' /\ Numbers' /\ Accounted'
    BY <2>1 DEF All, Queues, Numbers, Accounted, Counted, Waits
  <2>3. \A t \in Task : LogoutTrue(tasks[t])'
    BY <2>1 DEF All, LogoutTrue
  <2>4. QuietInv'
    BY <2>1 DEF All, QuietInv, Quiet, Lull, QuietTask
  <2> QED
    BY <1>2, <2>1, <2>2, <2>3, <2>4 DEF All
<1>4. CASE (Restart /\ UNCHANGED ended) \/ LeaseOver
  BY <1>2, <1>4, RestartAll, LeaseOverAll
<1>5. ASSUME NEW t \in Task, Start(t) \/ Leave(t) \/ Step(t), UNCHANGED ended PROVE All'
  <2>1. Good(t)
    BY <1>5, StepGood
  <2>2. faults' \in 0..MaxMishaps /\ lost' \in Nat
    BY <2>1, FaultsGrow DEF Good, Kept, Moved, All
  <2>3. Numbers'
    BY <1>2, <1>5, <2>2, IssuedKeep, PortKeeps DEF Numbers
  <2> QED
    BY <1>2, <1>5, <2>1, <2>3, GoodKeeps
<1> QED
  BY <1>3, <1>4, <1>5 DEF Next

LEMMA InitAll == Init => All
<1> SUFFICES ASSUME Init PROVE All
  OBVIOUS
<1>1. IInv /\ open \in Range(Ports)
  BY InitKeeps
<1>2. /\ tasks = [t \in Task |-> Fresh] /\ mutex = << >> /\ wire = << >> /\ token = 0 /\ lost = 0 /\ faults = 0
      /\ sessions = {} /\ issued = 0 /\ port = "none" /\ closed = FALSE /\ ended = 0
  BY DEF Init
<1>3. \A t \in Task : tasks[t] = Fresh
  BY <1>2
<1>4. Fresh.pc = "idle" /\ Fresh.cmd = "Cmd" /\ Fresh.try = << >> /\ Fresh.ans = "none"
  BY DEF Fresh
<1>5. Queues
  <2>1. {t \in Task : Waits(tasks[t])} = {} /\ {t \in Task : tasks[t].pc = "queued"} = {}
    BY <1>3, <1>4 DEF Waits
  <2> QED
    BY <1>2, <2>1, QueueEmpty DEF Queues
<1>6. Numbers
  BY <1>1, <1>2, HttpSessionAssumption DEF Numbers
<1>7. Accounted
  <2>1. sessions \ Counted = {}
    BY <1>2
  <2> QED
    BY <1>2, <2>1, FS_EmptySet DEF Accounted
<1>8. \A t \in Task : LogoutTrue(tasks[t])
  BY <1>3, <1>4 DEF LogoutTrue
<1>9. QuietInv
  BY <1>2, <1>3, <1>4 DEF QuietInv, QuietTask, Busy
<1> QED
  BY <1>1, <1>2, <1>5, <1>6, <1>7, <1>8, <1>9 DEF All

LEMMA AllInvariant == Spec => []All
<1>1. Init => All
  BY InitAll
<1>2. All /\ [Next]_vars => All'
  BY NextAll
<1> QED
  BY <1>1, <1>2, PTL DEF Spec

(* The types; each task is at most once in the queue of a mutex, in that   *)
(* of _send_mutex exactly while it waits there, and who is in the Login or *)
(* the Logout of login() or logout() holds _login_mutex.                   *)
THEOREM TypeCorrect == Spec => []TypeOK
<1>1. All => TypeOK
  <2> SUFFICES ASSUME All PROVE TypeOK
    OBVIOUS
  <2>1. /\ port \in Range(Ports) \cup {"none"} /\ sessions \subseteq 1..issued
        /\ issued \in 0..MaxLogins /\ faults \in 0..MaxMishaps
    BY DEF All, Numbers
  <2>2. token \in 0..MaxLogins /\ lease \in BOOLEAN
    BY DEF All, IInv, Types
  <2>3. IsInjective(mutex) /\ IsInjective(wire) /\ Range(wire) = {t \in Task : tasks[t].pc = "queued"}
    BY DEF All, Queues, QueueOf
  <2>4. \A t \in Task : tasks[t].cmd # "Cmd" => Holds(t)
    BY WhoAll
  <2> QED
    BY <2>1, <2>2, <2>3, <2>4 DEF TypeOK
<1> QED
  BY <1>1, AllInvariant, PTL

(* Of the tokens that the camera accepts, those that are neither _token    *)
(* nor on their way in an answer to a Login are no more than the answers   *)
(* to Login and Logout that were lost: login() logs out before it logs in, *)
(* however many tasks end each other's session.                            *)
THEOREM SessionsAreAccounted == Spec => []SessionsAccounted
<1>1. All => SessionsAccounted
  <2> SUFFICES ASSUME All PROVE SessionsAccounted
    OBVIOUS
  <2> DEFINE arriving == {tasks[t].tok : t \in {u \in Task : tasks[u].cmd = "Login"}}
             others == sessions \ (arriving \cup {token})
  <2>1. others \subseteq sessions \ Counted
    BY DEF Counted
  <2>2. Numbers /\ Accounted /\ lost \in Nat
    BY DEF All, Numbers
  <2>3. issued \in Nat /\ (sessions \ Counted) \in SUBSET (1..issued)
    <3>1. issued \in 0..MaxLogins /\ sessions \subseteq 1..issued
      BY <2>2, Zenon DEF Numbers
    <3>2. (sessions \ Counted) \in SUBSET (1..issued)
      BY <3>1, Zenon
    <3> QED
      BY <3>1, <3>2
  <2>4. IsFiniteSet(sessions \ Counted) /\ Cardinality(sessions \ Counted) \in Nat
    BY <2>3, SessionsFinite
  <2> HIDE DEF others
  <2>5. Cardinality(others) <= Cardinality(sessions \ Counted) /\ Cardinality(others) \in Nat
    BY <2>1, <2>4, FS_Subset, FS_CardinalityType
  <2>6. Cardinality(others) <= lost
    BY <2>2, <2>4, <2>5 DEF Accounted
  <2> QED
    BY <2>6 DEF SessionsAccounted, others
<1> QED
  BY <1>1, AllInvariant, PTL


-----------------------------------------------------------------------------
(* When leases run out but nothing else goes wrong.  A task whose lease    *)
(* has not ended since it took its token has the current token, and the    *)
(* camera accepts it.                                                      *)
Current(t) ==
    tasks[t].cmd = "Cmd" /\ tasks[t].pc \in Busy /\ t \notin overtaken =>
        /\ Valid /\ tasks[t].tok = token /\ tasks[t].ans \in {"none", "ok"}
        /\ tasks[t].pc = "queued" => ~closed

LullTask(t) ==
    /\ tasks[t].try = << >>
    /\ tasks[t].pc \in {"mutex", "ports"} \cup Busy => port = open
    /\ tasks[t].cmd = "Cmd" /\ tasks[t].pc # "answered" => tasks[t].ans \in {"none", "ok"}

LullInv == Lull => /\ ~forgot /\ port \in {"none", open}
                   /\ \A t \in Sender : LullTask(t) /\ Current(t)

(* A step of one task leaves a running lease, its token and the others'    *)
(* requests alone, unless it ends the lease.                               *)
Steady(t) == Valid /\ lease' =>
                /\ token' = token /\ (closed' = closed \/ closed' = FALSE)
                /\ \A u \in Task \ {t} : tasks'[u] = tasks[u]

LEMMA OneChanges ==
  ASSUME All, NEW t \in Task, NEW w, tasks' = [tasks EXCEPT ![t] = w]
  PROVE  tasks'[t] = w /\ \A u \in Task \ {t} : tasks'[u] = tasks[u]
<1>1. tasks \in [Task -> Record]
  BY DEF All, IInv, Types
<1> QED
  BY <1>1

LEMMA LogInOne ==
  ASSUME All, NEW t \in Task, NEW r, LogIn(t, r)
  PROVE  \A u \in Task \ {t} : tasks'[u] = tasks[u]
<1>1. PICK w : tasks' = [tasks EXCEPT ![t] = w]
  BY DEF LogIn
<1> QED
  BY <1>1, OneChanges

LEMMA StepSteady ==
  ASSUME All, NEW t \in Sender, Start(t) \/ Leave(t) \/ Step(t)
  PROVE  Steady(t)
<1>1. t \in Task /\ TaskInv(t)
  BY DEF All, IInv, Task
<1>2. tasks[t].cmd # "Cmd" => ~Valid
  <2>1. tasks[t].cmd \in {"Cmd", "Login", "Logout"}
    BY <1>1, WhoAll DEF Record
  <2> QED
    BY <1>1, <2>1 DEF TaskInv, Valid
<1> SUFFICES ASSUME Valid, lease'
             PROVE  /\ token' = token /\ (closed' = closed \/ closed' = FALSE)
                    /\ \A u \in Task \ {t} : tasks'[u] = tasks[u]
  BY DEF Steady
<1>3. tasks[t].cmd = "Cmd"
  BY <1>2
<1>4. CASE Start(t) \/ Again(t)
  <2>1. \E r : Attempt(t, r)
    BY <1>3, <1>4 DEF Start, Again
  <2>2. \A u \in Task \ {t} : tasks'[u] = tasks[u]
    <3>1. PICK r : Attempt(t, r)
      BY <2>1
    <3>2. CASE port = "none"
      <4>1. tasks' = [tasks EXCEPT ![t] = [r EXCEPT !.pc = "probe"]]
        BY <3>1, <3>2 DEF Attempt
      <4> QED
        BY <1>1, <4>1, OneChanges
    <3>3. CASE port # "none"
      <4>1. LogIn(t, [r EXCEPT !.attempt = 1])
        BY <3>1, <3>3 DEF Attempt
      <4> QED
        BY <1>1, <4>1, LogInOne
    <3> QED
      BY <3>2, <3>3
  <2> QED
    BY <1>4, <2>2 DEF Start, Again
<1>5. CASE Probe(t)
  <2>1. \E r : LogIn(t, r)
    BY <1>5 DEF Probe
  <2> QED
    BY <1>1, <1>5, <2>1, LogInOne DEF Probe
<1>6. CASE NextPort(t)
  <2>1. (\E r : LogIn(t, r)) \/ (\E w : tasks' = [tasks EXCEPT ![t] = w])
    BY <1>6 DEF NextPort
  <2>2. \A u \in Task \ {t} : tasks'[u] = tasks[u]
    BY <1>1, <2>1, LogInOne, OneChanges
  <2> QED
    BY <1>6, <2>2 DEF NextPort
<1>7. CASE Leave(t) \/ Queue(t)
  <2>1. \E w : tasks' = [tasks EXCEPT ![t] = w]
    BY <1>7 DEF Leave, Queue
  <2> QED
    BY <1>1, <1>7, <2>1, OneChanges DEF Leave, Queue
<1>8. CASE Granted(t)
  <2>1. \E w : tasks' = [tasks EXCEPT ![t] = w]
    BY <1>8 DEF Granted, Valid
  <2> QED
    BY <1>1, <1>8, <2>1, OneChanges DEF Granted, Valid
<1>9. CASE Serve(t) \/ NoServer(t) \/ Lost(t) \/ Failed(t) \/ Closed(t) \/ TurnTimeout(t)
  <2>1. UNCHANGED <<token, closed>> /\ \E w : tasks' = [tasks EXCEPT ![t] = w]
    BY <1>9 DEF Serve, NoServer, Lost, Failed, Closed, TurnTimeout, Answered, client
  <2> QED
    BY <1>1, <2>1, OneChanges
<1>10. CASE CmdOk(t)
  <2>1. UNCHANGED <<token, closed>> /\ \E w : tasks' = [tasks EXCEPT ![t] = w]
    BY <1>10 DEF CmdOk, client
  <2> QED
    BY <1>1, <2>1, OneChanges
<1>11. CASE ExpireAgain(t) \/ CmdRaised(t)
  <2>1. lease' = FALSE
    BY <1>11 DEF ExpireAgain, CmdRaised, Expire
  <2> QED
    BY <2>1
<1>12. ~(LogoutEnds(t) \/ LoginOk(t) \/ LoginFailed(t) \/ LoginEscapes(t))
  BY <1>3 DEF LogoutEnds, LoginOk, LoginFailed, LoginEscapes
<1> QED
  BY <1>4, <1>5, <1>6, <1>7, <1>8, <1>9, <1>10, <1>11, <1>12 DEF Step

-----------------------------------------------------------------------------
(* What the task that makes the step is then.                              *)
Fine(t) ==
    /\ port' \in {port, open'} /\ forgot' = forgot /\ open' = open
    /\ tasks'[t].try = << >>
    /\ tasks'[t].pc \in {"mutex", "ports"} \cup Busy => port' = open'
    /\ tasks'[t].cmd = "Cmd" /\ tasks'[t].pc # "answered" => tasks'[t].ans \in {"none", "ok"}
    /\ tasks'[t].cmd = "Cmd" /\ tasks'[t].pc \in Busy =>
         \/ tasks'[t].pc = "send" /\ tasks[t].pc # "send" /\ Valid' /\ tasks'[t].tok = token'
         \/ /\ tasks[t].cmd = "Cmd" /\ tasks[t].pc \in Busy /\ tasks'[t].pc \in {"queued", "answered"}
            /\ tasks'[t].tok = tasks[t].tok
            /\ Current(t) /\ t \notin overtaken =>
                 tasks'[t].ans \in {"none", "ok"} /\ (tasks'[t].pc = "queued" => ~closed')

LEMMA LogInFine ==
  ASSUME All, NEW t \in Task, NEW r \in Record, r.cmd = "Cmd", r.try = << >>, r.ans \in {"none", "ok"},
         LogIn(t, r), UNCHANGED <<token, lease, open, forgot>>, port' = open', tasks[t].pc # "send"
  PROVE  Fine(t)
<1>1. token \in 0..MaxLogins
  BY DEF All, IInv, Types
<1>2. CASE Valid
  <2> DEFINE w == [r EXCEPT !.pc = "send", !.cmd = "Cmd", !.tok = token]
  <2>1. w.cmd = "Cmd" /\ w.try = r.try /\ w.ans = r.ans /\ w.pc = "send" /\ w.tok = token
    BY <1>1 DEF Record, Pcs
  <2>2. tasks' = [tasks EXCEPT ![t] = w]
    BY <1>2 DEF LogIn
  <2> HIDE DEF w
  <2>3. tasks'[t] = w
    BY <2>2, OneChanges
  <2>4. Valid'
    BY <1>2 DEF Valid
  <2> QED
    BY <2>1, <2>3, <2>4 DEF Fine
<1>3. CASE ~Valid
  <2> DEFINE w == [r EXCEPT !.pc = "mutex"]
  <2>1. w.cmd = "Cmd" /\ w.try = r.try /\ w.ans = r.ans /\ w.pc = "mutex"
    BY DEF Record, Pcs
  <2>2. tasks' = [tasks EXCEPT ![t] = w]
    BY <1>3 DEF LogIn
  <2> HIDE DEF w
  <2>3. tasks'[t] = w
    BY <2>2, OneChanges
  <2> QED
    BY <2>1, <2>3 DEF Fine, Busy
<1> QED
  BY <1>2, <1>3

LEMMA AttemptFine ==
  ASSUME All, NEW t \in Task, NEW r \in Record, r.cmd = "Cmd", r.try = << >>, r.ans \in {"none", "ok"},
         Attempt(t, r), UNCHANGED <<token, lease, open, forgot, port>>, port \in {"none", open}, tasks[t].pc # "send"
  PROVE  Fine(t)
<1>1. CASE port = "none"
  <2> DEFINE w == [r EXCEPT !.pc = "probe"]
  <2>1. w.cmd = "Cmd" /\ w.try = r.try /\ w.ans = r.ans /\ w.pc = "probe"
    BY DEF Record, Pcs
  <2>2. tasks' = [tasks EXCEPT ![t] = w]
    BY <1>1 DEF Attempt
  <2> HIDE DEF w
  <2>3. tasks'[t] = w
    BY <2>2, OneChanges
  <2> QED
    BY <2>1, <2>3 DEF Fine, Busy
<1>2. CASE port # "none"
  <2> DEFINE q == [r EXCEPT !.attempt = 1]
  <2>1. q \in Record /\ q.cmd = "Cmd" /\ q.try = r.try /\ q.ans = r.ans
    BY DEF Record
  <2>2. LogIn(t, q)
    BY <1>2 DEF Attempt
  <2> HIDE DEF q
  <2> QED
    BY <1>2, <2>1, <2>2, LogInFine
<1> QED
  BY <1>1, <1>2

(* The end of a call, and of an attempt.                                   *)
LEMMA RestFine ==
  ASSUME NEW t \in Task, NEW w, tasks'[t] = w, UNCHANGED <<open, forgot>>, port' = port, w.try = << >>,
         w.pc \in {"mutex", "ports"} \cup Busy => port = open,
         w.cmd # "Cmd" \/ (w.pc \notin Busy /\ w.ans \in {"none", "ok"})
  PROVE  Fine(t)
BY DEF Fine

LEMMA EndedFine ==
  ASSUME NEW t \in Task, NEW p \in {"ok", "raised"}, NEW r, tasks'[t] = Ended(r, p),
         UNCHANGED <<open, forgot>>, port' = port
  PROVE  Fine(t)
<1>1. Ended(r, p).pc = p /\ Ended(r, p).cmd = "Cmd" /\ Ended(r, p).ans = "none" /\ Ended(r, p).try = << >>
  BY EndedShape
<1> QED
  BY <1>1 DEF Fine, Busy


(* Every step of a sender that does not go wrong. *)
LEMMA StepFine ==
  ASSUME All, Lull, LullInv, NEW t \in Sender, faults' = faults, Start(t) \/ Leave(t) \/ Step(t)
  PROVE  Fine(t)
<1> DEFINE r == tasks[t]
<1>1. /\ t \in Task /\ t \notin Leaver /\ tasks \in [Task -> Record] /\ r \in Record
      /\ TaskInv(t) /\ LullTask(t) /\ ~forgot /\ port \in {"none", open} /\ token \in 0..MaxLogins
  BY Disjoint DEF All, IInv, Types, LullInv, Task
<1>2. r.try = << >> /\ (r.pc \in {"mutex", "ports"} \cup Busy => port = open)
      /\ (r.cmd = "Cmd" /\ r.pc # "answered" => r.ans \in {"none", "ok"})
  BY <1>1 DEF LullTask
<1>3. /\ r.pc \in {"idle", "probe", "ports", "mutex"} => r.cmd = "Cmd"
      /\ r.cmd # "Cmd" => r.pc \in Busy
  BY <1>1, WhoAll
<1>4. ~Fault(t)
  <2>1. faults \in Nat
    BY DEF All, Numbers
  <2> QED
    BY <2>1 DEF Fault
<1>5. open' = open /\ forgot' = forgot
  <2>1. CASE \/ Start(t) \/ Leave(t) \/ Probe(t) \/ NextPort(t) \/ Granted(t) \/ Queue(t)
             \/ NoServer(t) \/ Failed(t) \/ Closed(t) \/ TurnTimeout(t)
             \/ CmdOk(t) \/ Again(t) \/ ExpireAgain(t) \/ CmdRaised(t)
             \/ LogoutEnds(t) \/ LoginOk(t) \/ LoginFailed(t) \/ LoginEscapes(t)
    BY <2>1 DEF Start, Leave, Probe, NextPort, Granted, Queue, NoServer, Failed, Closed, TurnTimeout,
         CmdOk, Again, ExpireAgain, CmdRaised, LogoutEnds, LoginOk, LoginFailed, LoginEscapes, camera
  <2>2. CASE Serve(t)
    <3>1. PICK tok \in 0..MaxLogins, reply \in {"ok", "nologin", "refused"} : Effect(t, tok, reply)
      BY <2>2 DEF Serve
    <3>2. r.cmd \in {"Cmd", "Login", "Logout"}
      BY <1>1 DEF Record
    <3> QED
      BY <3>1, <3>2 DEF Effect, camera
  <2>3. ~Lost(t)
    BY <1>4 DEF Lost
  <2> QED
    BY <2>1, <2>2, <2>3 DEF Step
<1>6. CASE Start(t)
  <2> DEFINE n == RETRY_ATTEMPTS - 1
             q == [r EXCEPT !.retry = n]
  <2>1. n \in Attempts
    BY HttpSessionAssumption DEF Attempts
  <2>2. Attempt(t, q) /\ UNCHANGED <<token, lease, port>> /\ r.pc = "idle"
    BY <1>6 DEF Start
  <2> HIDE DEF n
  <2>3. q \in Record /\ q.cmd = "Cmd" /\ q.try = << >> /\ q.ans \in {"none", "ok"}
    BY <1>1, <1>2, <1>3, <2>1, <2>2 DEF Record
  <2> HIDE DEF q
  <2> QED
    BY <1>1, <1>5, <2>2, <2>3, AttemptFine
<1>7. CASE Probe(t)
  <2>1. PICK available \in BOOLEAN :
         /\ IF available THEN UNCHANGED faults ELSE Fault(t)
         /\ LET try == IF available THEN <<open>> ELSE Ports
            IN  port' = Head(try) /\ LogIn(t, [r EXCEPT !.attempt = 0, !.try = Tail(try), !.bc = available])
    BY <1>7 DEF Probe
  <2>2. available
    BY <1>4, <2>1
  <2> DEFINE rest == Tail(<<open>>)
             q == [r EXCEPT !.attempt = 0, !.try = rest, !.bc = available]
  <2>3. port' = open /\ rest = << >> /\ LogIn(t, q)
    BY <2>1, <2>2
  <2>4. rest \in Seq(Range(Ports)) /\ 0 \in 0..3
    BY <2>3
  <2> HIDE DEF rest
  <2>5. r.pc = "probe" /\ UNCHANGED <<token, lease>>
    BY <1>7 DEF Probe
  <2>6. q \in Record /\ q.cmd = "Cmd" /\ q.try = << >> /\ q.ans \in {"none", "ok"}
    BY <1>1, <1>2, <1>3, <2>3, <2>4, <2>5 DEF Record
  <2> HIDE DEF q
  <2> QED
    BY <1>1, <1>5, <2>3, <2>5, <2>6, LogInFine
<1>8. CASE NextPort(t)
  <2> DEFINE again(n) == [r EXCEPT !.attempt = n]
  <2>1. r.pc = "ports" /\ UNCHANGED <<token, lease>> /\ port = open
    BY <1>2, <1>8 DEF NextPort
  <2>2. \/ port' = open /\ LogIn(t, again(2))
        \/ port' = port /\ LogIn(t, again(3))
        \/ port' = port /\ tasks' = [tasks EXCEPT ![t] = Ended(r, "raised")]
    BY <1>2, <1>8 DEF NextPort
  <2>3. ASSUME NEW n \in {2, 3}, LogIn(t, again(n)), port' = open PROVE Fine(t)
    <3>1. n \in 0..3
      OBVIOUS
    <3>2. again(n) \in Record /\ again(n).cmd = "Cmd" /\ again(n).try = << >> /\ again(n).ans \in {"none", "ok"}
      BY <1>1, <1>2, <1>3, <2>1, <3>1 DEF Record
    <3> HIDE DEF again
    <3> QED
      BY <1>1, <1>5, <2>1, <2>3, <3>2, LogInFine
  <2>4. ASSUME tasks' = [tasks EXCEPT ![t] = Ended(r, "raised")], port' = port PROVE Fine(t)
    <3>1. tasks'[t] = Ended(r, "raised")
      BY <1>1, <2>4, OneChanges
    <3> QED
      BY <1>1, <1>5, <2>4, <3>1, EndedFine
  <2> QED
    BY <2>1, <2>2, <2>3, <2>4
<1>9. ~Leave(t)
  BY <1>1 DEF Leave
<1>10. CASE Granted(t)
  <2>1. r.pc = "mutex" /\ port' = port /\ port = open /\ r.cmd = "Cmd" /\ r.ans \in {"none", "ok"}
    BY <1>2, <1>3, <1>10 DEF Granted
  <2>2. CASE Valid
    <3> DEFINE w == [r EXCEPT !.pc = "send", !.cmd = "Cmd", !.tok = token]
    <3>1. w.cmd = "Cmd" /\ w.try = << >> /\ w.ans = r.ans /\ w.pc = "send" /\ w.tok = token
      BY <1>1, <1>2 DEF Record
    <3>2. tasks' = [tasks EXCEPT ![t] = w] /\ UNCHANGED <<token, lease>>
      BY <1>10, <2>2 DEF Granted, Valid
    <3> HIDE DEF w
    <3>3. tasks'[t] = w /\ Valid'
      BY <1>1, <2>2, <3>2, OneChanges DEF Valid
    <3> QED
      BY <1>5, <2>1, <3>1, <3>2, <3>3 DEF Fine
  <2>3. ASSUME NEW cmd \in {"Logout", "Login"}, tasks' = [tasks EXCEPT ![t] = Exchange(r, cmd)] PROVE Fine(t)
    <3>1. Exchange(r, cmd).cmd = cmd /\ Exchange(r, cmd).try = << >> /\ Exchange(r, cmd).pc = "send"
      BY <1>1, <1>2 DEF Exchange, Record
    <3>2. tasks'[t] = Exchange(r, cmd)
      BY <1>1, <2>3, OneChanges
    <3> QED
      BY <1>1, <1>5, <2>1, <3>1, <3>2, RestFine
  <2>4. CASE ~Valid
    BY <1>1, <1>10, <2>3, <2>4 DEF Granted, LoggedOut
  <2> QED
    BY <2>2, <2>4
<1>11. CASE Queue(t)
  <2> DEFINE w == [r EXCEPT !.pc = "queued"]
  <2>1. r.pc = "send" /\ port' = port /\ closed' = FALSE /\ tasks' = [tasks EXCEPT ![t] = w] /\ port = open
    BY <1>2, <1>11 DEF Queue, Busy
  <2>2. w.pc = "queued" /\ w.cmd = r.cmd /\ w.try = << >> /\ w.ans = r.ans /\ w.tok = r.tok
    BY <1>1, <1>2 DEF Record
  <2> HIDE DEF w
  <2>3. tasks'[t] = w
    BY <1>1, <2>1, OneChanges
  <2> QED
    BY <1>2, <1>5, <2>1, <2>2, <2>3 DEF Fine, Busy
<1>12. ASSUME NEW w, tasks' = [tasks EXCEPT ![t] = w], port' = port, w.try = << >>, w.pc = "answered",
              r.pc = "queued", w.cmd = r.cmd, w.cmd = "Cmd" => w.tok = r.tok,
              w.cmd = "Cmd" /\ Current(t) /\ t \notin overtaken => w.ans \in {"none", "ok"}
       PROVE  Fine(t)
  <2>1. tasks'[t] = w
    BY <1>1, <1>12, OneChanges
  <2>2. port = open
    BY <1>2, <1>12 DEF Busy
  <2> QED
    BY <1>5, <1>12, <2>1, <2>2 DEF Fine, Busy
<1>13. CASE Serve(t)
  <2>1. PICK tok \in 0..MaxLogins, reply \in {"ok", "nologin", "refused"} : Effect(t, tok, reply) /\ Answered(t, tok, reply)
    BY <1>13 DEF Serve
  <2> DEFINE w == [r EXCEPT !.pc = "answered", !.tok = tok, !.ans = reply]
  <2>2. tasks' = [tasks EXCEPT ![t] = w] /\ port' = port /\ r.pc = "queued"
    BY <1>1, <1>13, <2>1 DEF Answered, Serve, Turn, client
  <2>3. w.pc = "answered" /\ w.cmd = r.cmd /\ w.try = << >> /\ w.tok = tok /\ w.ans = reply
    BY <1>1, <1>2 DEF Record
  <2>4. r.cmd = "Cmd" => tok = r.tok /\ (r.tok \in sessions => reply = "ok")
    BY <2>1 DEF Effect
  <2>5. ASSUME r.cmd = "Cmd", Current(t), t \notin overtaken PROVE r.tok \in sessions
    <3>1. Valid /\ r.tok = token
      BY <2>2, <2>5 DEF Current, Busy
    <3>2. TokenKnown
      BY DEF All, IInv
    <3> QED
      BY <1>1, <3>1, <3>2 DEF TokenKnown, Lull
  <2> HIDE DEF w
  <2> QED
    BY <1>12, <2>2, <2>3, <2>4, <2>5
<1>14. ~NoServer(t)
  BY <1>2 DEF NoServer, Turn, Busy
<1>15. ~(Lost(t) \/ Failed(t) \/ TurnTimeout(t))
  BY <1>4 DEF Lost, Failed, TurnTimeout
<1>16. CASE Closed(t)
  <2>1. PICK ans \in {"closed", "lost"} : Answered(t, r.tok, ans)
    BY <1>16 DEF Closed
  <2> DEFINE w == [r EXCEPT !.pc = "answered", !.tok = r.tok, !.ans = ans]
  <2>2. tasks' = [tasks EXCEPT ![t] = w] /\ port' = port /\ r.pc = "queued" /\ closed
    BY <1>1, <1>16, <2>1 DEF Answered, Closed, client
  <2>3. w.pc = "answered" /\ w.cmd = r.cmd /\ w.try = << >> /\ w.tok = r.tok
    BY <1>1, <1>2 DEF Record
  <2>4. ~(r.cmd = "Cmd" /\ Current(t) /\ t \notin overtaken)
    BY <2>2 DEF Current, Busy
  <2> HIDE DEF w
  <2> QED
    BY <1>12, <2>2, <2>3, <2>4
<1>17. CASE CmdOk(t)
  <2>1. tasks' = [tasks EXCEPT ![t] = Ended(r, "ok")] /\ port' = port
    BY <1>1, <1>17 DEF CmdOk, client
  <2>2. tasks'[t] = Ended(r, "ok")
    BY <1>1, <2>1, OneChanges
  <2> QED
    BY <1>1, <1>5, <2>1, <2>2, EndedFine
<1>18. r.pc = "answered" /\ Left(r) > 0 =>
         /\ Resent(r) \in Record /\ Resent(r).cmd = r.cmd /\ Resent(r).try = << >> /\ Resent(r).ans = "none"
         /\ r.cmd # "Cmd" => Resent(r).pc = "send"
  <2>1. Resent(r).cmd = r.cmd /\ Resent(r).try = r.try /\ Resent(r).ans = "none"
        /\ (r.cmd # "Cmd" => Resent(r).pc = "send")
    BY <1>1 DEF Resent, Record
  <2> QED
    BY <1>1, <1>2, <2>1, ResentShape
<1>19. CASE Again(t)
  <2>1. r.pc = "answered" /\ Left(r) > 0 /\ UNCHANGED <<port, token, lease>> /\ port = open
    BY <1>2, <1>19 DEF Again, Busy
  <2>2. CASE r.cmd = "Cmd"
    <3>1. Attempt(t, Resent(r))
      BY <1>19, <2>2 DEF Again
    <3> QED
      BY <1>1, <1>5, <1>18, <2>1, <2>2, <3>1, AttemptFine
  <2>3. CASE r.cmd # "Cmd"
    <3>1. tasks' = [tasks EXCEPT ![t] = Resent(r)]
      BY <1>19, <2>3 DEF Again
    <3>2. tasks'[t] = Resent(r)
      BY <1>1, <3>1, OneChanges
    <3> QED
      BY <1>1, <1>5, <1>18, <2>1, <2>3, <3>2, RestFine
  <2> QED
    BY <2>2, <2>3
<1>20. CASE ExpireAgain(t)
  <2>1. r.pc = "answered" /\ Left(r) > 0 /\ port' = port /\ port = open
    BY <1>2, <1>20 DEF ExpireAgain, Busy
  <2> DEFINE w == IF r.cmd = "Cmd" THEN [Resent(r) EXCEPT !.pc = "mutex"] ELSE Resent(r)
  <2>2. w \in Record /\ w.try = << >> /\ w.ans = "none" /\ w.cmd = r.cmd
        /\ w.pc = IF r.cmd = "Cmd" THEN "mutex" ELSE "send"
    BY <1>18, <2>1 DEF Record, Pcs
  <2>3. CutOff(t, [tasks EXCEPT ![t] = w])
    BY <1>20 DEF ExpireAgain, Expire
  <2> HIDE DEF w
  <2>4. tasks'[t] = w
    BY <1>1, <2>2, <2>3, MoveOfCut
  <2> QED
    BY <1>1, <1>5, <2>1, <2>2, <2>4, RestFine DEF Busy
<1>21. ASSUME CutOff(t, [tasks EXCEPT ![t] = Ended(r, "raised")]), port' = port PROVE Fine(t)
  <2> DEFINE w == Ended(r, "raised")
  <2>1. w \in Record
    BY EndedShape
  <2>2. CutOff(t, [tasks EXCEPT ![t] = w])
    BY <1>21
  <2> HIDE DEF w
  <2>3. tasks'[t] = w
    BY <1>1, <2>1, <2>2, MoveOfCut
  <2> QED
    BY <1>1, <1>5, <1>21, <2>3, EndedFine DEF w
<1>22. CASE CmdRaised(t)
  BY <1>21, <1>22 DEF CmdRaised, Expire
<1>23. CASE LogoutEnds(t)
  <2> DEFINE w == Exchange(r, "Login")
  <2>1. r.pc = "answered" /\ r.cmd = "Logout" /\ port' = port /\ port = open
    BY <1>2, <1>23 DEF LogoutEnds, Busy
  <2>2. w.cmd = "Login" /\ w.try = << >> /\ w.pc = "send"
    BY <1>1, <1>2 DEF Exchange, Record
  <2>2a. w \in Record
    BY <1>1, ExchangeRecord
  <2>3. CutOff(t, [tasks EXCEPT ![t] = w]) \/ tasks' = [tasks EXCEPT ![t] = w]
    BY <1>1, <1>23 DEF LogoutEnds, LoggedOut
  <2> HIDE DEF w
  <2>4. tasks'[t] = w
    BY <1>1, <2>2a, <2>3, MoveOfCut, OneChanges
  <2> QED
    BY <1>1, <1>5, <2>1, <2>2, <2>4, RestFine
<1>24. CASE LoginOk(t)
  <2> DEFINE w == [r EXCEPT !.pc = "send", !.cmd = "Cmd", !.ans = "none"]
  <2>1. r.pc = "answered" /\ r.cmd = "Login" /\ r.ans = "ok" /\ port' = port /\ token' = r.tok /\ lease' = TRUE
        /\ tasks' = [tasks EXCEPT ![t] = w] /\ port = open
    BY <1>2, <1>24 DEF LoginOk, Busy
  <2>2. w.pc = "send" /\ w.cmd = "Cmd" /\ w.ans = "none" /\ w.tok = r.tok /\ w.try = << >>
    BY <1>1, <1>2 DEF Record
  <2> HIDE DEF w
  <2>3. tasks'[t] = w
    BY <1>1, <2>1, OneChanges
  <2>4. r.tok \in sessions /\ sessions \subseteq 1..issued
    BY <1>1, <2>1 DEF TaskInv, All, Numbers
  <2>5. Valid'
    BY <2>1, <2>4 DEF Valid
  <2> QED
    BY <1>5, <2>1, <2>2, <2>3, <2>5 DEF Fine
<1>25. CASE LoginFailed(t)
  <2> DEFINE w == [r EXCEPT !.pc = "ports", !.cmd = "Cmd", !.ans = "none"]
  <2>1. r.pc = "answered" /\ r.cmd = "Login" /\ port' = port /\ port = open
    BY <1>2, <1>25 DEF LoginFailed, Busy
  <2>2. w \in Record /\ w.pc = "ports" /\ w.cmd = "Cmd" /\ w.ans = "none" /\ w.try = << >>
    BY <1>1, <1>2 DEF Record, Pcs, Answers
  <2>3. CutOff(t, [tasks EXCEPT ![t] = w]) \/ tasks' = [tasks EXCEPT ![t] = w]
    BY <1>25 DEF LoginFailed, Expire
  <2> HIDE DEF w
  <2>4. tasks'[t] = w
    BY <1>1, <2>2, <2>3, MoveOfCut, OneChanges
  <2> QED
    BY <1>1, <1>5, <2>1, <2>2, <2>4, RestFine DEF Busy
<1>26. CASE LoginEscapes(t)
  BY <1>21, <1>26 DEF LoginEscapes, Expire
<1> QED
  BY <1>6, <1>7, <1>8, <1>9, <1>10, <1>11, <1>13, <1>14, <1>15, <1>16, <1>17, <1>19, <1>20,
     <1>22, <1>23, <1>24, <1>25, <1>26 DEF Step

(* A task that goes on with its attempt has its lease as long as Noted     *)
(* says so.                                                                *)
LEMMA StillLeased ==
  ASSUME Noted, NEW u \in Sender, Sending(u), Sending(u)',
         tasks[u].pc # "answered" \/ tasks'[u].pc # "send", u \notin overtaken'
  PROVE  u \notin overtaken /\ (lease => lease')
BY DEF Noted

LEMMA LullKeeps ==
  ASSUME All, LullInv, Noted, NEW t \in Task, Good(t), Start(t) \/ Leave(t) \/ Step(t)
  PROVE  LullInv'
<1> SUFFICES ASSUME Lull'
             PROVE  /\ ~forgot' /\ port' \in {"none", open'}
                    /\ \A u \in Sender : LullTask(u)' /\ Current(u)'
  BY DEF LullInv
<1>1. faults' = faults /\ t \in Sender
  <2>1. faults \in Nat
    BY DEF All, Numbers
  <2> QED
    BY <2>1 DEF Good, Fault, Lull, Task
<1>2. Moved(t)
  BY DEF Good, Kept
<1>3. Lull
  <2>1. \A u \in Task \ {t} : tasks'[u].pc = tasks[u].pc
    BY <1>2, OthersSame
  <2>2. \A u \in Leaver : u \in Task /\ u # t
    BY <1>1, Disjoint DEF Task
  <2> QED
    BY <1>1, <2>1, <2>2 DEF Lull
<1>4. Fine(t) /\ Steady(t)
  BY <1>1, <1>3, StepFine, StepSteady
<1>5. ~forgot /\ port \in {"none", open} /\ \A u \in Sender : LullTask(u) /\ Current(u)
  BY <1>3 DEF LullInv
<1>6. ~forgot' /\ port' \in {"none", open'} /\ (port = open => port' = open')
  BY <1>4, <1>5 DEF Fine
<1>7. LullTask(t)'
  BY <1>4 DEF Fine, LullTask
<1>8. Current(t)'
  <2> SUFFICES ASSUME tasks'[t].cmd = "Cmd", tasks'[t].pc \in Busy, t \notin overtaken'
               PROVE  /\ Valid' /\ tasks'[t].tok = token' /\ tasks'[t].ans \in {"none", "ok"}
                      /\ tasks'[t].pc = "queued" => ~closed'
    BY DEF Current
  <2>1. CASE tasks'[t].pc = "send" /\ tasks[t].pc # "send" /\ Valid' /\ tasks'[t].tok = token'
    BY <1>7, <2>1 DEF LullTask
  <2>2. CASE /\ tasks[t].cmd = "Cmd" /\ tasks[t].pc \in Busy /\ tasks'[t].pc \in {"queued", "answered"}
             /\ tasks'[t].tok = tasks[t].tok
             /\ Current(t) /\ t \notin overtaken =>
                  tasks'[t].ans \in {"none", "ok"} /\ (tasks'[t].pc = "queued" => ~closed')
    <3>1. t \notin overtaken /\ (lease => lease')
      BY <1>1, <2>2, StillLeased DEF Sending, Busy
    <3>2. Valid /\ tasks[t].tok = token /\ Current(t)
      BY <1>1, <1>5, <2>2, <3>1 DEF Current
    <3>3. token' = token /\ Valid'
      BY <1>4, <3>1, <3>2 DEF Steady, Valid
    <3> QED
      BY <2>2, <3>1, <3>2, <3>3
  <2> QED
    BY <1>4, <2>1, <2>2 DEF Fine
<1>9. ASSUME NEW u \in Sender, u # t PROVE LullTask(u)' /\ Current(u)'
  <2>1. u \in Task \ {t}
    BY <1>9 DEF Task
  <2>2. \/ tasks'[u] = tasks[u]
        \/ tasks[u].pc = "answered" /\ tasks'[u] = [tasks[u] EXCEPT !.ans = "lost"]
    BY <1>2, <2>1 DEF Moved, Cuts
  <2>3. tasks[u] \in Record
    BY <2>1, WhoAll
  <2>4. tasks'[u].pc = tasks[u].pc /\ tasks'[u].cmd = tasks[u].cmd /\ tasks'[u].try = tasks[u].try
        /\ (tasks[u].pc # "answered" => tasks'[u] = tasks[u])
    BY <2>2, <2>3 DEF Record
  <2>5. LullTask(u)'
    BY <1>5, <1>6, <2>4 DEF LullTask
  <2>6. ASSUME tasks'[u].cmd = "Cmd", tasks'[u].pc \in Busy, u \notin overtaken'
        PROVE  /\ Valid' /\ tasks'[u].tok = token' /\ tasks'[u].ans \in {"none", "ok"}
               /\ tasks'[u].pc = "queued" => ~closed'
    <3>1. u \notin overtaken /\ (lease => lease')
      BY <2>4, <2>6, StillLeased DEF Sending, Busy
    <3>2. /\ Valid /\ tasks[u].tok = token /\ tasks[u].ans \in {"none", "ok"}
          /\ tasks[u].pc = "queued" => ~closed
      BY <1>5, <2>4, <2>6, <3>1 DEF Current
    <3>3. token' = token /\ Valid' /\ tasks'[u] = tasks[u] /\ (closed' = closed \/ closed' = FALSE)
      BY <1>4, <2>1, <3>1, <3>2 DEF Steady, Valid
    <3>4. tasks'[u].tok = token' /\ tasks'[u].ans \in {"none", "ok"} /\ tasks'[u].pc = tasks[u].pc
      BY <3>2, <3>3
    <3>5. tasks'[u].pc = "queued" => ~closed'
      <4> SUFFICES ASSUME tasks'[u].pc = "queued" PROVE ~closed'
        OBVIOUS
      <4>1. ~closed
        BY <3>2, <3>4, Zenon
      <4>2. CASE closed' = closed
        BY <4>1, <4>2, Zenon
      <4>3. CASE closed' = FALSE
        BY <4>3, Zenon
      <4> QED
        BY <3>3, <4>2, <4>3, Zenon
    <3> QED
      BY <3>3, <3>4, <3>5, Zenon
  <2> QED
    BY <2>5, <2>6 DEF Current
<1> QED
  BY <1>6, <1>7, <1>8, <1>9

LEMMA LullNext ==
  ASSUME All, LullInv, [Next]_vars
  PROVE  LullInv'
<1>1. CASE UNCHANGED vars
  BY <1>1 DEF vars, client, camera, LullInv, Lull, LullTask, Current, Valid
<1>2. CASE Restart
  <2>1. faults' # 0
    BY <1>2 DEF Restart, All, Numbers
  <2> QED
    BY <2>1 DEF LullInv, Lull
<1>3. CASE LeaseOver /\ Noted
  <2>1. UNCHANGED <<port, token, closed, tasks, open, forgot, faults>> /\ lease /\ ~lease'
    BY <1>3 DEF LeaseOver, camera
  <2>2. \A u \in Sender : Sending(u) /\ tasks[u].pc \in Busy => u \in overtaken'
    BY <1>3, <2>1 DEF Noted, Sending, Busy
  <2>3. \A u \in Sender : Current(u)'
    BY <2>1, <2>2 DEF Current, Sending, Busy
  <2> QED
    BY <2>1, <2>3 DEF LullInv, Lull, LullTask
<1>4. ASSUME NEW t \in Task, Start(t) \/ Leave(t) \/ Step(t), Noted PROVE LullInv'
  BY <1>4, StepGood, LullKeeps
<1> QED
  BY <1>1, <1>2, <1>3, <1>4 DEF Next

(* As long as nothing goes wrong and nobody logs out, a command that is    *)
(* not answered the first time is one the lease of whose token ended after *)
(* it was taken, and there is one only after some lease has run out: the   *)
(* tasks that find no lease at the same time wait for one login, and none  *)
(* replaces a token that still has its lease.                              *)
THEOREM FirstTrySuffices == Spec => []FirstTry
<1>1. Init => All /\ LullInv
  <2> SUFFICES ASSUME Init PROVE LullInv
    BY InitAll
  <2>1. port = "none" /\ forgot = FALSE /\ \A t \in Task : tasks[t] = Fresh
    BY DEF Init
  <2>2. Fresh.pc = "idle" /\ Fresh.try = << >> /\ Fresh.ans = "none"
    BY DEF Fresh
  <2> QED
    BY <2>1, <2>2 DEF LullInv, LullTask, Current, Busy, Task
<1>2. All /\ LullInv /\ [Next]_vars => (All /\ LullInv)'
  BY NextAll, LullNext
<1>3. All /\ LullInv => FirstTry
  <2> SUFFICES ASSUME All, LullInv, Lull, NEW t \in Sender,
                      tasks[t].cmd = "Cmd", tasks[t].ans \notin {"none", "ok"}
               PROVE  ended > 0 /\ t \in overtaken
    BY DEF FirstTry, Lull
  <2>1. t \in overtaken
    BY DEF LullInv, LullTask, Current, Busy
  <2>2. ended # 0
    BY DEF All, QuietInv, QuietTask, Quiet, Task
  <2> QED
    BY <2>1, <2>2 DEF All
<1> QED
  BY <1>1, <1>2, <1>3, PTL DEF Spec
=============================================================================
