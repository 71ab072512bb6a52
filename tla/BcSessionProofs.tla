--------------------------- MODULE BcSessionProofs --------------------------
(***************************************************************************)
(* Proofs about BcSession, for any tasks that send, bounds and number of   *)
(* attempts.                                                               *)
(***************************************************************************)
EXTENDS BcSession, DataLemmas

USE BcSessionAssumption

Pcs == {"idle", "start", "sleep", "next", "mutex", "lmutex", "connect", "answer", "answered", "drain", "clear"}
Ops == {"none", "state", "subscribe", "keepalive", "webhook_on", "webhook_check", "webhook_off"}
Cmds == {"none", "Nonce", "Login", "Op", "Logout"}
Answers == {"none", "ok", "lost", "refused", "error", "raised"}
Webhooks == {"webhook_on", "webhook_check", "webhook_off"}

Record == [pc : Pcs, op : Ops, cmd : Cmds, retry : 0..(RETRY_ATTEMPTS - 1), inner : 0..(RETRY_ATTEMPTS - 1),
           ans : Answers]

(* A task that logs out; one that does so since it has the mutex.          *)
Leaving(r) == r.pc = "lmutex" \/ r.pc \in {"drain", "clear"} \/ r.cmd = "Logout"
Out(r) == r.pc \in {"drain", "clear"} \/ r.cmd = "Logout"
Tidy(r) == r.cmd = "Logout" => r.pc \in {"connect", "answer", "answered", "clear"}

Types == /\ battery \in BOOLEAN /\ subscribed \in BOOLEAN /\ webhook \in BOOLEAN /\ loop \in BOOLEAN
         /\ logged_in \in BOOLEAN /\ events_active \in BOOLEAN /\ pushing \in BOOLEAN /\ up \in BOOLEAN
         /\ tasks \in [Task -> Record]

(* Of a mains-powered camera only the user logs out, without a             *)
(* subscription, and without one no events are active.                     *)
Mains == /\ ~webhook /\ ~loop
         /\ tasks["user"].op \notin Webhooks
         /\ \A t \in Task : Leaving(tasks[t]) => t = "user"
         /\ Out(tasks["user"]) => ~subscribed
         /\ ~subscribed => ~events_active
         /\ events_active => pushing

IInv == /\ Types
        /\ \A t \in Task : Tidy(tasks[t])
        /\ ~battery => Mains

-----------------------------------------------------------------------------
(* A task that goes from old to r does not begin to log out.               *)
Follows(r, old) ==
    /\ Leaving(r) => Leaving(old)
    /\ Out(r) => Out(old)
    /\ r.op = old.op \/ r.op \notin Webhooks

(* What is left as it is, or only dropped, by most steps.                  *)
Quiet == /\ battery' = battery /\ subscribed' = subscribed /\ webhook' = webhook
         /\ loop' \in BOOLEAN /\ logged_in' \in BOOLEAN /\ up' \in BOOLEAN
         /\ pushing' \in BOOLEAN /\ events_active' \in BOOLEAN
         /\ ~battery => ~loop' /\ (events_active' => events_active /\ pushing')

LEMMA TasksGoOn ==
  ASSUME IInv, Quiet, tasks' \in [Task -> Record],
         \A u \in Task : Tidy(tasks'[u]) /\ (~battery => Follows(tasks'[u], tasks[u]))
  PROVE  IInv'
<1>1. Types'
  BY DEF IInv, Types, Quiet
<1>2. ASSUME ~battery' PROVE Mains'
  <2>1. ~battery /\ Mains
    BY <1>2 DEF IInv, Quiet
  <2>2. \A u \in Task : Follows(tasks'[u], tasks[u])
    BY <2>1
  <2>3. \A u \in Task : Leaving(tasks'[u]) => Leaving(tasks[u])
    BY <2>2 DEF Follows
  <2>4. "user" \in Task
    BY DEF Task
  <2>5. Out(tasks'["user"]) => Out(tasks["user"])
    BY <2>2, <2>4 DEF Follows
  <2>6. tasks'["user"].op \notin Webhooks
    BY <2>1, <2>2, <2>4 DEF Follows, Mains
  <2> QED
    BY <2>1, <2>3, <2>5, <2>6 DEF Mains, Quiet
<1> QED
  BY <1>1, <1>2 DEF IInv

(* The same for one task.                                                  *)
LEMMA OneGoesOn ==
  ASSUME IInv, Quiet, NEW t \in Task, NEW r \in Record, tasks' = [tasks EXCEPT ![t] = r],
         Tidy(r), ~battery => Follows(r, tasks[t])
  PROVE  IInv'
<1>1. tasks' \in [Task -> Record]
  BY DEF IInv, Types
<1>2. \A u \in Task : Follows(tasks[u], tasks[u])
  BY DEF Follows
<1>3. \A u \in Task : Tidy(tasks'[u]) /\ (~battery => Follows(tasks'[u], tasks[u]))
  BY <1>2 DEF IInv, Types
<1> QED
  BY <1>1, <1>3, TasksGoOn

LEMMA Stutter ==
  ASSUME IInv, Quiet, tasks' = tasks
  PROVE  IInv'
<1>1. \A u \in Task : Follows(tasks[u], tasks[u])
  BY DEF Follows
<1> QED
  BY <1>1, TasksGoOn DEF IInv, Types

(* Most actions are quiet for what they leave UNCHANGED.                   *)
LEMMA QuietIfUnchanged ==
  ASSUME IInv, UNCHANGED <<battery, subscribed, webhook, loop, events_active, pushing>>,
         logged_in' \in BOOLEAN, up' \in BOOLEAN
  PROVE  Quiet
  BY DEF IInv, Types, Mains, Quiet

-----------------------------------------------------------------------------
(* Records                                                                 *)

LEMMA Counts == RETRY_ATTEMPTS - 1 \in 0..(RETRY_ATTEMPTS - 1) /\ 0 \in 0..(RETRY_ATTEMPTS - 1)
  OBVIOUS

LEMMA FreshRecord ==
  ASSUME NEW pc \in Pcs, NEW op \in Ops, NEW cmd \in Cmds, NEW ans \in Answers,
         NEW k \in 0..(RETRY_ATTEMPTS - 1)
  PROVE  [pc |-> pc, op |-> op, cmd |-> cmd, retry |-> k, inner |-> 0, ans |-> ans] \in Record
  BY Counts DEF Record

(* send writes the message, or waits for the connection.                   *)
LEMMA WrittenRecord ==
  ASSUME NEW r \in Record, NEW cmd \in Cmds
  PROVE  /\ Written(r, cmd) \in Record
         /\ Tidy(Written(r, cmd))
         /\ cmd # "Logout" => ~Leaving(Written(r, cmd)) /\ ~Out(Written(r, cmd))
         /\ Written(r, cmd).op = r.op
<1> DEFINE w == Written(r, cmd)
<1>1. PICK a : a = [r EXCEPT !.cmd = cmd]
  OBVIOUS
<1>2. PICK b : b = [a EXCEPT !.pc = IF up THEN "answer" ELSE "connect"]
  OBVIOUS
<1>3. w = [b EXCEPT !.ans = "none"]
  BY <1>1, <1>2, Zenon DEF Written
<1>4. a \in Record /\ a.cmd = cmd /\ a.op = r.op
  BY <1>1 DEF Record
<1>5. b \in Record /\ b.cmd = cmd /\ b.op = r.op /\ b.pc \in {"answer", "connect"}
  BY <1>2, <1>4 DEF Record, Pcs
<1>6. w \in Record /\ w.cmd = cmd /\ w.op = r.op /\ w.pc \in {"answer", "connect"}
  <2> HIDE DEF w
  <2> QED
    BY <1>3, <1>5 DEF Record, Answers
<1> QED
  <2> HIDE DEF w
  <2> SUFFICES /\ w \in Record /\ Tidy(w) /\ w.op = r.op
               /\ cmd # "Logout" => ~Leaving(w) /\ ~Out(w)
    BY DEF w
  <2> QED
    BY <1>6 DEF Tidy, Leaving, Out

(* The end of a send: no task is left logging out.                         *)
LEMMA OverRecord ==
  ASSUME IInv, NEW t \in Task, NEW how \in {"ok", "raised"}
  PROVE  /\ Over(t, how) \in Record
         /\ Tidy(Over(t, how)) /\ Follows(Over(t, how), tasks[t])
<1>1. tasks[t].op \in Ops
  BY DEF IInv, Types, Record
<1> DEFINE Is(pc, op, ans) ==
             Over(t, how) = [pc |-> pc, op |-> op, cmd |-> "none", retry |-> 0, inner |-> 0, ans |-> ans]
<1>2. PICK pc \in {"sleep", "next", "idle"}, op \in Ops, ans \in Answers :
        Is(pc, op, ans) /\ (op = tasks[t].op \/ op = "none")
  <2>1. CASE t = "keepalive"
    <3>1. Is("sleep", "none", "none")
      BY <2>1 DEF Over, Fresh
    <3> QED
      BY <3>1 DEF Ops, Answers
  <2>2. CASE t = "user"
    <3>1. PICK a : a = [Fresh EXCEPT !.pc = "next"]
      OBVIOUS
    <3>2. PICK b : b = [a EXCEPT !.op = tasks[t].op]
      OBVIOUS
    <3>3. Over(t, how) = [b EXCEPT !.ans = how]
      BY <2>2, <3>1, <3>2, Zenon DEF Over
    <3>4. a = [pc |-> "next", op |-> "none", cmd |-> "none", retry |-> 0, inner |-> 0, ans |-> "none"]
      BY <3>1 DEF Fresh
    <3>5. b = [pc |-> "next", op |-> tasks[t].op, cmd |-> "none", retry |-> 0, inner |-> 0, ans |-> "none"]
      BY <3>2, <3>4
    <3>6. Is("next", tasks[t].op, how)
      BY <3>3, <3>5
    <3> QED
      BY <1>1, <3>6 DEF Answers
  <2>3. CASE t \notin {"keepalive", "user"}
    <3>1. Is("idle", "none", how)
      BY <2>3 DEF Over, Fresh
    <3> QED
      BY <3>1 DEF Ops, Answers
  <2> QED
    BY <2>1, <2>2, <2>3
<1>3. Over(t, how) \in Record /\ Over(t, how).pc = pc /\ Over(t, how).cmd = "none" /\ Over(t, how).op = op
  <2>1. pc \in Pcs /\ "none" \in Cmds
    BY DEF Pcs, Cmds
  <2> QED
    BY <1>2, <2>1, FreshRecord, Counts
<1> QED
  BY <1>2, <1>3 DEF Tidy, Follows, Leaving, Out, Webhooks

(* A change of a few fields, one after the other.                          *)
LEMMA SetPc ==
  ASSUME NEW r \in Record, NEW pc \in Pcs
  PROVE  /\ [r EXCEPT !.pc = pc] \in Record
         /\ [r EXCEPT !.pc = pc].pc = pc /\ [r EXCEPT !.pc = pc].op = r.op
         /\ [r EXCEPT !.pc = pc].cmd = r.cmd
  BY DEF Record

LEMMA SetInner ==
  ASSUME NEW r \in Record, NEW k \in 0..(RETRY_ATTEMPTS - 1)
  PROVE  /\ [r EXCEPT !.inner = k] \in Record
         /\ [r EXCEPT !.inner = k].op = r.op
  BY DEF Record

(* What a task is that sends a command.                                    *)
LEMMA SendingTask ==
  ASSUME NEW t \in Task, NEW r \in Record, r.cmd # "Logout", Sending(t, r)
  PROVE  \E w \in Record : /\ tasks' = [tasks EXCEPT ![t] = w]
                           /\ Tidy(w) /\ ~Leaving(w) /\ ~Out(w) /\ w.op = r.op
<1>1. CASE logged_in
  <2>1. tasks' = [tasks EXCEPT ![t] = Written(r, "Op")]
    BY <1>1 DEF Sending
  <2>2. "Op" \in Cmds /\ "Op" # "Logout"
    BY DEF Cmds
  <2> QED
    BY <2>1, <2>2, WrittenRecord
<1>2. CASE ~logged_in
  <2>1. tasks' = [tasks EXCEPT ![t] = [r EXCEPT !.pc = "mutex"]]
    BY <1>2 DEF Sending
  <2>2. "mutex" \in Pcs
    BY DEF Pcs
  <2> DEFINE w == [r EXCEPT !.pc = "mutex"]
  <2>3. w \in Record /\ w.pc = "mutex" /\ w.op = r.op /\ w.cmd = r.cmd
    BY <2>2, SetPc
  <2>4. Tidy(w) /\ ~Leaving(w) /\ ~Out(w)
    BY <2>3 DEF Tidy, Leaving, Out
  <2> QED
    BY <2>1, <2>3, <2>4
<1> QED
  BY <1>1, <1>2

LEMMA SendTask ==
  ASSUME NEW t \in Task, NEW op \in Ops, Send(t, op)
  PROVE  \E w \in Record : /\ tasks' = [tasks EXCEPT ![t] = w]
                           /\ Tidy(w) /\ ~Leaving(w) /\ ~Out(w) /\ w.op = op
<1>1. PICK a : a = [Fresh EXCEPT !.op = op]
  OBVIOUS
<1>2. PICK r : r = [a EXCEPT !.retry = RETRY_ATTEMPTS - 1]
  OBVIOUS
<1>3. Sending(t, r)
  BY <1>1, <1>2, Zenon DEF Send
<1>4. a = [pc |-> "idle", op |-> op, cmd |-> "none", retry |-> 0, inner |-> 0, ans |-> "none"]
  BY <1>1 DEF Fresh
<1>5. r = [pc |-> "idle", op |-> op, cmd |-> "none", retry |-> RETRY_ATTEMPTS - 1, inner |-> 0, ans |-> "none"]
  BY <1>2, <1>4
<1>6. r \in Record /\ r.cmd # "Logout" /\ r.op = op
  BY <1>5, Counts, FreshRecord DEF Pcs, Cmds, Answers
<1> QED
  BY <1>3, <1>6, SendingTask

-----------------------------------------------------------------------------
(* send                                                                    *)

LEMMA TaskRecord ==
  ASSUME IInv, NEW t \in Task
  PROVE  tasks[t] \in Record /\ Tidy(tasks[t])
  BY DEF IInv, Types

LEMMA ConnectKeeps ==
  ASSUME IInv, NEW t \in Task, Connect(t)
  PROVE  IInv'
<1> DEFINE r == [tasks[t] EXCEPT !.pc = "answer"]
<1>1. tasks' = [tasks EXCEPT ![t] = r] /\ tasks[t].pc = "connect"
  BY DEF Connect
<1>2. r \in Record /\ r.pc = "answer" /\ r.op = tasks[t].op /\ r.cmd = tasks[t].cmd
  BY TaskRecord, SetPc DEF Pcs
<1>3. Tidy(r) /\ Follows(r, tasks[t])
  BY <1>2 DEF Tidy, Follows, Leaving, Out
<1>4. Quiet
  BY QuietIfUnchanged DEF Connect, flags, ends, IInv, Types
<1> QED
  BY <1>1, <1>2, <1>3, <1>4, OneGoesOn

LEMMA AnswerTask ==
  ASSUME IInv, NEW t \in Task, NEW ans \in Answers, Answer(t, ans),
         tasks[t].pc \in {"answer", "connect"}
  PROVE  \E r \in Record : /\ tasks' = [tasks EXCEPT ![t] = r]
                           /\ Tidy(r) /\ Follows(r, tasks[t])
<1>1. PICK a : a = [tasks[t] EXCEPT !.pc = "answered"]
  OBVIOUS
<1>2. PICK r : r = [a EXCEPT !.ans = ans]
  OBVIOUS
<1>3. a \in Record /\ a.pc = "answered" /\ a.op = tasks[t].op /\ a.cmd = tasks[t].cmd
  BY <1>1, TaskRecord, SetPc DEF Pcs
<1>4. r \in Record /\ r.pc = "answered" /\ r.op = tasks[t].op /\ r.cmd = tasks[t].cmd
  BY <1>2, <1>3 DEF Record
<1>5. Tidy(r) /\ Follows(r, tasks[t])
  BY <1>4 DEF Tidy, Follows, Leaving, Out
<1>6. tasks' = [tasks EXCEPT ![t] = r]
  <2>1. PICK m : m = [tasks EXCEPT ![t] = a]
    OBVIOUS
  <2>2. m = [tasks EXCEPT ![t].pc = "answered"]
    BY <1>1, <2>1
  <2>3. tasks' = [m EXCEPT ![t].ans = ans]
    BY <2>2, Zenon DEF Answer
  <2>4. m[t] = a
    BY <2>1 DEF IInv, Types
  <2>5. tasks' = [m EXCEPT ![t] = r]
    BY <1>2, <2>3, <2>4
  <2> QED
    BY <2>1, <2>5 DEF IInv, Types
<1> QED
  BY <1>4, <1>5, <1>6

LEMMA AnswerKeeps ==
  ASSUME IInv, NEW t \in Task, NEW ans \in Answers, Answer(t, ans),
         tasks[t].pc \in {"answer", "connect"}, Quiet
  PROVE  IInv'
  BY AnswerTask, OneGoesOn

LEMMA ConnectFailsKeeps ==
  ASSUME IInv, NEW t \in Task, ConnectFails(t)
  PROVE  IInv'
<1>1. Answer(t, "lost") /\ tasks[t].pc = "connect" /\ "lost" \in Answers
  BY DEF ConnectFails, Answers
<1>2. Quiet
  BY QuietIfUnchanged DEF ConnectFails, flags, ends, net, IInv, Types
<1> QED
  BY <1>1, <1>2, AnswerKeeps

LEMMA FailsKeeps ==
  ASSUME IInv, NEW t \in Task, Fails(t)
  PROVE  IInv'
<1>1. tasks[t].pc = "answer" /\ \E ans \in Answers : Answer(t, ans)
  BY DEF Fails, Answers
<1>2. Quiet
  BY QuietIfUnchanged DEF Fails, flags, ends, net, IInv, Types
<1> QED
  BY <1>1, <1>2, AnswerKeeps

(* The loss of the connection: a mains-powered camera has no events then.  *)
LEMMA LoseKeeps ==
  ASSUME IInv, NEW ts \in [Task -> Record], Lose(ts),
         \A u \in Task : Tidy(ts[u]) /\ (~battery => Follows(ts[u], tasks[u]))
  PROVE  IInv'
<1> DEFINE failed == [u \in Task |-> IF ts[u].pc = "answer"
                                     THEN [ts[u] EXCEPT !.pc = "answered", !.ans = "lost"] ELSE ts[u]]
           started == [Fresh EXCEPT !.pc = "start"]
           Good(r, u) == r \in Record /\ Tidy(r) /\ (~battery => Follows(r, tasks[u]))
<1>1. tasks' = failed \/ tasks' = [failed EXCEPT !["reestablish"] = started]
  BY DEF Lose
<1>2. ASSUME NEW u \in Task PROVE Good(failed[u], u)
  <2>1. CASE ts[u].pc = "answer"
    <3>1. PICK a : a = [ts[u] EXCEPT !.pc = "answered"]
      OBVIOUS
    <3>2. PICK r : r = [a EXCEPT !.ans = "lost"]
      OBVIOUS
    <3>3. failed[u] = [ts[u] EXCEPT !.pc = "answered", !.ans = "lost"]
      BY <2>1
    <3>4. failed[u] = r
      <4> HIDE DEF failed
      <4> QED
        BY <3>1, <3>2, <3>3, Zenon
    <3>5. a \in Record /\ a.pc = "answered" /\ a.op = ts[u].op /\ a.cmd = ts[u].cmd
      BY <3>1, SetPc DEF Pcs
    <3>6. r \in Record /\ r.pc = "answered" /\ r.op = ts[u].op /\ r.cmd = ts[u].cmd
      BY <3>2, <3>5 DEF Record, Answers
    <3>7. Good(r, u)
      BY <3>6 DEF Tidy, Follows, Leaving, Out
    <3> HIDE DEF failed, Good
    <3> QED
      BY <3>4, <3>7
  <2>2. CASE ts[u].pc # "answer"
    BY <2>2
  <2> QED
    BY <2>1, <2>2
<1>3. "reestablish" \in Task /\ \A u \in Task : Good(started, u)
  <2>1. started = [pc |-> "start", op |-> "none", cmd |-> "none", retry |-> 0, inner |-> 0, ans |-> "none"]
    BY DEF Fresh
  <2> HIDE DEF started
  <2>2. started \in Record /\ started.pc = "start" /\ started.cmd = "none" /\ started.op = "none"
    BY <2>1, Counts DEF Record, Pcs, Ops, Cmds, Answers
  <2> QED
    BY <2>2 DEF Task, Tidy, Follows, Leaving, Out, Webhooks
<1>4. tasks' \in [Task -> Record] /\ \A u \in Task : Good(tasks'[u], u)
  <2>1. failed \in [Task -> Record]
    BY <1>2
  <2> HIDE DEF failed, started
  <2> QED
    BY <1>1, <1>2, <1>3, <2>1
<1>5. Quiet
  <2>1. UNCHANGED <<battery, subscribed, webhook, loop>> /\ up' = FALSE /\ pushing' = FALSE /\ logged_in' = FALSE
    BY DEF Lose, ends
  <2>2. events_active' = (events_active /\ ~(~battery /\ ~webhook))
    BY DEF Lose
  <2> QED
    BY <2>1, <2>2 DEF Quiet, IInv, Types, Mains
<1> QED
  BY <1>4, <1>5, TasksGoOn

LEMMA LostKeeps ==
  ASSUME IInv, Lost
  PROVE  IInv'
<1>1. Lose(tasks)
  BY DEF Lost
<1>2. \A u \in Task : Follows(tasks[u], tasks[u])
  BY DEF Follows
<1> QED
  BY <1>1, <1>2, LoseKeeps DEF IInv, Types

LEMMA ReplyKeeps ==
  ASSUME IInv, NEW t \in Task, Reply(t)
  PROVE  IInv'
<1>1. tasks[t].pc = "answer"
  BY DEF Reply
<1>2. CASE Lose(tasks)
  <2>1. \A u \in Task : Follows(tasks[u], tasks[u])
    BY DEF Follows
  <2> QED
    BY <1>2, <2>1, LoseKeeps DEF IInv, Types
<1>3. CASE ~Lose(tasks)
  <2>1. (\E ans \in Answers : Answer(t, ans)) /\ UNCHANGED <<flags, ends, up, logged_in, events_active>>
    BY <1>3 DEF Reply, Answers
  <2>2. pushing' \in BOOLEAN /\ (tasks[t].cmd # "Logout" => (pushing => pushing'))
    BY <1>3 DEF Reply, IInv, Types
  <2>3. ~battery /\ tasks[t].cmd = "Logout" => ~events_active
    BY DEF IInv, Mains, Leaving, Out
  <2>4. Quiet
    BY <2>1, <2>2, <2>3 DEF flags, ends, Quiet, IInv, Types, Mains
  <2> QED
    BY <1>1, <2>1, <2>4, AnswerKeeps
<1> QED
  BY <1>2, <1>3

-----------------------------------------------------------------------------
(* login                                                                   *)

LEMMA LogInTask ==
  ASSUME IInv, NEW t \in Task, NEW cmd \in {"Nonce", "Login"}, tasks' = LogIn(t, cmd), Quiet
  PROVE  IInv'
<1> DEFINE a == [tasks[t] EXCEPT !.inner = RETRY_ATTEMPTS - 1]
           w == Written(a, cmd)
<1>1. a \in Record /\ a.op = tasks[t].op
  BY TaskRecord, SetInner, Counts
<1>2. cmd \in Cmds /\ cmd # "Logout"
  BY DEF Cmds
<1>3. w \in Record /\ Tidy(w) /\ ~Leaving(w) /\ ~Out(w) /\ w.op = tasks[t].op
  <2> HIDE DEF a
  <2> QED
    BY <1>1, <1>2, WrittenRecord
<1>4. tasks' = [tasks EXCEPT ![t] = w]
  BY Zenon DEF LogIn
<1> HIDE DEF w
<1> QED
  BY <1>3, <1>4, OneGoesOn DEF Follows

LEMMA WriteKeeps ==
  ASSUME IInv, NEW t \in Task, NEW cmd \in {"Nonce", "Login", "Op"}, NEW r \in Record, r.op = tasks[t].op,
         tasks' = [tasks EXCEPT ![t] = Written(r, cmd)], Quiet
  PROVE  IInv'
<1>1. cmd \in Cmds /\ cmd # "Logout"
  BY DEF Cmds
<1> QED
  BY <1>1, WrittenRecord, OneGoesOn DEF Follows

LEMMA OverKeeps ==
  ASSUME IInv, NEW t \in Task, NEW how \in {"ok", "raised"},
         tasks' = [tasks EXCEPT ![t] = Over(t, how)], Quiet
  PROVE  IInv'
  BY OverRecord, OneGoesOn

LEMMA GrantedKeeps ==
  ASSUME IInv, NEW t \in Task, Granted(t)
  PROVE  IInv'
<1>1. Quiet
  BY QuietIfUnchanged DEF Granted, flags, ends, net, IInv, Types
<1>2. \/ tasks' = [tasks EXCEPT ![t] = Written(tasks[t], "Op")]
      \/ tasks' = [tasks EXCEPT ![t] = Over(t, "raised")]
      \/ tasks' = LogIn(t, "Nonce")
  BY Zenon DEF Granted
<1> QED
  BY <1>1, <1>2, TaskRecord, WriteKeeps, OverKeeps, LogInTask

LEMMA NonceOkKeeps ==
  ASSUME IInv, NEW t \in Task, NonceOk(t)
  PROVE  IInv'
<1>1. Quiet
  BY QuietIfUnchanged DEF NonceOk, flags, ends, net, IInv, Types
<1> QED
  BY <1>1, LogInTask DEF NonceOk

LEMMA LoginAgainKeeps ==
  ASSUME IInv, NEW t \in Task, LoginAgain(t)
  PROVE  IInv'
<1> DEFINE a == [tasks[t] EXCEPT !.inner = @ - 1]
<1>1. /\ tasks[t].cmd \in {"Nonce", "Login"} /\ tasks[t].inner > 0
      /\ tasks' = [tasks EXCEPT ![t] = Written(a, tasks[t].cmd)]
  BY DEF LoginAgain
<1>2. tasks[t].inner - 1 \in 0..(RETRY_ATTEMPTS - 1)
  BY <1>1, TaskRecord DEF Record
<1>3. a \in Record /\ a.op = tasks[t].op
  BY <1>2, TaskRecord, SetInner
<1>4. Quiet
  BY QuietIfUnchanged DEF LoginAgain, flags, ends, net, IInv, Types
<1> HIDE DEF a
<1> QED
  BY <1>1, <1>3, <1>4, WriteKeeps

(* The loop starts for a battery camera only.                              *)
LEMMA LoginOkKeeps ==
  ASSUME IInv, NEW t \in Task, LoginOk(t)
  PROVE  IInv'
<1> DEFINE a == [tasks[t] EXCEPT !.inner = 0]
<1>1. a \in Record /\ a.op = tasks[t].op
  BY TaskRecord, SetInner, Counts
<1>2. tasks' = [tasks EXCEPT ![t] = Written(a, "Op")]
  BY DEF LoginOk
<1>3. Quiet
  BY DEF LoginOk, LoginEnds, flags, net, Quiet, IInv, Types, Mains
<1> HIDE DEF a
<1> QED
  BY <1>1, <1>2, <1>3, WriteKeeps

LEMMA LoginRaisesKeeps ==
  ASSUME IInv, NEW t \in Task, LoginRaises(t), loop' = (loop \/ battery)
  PROVE  IInv'
<1>1. tasks' = [tasks EXCEPT ![t] = Over(t, "raised")]
  BY DEF LoginRaises
<1>2. Quiet
  BY DEF LoginRaises, flags, net, Quiet, IInv, Types, Mains
<1> QED
  BY <1>1, <1>2, OverKeeps

-----------------------------------------------------------------------------
(* Commands                                                                *)

LEMMA DoneKeeps ==
  ASSUME IInv, NEW t \in Task, Done(t)
  PROVE  IInv'
<1>1. \E how \in {"ok", "raised"} : tasks' = [tasks EXCEPT ![t] = Over(t, how)]
  BY DEF Done
<1>2. Quiet
  BY QuietIfUnchanged DEF Done, flags, ends, net, IInv, Types
<1> QED
  BY <1>1, <1>2, OverKeeps

LEMMA AgainKeeps ==
  ASSUME IInv, NEW t \in Task, Again(t)
  PROVE  IInv'
<1> DEFINE r == [Fresh EXCEPT !.op = tasks[t].op, !.retry = tasks[t].retry - 1]
<1>1. Sending(t, r) /\ tasks[t].retry > 0
  BY DEF Again
<1>2. r \in Record /\ r.op = tasks[t].op /\ r.cmd # "Logout"
  <2>1. PICK a : a = [Fresh EXCEPT !.op = tasks[t].op]
    OBVIOUS
  <2>2. PICK b : b = [a EXCEPT !.retry = tasks[t].retry - 1]
    OBVIOUS
  <2>3. r = b
    BY <2>1, <2>2, Zenon
  <2>4. a = [pc |-> "idle", op |-> tasks[t].op, cmd |-> "none", retry |-> 0, inner |-> 0, ans |-> "none"]
    BY <2>1 DEF Fresh
  <2>5. b = [pc |-> "idle", op |-> tasks[t].op, cmd |-> "none", retry |-> tasks[t].retry - 1, inner |-> 0,
             ans |-> "none"]
    BY <2>2, <2>4
  <2>6. tasks[t].op \in Ops /\ tasks[t].retry - 1 \in 0..(RETRY_ATTEMPTS - 1)
    BY <1>1, TaskRecord DEF Record
  <2>7. b \in Record /\ b.op = tasks[t].op /\ b.cmd = "none"
    BY <2>5, <2>6, Counts DEF Record, Pcs, Cmds, Answers
  <2> HIDE DEF r
  <2> QED
    BY <2>3, <2>7
<1>3. Quiet
  BY QuietIfUnchanged DEF Again, flags, ends, net, IInv, Types
<1>4. PICK w \in Record : /\ tasks' = [tasks EXCEPT ![t] = w]
                          /\ Tidy(w) /\ ~Leaving(w) /\ ~Out(w) /\ w.op = tasks[t].op
  <2> HIDE DEF r
  <2> QED
    BY <1>1, <1>2, SendingTask
<1> QED
  BY <1>3, <1>4, OneGoesOn DEF Follows

LEMMA SendKeeps ==
  ASSUME IInv, NEW t \in Task, NEW op \in Ops \ Webhooks, Send(t, op), Quiet
  PROVE  IInv'
  BY SendTask, OneGoesOn DEF Follows

LEMMA BeginKeeps ==
  ASSUME IInv, NEW t \in Task, Begin(t)
  PROVE  IInv'
<1>1. Send(t, "state") /\ "state" \in Ops \ Webhooks
  BY DEF Begin, Ops, Webhooks
<1>2. Quiet
  BY QuietIfUnchanged DEF Begin, flags, ends, net, IInv, Types
<1> QED
  BY <1>1, <1>2, SendKeeps

LEMMA ReestablishKeeps ==
  ASSUME IInv, Reestablish
  PROVE  IInv'
<1>1. /\ Send("reestablish", "subscribe") /\ "subscribe" \in Ops \ Webhooks
      /\ "reestablish" \in Task
  BY DEF Reestablish, Ops, Webhooks, Task
<1>2. Quiet
  BY QuietIfUnchanged DEF Reestablish, flags, ends, net, IInv, Types
<1> QED
  BY <1>1, <1>2, SendKeeps

LEMMA WakeKeeps ==
  ASSUME IInv, Wake
  PROVE  IInv'
<1>1. "keepalive" \in Task /\ \E op \in Ops \ Webhooks : Send("keepalive", op)
  BY Zenon DEF Wake, Ops, Webhooks, Task
<1>2. Quiet
  BY QuietIfUnchanged DEF Wake, flags, ends, net, IInv, Types
<1> QED
  BY <1>1, <1>2, SendKeeps

-----------------------------------------------------------------------------
(* The user                                                                *)

(* The user goes on, and a mains-powered camera keeps its events only with *)
(* a subscription.                                                         *)
LEMMA UserGoesOn ==
  ASSUME IInv, tasks' \in [Task -> Record], \A u \in Task : Tidy(tasks'[u]),
         UNCHANGED <<battery, loop, logged_in, pushing, up>>,
         subscribed' \in BOOLEAN, webhook' \in BOOLEAN, events_active' \in BOOLEAN,
         \A u \in Task \ {"user"} : Leaving(tasks'[u]) => Leaving(tasks[u]),
         ~battery => /\ ~webhook' /\ ~Out(tasks'["user"]) /\ tasks'["user"].op \notin Webhooks
                     /\ events_active' => events_active /\ subscribed'
  PROVE  IInv'
<1>1. Types'
  BY DEF IInv, Types
<1>2. ASSUME ~battery' PROVE Mains'
  <2>1. ~battery /\ Mains
    BY <1>2 DEF IInv
  <2>2. \A u \in Task : Leaving(tasks'[u]) => u = "user"
    BY <2>1 DEF Mains
  <2> QED
    BY <2>1, <2>2 DEF Mains
<1> QED
  BY <1>1, <1>2 DEF IInv

LEMMA UserSends ==
  ASSUME IInv, NEW w \in Record, tasks' = [tasks EXCEPT !["user"] = w], Tidy(w),
         ~battery => ~Out(w) /\ w.op \notin Webhooks
  PROVE  /\ tasks' \in [Task -> Record] /\ \A u \in Task : Tidy(tasks'[u])
         /\ \A u \in Task \ {"user"} : Leaving(tasks'[u]) => Leaving(tasks[u])
         /\ ~battery => ~Out(tasks'["user"]) /\ tasks'["user"].op \notin Webhooks
<1>1. tasks \in [Task -> Record] /\ "user" \in Task
  BY DEF IInv, Types, Task
<1> QED
  BY <1>1 DEF IInv

LEMMA SubscribeKeeps ==
  ASSUME IInv, Subscribe
  PROVE  IInv'
<1>1. \E op \in Ops : Send("user", op) /\ (~battery => op \notin Webhooks)
  <2>1. CASE battery /\ ~webhook
    BY <2>1 DEF Subscribe, Ops
  <2>2. CASE ~(battery /\ ~webhook)
    BY <2>2 DEF Subscribe, Ops, Webhooks
  <2> QED
    BY <2>1, <2>2
<1>2. "user" \in Task
  BY DEF Task
<1>3. PICK w \in Record : /\ tasks' = [tasks EXCEPT !["user"] = w]
                          /\ Tidy(w) /\ ~Out(w) /\ (~battery => w.op \notin Webhooks)
  BY <1>1, <1>2, SendTask
<1>4. UNCHANGED <<battery, webhook, loop, logged_in, events_active, pushing, up>>
  BY DEF Subscribe, ends, net
<1>5. subscribed' \in BOOLEAN /\ (~battery => subscribed')
  BY DEF Subscribe
<1>6. ~battery => ~webhook'
  BY <1>4 DEF IInv, Mains
<1>7. webhook' \in BOOLEAN /\ events_active' \in BOOLEAN
  BY <1>4 DEF IInv, Types
<1> QED
  BY <1>3, <1>4, <1>5, <1>6, <1>7, UserSends, UserGoesOn

(* A task of Baichuan that is started anew.                                *)
LEMMA FreshTask ==
  ASSUME NEW pc \in Pcs \ {"lmutex", "drain", "clear"}
  PROVE  LET r == [Fresh EXCEPT !.pc = pc]
         IN  r \in Record /\ Tidy(r) /\ ~Leaving(r) /\ ~Out(r) /\ r.op = "none"
<1> DEFINE r == [Fresh EXCEPT !.pc = pc]
<1>1. r = [pc |-> pc, op |-> "none", cmd |-> "none", retry |-> 0, inner |-> 0, ans |-> "none"]
  BY DEF Fresh
<1>2. r \in Record /\ r.pc = pc /\ r.cmd = "none" /\ r.op = "none"
  <2> HIDE DEF r
  <2> QED
    BY <1>1, Counts DEF Record, Ops, Cmds, Answers
<1> HIDE DEF r
<1>3. r \in Record /\ Tidy(r) /\ ~Leaving(r) /\ ~Out(r) /\ r.op = "none"
  BY <1>2 DEF Tidy, Leaving, Out
<1> QED
  BY <1>3 DEF r

LEMMA FreshIsRecord ==
  /\ Fresh \in Record /\ Tidy(Fresh) /\ ~Leaving(Fresh) /\ ~Out(Fresh) /\ Fresh.op = "none"
<1>1. Fresh.pc = "idle" /\ Fresh.op = "none" /\ Fresh.cmd = "none" /\ Fresh \in Record
  BY Counts DEF Fresh, Record, Pcs, Ops, Cmds, Answers
<1> QED
  BY <1>1 DEF Tidy, Leaving, Out

LEMMA CheckRestartsKeeps ==
  ASSUME IInv, CheckRestarts
  PROVE  IInv'
<1> DEFINE r == [Fresh EXCEPT !.pc = "sleep"]
<1>1. r \in Record /\ Tidy(r) /\ ~Leaving(r) /\ ~Out(r) /\ r.op = "none"
  BY FreshTask DEF Pcs
<1>2. tasks' = [tasks EXCEPT !["keepalive"] = r] /\ "keepalive" \in Task
  BY DEF CheckRestarts, Task
<1>3. Quiet
  BY DEF CheckRestarts, flags, net, Quiet, IInv, Types, Mains
<1> HIDE DEF r
<1> QED
  BY <1>1, <1>2, <1>3, OneGoesOn DEF Follows, Webhooks

LEMMA WebhookCheckedKeeps ==
  ASSUME IInv, WebhookChecked
  PROVE  IInv'
<1>1. battery
  BY DEF WebhookChecked, IInv, Mains, Webhooks
<1>2. "user" \in Task
  BY DEF Task
<1>3. PICK w \in Record : tasks' = [tasks EXCEPT !["user"] = w] /\ Tidy(w)
  <2>1. CASE tasks' = [tasks EXCEPT !["user"] = Fresh]
    BY <2>1, FreshIsRecord
  <2>2. CASE \E op \in Ops : Send("user", op)
    BY <1>2, <2>2, SendTask
  <2> QED
    BY <2>1, <2>2 DEF WebhookChecked, Ops
<1>4. UNCHANGED <<battery, loop, logged_in, events_active, pushing, up>>
  BY DEF WebhookChecked, ends, net
<1>5. subscribed' \in BOOLEAN /\ webhook' \in BOOLEAN /\ events_active' \in BOOLEAN
  BY DEF WebhookChecked, IInv, Types
<1> QED
  BY <1>1, <1>3, <1>4, <1>5, UserSends, UserGoesOn

LEMMA SubscribedKeeps ==
  ASSUME IInv, Subscribed
  PROVE  IInv'
<1> DEFINE r == [Fresh EXCEPT !.pc = "sleep"]
<1>1. r \in Record /\ Tidy(r) /\ ~Leaving(r) /\ ~Out(r) /\ r.op = "none"
  BY FreshTask DEF Pcs
<1>2. "user" \in Task /\ "keepalive" \in Task
  BY DEF Task
<1>3. \/ tasks' = [tasks EXCEPT !["user"] = Fresh, !["keepalive"] = r]
      \/ tasks' = [tasks EXCEPT !["user"] = Fresh]
  <2>1. tasks \in [Task -> Record]
    BY DEF IInv, Types
  <2>2. PICK m : m = [tasks EXCEPT !["user"] = Fresh]
    OBVIOUS
  <2>3. m \in [Task -> Record] /\ m["keepalive"] = tasks["keepalive"]
    BY <2>1, <2>2, <1>2, FreshIsRecord
  <2> HIDE DEF r
  <2>4. tasks' = [m EXCEPT !["keepalive"] = IF Idle("keepalive") /\ ~battery THEN r ELSE @]
    BY <2>2, Zenon DEF Subscribed, r
  <2>5. CASE Idle("keepalive") /\ ~battery
    BY <2>2, <2>4, <2>5
  <2>6. CASE ~(Idle("keepalive") /\ ~battery)
    <3>1. tasks' = m
      BY <2>3, <2>4, <2>6
    <3> QED
      BY <2>2, <3>1
  <2> QED
    BY <2>5, <2>6
<1>4. tasks' \in [Task -> Record] /\ \A u \in Task : Tidy(tasks'[u]) /\ Follows(tasks'[u], tasks[u])
  <2>1. tasks \in [Task -> Record] /\ \A u \in Task : Tidy(tasks[u])
    BY DEF IInv, Types
  <2> HIDE DEF r
  <2> QED
    BY <1>1, <1>2, <1>3, <2>1, FreshIsRecord DEF Follows, Webhooks
<1>5. Quiet
  BY QuietIfUnchanged DEF Subscribed, flags, ends, net, IInv, Types
<1> QED
  BY <1>4, <1>5, TasksGoOn

LEMMA UnsubscribedKeeps ==
  ASSUME IInv, Unsubscribed, webhook' \in BOOLEAN, ~battery => ~webhook'
  PROVE  IInv'
<1> DEFINE r == [Fresh EXCEPT !.pc = "lmutex"]
<1>1. r \in Record /\ Tidy(r) /\ ~Out(r) /\ r.op = "none"
  <2>1. r = [pc |-> "lmutex", op |-> "none", cmd |-> "none", retry |-> 0, inner |-> 0, ans |-> "none"]
    BY DEF Fresh
  <2> HIDE DEF r
  <2>2. r \in Record /\ r.pc = "lmutex" /\ r.cmd = "none" /\ r.op = "none"
    BY <2>1, Counts DEF Record, Pcs, Ops, Cmds, Answers
  <2> QED
    BY <2>2 DEF Tidy, Out
<1>2. "user" \in Task /\ "keepalive" \in Task
  BY DEF Task
<1>3. tasks \in [Task -> Record] /\ \A u \in Task : Tidy(tasks[u])
  BY DEF IInv, Types
<1>4. tasks' = [tasks EXCEPT !["keepalive"] = Fresh, !["user"] = r]
  BY Zenon DEF Unsubscribed
<1> HIDE DEF r
<1>5. tasks' \in [Task -> Record] /\ \A u \in Task : Tidy(tasks'[u])
  BY <1>1, <1>2, <1>3, <1>4, FreshIsRecord
<1>6. \A u \in Task \ {"user"} : Leaving(tasks'[u]) => Leaving(tasks[u])
  BY <1>2, <1>3, <1>4, FreshIsRecord
<1>7. ~Out(tasks'["user"]) /\ tasks'["user"].op \notin Webhooks
  BY <1>1, <1>2, <1>3, <1>4 DEF Webhooks
<1>8. UNCHANGED <<battery, loop, logged_in, pushing, up>> /\ subscribed' = FALSE /\ events_active' = FALSE
  BY DEF Unsubscribed, net
<1> QED
  BY <1>5, <1>6, <1>7, <1>8, UserGoesOn

LEMMA UnsubscribeKeeps ==
  ASSUME IInv, Unsubscribe
  PROVE  IInv'
<1>1. CASE Unsubscribed /\ UNCHANGED webhook
  BY <1>1, UnsubscribedKeeps DEF IInv, Types, Mains
<1>2. CASE ~(Unsubscribed /\ UNCHANGED webhook)
  <2>1. /\ webhook /\ events_active' = FALSE /\ Send("user", "webhook_off")
        /\ UNCHANGED <<flags, ends, logged_in, net>>
    BY <1>2 DEF Unsubscribe
  <2>2. battery
    BY <2>1 DEF IInv, Mains
  <2>3. "user" \in Task /\ "webhook_off" \in Ops
    BY DEF Task, Ops
  <2>4. PICK w \in Record : tasks' = [tasks EXCEPT !["user"] = w] /\ Tidy(w)
    BY <2>1, <2>3, SendTask
  <2>5. /\ UNCHANGED <<battery, loop, logged_in, pushing, up>>
        /\ subscribed' \in BOOLEAN /\ webhook' \in BOOLEAN /\ events_active' \in BOOLEAN
    BY <2>1 DEF flags, ends, net, IInv, Types
  <2> QED
    BY <2>2, <2>4, <2>5, UserSends, UserGoesOn
<1> QED
  BY <1>1, <1>2

LEMMA WebhookOffKeeps ==
  ASSUME IInv, WebhookOff
  PROVE  IInv'
<1>1. battery
  BY DEF WebhookOff, IInv, Mains, Webhooks
<1>2. webhook' \in BOOLEAN /\ Unsubscribed
  BY DEF WebhookOff
<1> QED
  BY <1>1, <1>2, UnsubscribedKeeps

LEMMA LogoutCallKeeps ==
  ASSUME IInv, LogoutCall
  PROVE  IInv'
<1> DEFINE r == [tasks["user"] EXCEPT !.pc = "lmutex"]
<1>1. "user" \in Task /\ tasks["user"].pc = "idle"
  BY DEF Task, LogoutCall, Call, Idle
<1>2. tasks["user"].cmd # "Logout" /\ tasks["user"] \in Record
  BY <1>1, TaskRecord DEF Tidy
<1>3. r \in Record /\ r.pc = "lmutex" /\ r.op = tasks["user"].op /\ r.cmd = tasks["user"].cmd
  BY <1>2, SetPc DEF Pcs
<1>4. tasks' = [tasks EXCEPT !["user"] = r]
  BY DEF LogoutCall
<1> HIDE DEF r
<1>5. Tidy(r) /\ ~Out(r) /\ (~battery => r.op \notin Webhooks)
  BY <1>2, <1>3 DEF Tidy, Out, IInv, Mains
<1>6. UNCHANGED <<battery, subscribed, webhook, loop, logged_in, events_active, pushing, up>>
  BY DEF LogoutCall, flags, ends, net
<1>7. subscribed' \in BOOLEAN /\ webhook' \in BOOLEAN /\ events_active' \in BOOLEAN
  BY <1>6 DEF IInv, Types
<1>8. ~battery => ~webhook' /\ (events_active' => events_active /\ subscribed')
  BY <1>6 DEF IInv, Mains
<1> QED
  BY <1>3, <1>4, <1>5, <1>6, <1>7, <1>8, UserSends, UserGoesOn

-----------------------------------------------------------------------------
(* logout                                                                  *)

LEMMA LoopBreaksKeeps ==
  ASSUME IInv, LoopBreaks
  PROVE  IInv'
<1> DEFINE r == [tasks["closer"] EXCEPT !.pc = "lmutex"]
<1>1. battery
  BY DEF LoopBreaks, IInv, Mains
<1>2. "closer" \in Task /\ tasks["closer"].pc = "idle"
  BY DEF Task, LoopBreaks, Idle
<1>3. tasks["closer"].cmd # "Logout" /\ tasks["closer"] \in Record
  BY <1>2, TaskRecord DEF Tidy
<1>4. r \in Record /\ r.cmd = tasks["closer"].cmd
  BY <1>3, SetPc DEF Pcs
<1>5. tasks' = [tasks EXCEPT !["closer"] = r]
  BY DEF LoopBreaks
<1>6. Quiet
  BY <1>1 DEF LoopBreaks, flags, net, Quiet, IInv, Types
<1> HIDE DEF r
<1> QED
  BY <1>1, <1>2, <1>3, <1>4, <1>5, <1>6, OneGoesOn DEF Tidy

(* With a subscription the user of a mains-powered camera is sent away.    *)
LEMMA LogoutGrantedKeeps ==
  ASSUME IInv, NEW t \in Task, LogoutGranted(t)
  PROVE  IInv'
<1> DEFINE Goes(pc) == tasks' = [tasks EXCEPT ![t].pc = pc]
<1>1. \/ loop' = loop /\ tasks' = [tasks EXCEPT ![t] = Fresh]
      \/ loop' = FALSE /\ (~subscribed \/ battery) /\ Goes(IF logged_in THEN "drain" ELSE "clear")
  BY Zenon DEF LogoutGranted
<1>2. UNCHANGED <<battery, subscribed, webhook, logged_in, events_active, pushing, up>>
  BY DEF LogoutGranted, flags, net
<1>3. loop' \in BOOLEAN /\ (loop' => loop)
  <2>1. loop \in BOOLEAN
    BY DEF IInv, Types
  <2>2. loop' = loop \/ loop' = FALSE
    BY <1>1, Zenon
  <2>3. CASE loop' = loop
    BY <2>1, <2>3, Zenon
  <2>4. CASE loop' = FALSE
    BY <2>4, Zenon
  <2> QED
    BY <2>2, <2>3, <2>4
<1>4. Quiet
  BY <1>2, <1>3 DEF Quiet, IInv, Types, Mains
<1>5. tasks[t].pc = "lmutex" /\ tasks[t] \in Record /\ tasks[t].cmd # "Logout"
  BY TaskRecord DEF LogoutGranted, Tidy
<1>6. CASE tasks' = [tasks EXCEPT ![t] = Fresh]
  BY <1>4, <1>6, FreshIsRecord, OneGoesOn DEF Follows, Webhooks
<1>7. CASE tasks' # [tasks EXCEPT ![t] = Fresh]
  <2>1. /\ ~subscribed \/ battery
        /\ \E pc \in {"drain", "clear"} : tasks' = [tasks EXCEPT ![t] = [tasks[t] EXCEPT !.pc = pc]]
    <3>1. (~subscribed \/ battery) /\ Goes(IF logged_in THEN "drain" ELSE "clear")
      <4> HIDE DEF Goes
      <4> QED
        BY <1>7, <1>1
    <3>2. \E pc \in {"drain", "clear"} : Goes(pc)
      <4> HIDE DEF Goes
      <4>1. CASE logged_in
        BY <3>1, <4>1
      <4>2. CASE ~logged_in
        BY <3>1, <4>2
      <4> QED
        BY <4>1, <4>2
    <3> QED
      BY <3>1, <3>2
  <2>2. PICK pc \in {"drain", "clear"} : tasks' = [tasks EXCEPT ![t] = [tasks[t] EXCEPT !.pc = pc]]
    BY <2>1
  <2> DEFINE r == [tasks[t] EXCEPT !.pc = pc]
  <2>3. r \in Record /\ r.pc = pc /\ r.cmd = tasks[t].cmd /\ r.op = tasks[t].op
    <3>1. pc \in Pcs
      BY DEF Pcs
    <3> QED
      BY <1>5, <3>1, SetPc
  <2>4. tasks' = [tasks EXCEPT ![t] = r]
    BY <2>2
  <2> HIDE DEF r
  <2>5. tasks \in [Task -> Record] /\ "user" \in Task /\ Leaving(tasks[t])
    BY <1>5 DEF IInv, Types, Task, Leaving
  <2>6. tasks' \in [Task -> Record] /\ \A u \in Task : Tidy(tasks'[u])
    BY <1>5, <2>3, <2>4, <2>5 DEF IInv, Tidy
  <2>7. Types'
    BY <1>4, <2>6 DEF Types, Quiet, IInv
  <2>8. ASSUME ~battery' PROVE Mains'
    <3>1. ~battery /\ Mains /\ ~subscribed /\ ~subscribed'
      BY <1>4, <2>1, <2>8 DEF IInv, Quiet
    <3>2. t = "user"
      BY <2>5, <3>1 DEF Mains
    <3>3. tasks'["user"].op \notin Webhooks
      BY <2>3, <2>4, <2>5, <3>1, <3>2 DEF Mains
    <3>4. \A u \in Task : Leaving(tasks'[u]) => u = "user"
      BY <2>4, <2>5, <3>1, <3>2 DEF Mains
    <3> QED
      BY <1>4, <3>1, <3>3, <3>4 DEF Mains, Quiet
  <2> QED
    BY <2>6, <2>7, <2>8 DEF IInv
<1> QED
  BY <1>6, <1>7

LEMMA DrainedKeeps ==
  ASSUME IInv, NEW t \in Task, Drained(t)
  PROVE  IInv'
<1>1. tasks' = [tasks EXCEPT ![t] = Written(tasks[t], "Logout")] /\ tasks[t].pc = "drain"
  BY DEF Drained
<1>2. Leaving(tasks[t]) /\ Out(tasks[t])
  BY <1>1 DEF Leaving, Out
<1>3. "Logout" \in Cmds
  BY DEF Cmds
<1>4. Quiet
  BY QuietIfUnchanged DEF Drained, flags, ends, net, IInv, Types
<1> QED
  BY <1>1, <1>2, <1>3, <1>4, TaskRecord, WrittenRecord, OneGoesOn DEF Follows

LEMMA CloseKeeps ==
  ASSUME IInv, NEW t \in Task, Close(t)
  PROVE  IInv'
<1> DEFINE r == [tasks[t] EXCEPT !.pc = "clear"]
           ts == [tasks EXCEPT ![t] = r]
<1>1. tasks[t].cmd = "Logout" /\ (Lose(ts) \/ (tasks' = ts /\ UNCHANGED <<flags, ends, net, logged_in, events_active>>))
  BY DEF Close
<1>2. r \in Record /\ r.pc = "clear" /\ r.cmd = "Logout" /\ r.op = tasks[t].op
  BY <1>1, TaskRecord, SetPc DEF Pcs
<1> HIDE DEF r
<1>3. Tidy(r) /\ Follows(r, tasks[t])
  BY <1>1, <1>2 DEF Tidy, Follows, Leaving, Out
<1>4. ts \in [Task -> Record] /\ \A u \in Task : Tidy(ts[u]) /\ Follows(ts[u], tasks[u])
  BY <1>2, <1>3 DEF IInv, Types, Follows
<1> HIDE DEF ts
<1>5. CASE Lose(ts)
  BY <1>4, <1>5, LoseKeeps
<1>6. CASE tasks' = ts /\ UNCHANGED <<flags, ends, net, logged_in, events_active>>
  <2>1. Quiet
    BY <1>6, QuietIfUnchanged DEF flags, ends, net, IInv, Types
  <2> QED
    BY <1>4, <1>6, <2>1, TasksGoOn
<1> QED
  BY <1>1, <1>5, <1>6

LEMMA ClearKeeps ==
  ASSUME IInv, NEW t \in Task, Clear(t)
  PROVE  IInv'
<1>1. tasks' = [tasks EXCEPT ![t] = Fresh]
  BY DEF Clear
<1>2. Quiet
  BY DEF Clear, flags, net, Quiet, IInv, Types, Mains
<1> QED
  BY <1>1, <1>2, FreshIsRecord, OneGoesOn DEF Follows, Webhooks

-----------------------------------------------------------------------------
(* Events and time                                                         *)

LEMMA PushEventKeeps ==
  ASSUME IInv, PushEvent
  PROVE  IInv'
<1>1. /\ UNCHANGED <<battery, subscribed, webhook, loop, logged_in, tasks, pushing, up>>
      /\ events_active' = TRUE /\ pushing /\ subscribed
  BY DEF PushEvent, flags, ends, net
<1>2. Types'
  BY <1>1 DEF IInv, Types
<1>3. ~battery => Mains'
  BY <1>1 DEF IInv, Mains
<1> QED
  BY <1>1, <1>2, <1>3 DEF IInv

(* The webhook is a battery camera's.                                      *)
LEMMA WebhookEventKeeps ==
  ASSUME IInv, WebhookEvent
  PROVE  IInv'
<1>1. battery
  BY DEF WebhookEvent, IInv, Mains, Webhooks
<1>2. UNCHANGED <<battery, subscribed, webhook, loop, logged_in, tasks, pushing, up>> /\ events_active' = TRUE
  BY DEF WebhookEvent, flags, ends, net
<1> QED
  BY <1>1, <1>2 DEF IInv, Types

LEMMA TimeKeeps ==
  ASSUME IInv, Later15 \/ Later60 \/ UpdateBegins \/ UpdateEnds \/ UNCHANGED vars
  PROVE  IInv'
<1>1. UNCHANGED <<battery, subscribed, webhook, loop, logged_in, events_active, tasks, pushing, up>>
  BY DEF Later15, Later60, UpdateBegins, UpdateEnds, flags, ends, net, vars
<1>2. Quiet
  BY <1>1, QuietIfUnchanged DEF IInv, Types
<1> QED
  BY <1>1, <1>2, Stutter

-----------------------------------------------------------------------------
(* The invariant                                                           *)

LEMMA InitKeeps == Init => IInv
<1> SUFFICES ASSUME Init PROVE IInv
  OBVIOUS
<1>1. tasks \in [Task -> Record] /\ \A t \in Task : tasks[t] = Fresh
  BY FreshIsRecord DEF Init
<1>2. "user" \in Task
  BY DEF Task
<1>3. Types
  BY <1>1 DEF Init, Types
<1>4. Mains
  BY <1>1, <1>2, FreshIsRecord DEF Init, Mains, Webhooks
<1> QED
  BY <1>1, <1>3, <1>4, FreshIsRecord DEF IInv

LEMMA StepKeeps ==
  ASSUME IInv, NEW t \in Task, Step(t)
  PROVE  IInv'
<1>1. CASE Connect(t) \/ Reply(t)
  BY <1>1, ConnectKeeps, ReplyKeeps
<1>2. CASE Granted(t) \/ NonceOk(t) \/ LoginAgain(t) \/ LoginOk(t)
  BY <1>2, GrantedKeeps, NonceOkKeeps, LoginAgainKeeps, LoginOkKeeps
<1>3. CASE LoginFailed(t) \/ LoginDenied(t)
  BY <1>3, LoginRaisesKeeps DEF LoginFailed, LoginDenied, LoginEnds
<1>4. CASE Done(t) \/ Again(t)
  BY <1>4, DoneKeeps, AgainKeeps
<1>5. CASE LogoutGranted(t) \/ Drained(t) \/ Close(t) \/ Clear(t)
  BY <1>5, LogoutGrantedKeeps, DrainedKeeps, CloseKeeps, ClearKeeps
<1> QED
  BY <1>1, <1>2, <1>3, <1>4, <1>5 DEF Step

LEMMA NextKeeps == IInv /\ [Next]_vars => IInv'
<1> SUFFICES ASSUME IInv, [Next]_vars PROVE IInv'
  OBVIOUS
<1>1. CASE \E t \in Task : Step(t)
  BY <1>1, StepKeeps
<1>2. CASE \E t \in Sender : Begin(t)
  <2>1. Sender \subseteq Task
    BY DEF Task
  <2> QED
    BY <1>2, <2>1, BeginKeeps
<1>3. CASE \E t \in Task : ConnectFails(t) \/ Fails(t)
  BY <1>3, ConnectFailsKeeps, FailsKeeps
<1>4. CASE WebhookChecked \/ Subscribed \/ WebhookOff
  BY <1>4, WebhookCheckedKeeps, SubscribedKeeps, WebhookOffKeeps
<1>5. CASE Reestablish \/ Wake \/ LoopBreaks
  BY <1>5, ReestablishKeeps, WakeKeeps, LoopBreaksKeeps
<1>6. CASE Subscribe \/ CheckRestarts \/ Unsubscribe \/ LogoutCall
  BY <1>6, SubscribeKeeps, CheckRestartsKeeps, UnsubscribeKeeps, LogoutCallKeeps
<1>7. CASE Lost \/ PushEvent \/ WebhookEvent
  BY <1>7, LostKeeps, PushEventKeeps, WebhookEventKeeps
<1>8. CASE Later15 \/ Later60 \/ UpdateBegins \/ UpdateEnds \/ UNCHANGED vars
  BY <1>8, TimeKeeps
<1>9. Sender \subseteq Task /\ {"user", "reestablish", "keepalive", "closer"} \subseteq Task
  BY DEF Task
<1> QED
  BY <1>1, <1>2, <1>3, <1>4, <1>5, <1>6, <1>7, <1>8, <1>9
     DEF Next, UserStep, ReestablishStep, KeepaliveStep, CloserStep

(* Events of a mains-powered camera are taken for active only while the    *)
(* camera pushes them on the present connection: whatever order the loss   *)
(* of connections, logins, subscriptions and logouts come in.              *)
THEOREM EventsStayReal == Spec => []EventsAreReal
<1>1. IInv => EventsAreReal
  BY DEF IInv, Mains, EventsAreReal
<1> QED
  BY InitKeeps, NextKeeps, <1>1, PTL DEF Spec

HIDE BcSessionAssumption

-----------------------------------------------------------------------------
(* The queue at _login_mutex: who logs in or out is the first of it.       *)

Inside(r) == \/ r.pc \in {"drain", "clear"}
             \/ r.cmd \in {"Nonce", "Login", "Logout"} /\ r.pc \in {"connect", "answer", "answered"}
InQueue(r) == r.pc \in {"mutex", "lmutex"} \/ Inside(r)

Bounds == /\ recent \in BOOLEAN /\ kicked \in BOOLEAN /\ updating \in BOOLEAN
          /\ nonce \in BOOLEAN /\ authed \in BOOLEAN
          /\ faults \in 0..MaxFaults /\ calls \in 0..MaxCalls

Queue == /\ QueueOf(mutex, {t \in Task : InQueue(tasks[t])})
         /\ \A t \in Task : Inside(tasks[t]) => Head(mutex) = t

\* _reestablish_connection is not started again while it runs.
OneRestart == ~kicked => tasks["reestablish"].pc = "idle"

QInv == IInv /\ Bounds /\ Queue /\ OneRestart

-----------------------------------------------------------------------------
(* What a step makes of the record of its task.                            *)

Goes(t, w) == tasks' = [tasks EXCEPT ![t] = w]

\* w sends its command, or waits at the mutex to do so.
Sends(t, w, op, retry) ==
    /\ Goes(t, w)
    /\ w.op = op /\ w.retry = retry /\ w.ans = "none"
    /\ \/ logged_in /\ w.cmd = "Op" /\ w.pc = (IF up THEN "answer" ELSE "connect") /\ mutex' = mutex
       \/ ~logged_in /\ w.cmd = "none" /\ w.pc = "mutex" /\ mutex' = Append(mutex, t)

\* w is r with other values of pc and ans.
Turned(w, r, pc, ans) == w.pc = pc /\ w.ans = ans /\ w.cmd = r.cmd /\ w.op = r.op /\ w.retry = r.retry

LEMMA WrittenFields ==
  ASSUME NEW r \in Record, NEW cmd \in Cmds
  PROVE  LET w == Written(r, cmd)
         IN  w \in Record /\ Turned(w, [r EXCEPT !.cmd = cmd], IF up THEN "answer" ELSE "connect", "none")
             /\ w.cmd = cmd /\ w.op = r.op /\ w.retry = r.retry
<1> DEFINE w == Written(r, cmd)
<1>1. PICK a : a = [r EXCEPT !.cmd = cmd]
  OBVIOUS
<1>2. PICK b : b = [a EXCEPT !.pc = IF up THEN "answer" ELSE "connect"]
  OBVIOUS
<1>3. w = [b EXCEPT !.ans = "none"]
  BY <1>1, <1>2, Zenon DEF Written
<1>4. a \in Record /\ a.cmd = cmd /\ a.op = r.op /\ a.retry = r.retry
  BY <1>1 DEF Record
<1>5. b \in Record /\ b.cmd = cmd /\ b.op = r.op /\ b.retry = r.retry /\ b.pc = (IF up THEN "answer" ELSE "connect")
  BY <1>2, <1>4 DEF Record, Pcs
<1> HIDE DEF w
<1>6. w \in Record /\ w.cmd = cmd /\ w.op = r.op /\ w.retry = r.retry /\ w.ans = "none"
      /\ w.pc = (IF up THEN "answer" ELSE "connect")
  BY <1>3, <1>5 DEF Record, Answers
<1> QED
  BY <1>1, <1>4, <1>6 DEF Turned, w

LEMMA PcFields ==
  ASSUME NEW r \in Record, NEW pc \in Pcs
  PROVE  [r EXCEPT !.pc = pc] \in Record /\ Turned([r EXCEPT !.pc = pc], r, pc, r.ans)
  BY DEF Record, Turned

LEMMA FreshFields ==
  ASSUME NEW pc \in Pcs
  PROVE  LET r == [Fresh EXCEPT !.pc = pc]
         IN  r \in Record /\ r.pc = pc /\ r.cmd = "none" /\ r.op = "none" /\ r.ans = "none" /\ r.retry = 0
<1> DEFINE r == [Fresh EXCEPT !.pc = pc]
<1>1. r = [pc |-> pc, op |-> "none", cmd |-> "none", retry |-> 0, inner |-> 0, ans |-> "none"]
  BY DEF Fresh
<1>2. 0 \in 0..(RETRY_ATTEMPTS - 1)
  BY BcSessionAssumption
<1> HIDE DEF r
<1>3. r \in Record /\ r.pc = pc /\ r.cmd = "none" /\ r.op = "none" /\ r.ans = "none" /\ r.retry = 0
  BY <1>1, <1>2 DEF Record, Ops, Cmds, Answers
<1> QED
  BY <1>3 DEF r

LEMMA IdleFields ==
  Fresh \in Record /\ Fresh.pc = "idle" /\ Fresh.cmd = "none" /\ Fresh.op = "none" /\ Fresh.ans = "none"
<1>1. Fresh.pc = "idle" /\ Fresh.cmd = "none" /\ Fresh.op = "none" /\ Fresh.ans = "none"
  BY DEF Fresh
<1> QED
  BY <1>1, FreshIsRecord

LEMMA SendingFields ==
  ASSUME IInv, NEW t \in Task, NEW r \in Record, r.cmd = "none", r.ans = "none", Sending(t, r)
  PROVE  \E w \in Record : Sends(t, w, r.op, r.retry)
<1>1. CASE logged_in
  <2>1. Goes(t, Written(r, "Op")) /\ mutex' = mutex
    BY <1>1 DEF Sending, Goes
  <2>2. "Op" \in Cmds
    BY DEF Cmds
  <2> QED
    BY <1>1, <2>1, <2>2, WrittenFields DEF Sends, Turned
<1>2. CASE ~logged_in
  <2>1. Goes(t, [r EXCEPT !.pc = "mutex"]) /\ mutex' = Append(mutex, t)
    BY <1>2 DEF Sending, Goes
  <2>2. "mutex" \in Pcs
    BY DEF Pcs
  <2> DEFINE w == [r EXCEPT !.pc = "mutex"]
  <2>3. w \in Record /\ Turned(w, r, "mutex", r.ans)
    BY <2>2, PcFields
  <2> HIDE DEF w
  <2>4. Goes(t, w)
    BY <2>1 DEF w
  <2>5. Sends(t, w, r.op, r.retry)
    BY <1>2, <2>1, <2>3, <2>4 DEF Sends, Turned
  <2> QED
    BY <2>3, <2>5
<1> QED
  BY <1>1, <1>2

LEMMA FieldsOfSend ==
  ASSUME NEW op \in Ops, NEW k \in 0..(RETRY_ATTEMPTS - 1)
  PROVE  LET r == [Fresh EXCEPT !.op = op, !.retry = k]
         IN  r \in Record /\ r.op = op /\ r.retry = k /\ r.cmd = "none" /\ r.ans = "none"
<1> DEFINE r == [Fresh EXCEPT !.op = op, !.retry = k]
<1>1. PICK a : a = [Fresh EXCEPT !.op = op]
  OBVIOUS
<1>2. PICK b : b = [a EXCEPT !.retry = k]
  OBVIOUS
<1>3. r = b
  BY <1>1, <1>2, Zenon
<1>4. a = [pc |-> "idle", op |-> op, cmd |-> "none", retry |-> 0, inner |-> 0, ans |-> "none"]
  BY <1>1 DEF Fresh
<1>5. b = [pc |-> "idle", op |-> op, cmd |-> "none", retry |-> k, inner |-> 0, ans |-> "none"]
  BY <1>2, <1>4
<1>6. 0 \in 0..(RETRY_ATTEMPTS - 1)
  BY BcSessionAssumption
<1>7. b \in Record /\ b.op = op /\ b.retry = k /\ b.cmd = "none" /\ b.ans = "none"
  BY <1>5, <1>6 DEF Record, Pcs, Cmds, Answers
<1> HIDE DEF r
<1>8. r \in Record /\ r.op = op /\ r.retry = k /\ r.cmd = "none" /\ r.ans = "none"
  BY <1>3, <1>7
<1> QED
  BY <1>8 DEF r

LEMMA SendFields ==
  ASSUME IInv, NEW t \in Task, NEW op \in Ops, Send(t, op)
  PROVE  \E w \in Record : Sends(t, w, op, RETRY_ATTEMPTS - 1)
<1>1. RETRY_ATTEMPTS - 1 \in 0..(RETRY_ATTEMPTS - 1)
  BY BcSessionAssumption
<1> DEFINE r == [Fresh EXCEPT !.op = op, !.retry = RETRY_ATTEMPTS - 1]
<1>2. r \in Record /\ r.op = op /\ r.retry = RETRY_ATTEMPTS - 1 /\ r.cmd = "none" /\ r.ans = "none"
  BY <1>1, FieldsOfSend
<1>3. Sending(t, r)
  BY DEF Send
<1> HIDE DEF r
<1> QED
  BY <1>2, <1>3, SendingFields

LEMMA AnswerFields ==
  ASSUME IInv, NEW t \in Task, NEW ans \in Answers, Answer(t, ans)
  PROVE  \E w \in Record : Goes(t, w) /\ Turned(w, tasks[t], "answered", ans)
<1>1. PICK a : a = [tasks[t] EXCEPT !.pc = "answered"]
  OBVIOUS
<1>2. PICK r : r = [a EXCEPT !.ans = ans]
  OBVIOUS
<1>3. a \in Record /\ Turned(a, tasks[t], "answered", tasks[t].ans)
  BY <1>1, TaskRecord, PcFields DEF Pcs
<1>4. r \in Record /\ Turned(r, tasks[t], "answered", ans)
  BY <1>2, <1>3 DEF Record, Turned
<1>5. Goes(t, r)
  <2>1. PICK m : m = [tasks EXCEPT ![t] = a]
    OBVIOUS
  <2>2. m = [tasks EXCEPT ![t].pc = "answered"]
    BY <1>1, <2>1
  <2>3. tasks' = [m EXCEPT ![t].ans = ans]
    BY <2>2, Zenon DEF Answer
  <2>4. m[t] = a
    BY <2>1 DEF IInv, Types
  <2>5. tasks' = [m EXCEPT ![t] = r]
    BY <1>2, <2>3, <2>4
  <2> QED
    BY <2>1, <2>5 DEF IInv, Types, Goes
<1> QED
  BY <1>4, <1>5

\* The end of a send.
Ends(t, w, how) ==
    /\ w.cmd = "none" /\ w.op \in {"none", tasks[t].op} /\ w.ans \in {"none", how}
    /\ w.pc \in {"sleep", "next", "idle"} /\ (w.pc = "sleep" => t = "keepalive") /\ (w.pc = "next" => t = "user")
    /\ t = "keepalive" => w.pc = "sleep"

LEMMA OverFields ==
  ASSUME IInv, NEW t \in Task, NEW how \in {"ok", "raised"}
  PROVE  Over(t, how) \in Record /\ Ends(t, Over(t, how), how)
<1>1. Over(t, how) \in Record
  BY OverRecord
<1>2. CASE t = "keepalive"
  <2>1. Over(t, how) = [Fresh EXCEPT !.pc = "sleep"] /\ "sleep" \in Pcs
    BY <1>2 DEF Over, Pcs
  <2> QED
    BY <1>1, <1>2, <2>1, FreshFields DEF Ends
<1>3. CASE t = "user"
  <2>1. PICK a : a = [Fresh EXCEPT !.pc = "next"]
    OBVIOUS
  <2>2. PICK b : b = [a EXCEPT !.op = tasks[t].op]
    OBVIOUS
  <2>3. Over(t, how) = [b EXCEPT !.ans = how]
    BY <1>3, <2>1, <2>2, Zenon DEF Over
  <2>4. a = [pc |-> "next", op |-> "none", cmd |-> "none", retry |-> 0, inner |-> 0, ans |-> "none"]
    BY <2>1 DEF Fresh
  <2>5. b = [pc |-> "next", op |-> tasks[t].op, cmd |-> "none", retry |-> 0, inner |-> 0, ans |-> "none"]
    BY <2>2, <2>4
  <2>6. Over(t, how) = [pc |-> "next", op |-> tasks[t].op, cmd |-> "none", retry |-> 0, inner |-> 0, ans |-> how]
    BY <2>3, <2>5
  <2> QED
    BY <1>1, <1>3, <2>6 DEF Ends
<1>4. CASE t \notin {"keepalive", "user"}
  <2>1. Over(t, how) = [pc |-> "idle", op |-> "none", cmd |-> "none", retry |-> 0, inner |-> 0, ans |-> how]
    BY <1>4 DEF Over, Fresh
  <2> QED
    BY <1>1, <1>4, <2>1 DEF Ends
<1> QED
  BY <1>2, <1>3, <1>4

\* A command of a login.
Logs(t, w, cmd) ==
    /\ Goes(t, w)
    /\ w.pc = (IF up THEN "answer" ELSE "connect") /\ w.ans = "none" /\ w.cmd = cmd
    /\ w.op = tasks[t].op /\ w.retry = tasks[t].retry

LEMMA InnerFields ==
  ASSUME IInv, NEW t \in Task, NEW k \in 0..(RETRY_ATTEMPTS - 1), NEW cmd \in Cmds,
         Goes(t, Written([tasks[t] EXCEPT !.inner = k], cmd))
  PROVE  \E w \in Record : Logs(t, w, cmd)
<1> DEFINE r == [tasks[t] EXCEPT !.inner = k]
<1>1. r \in Record /\ r.op = tasks[t].op /\ r.retry = tasks[t].retry
  BY TaskRecord DEF Record
<1> HIDE DEF r
<1>2. Goes(t, Written(r, cmd))
  BY DEF r
<1> QED
  BY <1>1, <1>2, WrittenFields DEF Logs, Turned

LEMMA LogInFields ==
  ASSUME IInv, NEW t \in Task, NEW cmd \in Cmds, tasks' = LogIn(t, cmd)
  PROVE  \E w \in Record : Logs(t, w, cmd)
<1>1. RETRY_ATTEMPTS - 1 \in 0..(RETRY_ATTEMPTS - 1)
  BY BcSessionAssumption
<1>2. Goes(t, Written([tasks[t] EXCEPT !.inner = RETRY_ATTEMPTS - 1], cmd))
  BY DEF LogIn, Goes
<1> QED
  BY <1>1, <1>2, InnerFields

-----------------------------------------------------------------------------
(* What a step must do to keep the queue.                                  *)

QueueMove(t) ==
    \/ /\ mutex' = mutex /\ (InQueue(tasks'[t]) <=> InQueue(tasks[t]))
       /\ Inside(tasks'[t]) => Inside(tasks[t]) \/ Head(mutex) = t
    \/ mutex' = Append(mutex, t) /\ ~InQueue(tasks[t]) /\ InQueue(tasks'[t]) /\ ~Inside(tasks'[t])
    \/ mutex' = Tail(mutex) /\ Head(mutex) = t /\ InQueue(tasks[t]) /\ ~InQueue(tasks'[t])

LEMMA QueueKeeps ==
  ASSUME Queue, NEW t \in Task, QueueMove(t),
         \A u \in Task \ {t} : /\ InQueue(tasks'[u]) <=> InQueue(tasks[u])
                               /\ Inside(tasks'[u]) => Inside(tasks[u])
  PROVE  Queue'
<1> DEFINE M == {u \in Task : InQueue(tasks[u])}
           N == {u \in Task : InQueue(tasks'[u])}
<1>1. QueueOf(mutex, M)
  BY DEF Queue
<1>2. \A u \in Task \ {t} : u \in M <=> u \in N
  OBVIOUS
<1>3. M \subseteq Task /\ N \subseteq Task /\ \A u \in Task : Inside(tasks[u]) => u \in M /\ Head(mutex) = u
  BY DEF Queue, InQueue
<1>4. (t \in M <=> InQueue(tasks[t])) /\ (t \in N <=> InQueue(tasks'[t]))
      /\ (Inside(tasks'[t]) => t \in N)
  BY DEF InQueue
<1> HIDE DEF M, N
<1>5. QueueOf(mutex', N) /\ \A u \in Task : Inside(tasks'[u]) => Head(mutex') = u
  <2>1. ASSUME /\ mutex' = mutex /\ (t \in N <=> t \in M)
               /\ Inside(tasks'[t]) => Inside(tasks[t]) \/ Head(mutex) = t
        PROVE  QueueOf(mutex', N) /\ \A u \in Task : Inside(tasks'[u]) => Head(mutex') = u
    <3>1. N = M
      BY <1>2, <1>3, <2>1
    <3> QED
      BY <1>1, <1>3, <2>1, <3>1
  <2>2. ASSUME mutex' = Append(mutex, t) /\ t \notin M /\ t \in N /\ ~Inside(tasks'[t])
        PROVE  QueueOf(mutex', N) /\ \A u \in Task : Inside(tasks'[u]) => Head(mutex') = u
    <3>1. N = M \cup {t}
      BY <1>2, <1>3, <2>2
    <3>2. QueueOf(mutex', N) /\ (mutex # << >> => Head(mutex') = Head(mutex))
      BY <1>1, <2>2, <3>1, QueueAppend
    <3>3. M # {} => mutex # << >>
      BY <1>1, QueueHead
    <3> QED
      BY <1>3, <2>2, <3>2, <3>3
  <2>3. ASSUME mutex' = Tail(mutex) /\ Head(mutex) = t /\ t \in M /\ t \notin N
        PROVE  QueueOf(mutex', N) /\ \A u \in Task : Inside(tasks'[u]) => Head(mutex') = u
    <3>1. N = M \ {Head(mutex)} /\ M # {}
      BY <1>2, <1>3, <2>3
    <3>2. mutex # << >>
      BY <1>1, <3>1, QueueHead
    <3>3. QueueOf(mutex', N)
      BY <1>1, <2>3, <3>1, <3>2, QueueTail
    <3>4. \A u \in Task : ~Inside(tasks'[u])
      BY <1>3, <1>4, <2>3
    <3> QED
      BY <3>3, <3>4
  <2> QED
    BY <1>4, <2>1, <2>2, <2>3 DEF QueueMove
<1> QED
  BY <1>5 DEF Queue, N

\* A step of task t alone.
LEMMA QueueKeepsOfOne ==
  ASSUME QInv, NEW t \in Task, NEW w \in Record, Goes(t, w), QueueMove(t),
         kicked' = kicked, t = "reestablish" /\ w.pc # "idle" => tasks[t].pc # "idle"
  PROVE  Queue' /\ OneRestart'
<1>1. tasks \in [Task -> Record] /\ "reestablish" \in Task
  BY DEF QInv, IInv, Types, Task
<1>2. tasks'[t] = w /\ \A u \in Task \ {t} : tasks'[u] = tasks[u]
  BY <1>1 DEF Goes
<1>3. Queue'
  BY <1>2, QueueKeeps DEF QInv
<1>4. OneRestart'
  BY <1>1, <1>2 DEF QInv, OneRestart
<1> QED
  BY <1>3, <1>4

LEMMA QueueKeepsIfSame ==
  ASSUME QInv, UNCHANGED <<tasks, mutex, kicked>>
  PROVE  Queue' /\ OneRestart'
BY DEF QInv, Queue, OneRestart

\* A task that sends joins the queue, unless it is logged in.
LEMMA QueueKeepsOfSend ==
  ASSUME QInv, NEW t \in Task, NEW w \in Record, NEW op, NEW retry, Sends(t, w, op, retry), kicked' = kicked,
         ~InQueue(tasks[t]), t = "reestablish" => tasks[t].pc # "idle"
  PROVE  Queue' /\ OneRestart'
<1>1. tasks'[t] = w /\ Goes(t, w)
  BY DEF QInv, IInv, Types, Sends, Goes
<1>2. QueueMove(t)
  BY <1>1 DEF Sends, QueueMove, InQueue, Inside
<1> QED
  BY <1>1, <1>2, QueueKeepsOfOne

-----------------------------------------------------------------------------
(* The steps, one by one: their shape, and that they keep the queue.       *)

LEMMA ConnectShape ==
  ASSUME IInv, NEW t \in Task, Connect(t)
  PROVE  \E w \in Record : Goes(t, w) /\ Turned(w, tasks[t], "answer", tasks[t].ans)
<1>1. tasks[t] \in Record /\ "answer" \in Pcs
  BY TaskRecord DEF Pcs
<1> DEFINE w == [tasks[t] EXCEPT !.pc = "answer"]
<1>2. Goes(t, w)
  BY DEF Connect, Goes
<1>3. w \in Record /\ Turned(w, tasks[t], "answer", tasks[t].ans)
  BY <1>1, PcFields
<1> QED
  BY <1>2, <1>3

LEMMA ConnectQueue ==
  ASSUME QInv, NEW t \in Task, Connect(t)
  PROVE  Queue' /\ OneRestart'
<1>1. PICK w \in Record : Goes(t, w) /\ Turned(w, tasks[t], "answer", tasks[t].ans)
  BY ConnectShape DEF QInv
<1>2. tasks[t].pc = "connect" /\ mutex' = mutex /\ kicked' = kicked /\ tasks'[t] = w
  BY <1>1 DEF Connect, flags, Goes, QInv, IInv, Types
<1>3. QueueMove(t)
  BY <1>1, <1>2 DEF Turned, QueueMove, InQueue, Inside
<1> QED
  BY <1>1, <1>2, <1>3, QueueKeepsOfOne

LEMMA AnswerQueue ==
  ASSUME QInv, NEW t \in Task, NEW ans \in Answers, Answer(t, ans), tasks[t].pc \in {"answer", "connect"},
         UNCHANGED <<mutex, kicked>>
  PROVE  Queue' /\ OneRestart'
<1>1. PICK w \in Record : Goes(t, w) /\ Turned(w, tasks[t], "answered", ans)
  BY AnswerFields DEF QInv
<1>2. tasks'[t] = w
  BY <1>1 DEF Goes, QInv, IInv, Types
<1>3. QueueMove(t)
  BY <1>1, <1>2 DEF Turned, QueueMove, InQueue, Inside
<1> QED
  BY <1>1, <1>2, <1>3, QueueKeepsOfOne

LEMMA FailsQueue ==
  ASSUME QInv, NEW t \in Task, ConnectFails(t) \/ Fails(t)
  PROVE  Queue' /\ OneRestart'
<1>1. tasks[t].pc \in {"answer", "connect"} /\ UNCHANGED <<mutex, kicked>>
  BY DEF ConnectFails, Fails, flags
<1>2. \E ans \in Answers : Answer(t, ans)
  BY DEF ConnectFails, Fails, Answers
<1> QED
  BY <1>1, <1>2, AnswerQueue

\* What the loss of the connection makes of task u, r otherwise.
Dropped(u, r) ==
    \/ r.pc = "answer" /\ Turned(tasks'[u], r, "answered", "lost")
    \/ r.pc # "answer" /\ tasks'[u] = r
    \/ /\ u = "reestablish" /\ ~kicked
       /\ tasks'[u].pc = "start" /\ tasks'[u].cmd = "none" /\ tasks'[u].op = "none" /\ tasks'[u].ans = "none"

LEMMA LoseShape ==
  ASSUME NEW ts \in [Task -> Record], Lose(ts)
  PROVE  /\ \A u \in Task : Dropped(u, ts[u])
         /\ ~kicked' => ~kicked /\ tasks'["reestablish"].pc = (IF ts["reestablish"].pc = "answer" THEN "answered"
                                                              ELSE ts["reestablish"].pc)
         /\ kicked \in BOOLEAN => kicked' \in BOOLEAN
<1> DEFINE failed == [u \in Task |-> IF ts[u].pc = "answer"
                                     THEN [ts[u] EXCEPT !.pc = "answered", !.ans = "lost"] ELSE ts[u]]
           started == [Fresh EXCEPT !.pc = "start"]
           again == ~battery /\ ~webhook /\ subscribed /\ events_active /\ ~updating /\ ~kicked
<1>1. /\ \/ again /\ tasks' = [failed EXCEPT !["reestablish"] = started]
         \/ ~again /\ tasks' = failed
      /\ kicked' = (kicked \/ again)
  <2>1. /\ tasks' = IF again THEN [failed EXCEPT !["reestablish"] = started] ELSE failed
        /\ kicked' = (kicked \/ again)
    BY Zenon DEF Lose
  <2> HIDE DEF failed, started, again
  <2> QED
    BY <2>1, Zenon
<1>2. ASSUME NEW u \in Task
      PROVE  \/ ts[u].pc = "answer" /\ Turned(failed[u], ts[u], "answered", "lost")
             \/ ts[u].pc # "answer" /\ failed[u] = ts[u]
  <2>1. CASE ts[u].pc = "answer"
    <3>1. PICK a : a = [ts[u] EXCEPT !.pc = "answered"]
      OBVIOUS
    <3>2. PICK r : r = [a EXCEPT !.ans = "lost"]
      OBVIOUS
    <3>3. failed[u] = [ts[u] EXCEPT !.pc = "answered", !.ans = "lost"]
      BY <2>1
    <3>4. failed[u] = r
      <4> HIDE DEF failed
      <4> QED
        BY <3>1, <3>2, <3>3, Zenon
    <3>5. a \in Record /\ Turned(a, ts[u], "answered", ts[u].ans)
      BY <3>1, PcFields DEF Pcs
    <3>6. Turned(r, ts[u], "answered", "lost")
      BY <3>2, <3>5 DEF Record, Turned
    <3> HIDE DEF failed
    <3> QED
      BY <2>1, <3>4, <3>6
  <2>2. CASE ts[u].pc # "answer"
    BY <2>2
  <2> QED
    BY <2>1, <2>2
<1>3. "reestablish" \in Task /\ "start" \in Pcs
  BY DEF Task, Pcs
<1>4. started.pc = "start" /\ started.cmd = "none" /\ started.op = "none" /\ started.ans = "none"
  BY <1>3, FreshFields
<1>5. DOMAIN failed = Task
  OBVIOUS
<1>6. again => ~kicked
  OBVIOUS
<1> HIDE DEF failed, started, again
<1>7. CASE again /\ tasks' = [failed EXCEPT !["reestablish"] = started]
  <2>1. tasks'["reestablish"] = started /\ \A u \in Task \ {"reestablish"} : tasks'[u] = failed[u]
    BY <1>3, <1>5, <1>7
  <2>2. ASSUME NEW u \in Task PROVE Dropped(u, ts[u])
    <3>1. CASE u = "reestablish"
      BY <1>4, <1>6, <1>7, <2>1, <3>1 DEF Dropped
    <3>2. CASE u # "reestablish"
      BY <1>2, <2>1, <3>2 DEF Dropped
    <3> QED
      BY <3>1, <3>2
  <2>3. kicked'
    BY <1>1, <1>7, Zenon
  <2>4. kicked' \in BOOLEAN
    BY <1>1, Zenon
  <2> QED
    BY <2>2, <2>3, <2>4
<1>8. CASE ~again /\ tasks' = failed
  <2>1. ASSUME NEW u \in Task PROVE Dropped(u, ts[u])
    BY <1>2, <1>8 DEF Dropped
  <2>2. kicked' \in BOOLEAN /\ (~kicked' => ~kicked)
    BY <1>1, Zenon
  <2>3. tasks'["reestablish"].pc = (IF ts["reestablish"].pc = "answer" THEN "answered" ELSE ts["reestablish"].pc)
    BY <1>2, <1>3, <1>8 DEF Turned
  <2> QED
    BY <2>1, <2>2, <2>3
<1> QED
  BY <1>1, <1>7, <1>8

LEMMA DroppedQueues ==
  ASSUME NEW u \in Task, NEW r \in Record, Dropped(u, r), u = "reestablish" /\ ~kicked => r.pc = "idle"
  PROVE  (InQueue(tasks'[u]) <=> InQueue(r)) /\ (Inside(tasks'[u]) <=> Inside(r))
BY DEF Dropped, Turned, InQueue, Inside

LEMMA LostQueue ==
  ASSUME QInv, Lose(tasks), mutex' = mutex
  PROVE  Queue' /\ OneRestart'
<1>1. tasks \in [Task -> Record] /\ "reestablish" \in Task
  BY DEF QInv, IInv, Types, Task
<1>2. \A u \in Task : (InQueue(tasks'[u]) <=> InQueue(tasks[u])) /\ (Inside(tasks'[u]) <=> Inside(tasks[u]))
  BY <1>1, LoseShape, DroppedQueues DEF QInv, OneRestart
<1>3. Queue'
  BY <1>1, <1>2, QueueKeeps DEF QInv, QueueMove
<1>4. OneRestart'
  BY <1>1, LoseShape DEF QInv, OneRestart
<1> QED
  BY <1>3, <1>4

LEMMA ReplyQueue ==
  ASSUME QInv, NEW t \in Task, Reply(t)
  PROVE  Queue' /\ OneRestart'
<1>1. tasks[t].pc = "answer" /\ mutex' = mutex
  BY DEF Reply
<1>2. CASE Lose(tasks)
  BY <1>1, <1>2, LostQueue
<1>3. CASE ~Lose(tasks)
  <2>1. (\E ans \in Answers : Answer(t, ans)) /\ kicked' = kicked
    BY <1>3 DEF Reply, Answers, flags
  <2> QED
    BY <1>1, <2>1, AnswerQueue
<1> QED
  BY <1>2, <1>3

\* A command of a login, or the command itself after it.
LEMMA LogsMove ==
  ASSUME QInv, NEW t \in Task, NEW w \in Record, NEW cmd \in {"Nonce", "Login"}, Logs(t, w, cmd),
         Head(mutex) = t, InQueue(tasks[t]), tasks[t].pc # "idle", UNCHANGED <<mutex, kicked>>
  PROVE  Queue' /\ OneRestart'
<1>1. tasks'[t] = w /\ Goes(t, w)
  BY DEF Logs, Goes, QInv, IInv, Types
<1>2. InQueue(w)
  BY DEF Logs, InQueue, Inside
<1>3. QueueMove(t)
  BY <1>1, <1>2 DEF QueueMove
<1> QED
  BY <1>1, <1>3, QueueKeepsOfOne

\* The login of t is over.
LEMMA LoginOver ==
  ASSUME QInv, NEW t \in Task, NEW w \in Record, Goes(t, w), ~InQueue(w), mutex' = Tail(mutex),
         Head(mutex) = t, InQueue(tasks[t]), tasks[t].pc # "idle", kicked' = kicked
  PROVE  Queue' /\ OneRestart'
<1>1. tasks'[t] = w
  BY DEF Goes, QInv, IInv, Types
<1>2. QueueMove(t)
  BY <1>1 DEF QueueMove
<1> QED
  BY <1>1, <1>2, QueueKeepsOfOne

LEMMA GrantedShape ==
  ASSUME IInv, NEW t \in Task, Granted(t)
  PROVE  \/ logged_in /\ mutex' = Tail(mutex) /\ \E w \in Record : Logs(t, w, "Op")
         \/ /\ ~logged_in /\ recent /\ mutex' = Tail(mutex)
            /\ \E w \in Record : Goes(t, w) /\ Ends(t, w, "raised")
         \/ ~logged_in /\ ~recent /\ mutex' = mutex /\ \E w \in Record : Logs(t, w, "Nonce")
<1>1. CASE logged_in
  <2>1. Goes(t, Written(tasks[t], "Op")) /\ mutex' = Tail(mutex)
    BY <1>1 DEF Granted, Goes
  <2>2. "Op" \in Cmds /\ tasks[t] \in Record
    BY TaskRecord DEF Cmds
  <2>3. Written(tasks[t], "Op") \in Record /\ Logs(t, Written(tasks[t], "Op"), "Op")
    BY <2>1, <2>2, WrittenFields DEF Logs, Turned
  <2> QED
    BY <1>1, <2>1, <2>3
<1>2. CASE ~logged_in /\ recent
  <2>1. Goes(t, Over(t, "raised")) /\ mutex' = Tail(mutex)
    BY <1>2 DEF Granted, Goes
  <2> QED
    BY <1>2, <2>1, OverFields
<1>3. CASE ~logged_in /\ ~recent
  <2>1. tasks' = LogIn(t, "Nonce") /\ mutex' = mutex /\ "Nonce" \in Cmds
    BY <1>3 DEF Granted, Cmds
  <2> QED
    BY <1>3, <2>1, LogInFields
<1> QED
  BY <1>1, <1>2, <1>3

LEMMA GrantedQueue ==
  ASSUME QInv, NEW t \in Task, Granted(t)
  PROVE  Queue' /\ OneRestart'
<1>1. tasks[t].pc = "mutex" /\ Head(mutex) = t /\ kicked' = kicked
  BY DEF Granted, flags
<1>2. InQueue(tasks[t]) /\ tasks[t].pc # "idle"
  BY <1>1 DEF InQueue
<1>3. CASE mutex' = Tail(mutex) /\ \E w \in Record : Logs(t, w, "Op")
  BY <1>1, <1>2, <1>3, LoginOver DEF Logs, InQueue, Inside
<1>4. CASE mutex' = Tail(mutex) /\ \E w \in Record : Goes(t, w) /\ Ends(t, w, "raised")
  BY <1>1, <1>2, <1>4, LoginOver DEF Ends, InQueue, Inside
<1>5. CASE mutex' = mutex /\ \E w \in Record : Logs(t, w, "Nonce")
  BY <1>1, <1>2, <1>5, LogsMove
<1> QED
  BY <1>3, <1>4, <1>5, GrantedShape DEF QInv

\* Who logs in or out has the mutex.
LEMMA Insider ==
  ASSUME QInv, NEW t \in Task, Inside(tasks[t])
  PROVE  Head(mutex) = t /\ InQueue(tasks[t]) /\ tasks[t].pc # "idle"
         /\ \A u \in Task : Inside(tasks[u]) => u = t
BY DEF QInv, Queue, InQueue, Inside

LEMMA NonceOkShape ==
  ASSUME IInv, NEW t \in Task, NonceOk(t)
  PROVE  \E w \in Record : Logs(t, w, "Login")
BY LogInFields DEF NonceOk, Cmds

LEMMA NonceOkQueue ==
  ASSUME QInv, NEW t \in Task, NonceOk(t)
  PROVE  Queue' /\ OneRestart'
<1>1. Inside(tasks[t]) /\ UNCHANGED <<mutex, kicked>>
  BY DEF NonceOk, flags, Inside
<1> QED
  BY <1>1, Insider, NonceOkShape, LogsMove DEF QInv

LEMMA LoginAgainQueue ==
  ASSUME QInv, NEW t \in Task, LoginAgain(t)
  PROVE  Queue' /\ OneRestart'
<1>1. /\ tasks[t].pc = "answered" /\ tasks[t].cmd \in {"Nonce", "Login"} /\ tasks[t].inner > 0
      /\ UNCHANGED <<mutex, kicked>>
      /\ Goes(t, Written([tasks[t] EXCEPT !.inner = tasks[t].inner - 1], tasks[t].cmd))
  BY DEF LoginAgain, flags, Goes
<1>2. tasks[t].inner - 1 \in 0..(RETRY_ATTEMPTS - 1) /\ tasks[t].cmd \in Cmds
  BY <1>1, BcSessionAssumption, TaskRecord DEF QInv, Record, Cmds
<1>3. \E w \in Record : Logs(t, w, tasks[t].cmd)
  BY <1>1, <1>2, InnerFields DEF QInv
<1> QED
  BY <1>1, <1>3, Insider, LogsMove DEF Inside

LEMMA LoginOkShape ==
  ASSUME IInv, NEW t \in Task, LoginOk(t)
  PROVE  \E w \in Record : Logs(t, w, "Op")
<1>1. Goes(t, Written([tasks[t] EXCEPT !.inner = 0], "Op"))
  BY DEF LoginOk, Goes
<1>2. 0 \in 0..(RETRY_ATTEMPTS - 1) /\ "Op" \in Cmds
  BY BcSessionAssumption DEF Cmds
<1> QED
  BY <1>1, <1>2, InnerFields

LEMMA LoginOkQueue ==
  ASSUME QInv, NEW t \in Task, LoginOk(t)
  PROVE  Queue' /\ OneRestart'
<1>1. Inside(tasks[t]) /\ mutex' = Tail(mutex) /\ kicked' = kicked
  BY DEF LoginOk, LoginEnds, flags, Inside
<1>2. PICK w \in Record : Logs(t, w, "Op")
  BY LoginOkShape DEF QInv
<1>3. Goes(t, w) /\ ~InQueue(w)
  BY <1>2 DEF Logs, InQueue, Inside
<1> QED
  BY <1>1, <1>3, Insider, LoginOver

LEMMA LoginFailsQueue ==
  ASSUME QInv, NEW t \in Task, LoginFailed(t) \/ LoginDenied(t)
  PROVE  Queue' /\ OneRestart'
<1>1. Inside(tasks[t]) /\ mutex' = Tail(mutex) /\ kicked' = kicked /\ Goes(t, Over(t, "raised"))
  BY DEF LoginFailed, LoginDenied, LoginRaises, LoginEnds, flags, Inside, Goes
<1>2. PICK w \in Record : Goes(t, w) /\ Ends(t, w, "raised")
  BY <1>1, OverFields DEF QInv
<1>3. ~InQueue(w)
  BY <1>2 DEF Ends, InQueue, Inside
<1> QED
  BY <1>1, <1>2, <1>3, Insider, LoginOver

LEMMA DoneShape ==
  ASSUME IInv, NEW t \in Task, Done(t)
  PROVE  \E w \in Record : Goes(t, w) /\ Ends(t, w, IF tasks[t].ans = "ok" THEN "ok" ELSE "raised")
BY OverFields DEF Done, Goes

LEMMA DoneQueue ==
  ASSUME QInv, NEW t \in Task, Done(t)
  PROVE  Queue' /\ OneRestart'
<1>1. PICK w \in Record : \E how \in {"ok", "raised"} : Goes(t, w) /\ Ends(t, w, how)
  BY DoneShape DEF QInv
<1>2. tasks'[t] = w /\ ~InQueue(w)
  BY <1>1 DEF Ends, Goes, InQueue, Inside, QInv, IInv, Types
<1>3. tasks[t].pc = "answered" /\ tasks[t].cmd = "Op" /\ UNCHANGED <<mutex, kicked>>
  BY DEF Done, flags
<1>4. QueueMove(t)
  BY <1>2, <1>3 DEF QueueMove, InQueue, Inside
<1> QED
  BY <1>1, <1>3, <1>4, QueueKeepsOfOne

LEMMA AgainShape ==
  ASSUME IInv, NEW t \in Task, Again(t)
  PROVE  \E w \in Record : Sends(t, w, tasks[t].op, tasks[t].retry - 1)
<1> DEFINE r == [Fresh EXCEPT !.op = tasks[t].op, !.retry = tasks[t].retry - 1]
<1>1. Sending(t, r) /\ tasks[t].retry > 0
  BY DEF Again
<1>2. tasks[t].op \in Ops /\ tasks[t].retry - 1 \in 0..(RETRY_ATTEMPTS - 1)
  BY <1>1, BcSessionAssumption, TaskRecord DEF Record
<1>3. r \in Record /\ r.op = tasks[t].op /\ r.retry = tasks[t].retry - 1 /\ r.cmd = "none" /\ r.ans = "none"
  BY <1>2, FieldsOfSend
<1> HIDE DEF r
<1> QED
  BY <1>1, <1>3, SendingFields

LEMMA AgainQueue ==
  ASSUME QInv, NEW t \in Task, Again(t)
  PROVE  Queue' /\ OneRestart'
<1>1. tasks[t].pc = "answered" /\ tasks[t].cmd = "Op" /\ kicked' = kicked
  BY DEF Again, flags
<1>2. ~InQueue(tasks[t]) /\ tasks[t].pc # "idle"
  BY <1>1 DEF InQueue, Inside
<1> QED
  BY <1>1, <1>2, AgainShape, QueueKeepsOfSend DEF QInv

\* A task sends that neither waits nor has sent anything.
LEMMA SendQueue ==
  ASSUME QInv, NEW t \in Task, NEW op \in Ops, Send(t, op), kicked' = kicked,
         tasks[t].pc \in {"idle", "start", "sleep", "next"}, t = "reestablish" => tasks[t].pc # "idle"
  PROVE  Queue' /\ OneRestart'
<1>1. ~InQueue(tasks[t])
  BY DEF InQueue, Inside
<1> QED
  BY <1>1, SendFields, QueueKeepsOfSend DEF QInv

LEMMA SendersQueue ==
  ASSUME QInv, (\E t \in Sender : Begin(t)) \/ Reestablish \/ Wake
  PROVE  Queue' /\ OneRestart'
<1>1. CASE \E t \in Sender : Begin(t)
  <2>1. PICK t \in Sender : Begin(t)
    BY <1>1
  <2>2. t \in Task /\ "state" \in Ops /\ Send(t, "state") /\ tasks[t].pc = "idle" /\ kicked' = kicked
    BY <2>1 DEF Task, Ops, Begin, Idle, flags
  <2>3. t # "reestablish"
    BY BcSessionAssumption
  <2> QED
    BY <2>2, <2>3, SendQueue
<1>2. CASE Reestablish
  <2>1. /\ Send("reestablish", "subscribe") /\ tasks["reestablish"].pc = "start" /\ kicked' = kicked
        /\ "reestablish" \in Task /\ "subscribe" \in Ops
    BY <1>2 DEF Reestablish, Task, Ops, flags
  <2> QED
    BY <2>1, SendQueue
<1>3. CASE Wake
  <2>1. tasks["keepalive"].pc = "sleep" /\ kicked' = kicked /\ "keepalive" \in Task
    BY <1>3 DEF Wake, Task, flags
  <2>2. \E op \in Ops : Send("keepalive", op)
    BY <1>3, Zenon DEF Wake, Ops
  <2> QED
    BY <2>1, <2>2, SendQueue
<1> QED
  BY <1>1, <1>2, <1>3

-----------------------------------------------------------------------------
(* The user, logout, events and time.                                      *)

LEMMA SubscribeQueue ==
  ASSUME QInv, Subscribe
  PROVE  Queue' /\ OneRestart'
<1>1. tasks["user"].pc = "idle" /\ kicked' = kicked /\ "user" \in Task
  BY DEF Subscribe, Call, Idle, Task
<1>2. \E op \in Ops : Send("user", op)
  BY Zenon DEF Subscribe, Ops
<1> QED
  BY <1>1, <1>2, SendQueue

\* The keepalive is cancelled: nothing of it is left in the queue.
LEMMA CheckRestartsQueue ==
  ASSUME QInv, CheckRestarts
  PROVE  Queue' /\ OneRestart'
<1> DEFINE w == [Fresh EXCEPT !.pc = "sleep"]
           M == {u \in Task : InQueue(tasks[u])}
           N == {u \in Task : InQueue(tasks'[u])}
<1>1. "sleep" \in Pcs /\ "keepalive" \in Task /\ tasks \in [Task -> Record] /\ "reestablish" \in Task
  BY DEF Pcs, Task, QInv, IInv, Types
<1>2. w \in Record /\ w.pc = "sleep" /\ w.cmd = "none"
  BY <1>1, FreshFields
<1>3. tasks' = [tasks EXCEPT !["keepalive"] = w] /\ kicked' = kicked /\ mutex' = RemoveFirst(mutex, "keepalive")
  BY DEF CheckRestarts, flags
<1> HIDE DEF w
<1>4. tasks'["keepalive"] = w /\ \A u \in Task \ {"keepalive"} : tasks'[u] = tasks[u]
  BY <1>1, <1>3
<1>5. ~InQueue(w) /\ ~Inside(w)
  BY <1>2 DEF InQueue, Inside
<1>6. QueueOf(mutex, M) /\ \A u \in Task : Inside(tasks[u]) => Head(mutex) = u /\ u \in M
  BY DEF QInv, Queue, InQueue
<1>7. N = M \ {"keepalive"}
  BY <1>1, <1>4, <1>5
<1> HIDE DEF M, N
<1>8. QueueOf(mutex', N)
  BY <1>3, <1>6, <1>7, QueueDrop
<1>9. \A u \in Task : Inside(tasks'[u]) => Head(mutex') = u
  <2>1. \A y \in M \ {"keepalive"} : Head(mutex) = y => Head(RemoveFirst(mutex, "keepalive")) = y
    BY <1>6, QueueDrop
  <2> QED
    BY <1>3, <1>4, <1>5, <1>6, <2>1
<1>10. Queue'
  BY <1>8, <1>9 DEF Queue, N
<1> QED
  BY <1>1, <1>3, <1>4, <1>10 DEF QInv, OneRestart

LEMMA UnsubscribedShape ==
  ASSUME IInv, Unsubscribed
  PROVE  /\ tasks' \in [Task -> Record] /\ tasks'["keepalive"] = Fresh
         /\ tasks'["user"].pc = "lmutex" /\ tasks'["user"].cmd = "none" /\ tasks'["user"].op = "none"
         /\ tasks'["user"].ans = "none"
         /\ \A u \in Task \ {"keepalive", "user"} : tasks'[u] = tasks[u]
<1> DEFINE w == [Fresh EXCEPT !.pc = "lmutex"]
<1>1. "lmutex" \in Pcs /\ "keepalive" \in Task /\ tasks \in [Task -> Record] /\ "user" \in Task
  BY DEF Pcs, Task, IInv, Types
<1>2. w \in Record /\ w.pc = "lmutex" /\ w.cmd = "none" /\ w.op = "none" /\ w.ans = "none"
  BY <1>1, FreshFields
<1>3. tasks' = [tasks EXCEPT !["keepalive"] = Fresh, !["user"] = w]
  BY Zenon DEF Unsubscribed
<1> HIDE DEF w
<1> QED
  BY <1>1, <1>2, <1>3, IdleFields

LEMMA UnsubscribedQueue ==
  ASSUME QInv, Unsubscribed, tasks["user"].pc \in {"idle", "next"}, kicked' = kicked
  PROVE  Queue' /\ OneRestart'
<1> DEFINE M == {u \in Task : InQueue(tasks[u])}
           N == {u \in Task : InQueue(tasks'[u])}
           left == RemoveFirst(mutex, "keepalive")
<1>1. "keepalive" \in Task /\ "user" \in Task /\ "reestablish" \in Task
  BY DEF Task
<1>2. mutex' = Append(left, "user")
  BY DEF Unsubscribed
<1>3. ~InQueue(tasks["user"]) /\ InQueue(tasks'["user"]) /\ ~Inside(tasks'["user"])
      /\ ~InQueue(tasks'["keepalive"]) /\ ~Inside(tasks'["keepalive"])
  BY UnsubscribedShape, IdleFields DEF QInv, InQueue, Inside
<1>4. \A u \in Task \ {"keepalive", "user"} : tasks'[u] = tasks[u]
  BY UnsubscribedShape DEF QInv
<1>5. QueueOf(mutex, M) /\ \A u \in Task : Inside(tasks[u]) => Head(mutex) = u /\ u \in M
  BY DEF QInv, Queue, InQueue
<1>6. N = (M \ {"keepalive"}) \cup {"user"} /\ "user" \notin M
  BY <1>1, <1>3, <1>4
<1> HIDE DEF M, N
<1>7. QueueOf(left, M \ {"keepalive"})
      /\ \A y \in M \ {"keepalive"} : Head(mutex) = y => left # << >> /\ Head(left) = y
  BY <1>5, QueueDrop
<1> HIDE DEF left
<1>8. QueueOf(mutex', N) /\ (left # << >> => Head(mutex') = Head(left))
  BY <1>2, <1>6, <1>7, QueueAppend
<1>9. \A u \in Task : Inside(tasks'[u]) => Head(mutex') = u
  BY <1>3, <1>4, <1>5, <1>7, <1>8
<1>10. Queue'
  BY <1>8, <1>9 DEF Queue, N
<1> QED
  BY <1>1, <1>4, <1>10 DEF QInv, OneRestart

LEMMA UnsubscribeQueue ==
  ASSUME QInv, Unsubscribe
  PROVE  Queue' /\ OneRestart'
<1>1. tasks["user"].pc = "idle" /\ "user" \in Task /\ "webhook_off" \in Ops
  BY DEF Unsubscribe, Call, Idle, Task, Ops
<1>2. CASE Unsubscribed
  <2>1. kicked' = kicked
    BY <1>2 DEF Unsubscribed
  <2> QED
    BY <1>1, <1>2, <2>1, UnsubscribedQueue
<1>3. CASE Send("user", "webhook_off") /\ UNCHANGED flags
  <2>1. kicked' = kicked
    BY <1>3 DEF flags
  <2> QED
    BY <1>1, <1>3, <2>1, SendQueue
<1> QED
  BY <1>2, <1>3 DEF Unsubscribe

LEMMA WebhookOffQueue ==
  ASSUME QInv, WebhookOff
  PROVE  Queue' /\ OneRestart'
<1>1. Unsubscribed /\ tasks["user"].pc = "next"
  BY DEF WebhookOff
<1>2. kicked' = kicked
  BY <1>1 DEF Unsubscribed
<1> QED
  BY <1>1, <1>2, UnsubscribedQueue

LEMMA WebhookCheckedQueue ==
  ASSUME QInv, WebhookChecked
  PROVE  Queue' /\ OneRestart'
<1>1. tasks["user"].pc = "next" /\ "user" \in Task /\ kicked' = kicked
  BY DEF WebhookChecked, Task
<1>2. (Goes("user", Fresh) /\ mutex' = mutex) \/ \E op \in Ops : Send("user", op)
  BY DEF WebhookChecked, Ops, Goes
<1>3. CASE Goes("user", Fresh) /\ mutex' = mutex
  <2>1. tasks'["user"] = Fresh
    BY <1>1, <1>3 DEF Goes, QInv, IInv, Types
  <2>2. QueueMove("user")
    BY <1>1, <1>3, <2>1, IdleFields DEF QueueMove, InQueue, Inside
  <2> QED
    BY <1>1, <1>3, <2>2, IdleFields, QueueKeepsOfOne
<1>4. CASE \E op \in Ops : Send("user", op)
  BY <1>1, <1>4, SendQueue
<1> QED
  BY <1>2, <1>3, <1>4

LEMMA SubscribedShape ==
  ASSUME IInv, Subscribed
  PROVE  /\ tasks' \in [Task -> Record] /\ tasks'["user"] = Fresh
         /\ \A u \in Task \ {"keepalive", "user"} : tasks'[u] = tasks[u]
         /\ \/ tasks'["keepalive"] = tasks["keepalive"]
            \/ /\ tasks["keepalive"].pc = "idle" /\ ~battery
               /\ tasks'["keepalive"].pc = "sleep" /\ tasks'["keepalive"].cmd = "none"
               /\ tasks'["keepalive"].ans = "none" /\ tasks'["keepalive"].op = "none"
<1> DEFINE w == [Fresh EXCEPT !.pc = "sleep"]
<1>1. "sleep" \in Pcs /\ "keepalive" \in Task /\ tasks \in [Task -> Record] /\ "user" \in Task
  BY DEF Pcs, Task, IInv, Types
<1>2. w \in Record /\ w.pc = "sleep" /\ w.cmd = "none" /\ w.op = "none" /\ w.ans = "none"
  BY <1>1, FreshFields
<1>3. PICK m : m = [tasks EXCEPT !["user"] = Fresh]
  OBVIOUS
<1> HIDE DEF w
<1>4. tasks' = [m EXCEPT !["keepalive"] = IF Idle("keepalive") /\ ~battery THEN w ELSE @]
  BY <1>3, Zenon DEF Subscribed, w
<1>5. /\ m \in [Task -> Record] /\ m["user"] = Fresh /\ m["keepalive"] = tasks["keepalive"]
      /\ \A u \in Task \ {"keepalive", "user"} : m[u] = tasks[u]
  BY <1>1, <1>3, IdleFields
<1>6. CASE Idle("keepalive") /\ ~battery
  <2>1. tasks' = [m EXCEPT !["keepalive"] = w]
    BY <1>4, <1>6
  <2> QED
    BY <1>1, <1>2, <1>5, <1>6, <2>1 DEF Idle
<1>7. CASE ~(Idle("keepalive") /\ ~battery)
  <2>1. tasks' = m
    BY <1>4, <1>5, <1>7
  <2> QED
    BY <1>5, <2>1
<1> QED
  BY <1>6, <1>7

LEMMA SubscribedQueue ==
  ASSUME QInv, Subscribed
  PROVE  Queue' /\ OneRestart'
<1>1. tasks["user"].pc = "next" /\ mutex' = mutex /\ kicked' = kicked /\ "reestablish" \in Task /\ "user" \in Task
  BY DEF Subscribed, flags, Task
<1>2. ASSUME NEW u \in Task
      PROVE  (InQueue(tasks'[u]) <=> InQueue(tasks[u])) /\ (Inside(tasks'[u]) <=> Inside(tasks[u]))
  BY <1>1, SubscribedShape, IdleFields DEF QInv, InQueue, Inside
<1>3. Queue'
  BY <1>1, <1>2, QueueKeeps DEF QInv, QueueMove
<1> QED
  BY <1>1, <1>3, SubscribedShape DEF QInv, OneRestart

\* The user or the loop waits to log out.
LEMMA LeaveShape ==
  ASSUME IInv, NEW t \in Task, tasks' = [tasks EXCEPT ![t].pc = "lmutex"]
  PROVE  \E w \in Record : Goes(t, w) /\ Turned(w, tasks[t], "lmutex", tasks[t].ans)
<1>1. tasks[t] \in Record /\ "lmutex" \in Pcs
  BY TaskRecord DEF Pcs
<1> DEFINE w == [tasks[t] EXCEPT !.pc = "lmutex"]
<1>2. Goes(t, w)
  BY DEF Goes
<1>3. w \in Record /\ Turned(w, tasks[t], "lmutex", tasks[t].ans)
  BY <1>1, PcFields
<1> QED
  BY <1>2, <1>3

LEMMA LeaveQueue ==
  ASSUME QInv, LogoutCall \/ LoopBreaks
  PROVE  Queue' /\ OneRestart'
<1>1. PICK t \in {"user", "closer"} : /\ tasks' = [tasks EXCEPT ![t].pc = "lmutex"] /\ mutex' = Append(mutex, t)
                                      /\ tasks[t].pc = "idle" /\ kicked' = kicked
  BY DEF LogoutCall, LoopBreaks, Call, Idle, flags
<1>2. t \in Task /\ t # "reestablish"
  BY DEF Task
<1>3. PICK w \in Record : Goes(t, w) /\ Turned(w, tasks[t], "lmutex", tasks[t].ans)
  BY <1>1, <1>2, LeaveShape DEF QInv
<1>4. tasks'[t] = w
  BY <1>2, <1>3 DEF Goes, QInv, IInv, Types
<1>5. QueueMove(t)
  BY <1>1, <1>3, <1>4 DEF QueueMove, InQueue, Inside, Turned
<1> QED
  BY <1>1, <1>2, <1>3, <1>5, QueueKeepsOfOne

LEMMA LogoutGrantedShape ==
  ASSUME IInv, NEW t \in Task, LogoutGranted(t)
  PROVE  \/ Goes(t, Fresh) /\ mutex' = Tail(mutex)
         \/ /\ ~subscribed \/ battery
            /\ mutex' = mutex
            /\ \E w \in Record : /\ Goes(t, w)
                                 /\ Turned(w, tasks[t], IF logged_in THEN "drain" ELSE "clear", tasks[t].ans)
<1>1. tasks[t] \in Record /\ (IF logged_in THEN "drain" ELSE "clear") \in Pcs
  BY TaskRecord DEF Pcs
<1> DEFINE w == [tasks[t] EXCEPT !.pc = IF logged_in THEN "drain" ELSE "clear"]
<1>2. w \in Record /\ Turned(w, tasks[t], IF logged_in THEN "drain" ELSE "clear", tasks[t].ans)
  BY <1>1, PcFields
<1>3. \/ Goes(t, Fresh) /\ mutex' = Tail(mutex)
      \/ (~subscribed \/ battery) /\ mutex' = mutex /\ Goes(t, w)
  BY Zenon DEF LogoutGranted, Goes
<1> HIDE DEF w
<1> QED
  BY <1>2, <1>3

LEMMA LogoutGrantedQueue ==
  ASSUME QInv, NEW t \in Task, LogoutGranted(t)
  PROVE  Queue' /\ OneRestart'
<1>1. tasks[t].pc = "lmutex" /\ Head(mutex) = t /\ kicked' = kicked
  BY DEF LogoutGranted, flags
<1>2. InQueue(tasks[t]) /\ tasks[t].pc # "idle"
  BY <1>1 DEF InQueue
<1>3. CASE Goes(t, Fresh) /\ mutex' = Tail(mutex)
  BY <1>1, <1>2, <1>3, IdleFields, LoginOver DEF InQueue, Inside
<1>4. CASE mutex' = mutex /\ \E w \in Record : /\ Goes(t, w)
                                               /\ w.pc \in {"drain", "clear"}
  <2>1. PICK w \in Record : Goes(t, w) /\ w.pc \in {"drain", "clear"}
    BY <1>4
  <2>2. tasks'[t] = w
    BY <2>1 DEF Goes, QInv, IInv, Types
  <2>3. QueueMove(t)
    BY <1>1, <1>2, <1>4, <2>1, <2>2 DEF QueueMove, InQueue, Inside
  <2> QED
    BY <1>1, <1>2, <2>1, <2>3, QueueKeepsOfOne
<1> QED
  BY <1>3, <1>4, LogoutGrantedShape DEF QInv, Turned

LEMMA DrainedShape ==
  ASSUME IInv, NEW t \in Task, Drained(t)
  PROVE  \E w \in Record : Logs(t, w, "Logout")
<1>1. Goes(t, Written(tasks[t], "Logout")) /\ "Logout" \in Cmds /\ tasks[t] \in Record
  BY TaskRecord DEF Drained, Goes, Cmds
<1> QED
  BY <1>1, WrittenFields DEF Logs, Turned

LEMMA DrainedQueue ==
  ASSUME QInv, NEW t \in Task, Drained(t)
  PROVE  Queue' /\ OneRestart'
<1>1. Inside(tasks[t]) /\ UNCHANGED <<mutex, kicked>>
  BY DEF Drained, flags, Inside
<1>2. PICK w \in Record : Logs(t, w, "Logout")
  BY DrainedShape DEF QInv
<1>3. tasks'[t] = w /\ Goes(t, w) /\ InQueue(w)
  BY <1>2 DEF Logs, Goes, InQueue, Inside, QInv, IInv, Types
<1>4. QueueMove(t)
  BY <1>1, <1>3, Insider DEF QueueMove
<1> QED
  BY <1>1, <1>3, <1>4, Insider, QueueKeepsOfOne

LEMMA CloseShape ==
  ASSUME IInv, NEW t \in Task, Close(t)
  PROVE  \E w \in Record : /\ Turned(w, tasks[t], "clear", tasks[t].ans)
                           /\ \/ Lose([tasks EXCEPT ![t] = w])
                              \/ /\ Goes(t, w) /\ ~up
                                 /\ UNCHANGED <<flags, ends, logged_in, events_active, net>>
<1>1. tasks[t] \in Record /\ "clear" \in Pcs
  BY TaskRecord DEF Pcs
<1> DEFINE w == [tasks[t] EXCEPT !.pc = "clear"]
<1>2. w \in Record /\ Turned(w, tasks[t], "clear", tasks[t].ans)
  BY <1>1, PcFields
<1>3. \/ Lose([tasks EXCEPT ![t] = w])
      \/ Goes(t, w) /\ ~up /\ UNCHANGED <<flags, ends, logged_in, events_active, net>>
  BY DEF Close, Goes
<1> HIDE DEF w
<1> QED
  BY <1>2, <1>3

LEMMA CloseQueue ==
  ASSUME QInv, NEW t \in Task, Close(t)
  PROVE  Queue' /\ OneRestart'
<1>1. PICK w \in Record : /\ Turned(w, tasks[t], "clear", tasks[t].ans)
                          /\ \/ Lose([tasks EXCEPT ![t] = w])
                             \/ Goes(t, w) /\ UNCHANGED flags
  BY CloseShape DEF QInv
<1>2. Inside(tasks[t]) /\ mutex' = mutex /\ Inside(w) /\ InQueue(w) /\ w.pc = "clear"
  BY <1>1 DEF Close, Inside, InQueue, Turned
<1>3. tasks \in [Task -> Record] /\ "reestablish" \in Task
  BY DEF QInv, IInv, Types, Task
<1>4. CASE Lose([tasks EXCEPT ![t] = w])
  <2> DEFINE ts == [tasks EXCEPT ![t] = w]
  <2>1. ts \in [Task -> Record] /\ ts[t] = w /\ \A u \in Task \ {t} : ts[u] = tasks[u]
    BY <1>3
  <2>2. Lose(ts)
    BY <1>4
  <2> HIDE DEF ts
  <2>3. tasks[t].pc # "idle"
    BY <1>2, Insider
  <2>4. ASSUME ~kicked PROVE ts["reestablish"].pc = "idle"
    BY <1>3, <2>1, <2>3, <2>4 DEF QInv, OneRestart
  <2>5. ASSUME NEW u \in Task
        PROVE  (InQueue(tasks'[u]) <=> InQueue(ts[u])) /\ (Inside(tasks'[u]) <=> Inside(ts[u]))
    <3>1. Dropped(u, ts[u])
      BY <2>1, <2>2, LoseShape
    <3>2. ts[u] \in Record
      BY <2>1
    <3> QED
      BY <2>4, <3>1, <3>2, DroppedQueues
  <2>6. QueueMove(t)
    BY <1>2, <2>1, <2>5, Insider DEF QueueMove
  <2>7. Queue'
    BY <2>1, <2>5, <2>6, QueueKeeps DEF QInv
  <2>8. OneRestart'
    BY <2>1, <2>2, <2>4, LoseShape DEF OneRestart
  <2> QED
    BY <2>7, <2>8
<1>5. CASE Goes(t, w) /\ UNCHANGED flags
  <2>1. tasks'[t] = w /\ kicked' = kicked
    BY <1>3, <1>5 DEF Goes, flags
  <2>2. QueueMove(t)
    BY <1>2, <2>1, Insider DEF QueueMove
  <2> QED
    BY <1>2, <1>5, <2>1, <2>2, Insider, QueueKeepsOfOne
<1> QED
  BY <1>1, <1>4, <1>5

LEMMA ClearQueue ==
  ASSUME QInv, NEW t \in Task, Clear(t)
  PROVE  Queue' /\ OneRestart'
<1>1. Inside(tasks[t]) /\ mutex' = Tail(mutex) /\ kicked' = kicked /\ Goes(t, Fresh)
  BY DEF Clear, flags, Inside, Goes
<1> QED
  BY <1>1, Insider, IdleFields, LoginOver DEF InQueue, Inside

LEMMA OthersQueue ==
  ASSUME QInv, \/ PushEvent \/ WebhookEvent \/ Later15 \/ UpdateBegins \/ UpdateEnds \/ UNCHANGED vars
               \/ Later60 \/ Lost
  PROVE  Queue' /\ OneRestart'
<1>1. CASE PushEvent \/ WebhookEvent \/ Later15 \/ UpdateBegins \/ UpdateEnds \/ UNCHANGED vars
  <2>1. UNCHANGED <<tasks, mutex, kicked>>
    BY <1>1 DEF PushEvent, WebhookEvent, Later15, UpdateBegins, UpdateEnds, vars, flags
  <2> QED
    BY <2>1, QueueKeepsIfSame
<1>2. CASE Later60
  BY <1>2 DEF Later60, QInv, Queue, OneRestart, Idle
<1>3. CASE Lost
  BY <1>3, LostQueue DEF Lost
<1> QED
  BY <1>1, <1>2, <1>3

LEMMA QueueNext ==
  ASSUME QInv, [Next]_vars
  PROVE  Queue' /\ OneRestart'
<1>1. CASE \E t \in Task : Step(t)
  BY <1>1, ConnectQueue, ReplyQueue, GrantedQueue, NonceOkQueue, LoginAgainQueue, LoginOkQueue, LoginFailsQueue,
     DoneQueue, AgainQueue, LogoutGrantedQueue, DrainedQueue, CloseQueue, ClearQueue DEF Step
<1>2. CASE (\E t \in Sender : Begin(t)) \/ Reestablish \/ Wake
  BY <1>2, SendersQueue
<1>3. CASE \E t \in Task : ConnectFails(t) \/ Fails(t)
  BY <1>3, FailsQueue
<1>4. CASE WebhookChecked \/ Subscribed \/ WebhookOff \/ LoopBreaks \/ LogoutCall
  BY <1>4, WebhookCheckedQueue, SubscribedQueue, WebhookOffQueue, LeaveQueue
<1>5. CASE Subscribe \/ CheckRestarts \/ Unsubscribe
  BY <1>5, SubscribeQueue, CheckRestartsQueue, UnsubscribeQueue
<1>6. CASE \/ PushEvent \/ WebhookEvent \/ Later15 \/ UpdateBegins \/ UpdateEnds \/ UNCHANGED vars
           \/ Later60 \/ Lost
  BY <1>6, OthersQueue
<1>7. Sender \subseteq Task /\ {"user", "reestablish", "keepalive", "closer"} \subseteq Task
  BY DEF Task
<1> QED
  BY <1>1, <1>2, <1>3, <1>4, <1>5, <1>6, <1>7
     DEF Next, UserStep, ReestablishStep, KeepaliveStep, CloserStep

-----------------------------------------------------------------------------
(* The types                                                               *)

LEMMA FaultBounds ==
  ASSUME Bounds
  PROVE  /\ UNCHANGED faults => faults' \in 0..MaxFaults
         /\ Fault => faults' \in 0..MaxFaults /\ faults' > 0
BY BcSessionAssumption DEF Bounds, Fault

LEMMA CallBounds ==
  ASSUME Bounds
  PROVE  /\ UNCHANGED calls => calls' \in 0..MaxCalls
         /\ Call => calls' \in 0..MaxCalls
BY BcSessionAssumption DEF Bounds, Call

LEMMA StepBounds ==
  ASSUME IInv, Bounds, NEW t \in Task, Step(t)
  PROVE  Bounds'
<1>1. calls' \in 0..MaxCalls /\ faults' \in 0..MaxFaults
  <2>1. UNCHANGED calls /\ (UNCHANGED faults \/ Fault)
    BY DEF Step, Connect, Reply, Granted, NonceOk, LoginAgain, LoginOk, LoginFailed, LoginDenied, LoginRaises,
           Done, Again, LogoutGranted, Drained, Close, Clear
  <2> QED
    BY <2>1, FaultBounds, CallBounds
<1>2. updating' \in BOOLEAN
  <2>1. updating' = updating
    BY DEF Step, Connect, Reply, Granted, NonceOk, LoginAgain, LoginOk, LoginFailed, LoginDenied, LoginRaises,
           Done, Again, LogoutGranted, Drained, Close, Clear, Lose, flags
  <2> QED
    BY <2>1 DEF Bounds
<1>3. recent' \in BOOLEAN
  <2>1. recent' \in {recent, TRUE, FALSE}
    BY DEF Step, Connect, Reply, Granted, NonceOk, LoginAgain, LoginOk, LoginFailed, LoginDenied, LoginRaises,
           LoginEnds, Done, Again, LogoutGranted, Drained, Close, Clear, Lose, ends
  <2> QED
    BY <2>1 DEF Bounds
<1>4. kicked' \in BOOLEAN
  <2>1. UNCHANGED kicked \/ \E ts : Lose(ts)
    BY DEF Step, Connect, Reply, Granted, NonceOk, LoginAgain, LoginOk, LoginFailed, LoginDenied, LoginRaises,
           Done, Again, LogoutGranted, Drained, Close, Clear, flags
  <2>2. ASSUME NEW ts, Lose(ts) PROVE kicked' \in BOOLEAN
    BY <2>2, Zenon DEF Lose
  <2> QED
    BY <2>1, <2>2 DEF Bounds
<1>5. nonce' \in BOOLEAN
  <2>1. nonce' \in {nonce, TRUE, FALSE}
    BY DEF Step, Connect, Reply, Granted, NonceOk, LoginAgain, LoginOk, LoginFailed, LoginDenied, LoginRaises,
           Done, Again, LogoutGranted, Drained, Close, Clear, Lose, net
  <2> QED
    BY <2>1 DEF Bounds
<1>6. authed' \in BOOLEAN
  <2>1. CASE Reply(t)
    <3>1. authed' \in {authed, TRUE, FALSE} \/ authed' = (authed \/ nonce)
      BY <2>1, Zenon DEF Reply, Lose
    <3>2. (authed \/ nonce) \in BOOLEAN
      OBVIOUS
    <3> QED
      BY <3>1, <3>2 DEF Bounds
  <2>2. CASE ~Reply(t)
    <3>1. authed' \in {authed, FALSE}
      BY <2>2 DEF Step, Connect, Granted, NonceOk, LoginAgain, LoginOk, LoginFailed, LoginDenied, LoginRaises,
           Done, Again, LogoutGranted, Drained, Close, Clear, Lose, net
    <3> QED
      BY <3>1 DEF Bounds
  <2> QED
    BY <2>1, <2>2
<1> QED
  BY <1>1, <1>2, <1>3, <1>4, <1>5, <1>6 DEF Bounds

\* What the other steps leave alone.
LEMMA BoundsIfSame ==
  ASSUME Bounds, UNCHANGED <<nonce, authed, updating>>, recent' \in BOOLEAN, kicked' \in BOOLEAN,
         UNCHANGED faults \/ Fault, UNCHANGED calls \/ Call
  PROVE  Bounds'
BY FaultBounds, CallBounds DEF Bounds

LEMMA BoundsNext ==
  ASSUME IInv, Bounds, [Next]_vars
  PROVE  Bounds'
<1>1. CASE \E t \in Task : Step(t)
  BY <1>1, StepBounds
<1>2. CASE \/ (\E t \in Sender : Begin(t)) \/ Reestablish \/ Wake
           \/ (\E t \in Task : ConnectFails(t) \/ Fails(t)) \/ WebhookChecked \/ Subscribed
           \/ LoopBreaks \/ LogoutCall \/ Subscribe
           \/ PushEvent \/ WebhookEvent \/ UNCHANGED vars
  <2>1. UNCHANGED <<nonce, authed, updating, recent, kicked>> /\ (UNCHANGED faults \/ Fault)
        /\ (UNCHANGED calls \/ Call)
    BY <1>2 DEF Begin, Reestablish, Wake, ConnectFails, Fails, WebhookChecked, Subscribed, LoopBreaks,
                LogoutCall, Subscribe, PushEvent, WebhookEvent, vars, flags, ends, net
  <2> QED
    BY <2>1, BoundsIfSame DEF Bounds
<1>3. CASE CheckRestarts \/ Unsubscribe \/ WebhookOff
  <2>1. recent' \in BOOLEAN
    <3>1. recent' = (recent \/ (mutex # << >> /\ Head(mutex) = "keepalive" /\ tasks["keepalive"].pc # "mutex"))
          \/ recent' = recent
      BY <1>3, Zenon DEF CheckRestarts, Unsubscribe, WebhookOff, Unsubscribed, ends
    <3> QED
      BY <3>1, Zenon DEF Bounds
  <2>2. UNCHANGED <<nonce, authed, updating, kicked>> /\ (UNCHANGED faults \/ Fault)
        /\ (UNCHANGED calls \/ Call)
    BY <1>3 DEF CheckRestarts, Unsubscribe, WebhookOff, Unsubscribed, flags, net
  <2> QED
    BY <2>1, <2>2, BoundsIfSame DEF Bounds
<1>4. CASE Later15
  BY <1>4, BoundsIfSame DEF Later15, flags, net, Bounds
<1>5. CASE Later60
  BY <1>5, BoundsIfSame DEF Later60, ends, net, Bounds
<1>6. CASE UpdateBegins
  BY <1>6, FaultBounds, CallBounds DEF UpdateBegins, ends, net, Bounds
<1>7. CASE UpdateEnds
  BY <1>7, FaultBounds, CallBounds DEF UpdateEnds, ends, net, Bounds
<1>8. CASE Lost
  <2>1. kicked' \in BOOLEAN
    BY <1>8, Zenon DEF Lost, Lose
  <2>2. Fault /\ UNCHANGED calls /\ UNCHANGED <<updating, recent>> /\ nonce' = FALSE /\ authed' = FALSE
    BY <1>8 DEF Lost, Lose, ends
  <2> QED
    BY <2>1, <2>2, FaultBounds, CallBounds DEF Bounds
<1>9. Sender \subseteq Task /\ {"user", "reestablish", "keepalive", "closer"} \subseteq Task
  BY DEF Task
<1> QED
  BY <1>1, <1>2, <1>3, <1>4, <1>5, <1>6, <1>7, <1>8, <1>9
     DEF Next, UserStep, ReestablishStep, KeepaliveStep, CloserStep

LEMMA QInit == Init => QInv
<1> SUFFICES ASSUME Init PROVE QInv
  OBVIOUS
<1>1. IInv
  BY InitKeeps
<1>2. Bounds
  <2>1. faults \in 0..MaxFaults /\ calls \in 0..MaxCalls
    BY BcSessionAssumption DEF Init
  <2> QED
    BY <2>1 DEF Init, Bounds
<1>3. \A t \in Task : ~InQueue(tasks[t]) /\ ~Inside(tasks[t]) /\ tasks[t].pc = "idle"
  BY IdleFields DEF Init, InQueue, Inside
<1>4. Queue
  <2>1. {t \in Task : InQueue(tasks[t])} = {} /\ mutex = << >>
    BY <1>3 DEF Init
  <2> QED
    BY <1>3, <2>1, QueueEmpty DEF Queue
<1>5. OneRestart
  BY <1>3 DEF OneRestart, Task
<1> QED
  BY <1>1, <1>2, <1>4, <1>5 DEF QInv

LEMMA QNext == QInv /\ [Next]_vars => QInv'
BY NextKeeps, BoundsNext, QueueNext DEF QInv

\* The queue is of exactly the tasks that TypeOK names.
LEMMA QTypes == QInv => TypeOK
<1> SUFFICES ASSUME QInv PROVE TypeOK
  OBVIOUS
<1>1. {battery, logged_in, recent, subscribed, webhook, events_active, kicked, loop, updating, up, nonce,
       authed, pushing} \subseteq BOOLEAN
  BY DEF QInv, IInv, Types, Bounds
<1>2. tasks \in [Task -> Record] /\ faults \in 0..MaxFaults /\ calls \in 0..MaxCalls
  BY DEF QInv, IInv, Types, Bounds
<1>3. IsInjective(mutex) /\ ToSet(mutex) = {t \in Task : InQueue(tasks[t])}
  BY DEF QInv, Queue, QueueOf, Range, ToSet
<1>4. {t \in Task : InQueue(tasks[t])}
        = {t \in Task : \/ tasks[t].pc \in {"mutex", "lmutex", "drain", "clear"}
                        \/ /\ tasks[t].cmd \in {"Nonce", "Login", "Logout"}
                           /\ tasks[t].pc \in {"connect", "answer", "answered"}}
  BY DEF InQueue, Inside
<1> QED
  BY <1>1, <1>2, <1>3, <1>4, Zenon DEF TypeOK, Record, Pcs, Ops, Cmds, Answers

(* Every variable keeps its type, and _login_mutex is held or waited for   *)
(* by exactly the tasks that log in or out, each once: no cancellation,    *)
(* failure or loss leaves a task behind in its queue or takes one out.     *)
THEOREM TypeCorrect == Spec => []TypeOK
<1> QED
  BY QInit, QNext, QTypes, PTL DEF Spec

(* Who asks for a nonce, logs in or logs out is the first of the queue at  *)
(* _login_mutex: no two tasks do so at the same time, also when the        *)
(* keepalive is cancelled in the middle of its login.                      *)
THEOREM OneAtATime == Spec => [](\A t, u \in Task : Inside(tasks[t]) /\ Inside(tasks[u]) => t = u)
<1>1. QInv => \A t, u \in Task : Inside(tasks[t]) /\ Inside(tasks[u]) => t = u
  BY DEF QInv, Queue
<1> QED
  BY QInit, QNext, <1>1, PTL DEF Spec

-----------------------------------------------------------------------------
(* While nothing goes wrong, only a logout ends a connection.              *)

LoggingOut(r) == r.cmd = "Logout" /\ r.pc \in {"connect", "answer", "answered"}
LoggingIn(r) == r.cmd \in {"Nonce", "Login"} /\ r.pc \in {"connect", "answer", "answered"}
NoLogout == \A u \in Task : ~LoggingOut(tasks[u])

\* A login finds the connection open and is answered; a command fails only with the connection, and
\* then it has an attempt left.
CalmRecord(r) ==
    /\ r.ans # "raised"
    /\ LoggingIn(r) => /\ ~logged_in
                       /\ r.pc = "answer" => up
                       /\ r.cmd = "Login" \/ r.pc = "answered" => up /\ nonce
                       /\ r.pc = "answered" => r.ans = "ok" /\ (r.cmd = "Login" => authed)
    /\ r.cmd = "Op" => /\ r.pc # "connect"
                       /\ r.pc = "answer" => logged_in /\ (r.retry = 0 => NoLogout)
                       /\ r.pc = "answered" => r.ans = "ok" \/ (r.ans = "lost" /\ r.retry > 0 /\ ~up)
    /\ r.pc = "clear" => ~logged_in

CalmNet == /\ logged_in => up
           /\ logged_in /\ ~authed => \E t \in Task : LoggingOut(tasks[t]) /\ tasks[t].pc = "answered"

\* Only a logout forgets the login, and not its time until it is over.
CalmTime == recent /\ ~logged_in => \E t \in Task : Out(tasks[t])

CalmUser(r) ==
    ~battery => /\ r.op = "subscribe" => subscribed
                /\ r.pc = "next" \/ (r.cmd = "Op" /\ r.pc = "answered") => logged_in

CalmKeepalive ==
    /\ tasks["keepalive"].pc # "idle" => ~battery /\ subscribed /\ logged_in
    /\ CalmUser(tasks["user"])

Calm == CalmNet /\ CalmTime /\ (\A t \in Task : CalmRecord(tasks[t])) /\ CalmKeepalive

CalmInv == faults = 0 => Calm

-----------------------------------------------------------------------------
LEMMA CalmOne ==
  ASSUME QInv, Calm, NEW t \in Task, NEW w \in Record, Goes(t, w),
         battery' = battery, ~battery /\ subscribed => subscribed', logged_in => logged_in',
         CalmNet', CalmTime', CalmRecord(w)', \A u \in Task \ {t} : CalmRecord(tasks[u])',
         t = "keepalive" /\ w.pc # "idle" => tasks[t].pc # "idle",
         t = "user" => CalmUser(w)'
  PROVE  Calm'
<1>1. tasks'[t] = w /\ \A u \in Task \ {t} : tasks'[u] = tasks[u]
  BY DEF Goes, QInv, IInv, Types
<1>2. "keepalive" \in Task /\ "user" \in Task
  BY DEF Task
<1>3. ASSUME NEW u \in Task PROVE CalmRecord(tasks[u])'
  <2>1. CASE u = t
    BY <1>1, <2>1
  <2>2. CASE u # t
    BY <2>2
  <2> QED
    BY <2>1, <2>2
<1>4. tasks'["keepalive"].pc # "idle" => ~battery' /\ subscribed' /\ logged_in'
  BY <1>1, <1>2 DEF Calm, CalmKeepalive
<1>5. CalmUser(tasks["user"])'
  <2>1. CASE t = "user"
    BY <1>1, <2>1
  <2>2. CASE t # "user"
    <3>1. tasks'["user"] = tasks["user"] /\ CalmUser(tasks["user"])
      BY <1>1, <1>2, <2>2 DEF Calm, CalmKeepalive
    <3> QED
      BY <3>1 DEF CalmUser
  <2> QED
    BY <2>1, <2>2
<1>6. CalmKeepalive'
  BY <1>4, <1>5 DEF CalmKeepalive
<1> QED
  BY <1>3, <1>6 DEF Calm

LEMMA NoNewLogout ==
  ASSUME IInv, NEW t \in Task, NEW w \in Record, Goes(t, w), LoggingOut(w) => LoggingOut(tasks[t])
  PROVE  NoLogout => NoLogout'
<1>1. tasks'[t] = w /\ \A u \in Task \ {t} : tasks'[u] = tasks[u]
  BY DEF Goes, IInv, Types
<1> QED
  BY <1>1 DEF NoLogout

\* Most steps: nobody begins or ends a logout.
LEMMA CalmStep ==
  ASSUME QInv, Calm, NEW t \in Task, NEW w \in Record, Goes(t, w),
         UNCHANGED <<battery, logged_in, up, recent>>, nonce => nonce', authed => authed',
         ~battery /\ subscribed => subscribed', CalmRecord(w)',
         LoggingOut(w) => LoggingOut(tasks[t]), ~LoggingOut(tasks[t]), Out(tasks[t]) => Out(w),
         t = "keepalive" /\ w.pc # "idle" => tasks[t].pc # "idle",
         t = "user" => CalmUser(w)'
  PROVE  Calm'
<1>1. tasks'[t] = w /\ \A u \in Task \ {t} : tasks'[u] = tasks[u]
  BY DEF Goes, QInv, IInv, Types
<1>2. NoLogout => NoLogout'
  BY NoNewLogout DEF QInv
<1>3. CalmNet'
  <2>1. logged_in' => up'
    BY DEF Calm, CalmNet
  <2>2. ASSUME logged_in', ~authed' PROVE \E u \in Task : LoggingOut(tasks'[u]) /\ tasks'[u].pc = "answered"
    <3>1. PICK u \in Task : LoggingOut(tasks[u]) /\ tasks[u].pc = "answered"
      BY <2>2 DEF Calm, CalmNet
    <3> QED
      BY <1>1, <3>1
  <2> QED
    BY <2>1, <2>2 DEF CalmNet
<1>4. CalmTime'
  <2>1. ASSUME recent', ~logged_in' PROVE \E u \in Task : Out(tasks'[u])
    <3>1. PICK u \in Task : Out(tasks[u])
      BY <2>1 DEF Calm, CalmTime
    <3> QED
      BY <1>1, <3>1
  <2> QED
    BY <2>1 DEF CalmTime
<1>5. \A u \in Task \ {t} : CalmRecord(tasks[u])'
  <2> SUFFICES ASSUME NEW u \in Task \ {t} PROVE CalmRecord(tasks[u])'
    OBVIOUS
  <2>1. tasks'[u] = tasks[u] /\ CalmRecord(tasks[u])
    BY <1>1 DEF Calm
  <2> QED
    BY <1>2, <2>1 DEF CalmRecord, LoggingIn
<1> QED
  BY <1>3, <1>4, <1>5, CalmOne

\* Who logs in keeps the others from logging in or out.
LEMMA CalmInside ==
  ASSUME QInv, NEW t \in Task
  PROVE  /\ LoggingOut(tasks[t]) \/ LoggingIn(tasks[t]) \/ Out(tasks[t]) => Inside(tasks[t])
         /\ Head(mutex) = t /\ ~Inside(tasks[t]) =>
               \A u \in Task : ~LoggingOut(tasks[u]) /\ ~LoggingIn(tasks[u]) /\ ~Out(tasks[u])
         /\ Inside(tasks[t]) =>
               \A u \in Task \ {t} : ~LoggingOut(tasks[u]) /\ ~LoggingIn(tasks[u]) /\ ~Out(tasks[u])
                                     /\ tasks[u].pc \notin {"drain", "clear"}
<1>1. ASSUME NEW u \in Task
      PROVE  /\ LoggingOut(tasks[u]) \/ LoggingIn(tasks[u]) \/ Out(tasks[u]) => Inside(tasks[u])
             /\ tasks[u].pc \in {"drain", "clear"} => Inside(tasks[u])
  BY TaskRecord DEF QInv, Tidy, LoggingOut, LoggingIn, Out, Inside
<1> QED
  BY <1>1 DEF QInv, Queue

\* The logout of a mains-powered camera is the user's, without a subscription, and so the keepalive
\* is not running.
LEMMA CalmLogout ==
  ASSUME QInv, Calm, NEW t \in Task, Out(tasks[t])
  PROVE  tasks["keepalive"].pc = "idle" /\ (~battery => t = "user" /\ ~subscribed)
<1>1. ~battery => t = "user" /\ ~subscribed
  BY DEF QInv, IInv, Mains, Leaving, Out
<1> QED
  BY <1>1 DEF Calm, CalmKeepalive

-----------------------------------------------------------------------------
(* The steps, one by one.                                                  *)

LEMMA NonceOkCalm ==
  ASSUME QInv, Calm, NEW t \in Task, NonceOk(t)
  PROVE  Calm'
<1>1. PICK w \in Record : Logs(t, w, "Login")
  BY NonceOkShape DEF QInv
<1>2. tasks[t].cmd = "Nonce" /\ tasks[t].pc = "answered"
      /\ UNCHANGED <<battery, subscribed, logged_in, up, recent, nonce, authed>>
  BY DEF NonceOk, flags, ends, net
<1>3. ~logged_in /\ up /\ nonce
  BY <1>2 DEF Calm, CalmRecord, LoggingIn
<1>4. CalmRecord(w)' /\ ~LoggingOut(w) /\ ~LoggingOut(tasks[t]) /\ ~Out(tasks[t]) /\ w.pc # "idle"
  BY <1>1, <1>2, <1>3 DEF Logs, CalmRecord, LoggingIn, LoggingOut, Out
<1>5. t = "user" => CalmUser(w)'
  BY <1>1, <1>2 DEF Logs, Calm, CalmKeepalive, CalmUser
<1> QED
  BY <1>1, <1>2, <1>4, <1>5, CalmStep DEF Logs

LEMMA GrantedCalm ==
  ASSUME QInv, Calm, NEW t \in Task, Granted(t)
  PROVE  Calm'
<1>1. /\ tasks[t].pc = "mutex" /\ Head(mutex) = t
      /\ UNCHANGED <<battery, subscribed, logged_in, up, recent, nonce, authed>>
  BY DEF Granted, flags, ends, net
<1>2. ~Inside(tasks[t])
  BY <1>1, TaskRecord DEF Inside
<1>3. \A u \in Task : ~LoggingOut(tasks[u]) /\ ~LoggingIn(tasks[u]) /\ ~Out(tasks[u])
  BY <1>1, <1>2, CalmInside
<1>4. ~(~logged_in /\ recent)
  BY <1>3 DEF Calm, CalmTime
<1>5. PICK w \in Record : \/ logged_in /\ Logs(t, w, "Op")
                          \/ ~logged_in /\ Logs(t, w, "Nonce")
  BY <1>4, GrantedShape DEF QInv
<1>6. Goes(t, w) /\ ~LoggingOut(w) /\ w.pc \notin {"idle", "answered", "next"} /\ w.op = tasks[t].op
  BY <1>5 DEF Logs, LoggingOut
<1>7. NoLogout'
  BY <1>3, <1>6, NoNewLogout DEF NoLogout, QInv
<1>8. CalmRecord(w)'
  <2>1. logged_in => up
    BY DEF Calm, CalmNet
  <2> QED
    BY <1>1, <1>5, <1>7, <2>1 DEF Logs, CalmRecord, LoggingIn
<1>9. t = "user" => CalmUser(w)'
  BY <1>1, <1>6 DEF Calm, CalmKeepalive, CalmUser
<1> QED
  BY <1>1, <1>3, <1>6, <1>8, <1>9, CalmStep

LEMMA LoginOkCalm ==
  ASSUME QInv, Calm, NEW t \in Task, LoginOk(t)
  PROVE  Calm'
<1>1. /\ tasks[t].pc = "answered" /\ tasks[t].cmd = "Login" /\ logged_in' = TRUE
      /\ UNCHANGED <<battery, subscribed, up, nonce, authed>>
  BY DEF LoginOk, flags, net
<1>2. Inside(tasks[t]) /\ LoggingIn(tasks[t])
  BY <1>1 DEF Inside, LoggingIn
<1>3. up /\ nonce /\ authed
  BY <1>1, <1>2 DEF Calm, CalmRecord
<1>4. PICK w \in Record : Logs(t, w, "Op")
  BY LoginOkShape DEF QInv
<1>5. Goes(t, w) /\ ~LoggingOut(w) /\ w.pc = "answer" /\ w.op = tasks[t].op
  BY <1>3, <1>4 DEF Logs, LoggingOut
<1>6. \A u \in Task \ {t} : ~LoggingOut(tasks[u]) /\ ~LoggingIn(tasks[u]) /\ tasks[u].pc # "clear"
  BY <1>2, CalmInside
<1>7. NoLogout /\ NoLogout'
  <2>1. ~LoggingOut(tasks[t])
    BY <1>1 DEF LoggingOut
  <2> QED
    BY <1>5, <1>6, <2>1, NoNewLogout DEF NoLogout, QInv
<1>8. CalmRecord(w)'
  BY <1>1, <1>4, <1>5, <1>7 DEF Logs, CalmRecord, LoggingIn
<1>9. \A u \in Task \ {t} : CalmRecord(tasks[u])'
  <2> SUFFICES ASSUME NEW u \in Task \ {t} PROVE CalmRecord(tasks[u])'
    OBVIOUS
  <2>1. tasks'[u] = tasks[u] /\ CalmRecord(tasks[u])
    BY <1>5 DEF Goes, Calm, QInv, IInv, Types
  <2> QED
    BY <1>1, <1>6, <1>7, <2>1 DEF CalmRecord
<1>10. CalmNet' /\ CalmTime'
  BY <1>1, <1>3 DEF CalmNet, CalmTime
<1>11. t = "user" => CalmUser(w)'
  BY <1>1, <1>5 DEF Calm, CalmKeepalive, CalmUser
<1> QED
  BY <1>1, <1>5, <1>8, <1>9, <1>10, <1>11, CalmOne

\* No login fails.
LEMMA NoLoginFails ==
  ASSUME QInv, Calm, NEW t \in Task
  PROVE  ~LoginAgain(t) /\ ~LoginFailed(t) /\ ~LoginDenied(t)
<1>1. ASSUME tasks[t].pc = "answered", tasks[t].cmd \in {"Nonce", "Login"} PROVE tasks[t].ans = "ok"
  BY <1>1 DEF Calm, CalmRecord, LoggingIn
<1> QED
  BY <1>1 DEF LoginAgain, LoginFailed, LoginDenied, LoginRaises

LEMMA DoneCalm ==
  ASSUME QInv, Calm, NEW t \in Task, Done(t)
  PROVE  Calm'
<1>1. /\ tasks[t].pc = "answered" /\ tasks[t].cmd = "Op" /\ (tasks[t].ans \in {"ok", "error"} \/ tasks[t].retry = 0)
      /\ UNCHANGED <<battery, subscribed, logged_in, up, recent, nonce, authed>>
  BY DEF Done, flags, ends, net
<1>2. tasks[t].ans = "ok"
  BY <1>1 DEF Calm, CalmRecord
<1>3. PICK w \in Record : Goes(t, w) /\ Ends(t, w, "ok")
  BY <1>2, DoneShape DEF QInv
<1>4. CalmRecord(w)' /\ ~LoggingOut(w) /\ ~LoggingOut(tasks[t]) /\ ~Out(tasks[t])
  BY <1>1, <1>3 DEF Ends, CalmRecord, LoggingIn, LoggingOut, Out
<1>5. t = "user" => CalmUser(w)'
  BY <1>1, <1>3 DEF Ends, Calm, CalmKeepalive, CalmUser
<1> QED
  BY <1>1, <1>3, <1>4, <1>5, CalmStep

\* A task that sends, with an attempt left.
LEMMA SendCalm ==
  ASSUME QInv, Calm, NEW t \in Task, NEW w \in Record, NEW op, NEW retry, Sends(t, w, op, retry),
         UNCHANGED <<battery, logged_in, up, recent, nonce, authed>>,
         ~battery /\ subscribed => subscribed',
         ~LoggingOut(tasks[t]), ~Out(tasks[t]), logged_in => retry # 0,
         t = "keepalive" => tasks[t].pc # "idle",
         t = "user" /\ ~battery /\ op = "subscribe" => subscribed'
  PROVE  Calm'
<1>1. logged_in => up
  BY DEF Calm, CalmNet
<1>2. Goes(t, w) /\ ~LoggingOut(w) /\ w.pc \notin {"answered", "next", "clear"} /\ w.op = op
  BY <1>1 DEF Sends, LoggingOut
<1>3. CalmRecord(w)'
  BY <1>1, <1>2 DEF Sends, CalmRecord, LoggingIn
<1>4. t = "user" => CalmUser(w)'
  BY <1>2 DEF CalmUser
<1> QED
  BY <1>2, <1>3, <1>4, CalmStep

LEMMA AgainCalm ==
  ASSUME QInv, Calm, NEW t \in Task, Again(t)
  PROVE  Calm'
<1>1. /\ tasks[t].pc = "answered" /\ tasks[t].cmd = "Op" /\ tasks[t].ans \in {"lost", "refused"}
      /\ UNCHANGED <<battery, subscribed, logged_in, up, recent, nonce, authed>>
  BY DEF Again, flags, ends, net
<1>2. ~up
  BY <1>1 DEF Calm, CalmRecord
<1>3. ~logged_in
  BY <1>2 DEF Calm, CalmNet
<1>4. PICK w \in Record : Sends(t, w, tasks[t].op, tasks[t].retry - 1)
  BY AgainShape DEF QInv
<1>5. ~LoggingOut(tasks[t]) /\ ~Out(tasks[t]) /\ tasks[t].pc # "idle"
  BY <1>1 DEF LoggingOut, Out
<1>6. t = "user" /\ ~battery /\ tasks[t].op = "subscribe" => subscribed'
  BY <1>1 DEF Calm, CalmKeepalive, CalmUser
<1> QED
  BY <1>1, <1>3, <1>4, <1>5, <1>6, SendCalm

LEMMA SendsCalm ==
  ASSUME RETRY_ATTEMPTS >= 2, QInv, Calm, NEW t \in Task, NEW op \in Ops, Send(t, op),
         tasks[t].pc \in {"idle", "start", "sleep", "next"}, t = "keepalive" => tasks[t].pc # "idle",
         UNCHANGED <<battery, logged_in, up, recent, nonce, authed>>,
         ~battery /\ subscribed => subscribed',
         t = "user" /\ ~battery /\ op = "subscribe" => subscribed'
  PROVE  Calm'
<1>1. PICK w \in Record : Sends(t, w, op, RETRY_ATTEMPTS - 1)
  BY SendFields DEF QInv
<1>2. ~LoggingOut(tasks[t]) /\ ~Out(tasks[t])
  BY CalmInside DEF Inside, LoggingOut
<1>3. RETRY_ATTEMPTS - 1 # 0
  BY BcSessionAssumption
<1> QED
  BY <1>1, <1>2, <1>3, SendCalm

LEMMA SendersCalm ==
  ASSUME RETRY_ATTEMPTS >= 2, QInv, Calm, (\E t \in Sender : Begin(t)) \/ Reestablish \/ Wake
  PROVE  Calm'
<1>1. UNCHANGED <<battery, subscribed, logged_in, up, recent, nonce, authed>>
  BY DEF Begin, Reestablish, Wake, flags, ends, net
<1>2. CASE \E t \in Sender : Begin(t)
  <2>1. PICK t \in Sender : Begin(t)
    BY <1>2
  <2>2. t \in Task /\ "state" \in Ops /\ Send(t, "state") /\ tasks[t].pc = "idle"
    BY <2>1 DEF Task, Ops, Begin, Idle
  <2>3. t \notin {"user", "keepalive"}
    BY BcSessionAssumption
  <2> QED
    BY <1>1, <2>2, <2>3, SendsCalm
<1>3. CASE Reestablish
  <2>1. /\ Send("reestablish", "subscribe") /\ tasks["reestablish"].pc = "start"
        /\ "reestablish" \in Task /\ "subscribe" \in Ops
    BY <1>3 DEF Reestablish, Task, Ops
  <2> QED
    BY <1>1, <2>1, SendsCalm
<1>4. CASE Wake
  <2>1. tasks["keepalive"].pc = "sleep" /\ "keepalive" \in Task
    BY <1>4 DEF Wake, Task
  <2>2. \E op \in Ops : Send("keepalive", op)
    BY <1>4, Zenon DEF Wake, Ops
  <2> QED
    BY <1>1, <2>1, <2>2, SendsCalm
<1> QED
  BY <1>2, <1>3, <1>4

LEMMA ConnectCalm ==
  ASSUME QInv, Calm, NEW t \in Task, Connect(t)
  PROVE  Calm'
<1>1. PICK w \in Record : Goes(t, w) /\ Turned(w, tasks[t], "answer", tasks[t].ans)
  BY ConnectShape DEF QInv
<1>2. /\ tasks[t].pc = "connect" /\ (up \/ Settled) /\ up' = TRUE
      /\ UNCHANGED <<battery, subscribed, logged_in, recent, nonce, authed>>
  BY DEF Connect, flags, ends
<1>3. tasks'[t] = w /\ \A u \in Task \ {t} : tasks'[u] = tasks[u]
  BY <1>1 DEF Goes, QInv, IInv, Types
<1>4. LoggingOut(w) <=> LoggingOut(tasks[t])
  BY <1>1, <1>2 DEF Turned, LoggingOut
<1>5. NoLogout => NoLogout'
  BY <1>1, <1>4, NoNewLogout DEF QInv
<1>6. CalmNet'
  <2>1. logged_in' => up'
    BY <1>2
  <2>2. ASSUME logged_in', ~authed' PROVE \E u \in Task : LoggingOut(tasks'[u]) /\ tasks'[u].pc = "answered"
    <3>1. PICK u \in Task : LoggingOut(tasks[u]) /\ tasks[u].pc = "answered"
      BY <1>2, <2>2 DEF Calm, CalmNet
    <3> QED
      BY <1>2, <1>3, <3>1
  <2> QED
    BY <2>1, <2>2 DEF CalmNet
<1>7. CalmTime'
  <2>1. ASSUME recent', ~logged_in' PROVE \E u \in Task : Out(tasks'[u])
    <3>1. PICK u \in Task : Out(tasks[u])
      BY <1>2, <2>1 DEF Calm, CalmTime
    <3>2. Out(tasks[t]) => Out(w)
      BY <1>1, <1>2 DEF Turned, Out
    <3> QED
      BY <1>3, <3>1, <3>2
  <2> QED
    BY <2>1 DEF CalmTime
<1>8. CalmRecord(w)'
  <2>1. CalmRecord(tasks[t])
    BY DEF Calm
  <2> QED
    BY <1>1, <1>2, <1>5, <2>1 DEF Turned, CalmRecord, LoggingIn
<1>9. \A u \in Task \ {t} : CalmRecord(tasks[u])'
  <2> SUFFICES ASSUME NEW u \in Task \ {t} PROVE CalmRecord(tasks[u])'
    OBVIOUS
  <2>1. tasks'[u] = tasks[u] /\ CalmRecord(tasks[u])
    BY <1>3 DEF Calm
  <2>2. up \/ tasks[u].pc # "answered" \/ tasks[u].ans = "refused"
    BY <1>2 DEF Settled
  <2> QED
    BY <1>2, <1>5, <2>1, <2>2 DEF CalmRecord, LoggingIn
<1>10. t = "user" => CalmUser(w)'
  BY <1>1, <1>2 DEF Turned, Calm, CalmKeepalive, CalmUser
<1> QED
  BY <1>1, <1>2, <1>6, <1>7, <1>8, <1>9, <1>10, CalmOne

\* The connection ends while t logs out.
LEMMA LoseCalm ==
  ASSUME QInv, Calm, NEW t \in Task, LoggingOut(tasks[t]), NEW ts \in [Task -> Record], Lose(ts),
         \A u \in Task \ {t} : ts[u] = tasks[u],
         ts[t].cmd = "Logout", ts[t].pc \in {"answered", "clear"}, ts[t].ans = tasks[t].ans,
         ts[t].op = tasks[t].op
  PROVE  Calm'
<1>1. /\ up' = FALSE /\ logged_in' = FALSE /\ UNCHANGED <<battery, subscribed>>
      /\ \A u \in Task : Dropped(u, ts[u])
  BY LoseShape DEF Lose
<1>2. Out(tasks[t]) /\ tasks[t].pc # "idle" /\ Inside(tasks[t])
  BY DEF LoggingOut, Out, Inside
<1>3. t = "reestablish" => kicked
  BY <1>2 DEF QInv, OneRestart
<1>4. tasks'[t] = ts[t]
  BY <1>1, <1>3 DEF Dropped
<1>5. tasks["keepalive"].pc = "idle" /\ (~battery => t = "user" /\ ~subscribed)
  BY <1>2, CalmLogout
<1>6. CalmNet'
  BY <1>1 DEF CalmNet
<1>7. CalmTime'
  <2>1. Out(tasks'[t])
    BY <1>4 DEF Out
  <2> QED
    BY <2>1 DEF CalmTime
<1>8. ASSUME NEW u \in Task PROVE CalmRecord(tasks[u])'
  <2>1. CASE u = t
    <3>1. CalmRecord(tasks[t])
      BY DEF Calm
    <3> QED
      BY <1>1, <1>4, <2>1, <3>1 DEF CalmRecord, LoggingIn
  <2>2. CASE u # t
    <3>1. tasks[u] \in Record /\ CalmRecord(tasks[u]) /\ Dropped(u, tasks[u]) /\ ~LoggingIn(tasks[u])
      BY <1>1, <1>2, <2>2, CalmInside, TaskRecord DEF Calm, QInv
    <3>2. ~NoLogout
      BY DEF NoLogout
    <3>3. tasks[u].retry \in Nat
      BY <3>1, BcSessionAssumption DEF Record
    <3>4. CASE tasks[u].pc = "answer" /\ Turned(tasks'[u], tasks[u], "answered", "lost")
      BY <1>1, <3>1, <3>2, <3>3, <3>4 DEF Turned, CalmRecord, LoggingIn
    <3>5. CASE tasks[u].pc # "answer" /\ tasks'[u] = tasks[u]
      BY <1>1, <3>1, <3>5 DEF CalmRecord, LoggingIn
    <3>6. CASE tasks'[u].pc = "start" /\ tasks'[u].cmd = "none" /\ tasks'[u].ans = "none"
      BY <3>6 DEF CalmRecord, LoggingIn
    <3> QED
      BY <3>1, <3>4, <3>5, <3>6 DEF Dropped
  <2> QED
    BY <2>1, <2>2
<1>9. CalmKeepalive'
  <2>1. "keepalive" \in Task /\ t # "keepalive"
    BY <1>2, <1>5 DEF Task
  <2>2. tasks'["keepalive"].pc = "idle"
    BY <1>1, <1>5, <2>1 DEF Dropped
  <2>3. CalmUser(tasks["user"])'
    BY <1>1, <1>4, <1>5 DEF CalmUser, Calm, CalmKeepalive
  <2> QED
    BY <2>2, <2>3 DEF CalmKeepalive
<1> QED
  BY <1>6, <1>7, <1>8, <1>9 DEF Calm

LEMMA ReplyCalm ==
  ASSUME QInv, Calm, NEW t \in Task, Reply(t)
  PROVE  Calm'
<1>1. tasks[t].pc = "answer" /\ tasks[t] \in Record /\ CalmRecord(tasks[t])
  BY TaskRecord DEF Reply, Calm, QInv
<1> DEFINE answers(ans) == Answer(t, ans) /\ UNCHANGED <<battery, subscribed, logged_in, up, recent>>
<1>2. \/ tasks[t].cmd = "Nonce" /\ answers("ok") /\ nonce' = TRUE /\ authed' = authed
      \/ /\ tasks[t].cmd = "Login" /\ answers(IF nonce THEN "ok" ELSE "error")
         /\ authed' = (authed \/ nonce) /\ nonce' = nonce
      \/ tasks[t].cmd = "Logout" /\ answers("ok") /\ authed' = FALSE /\ nonce' = nonce
      \/ tasks[t].cmd = "Op" /\ authed /\ answers("ok") /\ nonce' = nonce /\ authed' = authed
      \/ tasks[t].cmd = "Op" /\ ~authed /\ Lose(tasks)
  BY Zenon DEF Reply, flags, ends
<1>3. CASE tasks[t].cmd = "Op" /\ ~authed /\ Lose(tasks)
  <2>1. logged_in
    BY <1>1, <1>3 DEF CalmRecord
  <2>2. PICK u \in Task : LoggingOut(tasks[u]) /\ tasks[u].pc = "answered"
    BY <1>3, <2>1 DEF Calm, CalmNet
  <2>3. tasks[u].cmd = "Logout" /\ tasks \in [Task -> Record]
    BY <2>2 DEF LoggingOut, QInv, IInv, Types
  <2> QED
    BY <1>3, <2>2, <2>3, LoseCalm
<1>4. ASSUME tasks[t].cmd = "Logout", answers("ok"), authed' = FALSE, nonce' = nonce PROVE Calm'
  <2>1. PICK w \in Record : Goes(t, w) /\ Turned(w, tasks[t], "answered", "ok")
    BY <1>4, AnswerFields DEF Answers, QInv
  <2>2. tasks'[t] = w /\ \A u \in Task \ {t} : tasks'[u] = tasks[u]
    BY <2>1 DEF Goes, QInv, IInv, Types
  <2>3. LoggingOut(w) /\ w.pc = "answered" /\ LoggingOut(tasks[t]) /\ Inside(tasks[t]) /\ Out(w)
    BY <1>1, <1>4, <2>1 DEF LoggingOut, Turned, Inside, Out
  <2>4. CalmNet'
    BY <1>4, <2>2, <2>3 DEF CalmNet, Calm
  <2>5. CalmTime'
    BY <2>2, <2>3 DEF CalmTime
  <2>6. CalmRecord(w)'
    BY <1>4, <2>1 DEF Turned, CalmRecord, LoggingIn
  <2>7. \A u \in Task \ {t} : CalmRecord(tasks[u])'
    <3> SUFFICES ASSUME NEW u \in Task \ {t} PROVE CalmRecord(tasks[u])'
      OBVIOUS
    <3>1. tasks'[u] = tasks[u] /\ CalmRecord(tasks[u]) /\ ~LoggingIn(tasks[u])
      BY <2>2, <2>3, CalmInside DEF Calm
    <3>2. ~NoLogout
      BY <2>3 DEF NoLogout
    <3> QED
      BY <1>4, <3>1, <3>2 DEF CalmRecord, LoggingIn
  <2>8. t = "user" => CalmUser(w)'
    BY <1>4, <2>1 DEF Turned, Calm, CalmKeepalive, CalmUser
  <2> QED
    BY <1>1, <1>4, <2>1, <2>4, <2>5, <2>6, <2>7, <2>8, CalmOne
<1>5. ASSUME tasks[t].cmd \in {"Nonce", "Login", "Op"}, answers("ok"), nonce => nonce', authed => authed',
             tasks[t].cmd = "Nonce" => nonce', tasks[t].cmd = "Login" => nonce' /\ authed'
      PROVE  Calm'
  <2>1. PICK w \in Record : Goes(t, w) /\ Turned(w, tasks[t], "answered", "ok")
    BY <1>5, AnswerFields DEF Answers, QInv
  <2>2. CalmRecord(w)' /\ ~LoggingOut(w) /\ ~LoggingOut(tasks[t]) /\ ~Out(tasks[t])
    BY <1>1, <1>5, <2>1 DEF Turned, CalmRecord, LoggingIn, LoggingOut, Out
  <2>3. t = "user" => CalmUser(w)'
    BY <1>1, <1>5, <2>1 DEF Turned, Calm, CalmKeepalive, CalmUser, CalmRecord
  <2> QED
    BY <1>1, <1>5, <2>1, <2>2, <2>3, CalmStep
<1>6. ASSUME tasks[t].cmd = "Login", answers(IF nonce THEN "ok" ELSE "error"),
             authed' = (authed \/ nonce), nonce' = nonce
      PROVE  Calm'
  <2>1. nonce
    BY <1>1, <1>6 DEF CalmRecord, LoggingIn
  <2>2. answers("ok")
    BY <1>6, <2>1
  <2>3. nonce' /\ authed'
    BY <1>6, <2>1, Zenon
  <2> QED
    BY <1>5, <1>6, <2>2, <2>3
<1>7. ASSUME tasks[t].cmd = "Nonce", answers("ok"), nonce' = TRUE, authed' = authed PROVE Calm'
  <2> HIDE DEF answers
  <2> QED
    BY <1>5, <1>7
<1>8. ASSUME tasks[t].cmd = "Op", answers("ok"), nonce' = nonce, authed' = authed PROVE Calm'
  <2> HIDE DEF answers
  <2> QED
    BY <1>5, <1>8
<1> HIDE DEF answers
<1> QED
  BY <1>2, <1>3, <1>4, <1>6, <1>7, <1>8

LEMMA DrainedCalm ==
  ASSUME QInv, Calm, NEW t \in Task, Drained(t), faults' = faults
  PROVE  Calm'
<1>1. PICK w \in Record : Logs(t, w, "Logout")
  BY DrainedShape DEF QInv
<1>2. /\ tasks[t].pc = "drain" /\ \A u \in Task : tasks[u].pc # "answer"
      /\ UNCHANGED <<battery, subscribed, logged_in, up, recent, nonce, authed>>
  BY FaultBounds DEF Drained, flags, ends, net, QInv, Bounds, Fault
<1>3. /\ Goes(t, w) /\ tasks'[t] = w /\ w.cmd = "Logout" /\ w.pc \in {"answer", "connect"} /\ w.ans = "none"
      /\ w.op = tasks[t].op /\ \A u \in Task \ {t} : tasks'[u] = tasks[u]
  BY <1>1 DEF Logs, Goes, QInv, IInv, Types
<1>4. Inside(tasks[t]) /\ Out(w)
  BY <1>2, <1>3 DEF Inside, Out
<1>5. CalmNet'
  <2>1. logged_in' => up'
    BY <1>2 DEF Calm, CalmNet
  <2>2. ASSUME logged_in', ~authed' PROVE \E u \in Task : LoggingOut(tasks'[u]) /\ tasks'[u].pc = "answered"
    <3>1. PICK u \in Task : LoggingOut(tasks[u]) /\ tasks[u].pc = "answered"
      BY <1>2, <2>2 DEF Calm, CalmNet
    <3> QED
      BY <1>2, <1>3, <3>1
  <2> QED
    BY <2>1, <2>2 DEF CalmNet
<1>6. CalmTime'
  BY <1>3, <1>4 DEF CalmTime
<1>7. CalmRecord(w)'
  BY <1>3 DEF CalmRecord, LoggingIn
<1>8. \A u \in Task \ {t} : CalmRecord(tasks[u])'
  BY <1>2, <1>3 DEF Calm, CalmRecord, LoggingIn
<1>9. t = "user" => CalmUser(w)'
  BY <1>2, <1>3 DEF Calm, CalmKeepalive, CalmUser
<1> QED
  BY <1>2, <1>3, <1>5, <1>6, <1>7, <1>8, <1>9, CalmOne

LEMMA CloseCalm ==
  ASSUME QInv, Calm, NEW t \in Task, Close(t)
  PROVE  Calm'
<1>1. PICK w \in Record : /\ Turned(w, tasks[t], "clear", tasks[t].ans)
                          /\ \/ Lose([tasks EXCEPT ![t] = w])
                             \/ /\ Goes(t, w) /\ ~up
                                /\ UNCHANGED <<flags, ends, logged_in, events_active, net>>
  BY CloseShape DEF QInv
<1>2. tasks[t].cmd = "Logout" /\ tasks[t].pc = "answered" /\ tasks \in [Task -> Record]
  BY DEF Close, QInv, IInv, Types
<1>3. LoggingOut(tasks[t])
  BY <1>2 DEF LoggingOut
<1>4. CASE Lose([tasks EXCEPT ![t] = w])
  <2> DEFINE ts == [tasks EXCEPT ![t] = w]
  <2>1. ts \in [Task -> Record] /\ ts[t] = w /\ \A u \in Task \ {t} : ts[u] = tasks[u]
    BY <1>2
  <2>2. Lose(ts)
    BY <1>4
  <2> HIDE DEF ts
  <2> QED
    BY <1>1, <1>2, <1>3, <2>1, <2>2, LoseCalm DEF Turned
<1>5. CASE Goes(t, w) /\ ~up /\ UNCHANGED <<flags, ends, logged_in, events_active, net>>
  <2>1. UNCHANGED <<battery, subscribed, logged_in, up, recent, nonce, authed>> /\ ~up
    BY <1>5 DEF flags, ends, net
  <2>2. tasks'[t] = w /\ (\A u \in Task \ {t} : tasks'[u] = tasks[u]) /\ w.cmd = "Logout" /\ w.pc = "clear"
        /\ w.op = tasks[t].op /\ w.ans = tasks[t].ans
    BY <1>1, <1>2, <1>5 DEF Goes, Turned
  <2>3. ~logged_in
    BY <2>1 DEF Calm, CalmNet
  <2>4. CalmNet'
    BY <2>1, <2>3 DEF CalmNet
  <2>5. CalmTime'
    BY <2>2 DEF CalmTime, Out
  <2>6. CalmRecord(w)'
    <3>1. CalmRecord(tasks[t])
      BY DEF Calm
    <3> QED
      BY <2>1, <2>2, <2>3, <3>1 DEF CalmRecord, LoggingIn
  <2>7. NoLogout => NoLogout'
    BY <1>3, <1>5, NoNewLogout DEF QInv
  <2>8. \A u \in Task \ {t} : CalmRecord(tasks[u])'
    <3> SUFFICES ASSUME NEW u \in Task \ {t} PROVE CalmRecord(tasks[u])'
      OBVIOUS
    <3>1. tasks'[u] = tasks[u] /\ CalmRecord(tasks[u])
      BY <2>2 DEF Calm
    <3> QED
      BY <2>1, <2>7, <3>1 DEF CalmRecord, LoggingIn
  <2>9. t = "user" => CalmUser(w)'
    BY <2>1, <2>2 DEF Calm, CalmKeepalive, CalmUser
  <2> QED
    BY <1>2, <1>5, <2>1, <2>2, <2>4, <2>5, <2>6, <2>8, <2>9, CalmOne
<1> QED
  BY <1>1, <1>4, <1>5

LEMMA ClearCalm ==
  ASSUME QInv, Calm, NEW t \in Task, Clear(t)
  PROVE  Calm'
<1>1. /\ tasks[t].pc = "clear" /\ Goes(t, Fresh) /\ logged_in' = FALSE /\ recent' = FALSE
      /\ UNCHANGED <<battery, subscribed, up, nonce, authed>>
  BY DEF Clear, Goes, flags, net
<1>2. ~logged_in
  BY <1>1 DEF Calm, CalmRecord
<1>3. CalmNet' /\ CalmTime'
  BY <1>1 DEF CalmNet, CalmTime
<1>4. Fresh \in Record /\ CalmRecord(Fresh)' /\ CalmUser(Fresh)' /\ ~LoggingOut(Fresh)
  BY IdleFields DEF CalmRecord, LoggingIn, LoggingOut, CalmUser
<1>5. NoLogout => NoLogout'
  BY <1>1, <1>4, NoNewLogout DEF QInv
<1>6. \A u \in Task \ {t} : CalmRecord(tasks[u])'
  <2> SUFFICES ASSUME NEW u \in Task \ {t} PROVE CalmRecord(tasks[u])'
    OBVIOUS
  <2>1. tasks'[u] = tasks[u] /\ CalmRecord(tasks[u])
    BY <1>1 DEF Goes, Calm, QInv, IInv, Types
  <2> QED
    BY <1>1, <1>2, <1>5, <2>1 DEF CalmRecord, LoggingIn
<1> QED
  BY <1>1, <1>2, <1>3, <1>4, <1>6, IdleFields, CalmOne

LEMMA LogoutGrantedCalm ==
  ASSUME QInv, Calm, NEW t \in Task, LogoutGranted(t)
  PROVE  Calm'
<1>1. tasks[t].pc = "lmutex" /\ UNCHANGED <<battery, subscribed, logged_in, up, recent, nonce, authed>>
  BY DEF LogoutGranted, flags, net
<1>2. tasks[t].cmd # "Logout" /\ ~LoggingOut(tasks[t]) /\ ~Out(tasks[t]) /\ CalmRecord(tasks[t])
  BY <1>1, TaskRecord DEF Tidy, LoggingOut, Out, Calm, QInv
<1>3. CASE Goes(t, Fresh)
  <2>1. Fresh \in Record /\ CalmRecord(Fresh)' /\ CalmUser(Fresh)' /\ ~LoggingOut(Fresh)
    BY IdleFields DEF CalmRecord, LoggingIn, LoggingOut, CalmUser
  <2> QED
    BY <1>1, <1>2, <1>3, <2>1, IdleFields, CalmStep
<1>4. CASE \E w \in Record : /\ Goes(t, w)
                             /\ Turned(w, tasks[t], IF logged_in THEN "drain" ELSE "clear", tasks[t].ans)
  <2>1. PICK w \in Record : /\ Goes(t, w)
                            /\ Turned(w, tasks[t], IF logged_in THEN "drain" ELSE "clear", tasks[t].ans)
    BY <1>4
  <2>2. CalmRecord(w)' /\ ~LoggingOut(w)
    BY <1>1, <1>2, <2>1 DEF Turned, CalmRecord, LoggingIn, LoggingOut
  <2>3. t = "user" => CalmUser(w)'
    BY <1>1, <2>1 DEF Turned, Calm, CalmKeepalive, CalmUser
  <2> QED
    BY <1>1, <1>2, <2>1, <2>2, <2>3, CalmStep
<1> QED
  BY <1>3, <1>4, LogoutGrantedShape DEF QInv

LEMMA LeaveCalm ==
  ASSUME QInv, Calm, LogoutCall \/ LoopBreaks
  PROVE  Calm'
<1>1. PICK t \in {"user", "closer"} : tasks' = [tasks EXCEPT ![t].pc = "lmutex"] /\ tasks[t].pc = "idle"
  BY DEF LogoutCall, LoopBreaks, Call, Idle
<1>2. UNCHANGED <<battery, subscribed, logged_in, up, recent, nonce, authed>> /\ t \in Task /\ t # "keepalive"
  BY DEF LogoutCall, LoopBreaks, flags, ends, net, Task
<1>3. PICK w \in Record : Goes(t, w) /\ Turned(w, tasks[t], "lmutex", tasks[t].ans)
  BY <1>1, <1>2, LeaveShape DEF QInv
<1>4. ~LoggingOut(tasks[t]) /\ ~Out(tasks[t]) /\ CalmRecord(tasks[t])
  BY <1>1, <1>2, TaskRecord DEF Tidy, LoggingOut, Out, Calm, QInv
<1>5. CalmRecord(w)' /\ ~LoggingOut(w)
  BY <1>3, <1>4 DEF Turned, CalmRecord, LoggingIn, LoggingOut
<1>6. t = "user" => CalmUser(w)'
  BY <1>2, <1>3 DEF Turned, Calm, CalmKeepalive, CalmUser
<1> QED
  BY <1>2, <1>3, <1>4, <1>5, <1>6, CalmStep

-----------------------------------------------------------------------------
(* The user                                                                *)

LEMMA SubscribeCalm ==
  ASSUME RETRY_ATTEMPTS >= 2, QInv, Calm, Subscribe
  PROVE  Calm'
<1>1. /\ tasks["user"].pc = "idle" /\ "user" \in Task
      /\ UNCHANGED <<battery, logged_in, up, recent, nonce, authed>> /\ subscribed' = ~(battery /\ ~webhook)
  BY DEF Subscribe, Call, Idle, Task, ends, net
<1>2. \E op \in Ops : Send("user", op)
  BY Zenon DEF Subscribe, Ops
<1>3. ~battery => subscribed'
  BY <1>1, Zenon
<1> QED
  BY <1>1, <1>2, <1>3, SendsCalm

LEMMA WebhookCheckedCalm ==
  ASSUME RETRY_ATTEMPTS >= 2, QInv, Calm, WebhookChecked
  PROVE  Calm'
<1>1. /\ tasks["user"].pc = "next" /\ "user" \in Task
      /\ UNCHANGED <<battery, logged_in, up, recent, nonce, authed>>
  BY DEF WebhookChecked, Task, ends, net
<1>2. battery
  BY DEF WebhookChecked, QInv, IInv, Mains, Webhooks
<1>3. Goes("user", Fresh) \/ \E op \in Ops : Send("user", op)
  BY DEF WebhookChecked, Ops, Goes
<1>4. CASE Goes("user", Fresh)
  <2>1. Fresh \in Record /\ CalmRecord(Fresh)' /\ CalmUser(Fresh)' /\ ~LoggingOut(Fresh)
    BY IdleFields DEF CalmRecord, LoggingIn, LoggingOut, CalmUser
  <2>2. ~LoggingOut(tasks["user"]) /\ ~Out(tasks["user"])
    BY <1>1, CalmInside DEF Inside, LoggingOut
  <2> QED
    BY <1>1, <1>2, <1>4, <2>1, <2>2, CalmStep
<1>5. CASE \E op \in Ops : Send("user", op)
  BY <1>1, <1>2, <1>5, SendsCalm
<1> QED
  BY <1>3, <1>4, <1>5

\* Nobody but the keepalive and the user does anything, and they no longer send.
LEMMA CalmTwo ==
  ASSUME QInv, Calm, UNCHANGED <<logged_in, up, recent, nonce, authed>>,
         \A u \in Task \ {"keepalive", "user"} : tasks'[u] = tasks[u],
         \A u \in {"keepalive", "user"} :
            /\ ~LoggingOut(tasks[u]) /\ ~Out(tasks[u])
            /\ tasks'[u] = tasks[u] \/ (tasks'[u].cmd = "none" /\ tasks'[u].ans = "none" /\ tasks'[u].pc # "clear"),
         CalmKeepalive'
  PROVE  Calm'
<1>1. {"keepalive", "user"} \subseteq Task
  BY DEF Task
<1>2. \A u \in Task : LoggingOut(tasks[u]) \/ Out(tasks[u]) => tasks'[u] = tasks[u]
  OBVIOUS
<1>3. \A u \in Task : LoggingOut(tasks'[u]) => LoggingOut(tasks[u])
  BY DEF LoggingOut
<1>4. CalmNet'
  <2>1. logged_in' => up'
    BY DEF Calm, CalmNet
  <2>2. ASSUME logged_in', ~authed' PROVE \E u \in Task : LoggingOut(tasks'[u]) /\ tasks'[u].pc = "answered"
    <3>1. PICK u \in Task : LoggingOut(tasks[u]) /\ tasks[u].pc = "answered"
      BY <2>2 DEF Calm, CalmNet
    <3> QED
      BY <1>2, <3>1
  <2> QED
    BY <2>1, <2>2 DEF CalmNet
<1>5. CalmTime'
  <2>1. ASSUME recent', ~logged_in' PROVE \E u \in Task : Out(tasks'[u])
    <3>1. PICK u \in Task : Out(tasks[u])
      BY <2>1 DEF Calm, CalmTime
    <3> QED
      BY <1>2, <3>1
  <2> QED
    BY <2>1 DEF CalmTime
<1>6. ASSUME NEW u \in Task PROVE CalmRecord(tasks[u])'
  <2>1. NoLogout => NoLogout'
    BY <1>3 DEF NoLogout
  <2>2. CASE tasks'[u] = tasks[u]
    <3>1. CalmRecord(tasks[u])
      BY DEF Calm
    <3> QED
      BY <2>1, <2>2, <3>1 DEF CalmRecord, LoggingIn
  <2>3. CASE tasks'[u].cmd = "none" /\ tasks'[u].ans = "none" /\ tasks'[u].pc # "clear"
    BY <2>3 DEF CalmRecord, LoggingIn
  <2> QED
    BY <2>2, <2>3
<1> QED
  BY <1>4, <1>5, <1>6 DEF Calm

LEMMA SubscribedCalm ==
  ASSUME QInv, Calm, Subscribed
  PROVE  Calm'
<1>1. /\ tasks["user"].pc = "next" /\ tasks["user"].op = "subscribe" /\ {"keepalive", "user"} \subseteq Task
      /\ UNCHANGED <<battery, subscribed, logged_in, up, recent, nonce, authed>>
  BY DEF Subscribed, flags, ends, net, Task
<1>2. ~battery => subscribed /\ logged_in
  BY <1>1 DEF Calm, CalmKeepalive, CalmUser
<1>3. CalmKeepalive'
  <2>1. CalmUser(tasks["user"])'
    BY SubscribedShape, IdleFields DEF CalmUser, QInv
  <2>2. tasks'["keepalive"].pc # "idle" => ~battery' /\ subscribed' /\ logged_in'
    BY <1>1, <1>2, SubscribedShape DEF Calm, CalmKeepalive, QInv
  <2> QED
    BY <2>1, <2>2 DEF CalmKeepalive
<1>4. ASSUME tasks["keepalive"].pc = "idle" PROVE ~LoggingOut(tasks["keepalive"]) /\ ~Out(tasks["keepalive"])
  BY <1>1, <1>4, CalmInside DEF Inside, LoggingOut
<1>5. ~LoggingOut(tasks["user"]) /\ ~Out(tasks["user"])
  BY <1>1, CalmInside DEF Inside, LoggingOut
<1>6. ~LoggingOut(tasks["keepalive"]) /\ ~Out(tasks["keepalive"])
  <2>1. CASE Out(tasks["keepalive"]) \/ LoggingOut(tasks["keepalive"])
    <3>1. Out(tasks["keepalive"])
      BY <2>1 DEF Out, LoggingOut
    <3> QED
      BY <1>1, <1>4, <3>1, CalmLogout
  <2> QED
    BY <2>1
<1>7. /\ tasks'["user"].cmd = "none" /\ tasks'["user"].ans = "none" /\ tasks'["user"].pc # "clear"
      /\ \/ tasks'["keepalive"] = tasks["keepalive"]
         \/ tasks'["keepalive"].cmd = "none" /\ tasks'["keepalive"].ans = "none" /\ tasks'["keepalive"].pc # "clear"
  BY SubscribedShape, IdleFields DEF QInv
<1>8. \A u \in Task \ {"keepalive", "user"} : tasks'[u] = tasks[u]
  BY SubscribedShape DEF QInv
<1> QED
  BY <1>1, <1>3, <1>5, <1>6, <1>7, <1>8, CalmTwo

\* A keepalive that is cancelled was not in the middle of a login.
LEMMA UnsubscribedCalm ==
  ASSUME QInv, Calm, Unsubscribed, tasks["user"].pc \in {"idle", "next"}
  PROVE  Calm'
<1>1. UNCHANGED <<battery, logged_in, up, nonce, authed>> /\ {"keepalive", "user"} \subseteq Task
  BY DEF Unsubscribed, net, Task
<1>2. ~LoggingOut(tasks["user"]) /\ ~Out(tasks["user"])
  BY <1>1, CalmInside DEF Inside, LoggingOut
<1>3. ~LoggingOut(tasks["keepalive"]) /\ ~Out(tasks["keepalive"])
  <2>1. CASE Out(tasks["keepalive"]) \/ LoggingOut(tasks["keepalive"])
    <3>1. Out(tasks["keepalive"])
      BY <2>1 DEF Out, LoggingOut
    <3>2. tasks["keepalive"].pc = "idle"
      BY <1>1, <3>1, CalmLogout
    <3> QED
      BY <1>1, <2>1, <3>2, CalmInside DEF Inside, LoggingOut
  <2> QED
    BY <2>1
<1>4. recent' = recent
  <2>1. ASSUME mutex # << >>, Head(mutex) = "keepalive", tasks["keepalive"].pc # "mutex" PROVE FALSE
    <3>1. QueueOf(mutex, {u \in Task : InQueue(tasks[u])})
      BY DEF QInv, Queue
    <3>2. {u \in Task : InQueue(tasks[u])} # {}
      <4>1. mutex \in Seq({u \in Task : InQueue(tasks[u])})
        BY <3>1 DEF QueueOf
      <4> QED
        BY <2>1, <4>1
    <3>3. InQueue(tasks["keepalive"])
      BY <2>1, <3>1, <3>2, QueueHead
    <3>4. tasks["keepalive"].pc # "idle"
      BY <3>3 DEF InQueue, Inside
    <3>5. ~battery /\ logged_in
      BY <3>4 DEF Calm, CalmKeepalive
    <3>6. ~Leaving(tasks["keepalive"])
      BY <1>1, <3>5 DEF QInv, IInv, Mains
    <3>7. LoggingIn(tasks["keepalive"])
      BY <2>1, <3>3, <3>6 DEF InQueue, Inside, Leaving, LoggingIn
    <3> QED
      BY <1>1, <3>5, <3>7 DEF Calm, CalmRecord
  <2>2. recent' = (recent \/ (mutex # << >> /\ Head(mutex) = "keepalive" /\ tasks["keepalive"].pc # "mutex"))
    BY Zenon DEF Unsubscribed
  <2>3. recent \in BOOLEAN
    BY DEF QInv, Bounds
  <2> QED
    BY <2>1, <2>2, <2>3, Zenon
<1>5. /\ \A u \in Task \ {"keepalive", "user"} : tasks'[u] = tasks[u]
      /\ \A u \in {"keepalive", "user"} : tasks'[u].cmd = "none" /\ tasks'[u].ans = "none" /\ tasks'[u].pc # "clear"
  BY UnsubscribedShape, IdleFields DEF QInv
<1>6. CalmKeepalive'
  BY UnsubscribedShape, IdleFields DEF CalmKeepalive, CalmUser, QInv
<1> QED
  BY <1>1, <1>2, <1>3, <1>4, <1>5, <1>6, CalmTwo

LEMMA UnsubscribeCalm ==
  ASSUME RETRY_ATTEMPTS >= 2, QInv, Calm, Unsubscribe \/ WebhookOff
  PROVE  Calm'
<1>1. tasks["user"].pc \in {"idle", "next"} /\ "user" \in Task /\ "webhook_off" \in Ops
  BY DEF Unsubscribe, WebhookOff, Call, Idle, Task, Ops
<1>2. CASE Unsubscribed
  BY <1>1, <1>2, UnsubscribedCalm
<1>3. CASE webhook /\ Send("user", "webhook_off") /\ UNCHANGED <<flags, ends, logged_in, net>>
  <2>1. UNCHANGED <<battery, subscribed, logged_in, up, recent, nonce, authed>>
    BY <1>3 DEF flags, ends, net
  <2> QED
    BY <1>1, <1>3, <2>1, SendsCalm
<1> QED
  BY <1>2, <1>3 DEF Unsubscribe, WebhookOff

-----------------------------------------------------------------------------
\* No task moves.
LEMMA OthersCalm ==
  ASSUME Calm, \/ PushEvent \/ WebhookEvent \/ Later15 \/ UpdateEnds \/ UNCHANGED vars \/ Later60
  PROVE  Calm'
<1>1. UNCHANGED <<tasks, battery, subscribed, logged_in, up, nonce, authed>> /\ (recent' => recent)
  BY DEF PushEvent, WebhookEvent, Later15, UpdateEnds, vars, Later60, flags, ends, net
<1>2. CalmNet' /\ CalmTime' /\ CalmKeepalive'
  BY <1>1 DEF Calm, CalmNet, CalmTime, CalmKeepalive, CalmUser
<1>3. \A u \in Task : CalmRecord(tasks[u])'
  BY <1>1 DEF Calm, CalmRecord, LoggingIn, NoLogout
<1> QED
  BY <1>2, <1>3 DEF Calm

LEMMA CalmNext ==
  ASSUME RETRY_ATTEMPTS >= 2, QInv, CalmInv, [Next]_vars
  PROVE  CalmInv'
<1> SUFFICES ASSUME faults' = 0 PROVE Calm'
  BY DEF CalmInv
<1>1. ~Fault
  BY DEF Fault, QInv, Bounds
<1>2. faults' = faults
  BY <1>1 DEF Next, UserStep, ReestablishStep, KeepaliveStep, CloserStep, Step, Connect, Reply, Granted, NonceOk,
     LoginAgain, LoginOk, LoginFailed, LoginDenied, LoginRaises, Done, Again, LogoutGranted, Drained, Close, Clear,
     Begin, Reestablish, Wake, ConnectFails, Fails, WebhookChecked, Subscribed, WebhookOff, LoopBreaks, Subscribe,
     CheckRestarts, Unsubscribe, LogoutCall, Lost, PushEvent, WebhookEvent, Later15, Later60, UpdateBegins,
     UpdateEnds, vars
<1>3. Calm
  BY <1>2 DEF CalmInv
<1>4. CASE \E t \in Task : Step(t)
  <2>1. PICK t \in Task : Step(t)
    BY <1>4
  <2> QED
    BY <1>2, <1>3, <2>1, ConnectCalm, ReplyCalm, GrantedCalm, NonceOkCalm, LoginOkCalm, NoLoginFails, DoneCalm,
       AgainCalm, LogoutGrantedCalm, DrainedCalm, CloseCalm, ClearCalm DEF Step
<1>5. CASE (\E t \in Sender : Begin(t)) \/ Reestablish \/ Wake
  BY <1>3, <1>5, SendersCalm
<1>6. CASE WebhookChecked \/ Subscribed \/ WebhookOff \/ Unsubscribe \/ Subscribe
  BY <1>3, <1>6, WebhookCheckedCalm, SubscribedCalm, UnsubscribeCalm, SubscribeCalm
<1>7. CASE LogoutCall \/ LoopBreaks
  BY <1>3, <1>7, LeaveCalm
<1>8. CASE PushEvent \/ WebhookEvent \/ Later15 \/ UpdateEnds \/ UNCHANGED vars \/ Later60
  BY <1>3, <1>8, OthersCalm
<1>9. ~CheckRestarts /\ ~Lost /\ ~UpdateBegins /\ \A t \in Task : ~ConnectFails(t) /\ ~Fails(t)
  BY <1>1 DEF CheckRestarts, Lost, UpdateBegins, ConnectFails, Fails
<1>10. Sender \subseteq Task /\ {"user", "reestablish", "keepalive", "closer"} \subseteq Task
  BY DEF Task
<1> QED
  BY <1>4, <1>5, <1>6, <1>7, <1>8, <1>9, <1>10
     DEF Next, UserStep, ReestablishStep, KeepaliveStep, CloserStep

LEMMA CalmInit == Init => CalmInv
<1> SUFFICES ASSUME Init PROVE Calm
  BY DEF CalmInv
<1>1. \A t \in Task : tasks[t] = Fresh
  BY DEF Init
<1>2. CalmNet /\ CalmTime
  BY DEF Init, CalmNet, CalmTime
<1>3. \A t \in Task : CalmRecord(tasks[t])
  BY <1>1, IdleFields DEF CalmRecord, LoggingIn
<1>4. CalmKeepalive
  BY <1>1, IdleFields DEF CalmKeepalive, CalmUser, Task
<1> QED
  BY <1>2, <1>3, <1>4 DEF Calm

(* A logout, of the user or of the loop that spares the battery, costs no  *)
(* command of another task: whatever it cuts off is sent again, after a    *)
(* login that the 15 s between logins do not forbid.  With one attempt for *)
(* a command this does not hold, as TLC shows; the code takes more.        *)
THEOREM LogoutsCostNothing ==
  ASSUME RETRY_ATTEMPTS >= 2
  PROVE  Spec => []OnlyFaultsRaise
<1>1. Init => QInv /\ CalmInv
  BY QInit, CalmInit
<1>2. QInv /\ CalmInv /\ [Next]_vars => (QInv /\ CalmInv)'
  BY QNext, CalmNext
<1>3. QInv /\ CalmInv => OnlyFaultsRaise
  BY DEF QInv, Bounds, CalmInv, Calm, CalmRecord, OnlyFaultsRaise, Task
<1> QED
  BY <1>1, <1>2, <1>3, PTL DEF Spec

=============================================================================
