---------------------------- MODULE BcConnection ----------------------------
(***************************************************************************)
(* The connection below the Baichuan commands: BaichuanBaseConnection with *)
(* the TCP transport (connect, close, send, connection_lost).              *)
(*                                                                         *)
(* Commands are tasks of one event loop.  Each opens the connection if it  *)
(* is not open, registers a future for its response in the protocol        *)
(* object, writes and waits.  A mutex, granted in order of arrival, keeps  *)
(* connecting and writing apart.  The peer may close the connection at any *)
(* time, and so may a logout, by close().  A step runs from one await to   *)
(* the next; an await that does not suspend ends no step.                  *)
(*                                                                         *)
(* Time is abstract: what has a timeout may time out.  The peer answers a  *)
(* command at most once, and perhaps late.                                 *)
(***************************************************************************)
EXTENDS Integers, Sequences, FiniteSets

CONSTANTS Cmd,          \* the calls of send()
          Key,          \* their (cmd_id, full_mess_id)
          Cancellable,  \* the calls whose task may be cancelled
          MaxConns,     \* connections opened in a behaviour, at most
          MaxCloses,    \* calls of close() in a behaviour, at most
          Lingers       \* the connections that may have data to write when closed

ASSUME CmdAssumption == /\ IsFiniteSet(Cmd)
                        /\ DOMAIN Key = Cmd
                        /\ Cancellable \subseteq Cmd
ASSUME MaxConnsAssumption == MaxConns \in Nat
ASSUME MaxClosesAssumption == MaxCloses \in Nat
ASSUME LingersAssumption == Lingers \subseteq 1..MaxConns

VARIABLES
  current,   \* the connection of _transport and _protocol, 0 for None
  made,      \* number of connections made
  tr,        \* state of the transport of every connection
  closeFut,  \* close_future of every protocol object
  lock,      \* the tasks at _mutex: its holder, then those that wait
  pc,        \* where every call is
  reg,       \* the connection whose receive_futures has its future, 0 for none
  fut,       \* that future
  waits,     \* the call whose future it waits on
  on,        \* the connection it was written on, until answered, 0 for none
  closing,   \* the connection whose close_future close() waits on, 0 for none
  closes,    \* number of calls of close() made
  closed     \* history: the connections close() was called for and has ended

connVars == <<current, made, tr, closeFut>>
futVars == <<reg, fut, waits, on>>
closeVars == <<closing, closes, closed>>
vars == <<connVars, lock, pc, futVars, closeVars>>

Conn == 1..MaxConns

CallState == {"idle",    \* not made yet
              "drain",   \* connect: waits for the futures of the last connection
              "lock",    \* connect: waits for the mutex
              "create",  \* connect: has the mutex, _create_connection
              "twin",    \* send: waits for a call with the same key
              "write",   \* send: registered, waits for the mutex
              "wait",    \* send: written, waits for its response
              "done", "failed"}

Init == /\ current = 0
        /\ made = 0
        /\ tr = [i \in Conn |-> "none"]
        /\ closeFut = [i \in Conn |-> "pending"]
        /\ lock = <<>>
        /\ pc = [c \in Cmd |-> "idle"]
        /\ reg = [c \in Cmd |-> 0]
        /\ fut = [c \in Cmd |-> "none"]
        /\ waits = [c \in Cmd |-> c]
        /\ on = [c \in Cmd |-> 0]
        /\ closing = 0
        /\ closes = 0
        /\ closed = {}

-----------------------------------------------------------------------------
(* The futures of a protocol object *)

connection_open == current # 0 /\ tr[current] = "open"

(* The calls with a future in receive_futures of connection i. *)
receive_futures(i) == {c \in Cmd : i # 0 /\ reg[c] = i}

(* The call, if any, that is found there under the key of call c. *)
Entry(c, i) == {d \in receive_futures(i) : Key[d] = Key[c]}

(* What becomes of the futures of connection i when all get an exception. *)
Failed(i) == [c \in Cmd |-> IF c \in receive_futures(i) /\ fut[c] = "pending"
                              THEN "error" ELSE fut[c]]

(* Mutant of Unregister: the entry stays when its future is done. *)
UnregisterPending(c) ==
  LET left == {d \in Entry(c, current) : fut[d] = "pending"}
  IN /\ reg' = [d \in Cmd |-> IF d \in left THEN 0 ELSE reg[d]]
     /\ fut' = [d \in Cmd |-> IF d \in left THEN "cancelled" ELSE fut[d]]

(* send() ends: the entry under its key in the protocol object that is     *)
(* current now is removed, and cancelled if it is still pending.           *)
Unregister(c) ==
  LET left == Entry(c, current)
  IN /\ reg' = [d \in Cmd |-> IF d \in left THEN 0 ELSE reg[d]]
     /\ fut' = [d \in Cmd |-> IF d \in left /\ fut[d] = "pending" THEN "cancelled" ELSE fut[d]]

-----------------------------------------------------------------------------
(* connect() *)

(* Mutant of ToConnect: the mutex is not waited for. *)
ToConnectUnlocked(c) == /\ lock' = Append(lock, c)
                        /\ pc' = [pc EXCEPT ![c] = "create"]

(* Task c joins the tasks at the mutex; alone there, it has it. *)
ToConnect(c) == /\ lock' = Append(lock, c)
                /\ pc' = [pc EXCEPT ![c] = IF lock = <<>> THEN "create" ELSE "lock"]

(* send() registers the future of call c with connection i, then writes if *)
(* the mutex, with the tasks q at it, is free.  Without a connection the   *)
(* registration is lost and the write fails.                               *)
Issue(c, i, q) ==
  /\ reg' = [reg EXCEPT ![c] = i]
  /\ fut' = [fut EXCEPT ![c] = "pending"]
  /\ waits' = [waits EXCEPT ![c] = c]
  /\ IF q = <<>>
       THEN /\ pc' = [pc EXCEPT ![c] = IF i = 0 THEN "failed" ELSE "wait"]
            /\ on' = [on EXCEPT ![c] = i]
            /\ lock' = q
       ELSE /\ pc' = [pc EXCEPT ![c] = "write"]
            /\ on' = on
            /\ lock' = Append(q, c)

(* send() on the open connection: it may have to wait for a twin. *)
StartSend(c, q) ==
  \/ /\ Entry(c, current) = {}
     /\ Issue(c, current, q)
  \/ /\ \E d \in Entry(c, current) : waits' = [waits EXCEPT ![c] = d]
     /\ pc' = [pc EXCEPT ![c] = "twin"]
     /\ lock' = q
     /\ UNCHANGED <<reg, fut, on>>

(* The connection is open. *)
CallOpen(c) == /\ pc[c] = "idle"
               /\ connection_open
               /\ StartSend(c, lock)
               /\ UNCHANGED <<connVars, closeVars>>

(* It is not, and calls of the last connection still have to fail. *)
CallDrain(c) == /\ pc[c] = "idle"
                /\ ~connection_open
                /\ receive_futures(current) # {}
                /\ pc' = [pc EXCEPT ![c] = "drain"]
                /\ UNCHANGED <<connVars, lock, futVars, closeVars>>

CallConnect(c) == /\ pc[c] = "idle"
                  /\ ~connection_open
                  /\ receive_futures(current) = {}
                  /\ ToConnect(c)
                  /\ UNCHANGED <<connVars, futVars, closeVars>>

(* The wait is over.  A mutex that is free is taken at once, and then the  *)
(* connection may turn out to be open again.                               *)
AfterDrain(c) == \/ /\ lock = <<>> /\ connection_open
                    /\ StartSend(c, lock)
                 \/ /\ lock # <<>> \/ ~connection_open
                    /\ ToConnect(c)
                    /\ UNCHANGED futVars

Drained(c) == /\ pc[c] = "drain"
              /\ receive_futures(current) = {}
              /\ AfterDrain(c)
              /\ UNCHANGED <<connVars, closeVars>>

(* They do not fail in time: connect() goes on all the same. *)
DrainTimeout(c) == /\ pc[c] = "drain"
                   /\ receive_futures(current) # {}
                   /\ AfterDrain(c)
                   /\ UNCHANGED <<connVars, closeVars>>

(* Task c has the mutex. *)
HasLock(c) == lock # <<>> /\ Head(lock) = c

(* Mutant of LockedOpen: the connection is not looked at again. *)
LockedAnyway(c) == /\ pc[c] = "lock"
                   /\ HasLock(c)
                   /\ connection_open
                   /\ pc' = [pc EXCEPT ![c] = "create"]
                   /\ UNCHANGED <<connVars, lock, futVars, closeVars>>

(* The connection was opened in the meantime. *)
LockedOpen(c) == /\ pc[c] = "lock"
                 /\ HasLock(c)
                 /\ connection_open
                 /\ StartSend(c, Tail(lock))
                 /\ UNCHANGED <<connVars, closeVars>>

Locked(c) == /\ pc[c] = "lock"
             /\ HasLock(c)
             /\ ~connection_open
             /\ pc' = [pc EXCEPT ![c] = "create"]
             /\ UNCHANGED <<connVars, lock, futVars, closeVars>>

(* A new connection.  Unless data is left to write, close() of the last    *)
(* one takes two turns of the event loop and ends before.  (Errors on the  *)
(* way are in ConnectFails.)                                               *)
Created(c) == /\ pc[c] = "create"
              /\ made < MaxConns
              /\ closing \in {0} \union Lingers
              /\ made' = made + 1
              /\ tr' = [tr EXCEPT ![made + 1] = "open"]
              /\ current' = made + 1
              /\ Issue(c, made + 1, Tail(lock))
              /\ UNCHANGED <<closeFut, closeVars>>

(* Task c leaves the tasks at the mutex. *)
Leave(c) == \E k \in DOMAIN lock :
  lock[k] = c /\ lock' = SubSeq(lock, 1, k - 1) \o SubSeq(lock, k + 1, Len(lock))

(* No connection within the timeout, or an error, or the task is cancelled. *)
ConnectFails(c) == /\ pc[c] \in {"lock", "create"}
                   /\ pc' = [pc EXCEPT ![c] = "failed"]
                   /\ Leave(c)
                   /\ UNCHANGED <<connVars, futVars, closeVars>>

-----------------------------------------------------------------------------
(* send() *)

(* The twin's future is done and its entry is gone. *)
TwinDone(c) == /\ pc[c] = "twin"
               /\ fut[waits[c]] \in {"answer", "error"}
               /\ Entry(c, current) = {}
               /\ Issue(c, current, lock)
               /\ UNCHANGED <<connVars, closeVars>>

(* Another entry stays under the key until the time to wait is over; the   *)
(* time of the twin was over before.                                       *)
TwinTimeout(c) == /\ pc[c] = "twin"
                  /\ fut[waits[c]] \in {"answer", "error"}
                  /\ Entry(c, current) # {}
                  /\ pc' = [pc EXCEPT ![c] = "failed"]
                  /\ UNCHANGED <<connVars, lock, futVars, closeVars>>

(* The twin timed out or was cancelled and its future with it: so ends the *)
(* call, as "except Exception" does not catch a CancelledError.            *)
TwinCancelled(c) == /\ pc[c] = "twin"
                    /\ fut[waits[c]] = "cancelled"
                    /\ pc' = [pc EXCEPT ![c] = "failed"]
                    /\ UNCHANGED <<connVars, lock, futVars, closeVars>>

(* The mutex is free: write on the connection that is current now, and     *)
(* wait on the future found there under the key of the call.               *)
WriteFound(c) == /\ pc[c] = "write"
                 /\ HasLock(c)
                 /\ lock' = Tail(lock)
                 /\ on' = [on EXCEPT ![c] = current]
                 /\ \E d \in Entry(c, current) : waits' = [waits EXCEPT ![c] = d]
                 /\ pc' = [pc EXCEPT ![c] = "wait"]
                 /\ UNCHANGED <<connVars, reg, fut, closeVars>>

(* There is no connection any more, or another one, where no future is     *)
(* found: ReolinkConnectionError, or KeyError after the write.             *)
WriteLost(c) == /\ pc[c] = "write"
                /\ HasLock(c)
                /\ Entry(c, current) = {}
                /\ lock' = Tail(lock)
                /\ on' = [on EXCEPT ![c] = current]
                /\ pc' = [pc EXCEPT ![c] = "failed"]
                /\ UNCHANGED <<connVars, reg, fut, waits, closeVars>>

(* The future waited on is done. *)
Resume(c) == /\ pc[c] = "wait"
             /\ fut[waits[c]] # "pending"
             /\ pc' = [pc EXCEPT ![c] = IF fut[waits[c]] = "answer" THEN "done" ELSE "failed"]
             /\ Unregister(c)
             /\ UNCHANGED <<connVars, lock, waits, on, closeVars>>

(* A future that a task waits on is cancelled with the task. *)
CancelWaited(c) == fut' = [fut EXCEPT ![waits[c]] = IF @ = "pending" THEN "cancelled" ELSE @]

(* The timeout of the call, or its task is cancelled, while it waits on a *)
(* future ...                                                             *)
WaitEnds(c) == /\ pc[c] = "wait"
               /\ fut[waits[c]] = "pending"
               /\ pc' = [pc EXCEPT ![c] = "failed"]
               /\ LET left == Entry(c, current) \union {waits[c]}
                  IN fut' = [d \in Cmd |-> IF d \in left /\ fut[d] = "pending"
                                             THEN "cancelled" ELSE fut[d]]
               /\ reg' = [d \in Cmd |-> IF d \in Entry(c, current) THEN 0 ELSE reg[d]]
               /\ UNCHANGED <<connVars, lock, waits, on, closeVars>>

(* ... or for the mutex. *)
WriteEnds(c) == /\ pc[c] = "write"
                /\ pc' = [pc EXCEPT ![c] = "failed"]
                /\ Leave(c)
                /\ Unregister(c)
                /\ UNCHANGED <<connVars, waits, on, closeVars>>

(* The task is cancelled while it waits for something else. *)
CancelConnect(c) == /\ c \in Cancellable
                    /\ pc[c] = "drain"
                    /\ pc' = [pc EXCEPT ![c] = "failed"]
                    /\ UNCHANGED <<connVars, lock, futVars, closeVars>>

CancelTwin(c) == /\ c \in Cancellable
                 /\ pc[c] = "twin"
                 /\ pc' = [pc EXCEPT ![c] = "failed"]
                 /\ CancelWaited(c)
                 /\ UNCHANGED <<connVars, lock, reg, waits, on, closeVars>>

-----------------------------------------------------------------------------
(* What arrives *)

(* The response to call c, or an error status, for the future under its    *)
(* key.  (Without one, or with one that is done, it changes nothing.)      *)
Answer(c) == /\ on[c] # 0
             /\ tr[on[c]] = "open"
             /\ \E d \in Entry(c, on[c]) : fut[d] = "pending"
             /\ on' = [on EXCEPT ![c] = 0]
             /\ \E r \in {"answer", "error"} :
                  fut' = [d \in Cmd |-> IF d \in Entry(c, on[c]) /\ fut[d] = "pending"
                                          THEN r ELSE fut[d]]
             /\ UNCHANGED <<connVars, lock, pc, reg, waits, closeVars>>

(* Data without a magic header: every future gets an exception ... *)
Garbage(i) == /\ tr[i] = "open"
              /\ \A c \in receive_futures(i) : fut[c] = "pending"
              /\ fut' = Failed(i)
              /\ UNCHANGED <<connVars, lock, pc, reg, waits, on, closeVars>>

(* ... up to one that is done, which raises an InvalidStateError that      *)
(* makes the transport close.                                              *)
GarbageRaises(i) ==
  /\ tr[i] = "open"
  /\ \E c \in receive_futures(i) : fut[c] # "pending"
  /\ \E before \in SUBSET receive_futures(i) :
       fut' = [c \in Cmd |-> IF c \in before THEN Failed(i)[c] ELSE fut[c]]
  /\ tr' = [tr EXCEPT ![i] = "closing"]
  /\ UNCHANGED <<current, made, closeFut, lock, pc, reg, waits, on, closeVars>>

PeerCloses(i) == /\ tr[i] = "open"
                 /\ tr' = [tr EXCEPT ![i] = "closing"]
                 /\ UNCHANGED <<current, made, closeFut, lock, pc, futVars, closeVars>>

(* Mutant of connection_lost: the calls are not told. *)
LostSilently(i) == /\ tr[i] = "closing"
                   /\ tr' = [tr EXCEPT ![i] = "lost"]
                   /\ closeFut' = [closeFut EXCEPT ![i] = IF @ = "pending" THEN "set" ELSE @]
                   /\ UNCHANGED <<current, made, lock, pc, futVars, closeVars>>

(* The transport reports the end of connection i.  (If close_future is     *)
(* done, setting it raises an InvalidStateError, which nobody sees.)       *)
connection_lost(i) ==
  /\ tr[i] = "closing"
  /\ tr' = [tr EXCEPT ![i] = "lost"]
  /\ fut' = Failed(i)
  /\ closeFut' = [closeFut EXCEPT ![i] = IF @ = "pending" THEN "set" ELSE @]
  /\ UNCHANGED <<current, made, lock, pc, reg, waits, on, closeVars>>

-----------------------------------------------------------------------------
(* close() *)

(* close() for a connection that is lost: there is nothing to wait for. *)
CloseLost == /\ closing = 0
             /\ closes < MaxCloses
             /\ current # 0
             /\ closeFut[current] = "set"
             /\ closes' = closes + 1
             /\ closed' = closed \union {current}
             /\ current' = 0
             /\ UNCHANGED <<made, tr, closeFut, lock, pc, futVars, closing>>

StartClose == /\ closing = 0
              /\ closes < MaxCloses
              /\ current # 0
              /\ closeFut[current] = "pending"
              /\ closes' = closes + 1
              /\ closing' = current
              /\ tr' = [tr EXCEPT ![current] = IF @ = "open" THEN "closing" ELSE @]
              /\ UNCHANGED <<current, made, closeFut, lock, pc, futVars, closed>>

(* close_future is set: transport and protocol are forgotten. *)
EndClose == /\ closing # 0
            /\ closeFut[closing] = "set"
            /\ current' = 0
            /\ closing' = 0
            /\ closed' = closed \union {closing}
            /\ UNCHANGED <<made, tr, closeFut, lock, pc, futVars, closes>>

(* It is not set in time.  The timeout cancels the future close() waits on *)
(* and connection_lost is called for the protocol object that is current:  *)
(* the same one has a close_future that cannot be set any more, so close() *)
(* raises an InvalidStateError; a newer one is treated as if it were lost. *)
CloseTimeout == /\ closing \in Lingers
                /\ current # 0
                /\ closeFut[closing] = "pending"
                /\ fut' = Failed(current)
                /\ closeFut' = [i \in Conn |-> IF i = closing THEN "cancelled"
                                               ELSE IF i = current /\ closeFut[i] = "pending"
                                               THEN "set" ELSE closeFut[i]]
                /\ current' = IF current = closing THEN current ELSE 0
                /\ closing' = 0
                /\ closed' = closed \union {closing}
                /\ UNCHANGED <<made, tr, lock, pc, reg, waits, on, closes>>

-----------------------------------------------------------------------------
CallStep(c) == \/ CallOpen(c)
               \/ CallDrain(c)
               \/ CallConnect(c)
               \/ Drained(c)
               \/ DrainTimeout(c)
               \/ LockedOpen(c)
               \/ Locked(c)
               \/ Created(c)
               \/ ConnectFails(c)
               \/ TwinDone(c)
               \/ TwinTimeout(c)
               \/ TwinCancelled(c)
               \/ WriteFound(c)
               \/ WriteLost(c)
               \/ Resume(c)
               \/ WaitEnds(c)
               \/ WriteEnds(c)
               \/ CancelConnect(c)
               \/ CancelTwin(c)
               \/ Answer(c)

ConnStep(i) == \/ Garbage(i)
               \/ GarbageRaises(i)
               \/ PeerCloses(i)
               \/ connection_lost(i)

Next == \/ \E c \in Cmd : CallStep(c)
        \/ \E i \in Conn : ConnStep(i)
        \/ CloseLost
        \/ StartClose
        \/ EndClose
        \/ CloseTimeout

Spec == Init /\ [][Next]_vars

(* The event loop runs what is ready and lets timeouts fire, but for the   *)
(* timeout of the wait for the futures of the last connection.             *)
FairSpec == /\ Spec
            /\ \A c \in Cmd : WF_vars(\/ Drained(c)
                                      \/ LockedOpen(c)
                                      \/ Locked(c)
                                      \/ ConnectFails(c)
                                      \/ TwinDone(c)
                                      \/ TwinTimeout(c)
                                      \/ TwinCancelled(c)
                                      \/ WriteFound(c)
                                      \/ WriteLost(c)
                                      \/ Resume(c)
                                      \/ WaitEnds(c))

-----------------------------------------------------------------------------
(* Properties *)

TypeOK == /\ current \in 0..made
          /\ made \in 0..MaxConns
          /\ tr \in [Conn -> {"none", "open", "closing", "lost"}]
          /\ closeFut \in [Conn -> {"pending", "set", "cancelled"}]
          /\ lock \in Seq(Cmd)
          /\ pc \in [Cmd -> CallState]
          /\ reg \in [Cmd -> 0..made]
          /\ fut \in [Cmd -> {"none", "pending", "answer", "error", "cancelled"}]
          /\ waits \in [Cmd -> Cmd]
          /\ on \in [Cmd -> 0..made]
          /\ closing \in 0..made
          /\ closes \in 0..MaxCloses
          /\ closed \subseteq Conn
          /\ \A c \in Cmd : pc[c] = "create" => HasLock(c)

(* However connecting, closing and losing the connection interleave, no    *)
(* open connection is out of reach: at most one is open, the current one.  *)
(* (Not so after a connection that lingers was closed and replaced.)       *)
OneConnection == \A i \in Conn : tr[i] = "open" => i = current

(* No call waits for a response on a connection that is lost: the loss of  *)
(* a connection reaches every call that wrote on it, however late it did.  *)
(* (A call that waited for its twin may write on a lost connection.)       *)
NobodyLeft == \A c \in Cmd :
  (pc[c] = "wait" /\ \A d \in Cmd \ {c} : Key[d] # Key[c]) =>
    /\ waits[c] = c
    /\ fut[c] = "pending" => tr[reg[c]] # "lost"

(* "close the connection and wait untill close is complete": when close() *)
(* has ended, the connection it was called for is forgotten.              *)
ClosedIsForgotten == current \notin closed

(* Calls do not wait for ever for those of the last connection to fail,    *)
(* even if that wait had no timeout: these do not in turn wait for them.   *)
DrainEnds == (\E c \in Cmd : pc[c] = "drain") ~> (\A c \in Cmd : pc[c] # "drain")
=============================================================================
