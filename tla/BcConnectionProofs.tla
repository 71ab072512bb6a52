------------------------- MODULE BcConnectionProofs -------------------------
(***************************************************************************)
(* Proofs about BcConnection, for any calls, keys and number of            *)
(* connections.                                                            *)
(***************************************************************************)
EXTENDS BcConnection, TLAPS

USE CmdAssumption, MaxConnsAssumption, MaxClosesAssumption, LingersAssumption

FutState == {"none", "pending", "answer", "error", "cancelled"}

(* Who creates a connection has the mutex. *)
Creator == \A c \in Cmd : pc[c] = "create" => HasLock(c)

(* The types of what a step of a call changes. *)
CallType == /\ lock \in Seq(Cmd)
            /\ pc \in [Cmd -> CallState]
            /\ reg \in [Cmd -> 0..made]
            /\ fut \in [Cmd -> FutState]
            /\ waits \in [Cmd -> Cmd]
            /\ on \in [Cmd -> 0..made]
            /\ Creator

(* The types of what a step of a connection or of close() changes. *)
ConnType == /\ current \in 0..made
            /\ made \in 0..MaxConns
            /\ tr \in [Conn -> {"none", "open", "closing", "lost"}]
            /\ closeFut \in [Conn -> {"pending", "set", "cancelled"}]
            /\ closing \in 0..made
            /\ closes \in 0..MaxCloses
            /\ closed \subseteq Conn

LEMMA TypeSplit == TypeOK <=> ConnType /\ CallType
  BY DEF TypeOK, ConnType, CallType, Creator, FutState

-----------------------------------------------------------------------------
(* The mutex *)

(* A task that joins the others does not take the mutex from its holder. *)
LEMMA AppendKeepsHolder ==
  ASSUME NEW q \in Seq(Cmd), NEW c \in Cmd
  PROVE  /\ Append(q, c) \in Seq(Cmd)
         /\ Append(q, c) # <<>>
         /\ q # <<>> => Head(Append(q, c)) = Head(q)
         /\ q = <<>> => Head(Append(q, c)) = c
  OBVIOUS

(* The head of a concatenation. *)
LEMMA HeadOfConcat ==
  ASSUME NEW s \in Seq(Cmd), NEW t \in Seq(Cmd), Len(s) >= 1
  PROVE  s \o t # <<>> /\ Head(s \o t) = s[1]
<1>1. s \o t \in Seq(Cmd) /\ Len(s \o t) = Len(s) + Len(t)
  OBVIOUS
<1>2. (s \o t)[1] = s[1]
  OBVIOUS
<1>3. Len(s \o t) >= 1
  BY <1>1
<1> QED
  BY <1>1, <1>2, <1>3

(* Neither does one that leaves. *)
LEMMA LeaveKeepsHolder ==
  ASSUME lock \in Seq(Cmd), NEW d \in Cmd, Leave(d)
  PROVE  /\ lock' \in Seq(Cmd)
         /\ \A c \in Cmd \ {d} : HasLock(c) => HasLock(c)'
<1>1. PICK k \in DOMAIN lock :
        lock[k] = d /\ lock' = SubSeq(lock, 1, k - 1) \o SubSeq(lock, k + 1, Len(lock))
  BY Zenon DEF Leave
<1> DEFINE s == SubSeq(lock, 1, k - 1)
           t == SubSeq(lock, k + 1, Len(lock))
<1>2. k \in 1..Len(lock)
  OBVIOUS
<1>3. s \in Seq(Cmd) /\ t \in Seq(Cmd) /\ Len(s) = k - 1
  BY <1>2
<1>4. lock' \in Seq(Cmd)
  <2> HIDE DEF s, t
  <2> QED
    BY <1>1, <1>3 DEF s, t
<1>5. ASSUME NEW c \in Cmd \ {d}, HasLock(c) PROVE HasLock(c)'
  <2>1. lock[1] = c /\ k > 1
    BY <1>1, <1>2, <1>5 DEF HasLock
  <2>2. s[1] = c /\ Len(s) >= 1
    BY <1>2, <1>3, <2>1
  <2>3. s \o t # <<>> /\ Head(s \o t) = c
    <3> HIDE DEF s, t
    <3> QED
      BY <1>3, <2>2, HeadOfConcat
  <2> QED
    BY <1>1, <2>3 DEF HasLock
<1> QED
  BY <1>4, <1>5

(* A call that has the mutex is the only one that creates a connection. *)
LEMMA OneCreator ==
  ASSUME Creator, NEW c \in Cmd, HasLock(c), NEW d \in Cmd \ {c}
  PROVE  pc[d] # "create"
  BY DEF Creator, HasLock
-----------------------------------------------------------------------------
(* Type correctness *)

(* The tasks left at the mutex when call c writes: all that were there, or *)
(* all but c, which had it.                                                *)
Others(c, q) == q = lock \/ (HasLock(c) /\ q = Tail(lock))

LEMMA OthersType ==
  ASSUME lock \in Seq(Cmd), NEW c, NEW q, Others(c, q)
  PROVE  q \in Seq(Cmd)
  BY DEF Others, HasLock

(* A step of call c that ends elsewhere and leaves the tasks q, or adds c  *)
(* to them, leaves who has the mutex in peace.                             *)
LEMMA CreatorStays ==
  ASSUME TypeOK, NEW c \in Cmd, NEW q, Others(c, q),
         NEW v \in CallState \ {"create"}, pc' = [pc EXCEPT ![c] = v],
         lock' = q \/ (q # <<>> /\ lock' = Append(q, c))
  PROVE  Creator'
<1>1. SUFFICES ASSUME NEW d \in Cmd, pc'[d] = "create" PROVE HasLock(d)'
  BY DEF Creator
<1>2. d # c /\ pc[d] = "create"
  BY <1>1 DEF TypeOK
<1>3. HasLock(d)
  BY <1>2, TypeSplit DEF CallType, Creator
<1>4. q = lock
  BY <1>2, <1>3 DEF Others, HasLock
<1>5. q \in Seq(Cmd)
  BY <1>4 DEF TypeOK
<1> QED
  BY <1>3, <1>4, <1>5, AppendKeepsHolder DEF HasLock

LEMMA IssueType ==
  ASSUME TypeOK, NEW c \in Cmd, NEW i \in 0..made', made' \in Nat, made <= made',
         NEW q, Others(c, q), Issue(c, i, q)
  PROVE  CallType'
<1>1. q \in Seq(Cmd)
  BY OthersType DEF TypeOK
<1>2. lock' \in Seq(Cmd) /\ (lock' = q \/ (q # <<>> /\ lock' = Append(q, c)))
  <2>1. lock' = q \/ (q # <<>> /\ lock' = Append(q, c))
    BY Zenon DEF Issue
  <2> QED
    BY <1>1, <2>1, AppendKeepsHolder
<1>3. PICK v \in {"failed", "wait", "write"} : pc' = [pc EXCEPT ![c] = v]
  BY DEF Issue
<1>4. Creator'
  BY <1>2, <1>3, CreatorStays DEF CallState
<1>5. pc' \in [Cmd -> CallState]
  BY <1>3 DEF TypeOK, CallState
<1>6. made \in Nat /\ 0..made \subseteq 0..made'
  BY DEF TypeOK
<1>7. reg' \in [Cmd -> 0..made']
  <2>1. reg' = [reg EXCEPT ![c] = i]
    BY DEF Issue
  <2>2. reg \in [Cmd -> 0..made']
    BY <1>6 DEF TypeOK
  <2> QED
    BY <2>1, <2>2
<1>8. on' \in [Cmd -> 0..made']
  <2>1. on' = on \/ on' = [on EXCEPT ![c] = i]
    BY DEF Issue
  <2>2. on \in [Cmd -> 0..made']
    BY <1>6 DEF TypeOK
  <2> QED
    BY <2>1, <2>2
<1>9. fut' \in [Cmd -> FutState] /\ waits' \in [Cmd -> Cmd]
  BY DEF Issue, TypeOK, FutState
<1> QED
  BY <1>2, <1>4, <1>5, <1>7, <1>8, <1>9 DEF CallType

LEMMA StartSendType ==
  ASSUME TypeOK, NEW c \in Cmd, NEW q, Others(c, q), StartSend(c, q), made' = made
  PROVE  CallType'
<1>1. CASE Issue(c, current, q)
  <2>1. current \in 0..made' /\ made' \in Nat /\ made <= made'
    BY DEF TypeOK
  <2> QED
    BY <1>1, <2>1, IssueType
<1>2. CASE ~Issue(c, current, q)
  <2>1. PICK d \in Cmd : waits' = [waits EXCEPT ![c] = d]
    BY <1>2 DEF StartSend, Entry, receive_futures
  <2>2. /\ pc' = [pc EXCEPT ![c] = "twin"]
        /\ lock' = q
        /\ UNCHANGED <<reg, fut, on>>
    BY <1>2 DEF StartSend
  <2>3. Creator'
    BY <2>2, CreatorStays DEF CallState
  <2>4. lock' \in Seq(Cmd)
    BY <2>2, OthersType DEF TypeOK
  <2> QED
    BY <2>1, <2>2, <2>3, <2>4 DEF CallType, TypeOK, CallState, FutState
<1> QED
  BY <1>1, <1>2

LEMMA ToConnectType ==
  ASSUME TypeOK, NEW c \in Cmd, pc[c] # "create", ToConnect(c), UNCHANGED <<made, futVars>>
  PROVE  CallType'
<1>1. lock' \in Seq(Cmd)
  BY AppendKeepsHolder DEF ToConnect, TypeOK
<1>2. pc' \in [Cmd -> CallState]
  BY DEF ToConnect, TypeOK, CallState
<1>3. ASSUME NEW d \in Cmd, pc'[d] = "create" PROVE HasLock(d)'
  <2>1. CASE d = c
    <3>1. lock = <<>>
      BY <1>3, <2>1 DEF ToConnect, TypeOK
    <3> QED
      BY <2>1, <3>1, AppendKeepsHolder DEF ToConnect, HasLock, TypeOK
  <2>2. CASE d # c
    <3>1. HasLock(d)
      BY <1>3, <2>2 DEF ToConnect, TypeOK
    <3> QED
      BY <3>1, AppendKeepsHolder DEF ToConnect, HasLock, TypeOK
  <2> QED
    BY <2>1, <2>2
<1> QED
  BY <1>1, <1>2, <1>3 DEF CallType, Creator, TypeOK, futVars, FutState

(* The calls of which an entry is removed. *)
LEMMA UnregisterType ==
  ASSUME TypeOK, NEW c \in Cmd, Unregister(c)
  PROVE  reg' \in [Cmd -> 0..made] /\ fut' \in [Cmd -> FutState]
<1>1. made \in Nat
  BY DEF TypeOK
<1> QED
  BY <1>1 DEF Unregister, TypeOK, FutState
(* A call that ends leaves the mutex to the others. *)
LEMMA LeaveType ==
  ASSUME TypeOK, NEW c \in Cmd, Leave(c), pc' = [pc EXCEPT ![c] = "failed"]
  PROVE  lock' \in Seq(Cmd) /\ Creator'
<1>1. lock \in Seq(Cmd)
  BY DEF TypeOK
<1>2. lock' \in Seq(Cmd) /\ \A d \in Cmd \ {c} : HasLock(d) => HasLock(d)'
  BY <1>1, LeaveKeepsHolder
<1>3. ASSUME NEW d \in Cmd, pc'[d] = "create" PROVE HasLock(d)'
  <2>1. d # c /\ pc[d] = "create"
    BY <1>3 DEF TypeOK
  <2> QED
    BY <1>2, <2>1, TypeSplit DEF CallType, Creator
<1> QED
  BY <1>2, <1>3 DEF Creator

(* A step of call c that leaves the mutex alone, or gives it up. *)
LEMMA MoveType ==
  ASSUME TypeOK, NEW c \in Cmd, NEW v \in CallState \ {"create"}, pc' = [pc EXCEPT ![c] = v],
         NEW q, Others(c, q), lock' = q
  PROVE  lock' \in Seq(Cmd) /\ pc' \in [Cmd -> CallState] /\ Creator'
<1>1. Creator'
  BY CreatorStays
<1>2. lock' \in Seq(Cmd)
  BY OthersType DEF TypeOK
<1> QED
  BY <1>1, <1>2 DEF TypeOK

LEMMA ConnectingType ==
  ASSUME TypeOK, NEW c \in Cmd, \/ CallDrain(c) \/ CallConnect(c) \/ Drained(c)
                                \/ DrainTimeout(c) \/ Locked(c) \/ ConnectFails(c)
                                \/ CancelConnect(c)
  PROVE  CallType' /\ UNCHANGED <<connVars, closeVars>>
<1>1. CASE CallConnect(c)
  BY <1>1, ToConnectType DEF CallConnect, connVars
<1>5. CASE Drained(c) \/ DrainTimeout(c)
  <2>1. /\ pc[c] = "drain"
        /\ AfterDrain(c)
        /\ UNCHANGED <<connVars, closeVars>>
        /\ made' = made
    BY <1>5 DEF Drained, DrainTimeout, connVars
  <2>2. CASE StartSend(c, lock)
    BY <2>1, <2>2, StartSendType DEF Others
  <2>3. CASE ToConnect(c) /\ UNCHANGED futVars
    BY <2>1, <2>3, ToConnectType
  <2> QED
    BY <2>1, <2>2, <2>3 DEF AfterDrain
<1>2. CASE CallDrain(c) \/ CancelConnect(c)
  <2>1. /\ pc' = [pc EXCEPT ![c] = "drain"] \/ pc' = [pc EXCEPT ![c] = "failed"]
        /\ UNCHANGED <<connVars, lock, futVars, closeVars>>
    BY <1>2 DEF CallDrain, CancelConnect
  <2>2. Others(c, lock)
    BY DEF Others
  <2>3. lock' \in Seq(Cmd) /\ pc' \in [Cmd -> CallState] /\ Creator'
    BY <2>1, <2>2, MoveType DEF CallState
  <2> QED
    BY <2>1, <2>3 DEF CallType, TypeOK, FutState, futVars, connVars
<1>3. CASE Locked(c)
  <2>1. /\ HasLock(c)
        /\ pc' = [pc EXCEPT ![c] = "create"]
        /\ UNCHANGED <<connVars, lock, futVars, closeVars>>
    BY <1>3 DEF Locked
  <2>2. Creator'
    BY <2>1, TypeSplit DEF Creator, CallType, HasLock, TypeOK
  <2>3. pc' \in [Cmd -> CallState]
    BY <2>1 DEF TypeOK, CallState
  <2> QED
    BY <2>1, <2>2, <2>3 DEF CallType, TypeOK, FutState, futVars, connVars
<1>4. CASE ConnectFails(c)
  <2>1. /\ Leave(c)
        /\ pc' = [pc EXCEPT ![c] = "failed"]
        /\ UNCHANGED <<connVars, futVars, closeVars>>
    BY <1>4 DEF ConnectFails
  <2>2. pc' \in [Cmd -> CallState]
    BY <2>1 DEF TypeOK, CallState
  <2> QED
    BY <2>1, <2>2, LeaveType DEF CallType, TypeOK, FutState, futVars, connVars
<1> QED
  BY <1>1, <1>2, <1>3, <1>4, <1>5

LEMMA CreatedType ==
  ASSUME TypeOK, NEW c \in Cmd, Created(c)
  PROVE  TypeOK'
<1>1. /\ made \in Nat /\ made' = made + 1 /\ made' \in 0..MaxConns /\ current' = made + 1
      /\ tr' = [tr EXCEPT ![made + 1] = "open"]
      /\ UNCHANGED <<closeFut, closeVars>>
  BY DEF Created, TypeOK
<1>2. HasLock(c)
  BY TypeSplit DEF Created, CallType, Creator
<1>3. CallType'
  <2>1. Issue(c, made + 1, Tail(lock)) /\ Others(c, Tail(lock))
    BY <1>2 DEF Created, Others
  <2>2. made + 1 \in 0..made' /\ made' \in Nat /\ made <= made'
    BY <1>1
  <2> QED
    BY <2>1, <2>2, IssueType
<1>4. ConnType'
  <2>1. current' \in 0..made' /\ made' \in 0..MaxConns
    BY <1>1
  <2>2. tr' \in [Conn -> {"none", "open", "closing", "lost"}]
    BY <1>1 DEF TypeOK
  <2>3. closing' \in 0..made'
    BY <1>1 DEF TypeOK, closeVars
  <2>4. UNCHANGED <<closeFut, closes, closed>>
    BY <1>1 DEF closeVars
  <2> QED
    BY <2>1, <2>2, <2>3, <2>4 DEF ConnType, TypeOK
<1> QED
  BY <1>3, <1>4 DEF TypeOK, ConnType, CallType, Creator, FutState
LEMMA SendingType ==
  ASSUME TypeOK, NEW c \in Cmd, \/ CallOpen(c) \/ LockedOpen(c) \/ TwinDone(c) \/ TwinTimeout(c)
                                \/ TwinCancelled(c) \/ CancelTwin(c) \/ WriteFound(c)
                                \/ WriteLost(c) \/ Resume(c) \/ WaitEnds(c) \/ WriteEnds(c)
                                \/ Answer(c)
  PROVE  CallType' /\ UNCHANGED <<connVars, closeVars>>
<1>1. Others(c, lock)
  BY DEF Others
<1>2. CASE CallOpen(c) \/ LockedOpen(c)
  <2>1. UNCHANGED <<connVars, closeVars>> /\ made' = made
    BY <1>2 DEF CallOpen, LockedOpen, connVars
  <2>2. CASE CallOpen(c)
    BY <1>1, <2>1, <2>2, StartSendType DEF CallOpen
  <2>3. CASE LockedOpen(c)
    BY <2>1, <2>3, StartSendType DEF LockedOpen, Others
  <2> QED
    BY <1>2, <2>1, <2>2, <2>3
<1>3. CASE TwinDone(c)
  <2>1. UNCHANGED <<connVars, closeVars>> /\ Issue(c, current, lock)
    BY <1>3 DEF TwinDone
  <2>2. current \in 0..made' /\ made' \in Nat /\ made <= made'
    BY <2>1 DEF TypeOK, connVars
  <2> QED
    BY <1>1, <2>1, <2>2, IssueType
<1>4. CASE TwinTimeout(c) \/ TwinCancelled(c) \/ CancelTwin(c)
  <2>1. /\ pc' = [pc EXCEPT ![c] = "failed"]
        /\ UNCHANGED <<connVars, closeVars, lock, reg, waits, on>>
    BY <1>4 DEF TwinTimeout, TwinCancelled, CancelTwin, futVars
  <2>2. fut' \in [Cmd -> FutState]
    BY <1>4 DEF TwinTimeout, TwinCancelled, CancelTwin, CancelWaited, futVars, TypeOK, FutState
  <2>3. lock' \in Seq(Cmd) /\ pc' \in [Cmd -> CallState] /\ Creator'
    BY <1>1, <2>1, MoveType DEF CallState
  <2> QED
    BY <2>1, <2>2, <2>3 DEF CallType, TypeOK, connVars
<1>5. CASE WriteFound(c) \/ WriteLost(c)
  <2>1. PICK v \in {"wait", "failed"} :
          /\ HasLock(c)
          /\ lock' = Tail(lock)
          /\ pc' = [pc EXCEPT ![c] = v]
          /\ on' = [on EXCEPT ![c] = current]
          /\ UNCHANGED <<connVars, reg, fut, closeVars>>
    BY <1>5 DEF WriteFound, WriteLost
  <2>2. waits' \in [Cmd -> Cmd]
    <3>1. \E d \in Cmd : waits' = [waits EXCEPT ![c] = d] \/ waits' = waits
      BY <1>5 DEF WriteFound, WriteLost, Entry, receive_futures
    <3> QED
      BY <3>1 DEF TypeOK
  <2>3. lock' \in Seq(Cmd) /\ pc' \in [Cmd -> CallState] /\ Creator'
    BY <2>1, MoveType DEF CallState, Others
  <2>4. on' \in [Cmd -> 0..made]
    BY <2>1 DEF TypeOK
  <2> QED
    BY <2>1, <2>2, <2>3, <2>4 DEF CallType, TypeOK, FutState, connVars
<1>6. CASE Resume(c)
  <2>1. PICK v \in {"done", "failed"} : pc' = [pc EXCEPT ![c] = v]
    BY <1>6 DEF Resume
  <2>2. Unregister(c) /\ UNCHANGED <<connVars, lock, waits, on, closeVars>>
    BY <1>6 DEF Resume
  <2>3. lock' \in Seq(Cmd) /\ pc' \in [Cmd -> CallState] /\ Creator'
    BY <1>1, <2>1, <2>2, MoveType DEF CallState
  <2> QED
    BY <2>2, <2>3, UnregisterType DEF CallType, TypeOK, connVars
<1>7. CASE WaitEnds(c)
  <2>1. /\ pc' = [pc EXCEPT ![c] = "failed"]
        /\ UNCHANGED <<connVars, lock, waits, on, closeVars>>
    BY <1>7 DEF WaitEnds
  <2>2. lock' \in Seq(Cmd) /\ pc' \in [Cmd -> CallState] /\ Creator'
    BY <1>1, <2>1, MoveType DEF CallState
  <2>3. reg' \in [Cmd -> 0..made]
    <3>1. made \in Nat
      BY DEF TypeOK
    <3> QED
      BY <1>7, <3>1 DEF WaitEnds, TypeOK
  <2>4. fut' \in [Cmd -> FutState]
    BY <1>7 DEF WaitEnds, TypeOK, FutState
  <2> QED
    BY <2>1, <2>2, <2>3, <2>4 DEF CallType, TypeOK, connVars
<1>8. CASE WriteEnds(c)
  <2>1. /\ pc' = [pc EXCEPT ![c] = "failed"]
        /\ Leave(c)
        /\ Unregister(c)
        /\ UNCHANGED <<connVars, waits, on, closeVars>>
    BY <1>8 DEF WriteEnds
  <2>2. pc' \in [Cmd -> CallState]
    BY <2>1 DEF TypeOK, CallState
  <2> QED
    BY <2>1, <2>2, LeaveType, UnregisterType DEF CallType, TypeOK, connVars
<1>9. CASE Answer(c)
  <2>1. UNCHANGED <<connVars, lock, pc, reg, waits, closeVars>>
    BY <1>9 DEF Answer
  <2>2. fut' \in [Cmd -> FutState]
    BY <1>9 DEF Answer, TypeOK, FutState
  <2>3. on' \in [Cmd -> 0..made]
    <3>1. 0 \in 0..made
      BY DEF TypeOK
    <3> QED
      BY <1>9, <3>1 DEF Answer, TypeOK
  <2>4. Creator'
    BY <2>1, TypeSplit DEF CallType, Creator, HasLock
  <2> QED
    BY <2>1, <2>2, <2>3, <2>4 DEF CallType, TypeOK, connVars
<1> QED
  BY <1>2, <1>3, <1>4, <1>5, <1>6, <1>7, <1>8, <1>9

LEMMA FailedType ==
  ASSUME TypeOK, NEW i
  PROVE  Failed(i) \in [Cmd -> FutState]
  BY DEF Failed, TypeOK, FutState

LEMMA ConnStepType ==
  ASSUME TypeOK, NEW i \in Conn, ConnStep(i)
  PROVE  TypeOK'
<1>1. UNCHANGED <<current, made, lock, pc, reg, waits, on, closeVars>>
  BY DEF ConnStep, Garbage, GarbageRaises, PeerCloses, connection_lost, connVars, futVars
<1>2. fut' \in [Cmd -> FutState]
  <2>1. CASE Garbage(i) \/ connection_lost(i)
    BY <2>1, FailedType DEF Garbage, connection_lost
  <2>2. CASE PeerCloses(i)
    BY <2>2 DEF PeerCloses, futVars, TypeOK, FutState
  <2>3. CASE GarbageRaises(i)
    BY <2>3, FailedType DEF GarbageRaises, TypeOK, FutState
  <2> QED
    BY <2>1, <2>2, <2>3 DEF ConnStep
<1>3. /\ tr' \in [Conn -> {"none", "open", "closing", "lost"}]
      /\ closeFut' \in [Conn -> {"pending", "set", "cancelled"}]
  BY DEF ConnStep, Garbage, GarbageRaises, PeerCloses, connection_lost, connVars, TypeOK
<1> QED
  BY <1>1, <1>2, <1>3 DEF TypeOK, FutState, closeVars, HasLock

LEMMA CloseType ==
  ASSUME TypeOK, CloseLost \/ StartClose \/ EndClose \/ CloseTimeout
  PROVE  TypeOK'
<1>1. UNCHANGED <<made, lock, pc, reg, waits, on>>
  BY DEF CloseLost, StartClose, EndClose, CloseTimeout, connVars, futVars
<1>2. fut' \in [Cmd -> FutState]
  <2>1. CASE CloseTimeout
    BY <2>1, FailedType DEF CloseTimeout
  <2>2. CASE CloseLost \/ StartClose \/ EndClose
    BY <2>2 DEF CloseLost, StartClose, EndClose, futVars, TypeOK, FutState
  <2> QED
    BY <2>1, <2>2
<1>3. made \in 0..MaxConns /\ Conn = 1..MaxConns /\ 0 \in 0..made
  BY DEF TypeOK, Conn
<1>4. current' \in 0..made /\ closing' \in 0..made /\ closes' \in 0..MaxCloses
  <2>1. current' \in {0, current}
    BY DEF CloseLost, StartClose, EndClose, CloseTimeout
  <2>2. closing' \in {0, current, closing}
    BY DEF CloseLost, StartClose, EndClose, CloseTimeout
  <2>3. closes' = closes \/ (closes < MaxCloses /\ closes' = closes + 1)
    BY DEF CloseLost, StartClose, EndClose, CloseTimeout
  <2> QED
    BY <1>3, <2>1, <2>2, <2>3 DEF TypeOK
<1>5. /\ tr' \in [Conn -> {"none", "open", "closing", "lost"}]
      /\ closeFut' \in [Conn -> {"pending", "set", "cancelled"}]
  BY DEF CloseLost, StartClose, EndClose, CloseTimeout, TypeOK
<1>6. closed' \subseteq Conn
  <2>1. closed' = closed \/ \E i \in {current, closing} \ {0} : closed' = closed \union {i}
    BY DEF CloseLost, StartClose, EndClose, CloseTimeout
  <2>2. {current, closing} \ {0} \subseteq Conn
    BY <1>3 DEF TypeOK
  <2> QED
    BY <2>1, <2>2 DEF TypeOK
<1> QED
  BY <1>1, <1>2, <1>4, <1>5, <1>6 DEF TypeOK, FutState, HasLock
LEMMA CallStepType ==
  ASSUME TypeOK, NEW c \in Cmd, CallStep(c)
  PROVE  TypeOK'
<1>1. CASE Created(c)
  BY <1>1, CreatedType
<1>2. CASE ~Created(c)
  <2>1. CallType' /\ UNCHANGED <<connVars, closeVars>>
    BY <1>2, ConnectingType, SendingType DEF CallStep
  <2>2. ConnType'
    BY <2>1 DEF TypeOK, ConnType, connVars, closeVars
  <2> QED
    BY <2>1, <2>2 DEF TypeOK, ConnType, CallType, Creator, FutState
<1> QED
  BY <1>1, <1>2

LEMMA TypeStep == TypeOK /\ [Next]_vars => TypeOK'
<1> SUFFICES ASSUME TypeOK, [Next]_vars PROVE TypeOK'
  OBVIOUS
<1>1. CASE UNCHANGED vars
  BY <1>1 DEF TypeOK, vars, connVars, futVars, closeVars, HasLock
<1>2. CASE \E c \in Cmd : CallStep(c)
  BY <1>2, CallStepType
<1>3. CASE \E i \in Conn : ConnStep(i)
  BY <1>3, ConnStepType
<1>4. CASE CloseLost \/ StartClose \/ EndClose \/ CloseTimeout
  BY <1>4, CloseType
<1> QED
  BY <1>1, <1>2, <1>3, <1>4 DEF Next

LEMMA TypeInit == Init => TypeOK
  BY DEF Init, TypeOK, CallState

(* The types of the connection, and that only the task at the head of the  *)
(* mutex opens one, for any number of calls, connections and close().      *)
THEOREM TypeCorrect == Spec => []TypeOK
<1> QED
  BY TypeInit, TypeStep, PTL DEF Spec

-----------------------------------------------------------------------------
(* One connection *)

(* What OneConnection rests on, when no transport lingers whose connection *)
(* may have a successor: a task that has begun to open a connection finds  *)
(* none open when it ends, for only it could have opened one; a connection *)
(* that close() waits for is no longer open and stays the current one, so  *)
(* that close() forgets no other; and a close_future is set only when its  *)
(* connection is lost.                                                     *)
ConnInv ==
  /\ OneConnection
  /\ \A c \in Cmd : pc[c] = "create" => ~connection_open
  /\ closing # 0 => closing = current /\ tr[closing] # "open"
  /\ \A i \in Conn : closeFut[i] = "set" => tr[i] = "lost"
  /\ \A i \in Conn : i > made => tr[i] = "none"

LEMMA ConnInvInit == Init => ConnInv
  BY DEF Init, ConnInv, OneConnection, connection_open

(* Call c goes elsewhere than to opening a connection. *)
GoesOn(c) == \E v \in CallState \ {"create"} : pc' = [pc EXCEPT ![c] = v]

LEMMA SendGoesOn ==
  ASSUME NEW c \in Cmd, NEW q, NEW i, StartSend(c, q) \/ Issue(c, i, q)
  PROVE  GoesOn(c)
<1>1. CASE \E j : Issue(c, j, q)
  BY <1>1 DEF Issue, GoesOn, CallState
<1>2. CASE pc' = [pc EXCEPT ![c] = "twin"]
  BY <1>2 DEF GoesOn, CallState
<1> QED
  BY <1>1, <1>2 DEF StartSend

(* A call that does not get a connection leaves all of this alone: it      *)
(* begins to open one only when none is open.                              *)
LEMMA ConnInvCall ==
  ASSUME TypeOK, ConnInv, NEW c \in Cmd, CallStep(c), ~Created(c)
  PROVE  ConnInv'
<1>1. UNCHANGED <<connVars, closeVars>>
  BY ConnectingType, SendingType DEF CallStep
<1>2. ASSUME NEW d \in Cmd, pc'[d] = "create", pc[d] # "create" PROVE ~connection_open
  <2>1. ~GoesOn(c)
    BY <1>2 DEF GoesOn, TypeOK
  <2>2. CallConnect(c) \/ Drained(c) \/ DrainTimeout(c) \/ Locked(c) \/ Answer(c)
    <3>1. ~CallOpen(c) /\ ~LockedOpen(c) /\ ~TwinDone(c)
      BY <2>1, SendGoesOn DEF CallOpen, LockedOpen, TwinDone
    <3>2. ~CallDrain(c) /\ ~ConnectFails(c) /\ ~TwinTimeout(c) /\ ~TwinCancelled(c)
      BY <2>1 DEF CallDrain, ConnectFails, TwinTimeout, TwinCancelled, GoesOn, CallState
    <3>3. ~WriteFound(c) /\ ~WriteLost(c) /\ ~WaitEnds(c) /\ ~WriteEnds(c)
      BY <2>1 DEF WriteFound, WriteLost, WaitEnds, WriteEnds, GoesOn, CallState
    <3>4. ~CancelConnect(c) /\ ~CancelTwin(c)
      BY <2>1 DEF CancelConnect, CancelTwin, GoesOn, CallState
    <3>5. ~Resume(c)
      <4>1. ASSUME Resume(c) PROVE GoesOn(c)
        <5>1. PICK v \in {"done", "failed"} : pc' = [pc EXCEPT ![c] = v]
          BY <4>1 DEF Resume
        <5> QED
          BY <5>1 DEF GoesOn, CallState
      <4> QED
        BY <2>1, <4>1
    <3> QED
      BY <3>1, <3>2, <3>3, <3>4, <3>5 DEF CallStep
  <2>3. CASE CallConnect(c) \/ Locked(c)
    BY <2>3 DEF CallConnect, Locked
  <2>4. CASE Drained(c) \/ DrainTimeout(c)
    <3>1. ~StartSend(c, lock)
      BY <2>1, SendGoesOn
    <3>2. ToConnect(c) /\ (lock # <<>> \/ ~connection_open)
      BY <2>4, <3>1 DEF Drained, DrainTimeout, AfterDrain
    <3>3. CASE lock # <<>>
      BY <2>1, <3>2, <3>3 DEF ToConnect, GoesOn, CallState
    <3> QED
      BY <3>2, <3>3
  <2>5. CASE Answer(c)
    BY <1>2, <2>5 DEF Answer
  <2> QED
    BY <2>2, <2>3, <2>4, <2>5
<1> QED
  BY <1>1, <1>2 DEF ConnInv, OneConnection, connection_open, connVars, closeVars

(* A new connection: there was no other, and close() waits for none. *)
LEMMA ConnInvCreated ==
  ASSUME TypeOK, ConnInv, Lingers \subseteq {MaxConns}, NEW c \in Cmd, Created(c)
  PROVE  ConnInv'
<1>1. /\ made \in Nat /\ made' = made + 1 /\ made + 1 \in Conn /\ current' = made + 1
      /\ tr' = [tr EXCEPT ![made + 1] = "open"]
      /\ closing = 0 /\ closing' = 0 /\ closeFut' = closeFut
  <2>1. made < MaxConns /\ closing \in {0} \union Lingers /\ closing \in 0..made
    BY DEF Created, TypeOK
  <2>2. closing = 0
    BY <2>1 DEF TypeOK
  <2> QED
    BY <2>1, <2>2 DEF Created, TypeOK, Conn, closeVars
<1>2. \A i \in Conn : tr[i] # "open"
  BY DEF ConnInv, OneConnection, connection_open, Created, Conn
<1>3. OneConnection'
  BY <1>1, <1>2 DEF OneConnection, TypeOK
<1>4. \A d \in Cmd : pc'[d] # "create"
  <2>1. GoesOn(c)
    BY SendGoesOn DEF Created
  <2>2. \A d \in Cmd \ {c} : pc[d] # "create"
    BY OneCreator, TypeSplit DEF CallType, Creator, Created
  <2> QED
    BY <2>1, <2>2 DEF GoesOn, TypeOK
<1>5. \A i \in Conn : closeFut'[i] = "set" => tr'[i] = "lost"
  <2>1. tr[made + 1] = "none"
    BY <1>1 DEF ConnInv
  <2> QED
    BY <1>1, <2>1 DEF ConnInv, TypeOK
<1>6. \A i \in Conn : i > made' => tr'[i] = "none"
  BY <1>1 DEF ConnInv, TypeOK, Conn
<1> QED
  BY <1>1, <1>3, <1>4, <1>5, <1>6 DEF ConnInv

(* A connection only ever goes on towards its end. *)
LEMMA ConnInvConn ==
  ASSUME TypeOK, ConnInv, NEW i \in Conn, ConnStep(i)
  PROVE  ConnInv'
<1>1. UNCHANGED <<current, made, pc, closing>>
  BY DEF ConnStep, Garbage, GarbageRaises, PeerCloses, connection_lost, connVars, closeVars
<1>2. \A j \in Conn : /\ tr'[j] = "open" => tr[j] = "open"
                      /\ tr[j] = "lost" => tr'[j] = "lost"
                      /\ tr[j] = "none" => tr'[j] = "none"
                      /\ closeFut'[j] = "set" => closeFut[j] = "set" \/ tr'[j] = "lost"
  BY DEF ConnStep, Garbage, GarbageRaises, PeerCloses, connection_lost, connVars, TypeOK
<1>3. current \in 0..made /\ made \in 0..MaxConns /\ closing \in 0..made /\ Conn = 1..MaxConns
  BY DEF TypeOK, Conn
<1>4. connection_open' => connection_open
  BY <1>1, <1>2, <1>3 DEF connection_open
<1> QED
  BY <1>1, <1>2, <1>3, <1>4 DEF ConnInv, OneConnection

(* close() forgets the connection it has closed, and no other. *)
LEMMA ConnInvClose ==
  ASSUME TypeOK, ConnInv, Lingers \subseteq {MaxConns}, CloseLost \/ StartClose \/ EndClose \/ CloseTimeout
  PROVE  ConnInv'
<1>1. UNCHANGED <<made, pc>>
  BY DEF CloseLost, StartClose, EndClose, CloseTimeout
<1>2. current \in 0..made /\ made \in 0..MaxConns /\ closing \in 0..made /\ Conn = 1..MaxConns
  BY DEF TypeOK, Conn
<1>3. CASE StartClose
  <2>1. /\ current \in Conn /\ closing' = current /\ current' = current
        /\ tr' = [tr EXCEPT ![current] = IF @ = "open" THEN "closing" ELSE @]
    BY <1>2, <1>3 DEF StartClose
  <2>2. tr'[current] # "open" /\ \A j \in Conn : tr'[j] = tr[j] \/ (j = current /\ tr'[j] = "closing"
                                                                 /\ tr[j] = "open")
    BY <2>1 DEF TypeOK
  <2>3. OneConnection' /\ ~connection_open'
    BY <2>1, <2>2 DEF OneConnection, connection_open, ConnInv
  <2>4. \A j \in Conn : /\ closeFut'[j] = "set" => tr'[j] = "lost"
                        /\ j > made' => tr'[j] = "none"
    BY <1>1, <1>3, <2>2 DEF StartClose, ConnInv
  <2> QED
    BY <2>1, <2>2, <2>3, <2>4 DEF ConnInv
<1>4. CASE CloseLost \/ EndClose
  <2>1. current' = 0 /\ closing' = 0 /\ tr' = tr /\ closeFut' = closeFut
    BY <1>4 DEF CloseLost, EndClose
  <2>2. current \in Conn => tr[current] # "open"
    BY <1>2, <1>4 DEF CloseLost, EndClose, ConnInv
  <2> QED
    BY <1>1, <1>2, <2>1, <2>2 DEF ConnInv, OneConnection, connection_open
<1>5. CASE CloseTimeout
  <2>1. /\ current = closing /\ current' = current /\ closing' = 0 /\ tr' = tr
        /\ \A i \in Conn : closeFut'[i] = "set" => closeFut[i] = "set"
    BY <1>2, <1>5 DEF CloseTimeout, ConnInv, TypeOK
  <2> QED
    BY <1>1, <1>2, <2>1 DEF ConnInv, OneConnection, connection_open
<1> QED
  BY <1>3, <1>4, <1>5

(* If no transport but that of the very last connection has data left to   *)
(* write when it is closed, at most one connection is open, the current    *)
(* one, however calls, losses and close() interleave.                      *)
THEOREM NoConnectionLeaks ==
  ASSUME Lingers \subseteq {MaxConns}
  PROVE  Spec => []OneConnection
<1>1. ASSUME TypeOK, ConnInv, [Next]_vars PROVE ConnInv'
  <2>1. CASE UNCHANGED vars
    BY <1>1, <2>1 DEF ConnInv, OneConnection, connection_open, vars, connVars, closeVars
  <2>2. ASSUME NEW c \in Cmd, CallStep(c) PROVE ConnInv'
    BY <1>1, <2>2, ConnInvCall, ConnInvCreated
  <2>3. CASE \E i \in Conn : ConnStep(i)
    BY <1>1, <2>3, ConnInvConn
  <2>4. CASE CloseLost \/ StartClose \/ EndClose \/ CloseTimeout
    BY <1>1, <2>4, ConnInvClose
  <2> QED
    BY <1>1, <2>1, <2>2, <2>3, <2>4 DEF Next
<1>2. ConnInv => OneConnection
  BY DEF ConnInv
<1> QED
  BY <1>1, <1>2, ConnInvInit, TypeCorrect, PTL DEF Spec
-----------------------------------------------------------------------------
(* Nobody left behind *)

(* No other call has the key of call c. *)
Alone(c) == \A d \in Cmd \ {c} : Key[d] # Key[c]

(* A call waits on a future of its own key only. *)
KeyInv == \A c \in Cmd : Key[waits[c]] = Key[c]

(* A call that is alone with its key has no future registered before it    *)
(* sends, then one on a connection that is not lost as long as it pends.   *)
AloneInv(c) ==
  /\ waits[c] = c
  /\ pc[c] # "twin"
  /\ pc[c] \in {"idle", "drain", "lock", "create"} => reg[c] = 0
  /\ reg[c] # 0 /\ fut[c] = "pending" => tr[reg[c]] \in {"open", "closing"}
  /\ pc[c] = "wait" /\ fut[c] = "pending" => reg[c] # 0

(* What other calls leave a call that is alone: its future may be cancelled. *)
Kept(c) ==
  /\ pc'[c] = pc[c] /\ reg'[c] = reg[c] /\ waits'[c] = waits[c]
  /\ fut'[c] = fut[c] \/ fut'[c] # "pending"

LEMMA EntryKey ==
  ASSUME NEW c \in Cmd, NEW i
  PROVE  \A d \in Entry(c, i) : d \in Cmd /\ Key[d] = Key[c] /\ reg[d] = i /\ i # 0
  BY DEF Entry, receive_futures

LEMMA KeyStep ==
  ASSUME TypeOK, KeyInv, [Next]_vars
  PROVE  KeyInv'
<1>1. CASE waits' = waits
  BY <1>1 DEF KeyInv
<1>2. ASSUME NEW c \in Cmd, NEW d \in Cmd, waits' = [waits EXCEPT ![c] = d], Key[d] = Key[c]
      PROVE  KeyInv'
  BY <1>2 DEF KeyInv, TypeOK
<1>3. ASSUME NEW c \in Cmd, NEW q, NEW i, StartSend(c, q) \/ Issue(c, i, q) PROVE KeyInv'
  <2>1. CASE \E j : Issue(c, j, q)
    BY <1>2, <2>1 DEF Issue
  <2>2. CASE \E d \in Entry(c, current) : waits' = [waits EXCEPT ![c] = d]
    BY <1>2, <2>2, EntryKey
  <2> QED
    BY <1>3, <2>1, <2>2 DEF StartSend
<1>4. ASSUME NEW c \in Cmd, CallStep(c), waits' # waits PROVE KeyInv'
  <2>1. CASE CallOpen(c) \/ LockedOpen(c) \/ Created(c) \/ TwinDone(c)
    BY <1>3, <2>1 DEF CallOpen, LockedOpen, Created, TwinDone
  <2>2. CASE Drained(c) \/ DrainTimeout(c)
    <3>1. StartSend(c, lock) \/ UNCHANGED futVars
      BY <2>2 DEF Drained, DrainTimeout, AfterDrain
    <3>2. CASE StartSend(c, lock)
      BY <1>3, <3>2
    <3>3. CASE UNCHANGED futVars
      BY <1>4, <3>3 DEF futVars
    <3> QED
      BY <3>1, <3>2, <3>3
  <2>3. CASE WriteFound(c)
    <3>1. PICK d \in Entry(c, current) : waits' = [waits EXCEPT ![c] = d]
      BY <2>3 DEF WriteFound
    <3>2. d \in Cmd /\ Key[d] = Key[c]
      BY <3>1, EntryKey
    <3> QED
      BY <1>2, <3>1, <3>2
  <2> QED
    BY <1>4, <2>1, <2>2, <2>3
       DEF CallStep, CallDrain, CallConnect, Locked, ConnectFails, TwinTimeout, TwinCancelled,
           WriteLost, Resume, WaitEnds, WriteEnds, CancelConnect, CancelTwin, Answer, futVars
<1>5. CASE \E i \in Conn : ConnStep(i)
  BY <1>1, <1>5 DEF ConnStep, Garbage, GarbageRaises, PeerCloses, connection_lost, futVars
<1>6. CASE CloseLost \/ StartClose \/ EndClose \/ CloseTimeout
  BY <1>1, <1>6 DEF CloseLost, StartClose, EndClose, CloseTimeout, futVars
<1>7. CASE UNCHANGED vars
  BY <1>1, <1>7 DEF vars, futVars
<1> QED
  BY <1>1, <1>4, <1>5, <1>6, <1>7 DEF Next

(* The steps of another call. *)
LEMMA OtherIssue ==
  ASSUME TypeOK, NEW c \in Cmd, NEW d \in Cmd \ {c}, NEW q, NEW i,
         StartSend(d, q) \/ Issue(d, i, q)
  PROVE  Kept(c)
<1>1. CASE \E j : Issue(d, j, q)
  BY <1>1 DEF Issue, Kept, TypeOK
<1>2. CASE /\ \E e \in Entry(d, current) : waits' = [waits EXCEPT ![d] = e]
           /\ pc' = [pc EXCEPT ![d] = "twin"]
           /\ UNCHANGED <<reg, fut>>
  BY <1>2 DEF Kept, TypeOK
<1> QED
  BY <1>1, <1>2 DEF StartSend

LEMMA OtherUnregister ==
  ASSUME TypeOK, NEW c \in Cmd, Alone(c), NEW d \in Cmd \ {c}, Unregister(d)
  PROVE  reg'[c] = reg[c] /\ fut'[c] = fut[c]
<1>1. c \notin Entry(d, current)
  BY EntryKey DEF Alone
<1> QED
  BY <1>1 DEF Unregister, TypeOK

LEMMA OtherCall ==
  ASSUME TypeOK, KeyInv, NEW c \in Cmd, Alone(c), NEW d \in Cmd \ {c}, CallStep(d)
  PROVE  Kept(c)
<1>1. CASE CallOpen(d) \/ LockedOpen(d) \/ Created(d) \/ TwinDone(d)
  BY <1>1, OtherIssue DEF CallOpen, LockedOpen, Created, TwinDone
<1>2. CASE Drained(d) \/ DrainTimeout(d)
  <2>1. CASE StartSend(d, lock)
    BY <2>1, OtherIssue
  <2>2. CASE ToConnect(d) /\ UNCHANGED futVars
    BY <2>2 DEF ToConnect, Kept, futVars, TypeOK
  <2> QED
    BY <1>2, <2>1, <2>2 DEF Drained, DrainTimeout, AfterDrain
<1>3. CASE CallDrain(d) \/ CallConnect(d) \/ Locked(d) \/ ConnectFails(d) \/ CancelConnect(d)
  BY <1>3 DEF CallDrain, CallConnect, ToConnect, Locked, ConnectFails, CancelConnect, Kept,
              futVars, TypeOK
<1>4. CASE TwinTimeout(d) \/ TwinCancelled(d) \/ WriteFound(d) \/ WriteLost(d)
  BY <1>4 DEF TwinTimeout, TwinCancelled, WriteFound, WriteLost, Kept, futVars, TypeOK
<1>5. CASE CancelTwin(d)
  BY <1>5 DEF CancelTwin, CancelWaited, Kept, TypeOK
<1>6. CASE Resume(d) \/ WriteEnds(d)
  <2>1. pc'[c] = pc[c] /\ waits'[c] = waits[c] /\ Unregister(d)
    BY <1>6 DEF Resume, WriteEnds, TypeOK
  <2> QED
    BY <2>1, OtherUnregister DEF Kept
<1>7. CASE WaitEnds(d)
  <2>1. c \notin Entry(d, current)
    BY EntryKey DEF Alone
  <2> QED
    BY <1>7, <2>1 DEF WaitEnds, Kept, TypeOK
<1>8. CASE Answer(d)
  BY <1>8 DEF Answer, Kept, TypeOK
<1> QED
  BY <1>1, <1>2, <1>3, <1>4, <1>5, <1>6, <1>7, <1>8 DEF CallStep
(* The steps of the call itself: it registers on a connection that is open. *)
LEMMA OwnSend ==
  ASSUME TypeOK, NEW c \in Cmd, Alone(c), AloneInv(c),
         pc[c] \in {"idle", "drain", "lock", "create"}, NEW q, NEW i \in Conn,
         tr'[i] = "open", Issue(c, i, q) \/ (StartSend(c, q) /\ current = i)
  PROVE  AloneInv(c)'
<1>1. reg[c] = 0 /\ i # 0
  BY DEF AloneInv, Conn
<1>2. Entry(c, current) = {}
  BY <1>1, EntryKey DEF Alone
<1>3. Issue(c, i, q)
  BY <1>2 DEF StartSend
<1>4. /\ reg'[c] = i /\ fut'[c] = "pending" /\ waits'[c] = c
      /\ pc'[c] \in {"wait", "write"}
  BY <1>1, <1>3 DEF Issue, TypeOK
<1> QED
  BY <1>1, <1>4 DEF AloneInv

LEMMA OwnCall ==
  ASSUME TypeOK, KeyInv, NEW c \in Cmd, Alone(c), AloneInv(c), CallStep(c)
  PROVE  AloneInv(c)'
<1>1. ASSUME connection_open, UNCHANGED connVars PROVE current \in Conn /\ tr'[current] = "open"
  BY <1>1 DEF connection_open, connVars, Conn, TypeOK
<1>2. CASE CallOpen(c) \/ LockedOpen(c)
  <2>1. /\ connection_open /\ UNCHANGED connVars /\ pc[c] \in {"idle", "lock"}
        /\ \E q : StartSend(c, q)
    BY <1>2 DEF CallOpen, LockedOpen
  <2> QED
    BY <1>1, <2>1, OwnSend
<1>3. CASE Created(c)
  <2>1. made + 1 \in Conn /\ tr'[made + 1] = "open"
    BY <1>3 DEF Created, TypeOK, Conn
  <2> QED
    BY <1>3, <2>1, OwnSend DEF Created
<1>4. ASSUME ToConnect(c), UNCHANGED <<futVars, connVars>>, pc[c] \in {"idle", "drain"}
      PROVE  AloneInv(c)'
  BY <1>4 DEF ToConnect, AloneInv, futVars, connVars, TypeOK
<1>5. CASE Drained(c) \/ DrainTimeout(c)
  <2>1. pc[c] = "drain" /\ AfterDrain(c) /\ UNCHANGED connVars
    BY <1>5 DEF Drained, DrainTimeout
  <2>2. CASE connection_open /\ StartSend(c, lock)
    BY <1>1, <2>1, <2>2, OwnSend
  <2>3. CASE ToConnect(c) /\ UNCHANGED futVars
    BY <1>4, <2>1, <2>3
  <2> QED
    BY <2>1, <2>2, <2>3 DEF AfterDrain
<1>6. CASE CallConnect(c)
  BY <1>4, <1>6 DEF CallConnect
<1>7. CASE CallDrain(c) \/ Locked(c) \/ ConnectFails(c) \/ CancelConnect(c)
  BY <1>7 DEF CallDrain, Locked, ConnectFails, CancelConnect, AloneInv, futVars, connVars, TypeOK
<1>8. ~TwinDone(c) /\ ~TwinTimeout(c) /\ ~TwinCancelled(c) /\ ~CancelTwin(c)
  BY DEF TwinDone, TwinTimeout, TwinCancelled, CancelTwin, AloneInv
<1>9. CASE WriteFound(c)
  <2>1. PICK d \in Entry(c, current) : waits' = [waits EXCEPT ![c] = d]
    BY <1>9 DEF WriteFound
  <2>2. d = c /\ reg[c] # 0
    BY <2>1, EntryKey DEF Alone
  <2>3. pc' = [pc EXCEPT ![c] = "wait"] /\ UNCHANGED <<connVars, reg, fut>>
    BY <1>9 DEF WriteFound
  <2> QED
    BY <2>1, <2>2, <2>3 DEF AloneInv, connVars, TypeOK
<1>10. CASE WriteLost(c)
  BY <1>10 DEF WriteLost, AloneInv, connVars, TypeOK
<1>11. CASE Resume(c) \/ WaitEnds(c) \/ WriteEnds(c)
  <2>1. /\ pc'[c] \in {"done", "failed"} /\ UNCHANGED <<connVars, waits>>
    BY <1>11 DEF Resume, WaitEnds, WriteEnds, TypeOK
  <2>2. /\ reg'[c] \in {0, reg[c]}
        /\ fut'[c] = "pending" => fut[c] = "pending"
    BY <1>11 DEF Resume, WaitEnds, WriteEnds, Unregister, TypeOK
  <2> QED
    BY <2>1, <2>2 DEF AloneInv, connVars
<1>12. CASE Answer(c)
  BY <1>12 DEF Answer, AloneInv, connVars, TypeOK
<1> QED
  BY <1>2, <1>3, <1>5, <1>6, <1>7, <1>8, <1>9, <1>10, <1>11, <1>12 DEF CallStep

(* What becomes of the connections in a step of a call. *)
LEMMA CallKeepsConn ==
  ASSUME TypeOK, NEW c \in Cmd, CallStep(c)
  PROVE  \A i \in 1..made : tr'[i] = tr[i] \/ tr'[i] = "open"
<1>1. CASE Created(c)
  BY <1>1 DEF Created, TypeOK, Conn
<1>2. CASE ~Created(c)
  BY <1>2, ConnectingType, SendingType DEF CallStep, connVars
<1> QED
  BY <1>1, <1>2

LEMMA AloneStep ==
  ASSUME TypeOK, KeyInv, NEW c \in Cmd, Alone(c), AloneInv(c), [Next]_vars
  PROVE  AloneInv(c)'
<1>1. CASE UNCHANGED vars
  BY <1>1 DEF AloneInv, vars, connVars, futVars
<1>2. CASE CallStep(c)
  BY <1>2, OwnCall
<1>3. ASSUME NEW d \in Cmd \ {c}, CallStep(d) PROVE AloneInv(c)'
  <2>1. Kept(c)
    BY <1>3, OtherCall
  <2>2. reg[c] # 0 => tr'[reg[c]] = tr[reg[c]] \/ tr'[reg[c]] = "open"
    BY <1>3, CallKeepsConn DEF TypeOK
  <2> QED
    BY <2>1, <2>2 DEF Kept, AloneInv
<1>4. ASSUME NEW i \in Conn, ConnStep(i) PROVE AloneInv(c)'
  <2>1. UNCHANGED <<pc, reg, waits>>
    BY <1>4 DEF ConnStep, Garbage, GarbageRaises, PeerCloses, connection_lost, futVars
  <2>2. fut'[c] = fut[c] \/ fut'[c] # "pending"
    BY <1>4 DEF ConnStep, Garbage, GarbageRaises, PeerCloses, connection_lost, Failed, futVars,
                TypeOK
  <2>3. CASE ~connection_lost(i)
    <3>1. \A j \in Conn : tr'[j] = tr[j] \/ (tr[j] = "open" /\ tr'[j] = "closing")
      BY <1>4, <2>3 DEF ConnStep, Garbage, GarbageRaises, PeerCloses, connVars, TypeOK
    <3>2. reg[c] # 0 => reg[c] \in Conn
      BY DEF TypeOK, Conn
    <3> QED
      BY <2>1, <2>2, <3>1, <3>2 DEF AloneInv
  <2>4. CASE connection_lost(i)
    <3>1. reg[c] = i => fut'[c] # "pending"
      BY <2>4 DEF connection_lost, Failed, receive_futures, Conn, TypeOK
    <3>2. \A j \in Conn \ {i} : tr'[j] = tr[j]
      BY <2>4 DEF connection_lost, TypeOK
    <3>3. reg[c] # 0 => reg[c] \in Conn
      BY DEF TypeOK, Conn
    <3> QED
      BY <2>1, <2>2, <3>1, <3>2, <3>3 DEF AloneInv
  <2> QED
    BY <2>3, <2>4
<1>5. CASE CloseLost \/ StartClose \/ EndClose \/ CloseTimeout
  <2>1. UNCHANGED <<pc, reg, waits>>
    BY <1>5 DEF CloseLost, StartClose, EndClose, CloseTimeout, futVars
  <2>2. fut'[c] = fut[c] \/ fut'[c] # "pending"
    BY <1>5 DEF CloseLost, StartClose, EndClose, CloseTimeout, Failed, futVars, TypeOK
  <2>3. \A j \in Conn : tr'[j] = tr[j] \/ (tr[j] = "open" /\ tr'[j] = "closing")
    BY <1>5 DEF CloseLost, StartClose, EndClose, CloseTimeout, TypeOK
  <2>4. reg[c] # 0 => reg[c] \in Conn
    BY DEF TypeOK, Conn
  <2> QED
    BY <2>1, <2>2, <2>3, <2>4 DEF AloneInv
<1> QED
  BY <1>1, <1>2, <1>3, <1>4, <1>5 DEF Next

(* A call that is alone with its key never waits for a response on a lost  *)
(* connection, whatever is lost, closed, replaced or failed around it, and *)
(* also when a close() times out.                                          *)
THEOREM NobodyIsLeft == Spec => []NobodyLeft
<1> DEFINE AllAlone == \A c \in Cmd : Alone(c) => AloneInv(c)
<1>1. Init => KeyInv /\ AllAlone
  BY DEF Init, KeyInv, AloneInv
<1>2. TypeOK /\ KeyInv /\ AllAlone /\ [Next]_vars => KeyInv' /\ AllAlone'
  <2> SUFFICES ASSUME TypeOK, KeyInv, AllAlone, [Next]_vars PROVE KeyInv' /\ AllAlone'
    OBVIOUS
  <2>1. KeyInv'
    BY KeyStep
  <2>2. ASSUME NEW c \in Cmd, Alone(c)' PROVE AloneInv(c)'
    BY <2>2, AloneStep DEF Alone
  <2> QED
    BY <2>1, <2>2
<1>3. AllAlone => NobodyLeft
  BY DEF NobodyLeft, Alone, AloneInv
<1> QED
  BY <1>1, <1>2, <1>3, TypeCorrect, PTL DEF Spec
=============================================================================
