--------------------------- MODULE UdpSendProofs ---------------------------
(***************************************************************************)
(* Proofs about UdpSend, for any calls, window and number of connections.  *)
(***************************************************************************)
EXTENDS UdpSend, FiniteSetTheorems, WellFoundedInduction, TLAPS

USE CmdAssumption, WindowAssumption, MaxResendsAssumption, TableLenAssumption,
    MaxConnsAssumption

-----------------------------------------------------------------------------
(* The send window *)

(* The first packets of a queue have finitely many numbers. *)
LEMMA FirstFinite ==
  ASSUME NEW q, NEW n \in Nat
  PROVE  IsFiniteSet(First(q, n))
<1> DEFINE f == [i \in 1..n |-> q[i].seq]
<1>1. f \in Surjection(1..n, First(q, n))
  BY DEF First, Surjection
<1>2. IsFiniteSet(1..n)
  BY FS_Interval
<1> QED
  BY <1>1, <1>2, FS_Surjection

(* _send_next never fills the window beyond its limit. *)
LEMMA MovesBound ==
  ASSUME NEW q \in Seq(Packet), NEW w, NEW n \in 0..Len(q), Moves(q, w, n),
         IsFiniteSet(DOMAIN w), Cardinality(DOMAIN w) <= Window
  PROVE  /\ IsFiniteSet(DOMAIN w \union First(q, n))
         /\ Cardinality(DOMAIN w \union First(q, n)) <= Window
<1>1. n \in Nat
  OBVIOUS
<1>2. CASE n = 0
  <2>1. First(q, n) = {}
    <3>1. 1..n = {}
      BY <1>2
    <3> QED
      BY <3>1 DEF First
  <2>2. DOMAIN w \union First(q, n) = DOMAIN w
    BY <2>1
  <2> QED
    BY <2>2
<1>3. CASE n # 0
  <2> DEFINE before == DOMAIN w \union First(q, n - 1)
  <2>1. n - 1 \in Nat /\ n - 1 \in 0..(n - 1)
    BY <1>1, <1>3
  <2>2. IsFiniteSet(before)
    BY <2>1, FirstFinite, FS_Union
  <2>3. Cardinality(before) < Window
    BY <2>1 DEF Moves
  <2>4. DOMAIN w \union First(q, n) = before \union {q[n].seq}
    <3>1. 1..n = 1..(n - 1) \union {n}
      BY <1>1, <1>3
    <3>2. First(q, n) = First(q, n - 1) \union {q[n].seq}
      BY <3>1 DEF First
    <3> QED
      BY <3>2
  <2> HIDE DEF before
  <2>5. /\ IsFiniteSet(before \union {q[n].seq})
        /\ Cardinality(before \union {q[n].seq})
             = IF q[n].seq \in before THEN Cardinality(before) ELSE Cardinality(before) + 1
    BY <2>2, FS_AddElement
  <2>6. Cardinality(before) \in Nat
    BY <2>2, FS_CardinalityType
  <2>7. Cardinality(before \union {q[n].seq}) <= Window
    BY ONLY <2>3, <2>5, <2>6, WindowAssumption
  <2> QED
    BY ONLY <2>4, <2>5, <2>7
<1> QED
  BY <1>2, <1>3

(* _send_next stops with an empty queue or a full window. *)
LEMMA MovesFull ==
  ASSUME NEW q \in Seq(Packet), NEW w, NEW n \in 0..Len(q), Moves(q, w, n),
         IsFiniteSet(DOMAIN w), Cardinality(DOMAIN w) <= Window
  PROVE  n = Len(q) \/ Cardinality(DOMAIN w \union First(q, n)) = Window
<1>1. Cardinality(DOMAIN w \union First(q, n)) \in Nat
  BY MovesBound, FS_CardinalityType
<1>2. Cardinality(DOMAIN w \union First(q, n)) <= Window
  BY MovesBound
<1>3. n = Len(q) \/ Cardinality(DOMAIN w \union First(q, n)) >= Window
  BY DEF Moves
<1> QED
  BY ONLY <1>1, <1>2, <1>3, WindowAssumption

(* The packets a call is split in. *)
LEMMA PacketsType ==
  ASSUME NEW c \in Cmd, NEW s \in Nat, NEW e \in Nat
  PROVE  PacketsOf(c, s, e) \in Seq(Packet) /\ Len(PacketsOf(c, s, e)) = Size[c]
<1>1. Size[c] \in Nat
  OBVIOUS
<1>2. \A i \in 1..Size[c] : [seq |-> s + i - 1, cmd |-> c, ep |-> e] \in Packet
  BY <1>1 DEF Packet
<1> QED
  BY <1>1, <1>2 DEF PacketsOf

(* The packet found under a number moved is one of the packets moved. *)
LEMMA LastMovedIs ==
  ASSUME NEW q, NEW n \in Nat, NEW s \in First(q, n)
  PROVE  LastMoved(q, n, s) \in 1..n /\ q[LastMoved(q, n, s)].seq = s
<1> DEFINE S == {i \in 1..n : q[i].seq = s}
<1>1. S # {} /\ S \subseteq Int
  BY DEF First
<1>2. \E i \in S : \A j \in S : j <= i
  <2> DEFINE T == {n - i : i \in S}
             R == OpToRel(<, Nat)
  <2>1. T \subseteq Nat /\ T # {}
    BY <1>1
  <2>2. IsWellFoundedOn(R, Nat)
    BY NatLessThanWellFounded
  <2>3. \A x, y \in Nat : y < x => <<y, x>> \in R
    BY DEF OpToRel
  <2> HIDE DEF R, T
  <2>4. PICK x \in T : \A y \in T : <<y, x>> \notin R
    BY <2>1, <2>2, WFMin
  <2>5. \A y \in T : ~(y < x)
    BY <2>1, <2>3, <2>4
  <2>6. PICK i \in S : x = n - i
    BY <2>4 DEF T
  <2>7. \A j \in S : j <= i
    <3> SUFFICES ASSUME NEW j \in S PROVE j <= i
      OBVIOUS
    <3>1. n - j \in T /\ ~(n - j < n - i)
      BY <2>5, <2>6 DEF T
    <3> QED
      BY <3>1, <1>1
  <2> QED
    BY <2>7
<1>3. PICK i \in S : \A j \in S : j <= i
  BY <1>2
<1>4. i \in 1..n /\ q[i].seq = s /\ \A j \in (i + 1)..n : q[j].seq # s
  BY <1>3
<1> QED
  BY <1>4 DEF LastMoved

(* What _send_next does to the packets it moves. *)
LEMMA SendNextType ==
  ASSUME TypeOK, NEW q \in Seq(Packet), NEW w, DOMAIN w \subseteq Nat,
         w \in [DOMAIN w -> Slot], NEW t \in SUBSET Nat, SendNext(q, w, t)
  PROVE  /\ queue' \in Seq(Packet)
         /\ DOMAIN window' \subseteq Nat
         /\ window' \in [DOMAIN window' -> Slot]
         /\ timers' \subseteq Nat
         /\ stray' \subseteq Nat
         /\ wire' \subseteq Nat
<1>1. PICK n \in 0..Len(q) :
        /\ queue' = SubSeq(q, n + 1, Len(q))
        /\ window' = [s \in DOMAIN w \union First(q, n) |->
                        IF s \in First(q, n)
                          THEN [cmd |-> q[LastMoved(q, n, s)].cmd,
                                ep |-> q[LastMoved(q, n, s)].ep,
                                resends |-> 0]
                          ELSE w[s]]
        /\ timers' = t \union First(q, n)
        /\ stray' = stray \union Replaced(q, w, t, n)
        /\ wire' = wire \union OnWire(q, n)
  BY DEF SendNext
<1>2. \A i \in 1..n : q[i] \in Packet /\ q[i].seq \in Nat
  <2>1. \A i \in 1..n : q[i] \in Packet
    OBVIOUS
  <2> QED
    BY <2>1 DEF Packet
<1>3. First(q, n) \subseteq Nat
  BY ONLY <1>2 DEF First
<1>4. OnWire(q, n) \subseteq Nat
  BY ONLY <1>2 DEF OnWire
<1>5. Replaced(q, w, t, n) \subseteq Nat
  BY <1>3 DEF Replaced
<1>6. queue' \in Seq(Packet)
  BY <1>1
<1>7. DOMAIN window' = DOMAIN w \union First(q, n)
  BY <1>1
<1>8. \A s \in DOMAIN window' : window'[s] \in Slot
  <2> SUFFICES ASSUME NEW s \in DOMAIN window' PROVE window'[s] \in Slot
    OBVIOUS
  <2>1. CASE s \in First(q, n)
    <3>1. q[LastMoved(q, n, s)] \in Packet
      BY <1>2, <2>1, LastMovedIs
    <3>2. window'[s] = [cmd |-> q[LastMoved(q, n, s)].cmd,
                        ep |-> q[LastMoved(q, n, s)].ep, resends |-> 0]
      BY <1>1, <1>7, <2>1
    <3>3. 0 \in 0..MaxResends
      OBVIOUS
    <3> QED
      BY <3>1, <3>2, <3>3 DEF Packet, Slot
  <2>2. CASE s \notin First(q, n)
    BY <1>1, <1>7, <2>2
  <2> QED
    BY <2>1, <2>2
<1>9. window' \in [DOMAIN window' -> Slot]
  <2>1. window' = [s \in DOMAIN window' |-> window'[s]]
    BY <1>1
  <2> QED
    BY <1>8, <2>1
<1> QED
  BY <1>1, <1>3, <1>4, <1>5, <1>6, <1>7, <1>9 DEF TypeOK

(* It leaves a window that is full, or nothing queued. *)
LEMMA SendNextWindow ==
  ASSUME NEW q \in Seq(Packet), NEW w, NEW t, SendNext(q, w, t),
         IsFiniteSet(DOMAIN w), Cardinality(DOMAIN w) <= Window
  PROVE  /\ IsFiniteSet(DOMAIN window')
         /\ Cardinality(DOMAIN window') <= Window
         /\ queue' # <<>> => Cardinality(DOMAIN window') = Window
         /\ t = DOMAIN w => timers' = DOMAIN window'
<1>1. PICK n \in 0..Len(q) :
        /\ Moves(q, w, n)
        /\ queue' = SubSeq(q, n + 1, Len(q))
        /\ DOMAIN window' = DOMAIN w \union First(q, n)
        /\ timers' = t \union First(q, n)
  BY DEF SendNext
<1>2. n = Len(q) => queue' = <<>>
  BY <1>1
<1>3. /\ IsFiniteSet(DOMAIN w \union First(q, n))
      /\ Cardinality(DOMAIN w \union First(q, n)) <= Window
  BY <1>1, MovesBound
<1>4. n = Len(q) \/ Cardinality(DOMAIN w \union First(q, n)) = Window
  BY <1>1, MovesFull
<1> QED
  BY <1>1, <1>2, <1>3, <1>4

(* No packet is in the window of a new connection. *)
LEMMA NoPacketsType ==
  /\ DOMAIN NoPackets = {}
  /\ NoPackets \in [DOMAIN NoPackets -> Slot]
  BY DEF NoPackets

(* Clearing the buffer keeps the types. *)
LEMMA ClearType ==
  ASSUME TypeOK, ClearSendBuffer
  PROVE  /\ queue' \in Seq(Packet)
         /\ DOMAIN window' \subseteq Nat
         /\ window' \in [DOMAIN window' -> Slot]
         /\ timers' \subseteq Nat
         /\ stray' \subseteq Nat
  BY NoPacketsType DEF TypeOK, ClearSendBuffer

(* A write keeps the types. *)
LEMMA WriteType ==
  ASSUME TypeOK, NEW c \in Cmd, NEW s \in Nat, NEW e \in Nat, Write(c, s, e)
  PROVE  /\ queue' \in Seq(Packet)
         /\ DOMAIN window' \subseteq Nat
         /\ window' \in [DOMAIN window' -> Slot]
         /\ timers' \subseteq Nat
         /\ stray' \subseteq Nat
         /\ wire' \subseteq Nat
<1>1. queue \o PacketsOf(c, s, e) \in Seq(Packet)
  <2>1. queue \in Seq(Packet) /\ PacketsOf(c, s, e) \in Seq(Packet)
    BY PacketsType DEF TypeOK
  <2> QED
    BY <2>1
<1> QED
  BY <1>1, SendNextType DEF TypeOK, Write

(* So does the timeout of an ACK. *)
LEMMA TimeoutType ==
  ASSUME TypeOK, NEW s \in Nat, TimeoutSendAck(s)
  PROVE  /\ queue' \in Seq(Packet)
         /\ DOMAIN window' \subseteq Nat
         /\ window' \in [DOMAIN window' -> Slot]
         /\ timers' \subseteq Nat
         /\ wire' \subseteq Nat
         /\ st' \in [Cmd -> CallState]
<1>1. CASE s \notin DOMAIN window
  BY <1>1 DEF TimeoutSendAck, TypeOK
<1>2. CASE s \in DOMAIN window /\ window[s].resends < MaxResends
  <2>1. Resend(s)
    BY <1>2 DEF TimeoutSendAck
  <2>2. window[s] \in Slot
    BY <1>2 DEF TypeOK
  <2>3. [window[s] EXCEPT !.resends = @ + 1] \in Slot
    BY <1>2, <2>2 DEF Slot
  <2>4. window' = [window EXCEPT ![s] = [window[s] EXCEPT !.resends = @ + 1]]
    BY <1>2, <2>1 DEF Resend, TypeOK
  <2>5. DOMAIN window' = DOMAIN window /\ window' \in [DOMAIN window -> Slot]
    BY <2>3, <2>4 DEF TypeOK
  <2> QED
    BY <2>1, <2>5 DEF Resend, TypeOK
<1>3. CASE s \in DOMAIN window /\ ~(window[s].resends < MaxResends)
  <2>1. GiveUp
    BY <1>3 DEF TimeoutSendAck
  <2>2. st' \in [Cmd -> CallState]
    BY <2>1 DEF GiveUp, TypeOK, CallState
  <2> QED
    BY <2>1, <2>2, NoPacketsType DEF GiveUp, TypeOK
<1> QED
  BY <1>1, <1>2, <1>3

-----------------------------------------------------------------------------
(* Type correctness *)

(* The steps of a call, one per action of Next. *)
CallStep(c) == \/ Send(c)
               \/ Hold(c)
               \/ WriteHeld(c)
               \/ WriteHeldLost(c)
               \/ HeldTimeout(c)
               \/ Cancel(c)
               \/ ResponseTimeout(c)
               \/ ResumeAckFailed(c)
               \/ Answer(c)

(* The steps of the connection keep the types. *)
LEMMA ConnectionTypeStep ==
  ASSUME TypeOK,
         Connect \/ Close \/ CameraDisconnect \/ ConnectionLost \/ Closed
  PROVE  TypeOK'
<1>1. CASE Connect
  <2>1. epoch' \in 0..MaxConns
    BY <1>1 DEF Connect, TypeOK
  <2>2. ClearSendBuffer
    BY <1>1 DEF Connect
  <2> QED
    BY <1>1, <2>1, <2>2, ClearType DEF Connect, TypeOK, ConnState, callVars, headVars
<1>2. CASE Close \/ CameraDisconnect
  <2>1. ClearSendBuffer
    BY <1>2 DEF Close, CameraDisconnect, StartClose
  <2>2. conn' \in ConnState /\ hostId' \in BOOLEAN
    BY <1>2 DEF Close, CameraDisconnect, StartClose, TypeOK, ConnState
  <2>3. UNCHANGED <<st, epoch, nextSeq, headVars, wire, camGot>>
    BY <1>2 DEF Close, CameraDisconnect, StartClose
  <2> QED
    BY <2>1, <2>2, <2>3, ClearType DEF TypeOK, headVars
<1>3. CASE ConnectionLost
  <2>1. st' \in [Cmd -> CallState]
    BY <1>3 DEF ConnectionLost, TypeOK, CallState
  <2> QED
    BY <1>3, <2>1 DEF ConnectionLost, TypeOK, ConnState, bufferVars, headVars
<1>4. CASE Closed
  <2>1. st' \in [Cmd -> CallState]
    BY <1>4 DEF Closed, TypeOK, CallState
  <2> QED
    BY <1>4, <2>1 DEF Closed, TypeOK, ConnState, bufferVars, headVars
<1> QED
  BY <1>1, <1>2, <1>3, <1>4

(* So do those of a call. *)
LEMMA CallTypeStep ==
  ASSUME TypeOK, NEW c \in Cmd, CallStep(c)
  PROVE  TypeOK'
<1>1. CASE Send(c)
  <2>1. nextSeq \in Nat /\ epoch \in Nat
    BY DEF TypeOK
  <2>2. nextSeq' \in Nat
    BY <1>1, <2>1 DEF Send
  <2>3. base' \in [Cmd -> Header]
    BY <1>1, <2>1 DEF Send, TypeOK, Header
  <2>4. st' \in [Cmd -> CallState]
    BY <1>1 DEF Send, TypeOK, Written, CallState
  <2>5. Write(c, nextSeq, epoch) /\ UNCHANGED <<connVars, twin, camGot>>
    BY <1>1 DEF Send
  <2>6. reg' \in [Cmd -> Nat]
    BY <1>1, <2>1 DEF Send, TypeOK
  <2> QED
    BY <2>1, <2>2, <2>3, <2>4, <2>5, <2>6, WriteType DEF TypeOK, connVars
<1>2. CASE Hold(c)
  <2>1. nextSeq \in Nat /\ epoch \in Nat
    BY DEF TypeOK
  <2>2. nextSeq' \in Nat
    BY <1>2, <2>1 DEF Hold
  <2>3. base' \in [Cmd -> Header]
    BY <1>2, <2>1 DEF Hold, TypeOK, Header
  <2>4. st' \in [Cmd -> CallState]
    BY <1>2 DEF Hold, TypeOK, CallState
  <2>5. twin' \in [Cmd -> Cmd]
    BY <1>2 DEF Hold, Twins, TypeOK
  <2> QED
    BY <1>2, <2>2, <2>3, <2>4, <2>5 DEF Hold, TypeOK, connVars, bufferVars
<1>3. CASE WriteHeld(c)
  <2>1. base[c].seq \in Nat /\ base[c].ep \in Nat
    BY DEF TypeOK, Header
  <2>2. st' \in [Cmd -> CallState]
    BY <1>3 DEF WriteHeld, TypeOK, CallState
  <2>3. /\ Write(c, base[c].seq, base[c].ep)
        /\ UNCHANGED <<connVars, nextSeq, base, twin, camGot>>
    BY <1>3 DEF WriteHeld
  <2>4. reg' \in [Cmd -> Nat]
    BY <1>3 DEF WriteHeld, TypeOK
  <2> QED
    BY <2>1, <2>2, <2>3, <2>4, WriteType DEF TypeOK, connVars
<1>4. CASE WriteHeldLost(c) \/ HeldTimeout(c) \/ Cancel(c) \/ Answer(c)
  <2>1. st' \in [Cmd -> CallState]
    BY <1>4 DEF WriteHeldLost, HeldTimeout, Cancel, Answer, TypeOK, CallState
  <2>2. UNCHANGED <<connVars, nextSeq, bufferVars, headVars, wire, camGot>>
    BY <1>4 DEF WriteHeldLost, HeldTimeout, Cancel, Answer
  <2> QED
    BY <2>1, <2>2 DEF TypeOK, connVars, bufferVars, headVars
<1>5. CASE ResponseTimeout(c) \/ ResumeAckFailed(c)
  <2>1. FailAndDrop(c)
    BY <1>5 DEF ResponseTimeout, ResumeAckFailed
  <2>2. st' \in [Cmd -> CallState] /\ hostId' \in BOOLEAN
    BY <2>1 DEF FailAndDrop, TypeOK, CallState
  <2>3. ClearSendBuffer /\ UNCHANGED <<epoch, nextSeq, headVars, wire, camGot>>
    BY <2>1 DEF FailAndDrop, StartClose
  <2>4. conn' \in ConnState
    BY <2>1 DEF FailAndDrop, StartClose, TypeOK, ConnState
  <2> QED
    BY <2>2, <2>3, <2>4, ClearType DEF TypeOK, headVars
<1> QED
  BY <1>1, <1>2, <1>3, <1>4, <1>5 DEF CallStep

(* What is left of the window after an ACK. *)
LEMMA LeftType ==
  ASSUME TypeOK, NEW a, NEW t
  PROVE  LET left == [s \in DOMAIN window \ Acked(a, t) |-> window[s]]
         IN  /\ DOMAIN left \subseteq Nat
             /\ left \in [DOMAIN left -> Slot]
             /\ timers \ Acked(a, t) \in SUBSET Nat
  BY DEF TypeOK

(* So do acknowledgements, timeouts and the camera. *)
LEMMA OtherTypeStep ==
  ASSUME TypeOK,
         \/ CameraAck
         \/ \E s \in timers : Timeout(s)
         \/ \E s \in stray : StrayTimeout(s)
         \/ \E s \in wire : CameraReceive(s)
  PROVE  TypeOK'
<1>1. CASE CameraAck
  <2>1. PICK a \in camGot, t \in Tables : ReceivedAck(a, t)
    BY <1>1 DEF CameraAck
  <2> DEFINE left == [s \in DOMAIN window \ Acked(a, t) |-> window[s]]
  <2>2. /\ DOMAIN left \subseteq Nat
        /\ left \in [DOMAIN left -> Slot]
        /\ timers \ Acked(a, t) \in SUBSET Nat
    BY LeftType
  <2>3. /\ SendNext(queue, left, timers \ Acked(a, t))
        /\ UNCHANGED <<connVars, nextSeq, callVars, camGot>>
    BY <2>1 DEF ReceivedAck
  <2>4. queue \in Seq(Packet)
    BY DEF TypeOK
  <2> HIDE DEF left
  <2>5. /\ queue' \in Seq(Packet)
        /\ DOMAIN window' \subseteq Nat
        /\ window' \in [DOMAIN window' -> Slot]
        /\ timers' \subseteq Nat
        /\ stray' \subseteq Nat
        /\ wire' \subseteq Nat
    BY <2>2, <2>3, <2>4, SendNextType
  <2> QED
    BY <2>3, <2>5 DEF TypeOK, connVars, callVars, headVars
<1>2. CASE (\E s \in timers : Timeout(s)) \/ (\E s \in stray : StrayTimeout(s))
  <2>1. PICK s \in Nat : /\ TimeoutSendAck(s)
                         /\ stray' \subseteq stray
                         /\ UNCHANGED <<connVars, nextSeq, headVars, camGot>>
    BY <1>2 DEF Timeout, StrayTimeout, TypeOK
  <2> QED
    BY <2>1, TimeoutType DEF TypeOK, connVars, headVars
<1>3. CASE \E s \in wire : CameraReceive(s)
  <2>1. PICK s \in wire : CameraReceive(s)
    BY <1>3
  <2>2. camGot' \subseteq Nat
    BY <2>1 DEF CameraReceive, TypeOK
  <2> QED
    BY <2>1, <2>2 DEF CameraReceive, TypeOK, connVars, bufferVars, callVars, headVars
<1> QED
  BY <1>1, <1>2, <1>3

(* A stuttering step changes nothing. *)
LEMMA Stuttering ==
  ASSUME UNCHANGED vars
  PROVE  UNCHANGED <<conn, hostId, epoch, nextSeq, queue, window, timers, stray,
                     st, base, reg, twin, wire, camGot>>
  BY DEF vars, connVars, bufferVars, callVars, headVars

(* Every variable keeps its type. *)
THEOREM TypeCorrect == Spec => []TypeOK
<1>1. Init => TypeOK
  <2> SUFFICES ASSUME Init PROVE TypeOK
    OBVIOUS
  <2>1. st \in [Cmd -> CallState]
    <3>1. "idle" \in CallState
      BY DEF CallState
    <3> QED
      BY <3>1 DEF Init
  <2>2. base \in [Cmd -> Header] /\ reg \in [Cmd -> Nat] /\ twin \in [Cmd -> Cmd]
    BY DEF Init, Header
  <2>3. conn \in ConnState
    BY DEF Init, ConnState
  <2>4. hostId \in BOOLEAN
    BY DEF Init
  <2>5. epoch \in 0..MaxConns
    BY DEF Init
  <2>6. queue \in Seq(Packet) /\ nextSeq \in Nat
    BY DEF Init
  <2> QED
    BY <2>1, <2>2, <2>3, <2>4, <2>5, <2>6, NoPacketsType DEF Init, TypeOK
<1>2. TypeOK /\ [Next]_vars => TypeOK'
  <2> SUFFICES ASSUME TypeOK, [Next]_vars PROVE TypeOK'
    OBVIOUS
  <2>1. CASE UNCHANGED vars
    BY <2>1, Stuttering DEF TypeOK
  <2>2. CASE Next
    BY <2>2, ConnectionTypeStep, CallTypeStep, OtherTypeStep DEF Next, CallStep
  <2> QED
    BY <2>1, <2>2
<1> QED
  BY <1>1, <1>2, PTL DEF Spec

-----------------------------------------------------------------------------
(* The send window is bounded, never stalls and is guarded by timers *)

(* On an open connection the packets of the window have their timers armed. *)
Armed == conn = "open" => timers = DOMAIN window

(* The three properties are inductive together, with the finiteness of the *)
(* window, without which its cardinality says nothing.                     *)
WindowInv == /\ IsFiniteSet(DOMAIN window)
             /\ WindowBound
             /\ NoStall
             /\ Armed

(* An empty window satisfies them. *)
LEMMA ClearWindow ==
  ASSUME queue' = <<>>, window' = NoPackets, timers' = {}
  PROVE  WindowInv'
<1>1. DOMAIN window' = {}
  BY NoPacketsType
<1>2. IsFiniteSet(DOMAIN window') /\ Cardinality(DOMAIN window') = 0
  BY <1>1, FS_EmptySet
<1>3. Cardinality(DOMAIN window') <= Window
  BY <1>2
<1> QED
  BY <1>1, <1>2, <1>3 DEF WindowInv, WindowBound, NoStall, Armed

(* _send_next establishes them. *)
LEMMA SendNextInv ==
  ASSUME NEW q \in Seq(Packet), NEW w, NEW t, SendNext(q, w, t),
         IsFiniteSet(DOMAIN w), Cardinality(DOMAIN w) <= Window,
         conn' = "open" => t = DOMAIN w
  PROVE  WindowInv'
<1>1. /\ IsFiniteSet(DOMAIN window')
      /\ Cardinality(DOMAIN window') <= Window
      /\ queue' # <<>> => Cardinality(DOMAIN window') = Window
      /\ t = DOMAIN w => timers' = DOMAIN window'
  BY SendNextWindow
<1> QED
  BY <1>1 DEF WindowInv, WindowBound, NoStall, Armed

(* An ACK keeps them: it takes the timer of a packet with the packet. *)
LEMMA AckWindow ==
  ASSUME TypeOK, WindowInv, CameraAck
  PROVE  WindowInv'
<1>1. PICK a \in camGot, t \in Tables : ReceivedAck(a, t)
  BY DEF CameraAck
<1> DEFINE left == [s \in DOMAIN window \ Acked(a, t) |-> window[s]]
<1>2. DOMAIN left = DOMAIN window \ Acked(a, t)
  OBVIOUS
<1>3. IsFiniteSet(DOMAIN left) /\ Cardinality(DOMAIN left) <= Cardinality(DOMAIN window)
  <2>1. DOMAIN left \in SUBSET DOMAIN window
    BY <1>2
  <2> QED
    BY <2>1, FS_Subset DEF WindowInv
<1>4. Cardinality(DOMAIN window) <= Window
  BY DEF WindowInv, WindowBound
<1>5. Cardinality(DOMAIN window) \in Nat /\ Cardinality(DOMAIN left) \in Nat
  BY <1>3, FS_CardinalityType DEF WindowInv
<1>6. Cardinality(DOMAIN left) <= Window
  BY ONLY <1>3, <1>4, <1>5, WindowAssumption
<1>7. conn = "open" /\ conn' = "open" /\ SendNext(queue, left, timers \ Acked(a, t))
  BY <1>1 DEF ReceivedAck, connVars
<1>8. timers \ Acked(a, t) = DOMAIN left
  BY <1>2, <1>7 DEF WindowInv, Armed
<1>9. queue \in Seq(Packet)
  BY DEF TypeOK
<1> HIDE DEF left
<1> QED
  BY <1>3, <1>6, <1>7, <1>8, <1>9, SendNextInv

(* So does a timeout: it keeps the packet and arms its timer, or drops all. *)
LEMMA TimeoutWindow ==
  ASSUME TypeOK, WindowInv, NEW s \in Nat, TimeoutSendAck(s), conn' = conn
  PROVE  WindowInv'
<1>1. CASE s \notin DOMAIN window
  BY <1>1 DEF TimeoutSendAck, WindowInv, WindowBound, NoStall, Armed
<1>2. CASE s \in DOMAIN window /\ window[s].resends < MaxResends
  <2>1. Resend(s)
    BY <1>2 DEF TimeoutSendAck
  <2>2. DOMAIN window' = DOMAIN window /\ queue' = queue
    BY <2>1 DEF Resend
  <2>3. conn = "open" => timers' = timers \union {s}
    BY <2>1 DEF Resend
  <2> QED
    BY <1>2, <2>2, <2>3 DEF WindowInv, WindowBound, NoStall, Armed
<1>3. CASE s \in DOMAIN window /\ ~(window[s].resends < MaxResends)
  BY <1>3, ClearWindow DEF TimeoutSendAck, GiveUp
<1> QED
  BY <1>1, <1>2, <1>3

(* So does a write. *)
LEMMA WriteWindow ==
  ASSUME TypeOK, WindowInv, NEW c \in Cmd, NEW s \in Nat, NEW e \in Nat,
         Write(c, s, e), conn' = conn
  PROVE  WindowInv'
<1>1. queue \o PacketsOf(c, s, e) \in Seq(Packet)
  <2>1. queue \in Seq(Packet) /\ PacketsOf(c, s, e) \in Seq(Packet)
    BY PacketsType DEF TypeOK
  <2> QED
    BY <2>1
<1>2. IsFiniteSet(DOMAIN window) /\ Cardinality(DOMAIN window) <= Window
  BY DEF WindowInv, WindowBound
<1>3. conn' = "open" => timers = DOMAIN window
  BY DEF WindowInv, Armed
<1> QED
  BY <1>1, <1>2, <1>3, SendNextInv DEF Write

(* Every step keeps the three properties. *)
LEMMA WindowStep ==
  ASSUME TypeOK, WindowInv, [Next]_vars
  PROVE  WindowInv'
<1>1. CASE \/ UNCHANGED bufferVars /\ (conn' = "open" => conn = "open")
           \/ UNCHANGED vars
  BY <1>1 DEF vars, connVars, bufferVars, WindowInv, WindowBound, NoStall, Armed
<1>2. CASE Connect \/ Close \/ CameraDisconnect
  BY <1>2, ClearWindow DEF Connect, Close, CameraDisconnect, StartClose, ClearSendBuffer
<1>3. CASE ConnectionLost \/ Closed
  BY <1>3, <1>1 DEF ConnectionLost, Closed
<1>4. ASSUME NEW c \in Cmd, CallStep(c) PROVE WindowInv'
  <2>1. base[c].seq \in Nat /\ base[c].ep \in Nat /\ nextSeq \in Nat /\ epoch \in Nat
    BY DEF TypeOK, Header
  <2>2. CASE Send(c)
    BY <2>1, <2>2, WriteWindow DEF Send, connVars
  <2>3. CASE WriteHeld(c)
    BY <2>1, <2>3, WriteWindow DEF WriteHeld, connVars
  <2>4. CASE ResponseTimeout(c) \/ ResumeAckFailed(c)
    BY <2>4, ClearWindow
       DEF ResponseTimeout, ResumeAckFailed, FailAndDrop, StartClose, ClearSendBuffer
  <2>5. CASE Hold(c) \/ WriteHeldLost(c) \/ HeldTimeout(c) \/ Cancel(c) \/ Answer(c)
    BY <2>5, <1>1 DEF Hold, WriteHeldLost, HeldTimeout, Cancel, Answer, connVars
  <2> QED
    BY <1>4, <2>2, <2>3, <2>4, <2>5 DEF CallStep
<1>5. CASE CameraAck
  BY <1>5, AckWindow
<1>6. CASE (\E s \in timers : Timeout(s)) \/ (\E s \in stray : StrayTimeout(s))
  <2>1. PICK s \in Nat : TimeoutSendAck(s) /\ conn' = conn
    BY <1>6 DEF Timeout, StrayTimeout, TypeOK, connVars
  <2> QED
    BY <2>1, TimeoutWindow
<1>7. CASE \E s \in wire : CameraReceive(s)
  BY <1>7, <1>1 DEF CameraReceive, connVars
<1> QED
  BY <1>1, <1>2, <1>3, <1>4, <1>5, <1>6, <1>7 DEF Next, CallStep

(* They are an invariant. *)
THEOREM WindowCorrect == Spec => []WindowInv
<1>1. Init => WindowInv
  <2> SUFFICES ASSUME Init PROVE WindowInv
    OBVIOUS
  <2>1. DOMAIN window = {} /\ timers = {} /\ queue = <<>>
    BY NoPacketsType DEF Init
  <2>2. IsFiniteSet(DOMAIN window) /\ Cardinality(DOMAIN window) = 0
    BY <2>1, FS_EmptySet
  <2>3. Cardinality(DOMAIN window) <= Window
    BY <2>2
  <2> QED
    BY <2>1, <2>2, <2>3 DEF WindowInv, WindowBound, NoStall, Armed
<1>2. TypeOK /\ WindowInv /\ [Next]_vars => WindowInv'
  BY WindowStep
<1> QED
  BY <1>1, <1>2, TypeCorrect, PTL DEF Spec

(* Whatever mix of writes, ACKs and timeouts fills and empties it, the     *)
(* window never holds more than UDP_SEND_WINDOW packets.                   *)
THEOREM WindowIsBounded == Spec => []WindowBound
<1>1. WindowInv => WindowBound
  BY DEF WindowInv
<1> QED
  BY <1>1, WindowCorrect, PTL

(* On an open connection a packet is queued only while the window is full: *)
(* the queue is never left standing with nothing that would restart it.    *)
THEOREM QueueNeverStalls == Spec => []NoStall
<1>1. WindowInv => NoStall
  BY DEF WindowInv
<1> QED
  BY <1>1, WindowCorrect, PTL

(* A number is in doubt when packets of two calls have it.  Of the packets *)
(* of queue q and window w that happens only to numbers in L; all others   *)
(* are below n, the next number.                                           *)
Tidy(q, w, n, L) ==
  /\ \A s \in DOMAIN w : s < n \/ s \in L
  /\ \A i \in 1..Len(q) : q[i].seq < n \/ q[i].seq \in L
  /\ \A i, j \in 1..Len(q) : i # j /\ q[i].seq = q[j].seq => q[i].seq \in L
  /\ \A i \in 1..Len(q) : q[i].seq \in DOMAIN w => q[i].seq \in L

(* Only numbers of calls that waited for a twin are in doubt, and only a *)
(* call that is under way has waited.                                    *)
LateInv == /\ \A c \in Cmd : st[c] = "idle" => twin[c] = c
           /\ \A c \in Cmd : st[c] = "held" => twin[c] # c
           /\ Tidy(queue, window, nextSeq, Late)
           /\ stray \subseteq Late

(* _send_next replaces only packets whose number is in doubt. *)
LEMMA SendNextTidy ==
  ASSUME NEW q \in Seq(Packet), NEW w, NEW t, NEW n \in Nat, NEW L,
         SendNext(q, w, t), Tidy(q, w, n, L), stray \subseteq L
  PROVE  Tidy(queue', window', n, L) /\ stray' \subseteq L
<1>1. PICK k \in 0..Len(q) :
        /\ queue' = SubSeq(q, k + 1, Len(q))
        /\ DOMAIN window' = DOMAIN w \union First(q, k)
        /\ stray' = stray \union Replaced(q, w, t, k)
  BY DEF SendNext
<1>2. Len(q) \in Nat /\ k \in Nat /\ k <= Len(q)
  OBVIOUS
<1>3. Len(queue') = Len(q) - k /\ \A i \in 1..Len(queue') : queue'[i] = q[k + i]
  BY <1>1, <1>2
<1>4. \A i \in 1..Len(queue') : k + i \in 1..Len(q)
  BY <1>2, <1>3
<1>5. \A i \in 1..k : i \in 1..Len(q)
  BY <1>2
<1>6. \A s \in First(q, k) : \E i \in 1..Len(q) : i <= k /\ q[i].seq = s
  BY <1>2, <1>5 DEF First
<1>7. Replaced(q, w, t, k) \subseteq L
  <2>1. ASSUME NEW s \in First(q, k), s \in DOMAIN w PROVE s \in L
    BY <1>6, <2>1 DEF Tidy
  <2>2. ASSUME NEW s, \E i, j \in 1..k : i < j /\ q[i].seq = s /\ q[j].seq = s
        PROVE  s \in L
    <3>1. PICK i, j \in 1..k : i < j /\ q[i].seq = s /\ q[j].seq = s
      BY <2>2
    <3>2. i \in 1..Len(q) /\ j \in 1..Len(q) /\ i # j
      BY <1>5, <3>1
    <3> QED
      BY <3>1, <3>2 DEF Tidy
  <2> QED
    BY <2>1, <2>2 DEF Replaced
<1>8. \A s \in DOMAIN window' : s < n \/ s \in L
  <2>1. \A s \in First(q, k) : s < n \/ s \in L
    BY <1>6 DEF Tidy
  <2>2. \A s \in DOMAIN w : s < n \/ s \in L
    BY DEF Tidy
  <2> QED
    BY <1>1, <2>1, <2>2
<1>9. \A i \in 1..Len(queue') : queue'[i].seq < n \/ queue'[i].seq \in L
  BY <1>3, <1>4 DEF Tidy
<1>10. ASSUME NEW i \in 1..Len(queue'), NEW j \in 1..Len(queue'),
              i # j, queue'[i].seq = queue'[j].seq
       PROVE  queue'[i].seq \in L
  <2>1. k + i # k + j
    BY <1>2, <1>10
  <2> QED
    BY <1>3, <1>4, <1>10, <2>1 DEF Tidy
<1>11. ASSUME NEW i \in 1..Len(queue'), queue'[i].seq \in DOMAIN window'
       PROVE  queue'[i].seq \in L
  <2>1. CASE queue'[i].seq \in DOMAIN w
    BY <1>3, <1>4, <2>1 DEF Tidy
  <2>2. CASE queue'[i].seq \in First(q, k)
    <3>1. PICK j \in 1..Len(q) : j <= k /\ q[j].seq = queue'[i].seq
      BY <1>6, <2>2
    <3>2. j # k + i
      BY <1>2, <3>1
    <3> QED
      BY <1>3, <1>4, <3>1, <3>2 DEF Tidy
  <2> QED
    BY <1>1, <1>11, <2>1, <2>2
<1> QED
  BY <1>1, <1>7, <1>8, <1>9, <1>10, <1>11 DEF Tidy

(* Packets with new numbers, or with numbers in doubt, keep it so. *)
LEMMA AppendTidy ==
  ASSUME NEW q \in Seq(Packet), NEW w, NEW n \in Nat, NEW m \in Nat, n <= m, NEW L,
         DOMAIN w \subseteq Nat, Tidy(q, w, n, L),
         NEW c \in Cmd, NEW s \in Nat, NEW e \in Nat,
         \A x \in s..(s + Size[c] - 1) : (n <= x /\ x < m) \/ x \in L
  PROVE  Tidy(q \o PacketsOf(c, s, e), w, m, L)
<1> DEFINE p == PacketsOf(c, s, e)
           r == q \o p
<1>1. p \in Seq(Packet) /\ Len(p) = Size[c] /\ Size[c] \in Nat
  BY PacketsType, CmdAssumption
<1>2. ASSUME NEW i \in 1..Size[c]
      PROVE  p[i].seq = s + i - 1 /\ s + i - 1 \in s..(s + Size[c] - 1)
  <2>1. p[i] = [seq |-> s + i - 1, cmd |-> c, ep |-> e]
    BY DEF PacketsOf
  <2> QED
    BY <1>1, <2>1
<1> HIDE DEF p
<1>3. Len(q) \in Nat /\ Len(r) = Len(q) + Size[c]
  BY <1>1
<1>4. \A i \in 1..Len(q) : r[i] = q[i]
  BY <1>1
<1>5. \A i \in (Len(q) + 1)..Len(r) : r[i] = p[i - Len(q)] /\ i - Len(q) \in 1..Size[c]
  BY <1>1, <1>3
<1> HIDE DEF r
<1> DEFINE Old == 1..Len(q)
           New == (Len(q) + 1)..Len(r)
<1>6. \A i \in 1..Len(r) : i \in Old \/ i \in New
  BY <1>1, <1>3
<1>7. \A i \in Old : q[i].seq \in Nat
  <2>1. \A i \in Old : q[i] \in Packet
    OBVIOUS
  <2> QED
    BY <2>1 DEF Packet
<1>8. \A i \in New : r[i].seq \in Nat /\ ((n <= r[i].seq /\ r[i].seq < m) \/ r[i].seq \in L)
  <2> SUFFICES ASSUME NEW i \in New
               PROVE  r[i].seq \in Nat /\ ((n <= r[i].seq /\ r[i].seq < m) \/ r[i].seq \in L)
    OBVIOUS
  <2>1. i - Len(q) \in 1..Size[c] /\ r[i].seq = s + (i - Len(q)) - 1
    BY <1>2, <1>5
  <2>2. r[i].seq \in s..(s + Size[c] - 1)
    BY <1>2, <2>1
  <2>3. r[i].seq \in Nat
    BY <1>1, <2>2
  <2> QED
    BY <2>2, <2>3
<1>9. \A i \in Old : r[i].seq = q[i].seq /\ (q[i].seq < n \/ q[i].seq \in L)
  BY <1>4 DEF Tidy
<1>10. ASSUME NEW i \in New, NEW j \in New, i # j, r[i].seq = r[j].seq
       PROVE  FALSE
  <2>1. r[i].seq = s + (i - Len(q)) - 1 /\ r[j].seq = s + (j - Len(q)) - 1
    BY <1>2, <1>5
  <2>2. i \in Int /\ j \in Int /\ Len(q) \in Int /\ s \in Int
    BY <1>3
  <2>3. s + (i - Len(q)) - 1 = s + (j - Len(q)) - 1
    BY <1>10, <2>1
  <2>4. i = j
    BY ONLY <2>2, <2>3
  <2> QED
    BY <1>10, <2>4
<1>11. \A x \in DOMAIN w : x \in Nat /\ (x < n \/ x \in L)
  BY DEF Tidy
<1> HIDE DEF Old, New
<1>12. ASSUME NEW i \in New, NEW x \in Nat, x < n \/ x \in L, r[i].seq = x
       PROVE  x \in L
  <2>1. \/ n <= r[i].seq /\ r[i].seq < m
        \/ r[i].seq \in L
    BY <1>8
  <2> QED
    BY ONLY <1>12, <2>1, n \in Nat, x \in Nat
<1>13. \A x \in DOMAIN w : x < m \/ x \in L
  BY <1>11
<1>14. \A i \in 1..Len(r) : r[i].seq < m \/ r[i].seq \in L
  <2>1. \A i \in Old : r[i].seq < m \/ r[i].seq \in L
    BY <1>7, <1>9
  <2> QED
    BY <1>6, <1>8, <2>1
<1>15. \A i \in 1..Len(r) : r[i].seq \in DOMAIN w => r[i].seq \in L
  <2>1. \A i \in Old : r[i].seq \in DOMAIN w => r[i].seq \in L
    BY <1>9 DEF Tidy, Old
  <2>2. \A i \in New : r[i].seq \in DOMAIN w => r[i].seq \in L
    BY <1>11, <1>12
  <2> QED
    BY <1>6, <2>1, <2>2
<1>16. ASSUME NEW i \in 1..Len(r), NEW j \in 1..Len(r), i # j, r[i].seq = r[j].seq
       PROVE  r[i].seq \in L
  <2>1. CASE i \in Old /\ j \in Old
    BY <1>9, <1>16, <2>1 DEF Tidy, Old
  <2>2. CASE i \in Old /\ j \in New
    BY <1>7, <1>9, <1>12, <1>16, <2>2
  <2>3. CASE i \in New /\ j \in Old
    BY <1>7, <1>9, <1>12, <1>16, <2>3
  <2>4. CASE i \in New /\ j \in New
    BY <1>10, <1>16, <2>4
  <2> QED
    BY <1>6, <2>1, <2>2, <2>3, <2>4
<1> QED
  BY <1>13, <1>14, <1>15, <1>16 DEF Tidy, r, p

(* A step that takes no numbers and starts no call. *)
Calm == /\ UNCHANGED <<base, twin>>
        /\ \A c \in Cmd : /\ st'[c] = "idle" => st[c] = "idle"
                          /\ st'[c] = "held" => st[c] = "held"

(* Such a step is harmless when it leaves the packets alone, drops them, *)
(* or moves some on.                                                     *)
LEMMA LateCalm ==
  ASSUME TypeOK, LateInv, Calm,
         \/ UNCHANGED <<nextSeq, queue, window, stray>>
         \/ queue' = <<>> /\ window' = NoPackets /\ stray' = stray
         \/ Tidy(queue', window', nextSeq', Late) /\ stray' \subseteq Late
  PROVE  LateInv'
<1>1. Late' = Late
  BY DEF Calm, Late, Seqs
<1>2. \A c \in Cmd : /\ st'[c] = "idle" => twin'[c] = c
                     /\ st'[c] = "held" => twin'[c] # c
  BY DEF Calm, LateInv
<1>3. Tidy(queue', window', nextSeq', Late) /\ stray' \subseteq Late
  <2>1. CASE UNCHANGED <<nextSeq, queue, window, stray>>
    BY <2>1 DEF LateInv
  <2>2. CASE queue' = <<>> /\ window' = NoPackets /\ stray' = stray
    <3>1. DOMAIN window' = {} /\ 1..Len(queue') = {}
      BY <2>2, NoPacketsType
    <3> QED
      BY <2>2, <3>1 DEF LateInv, Tidy
  <2> QED
    BY <2>1, <2>2
<1> QED
  BY <1>1, <1>2, <1>3 DEF LateInv

(* The steps of a call. *)
LEMMA LateCall ==
  ASSUME TypeOK, LateInv, NEW c \in Cmd, CallStep(c)
  PROVE  LateInv'
<1>1. base[c] \in Header /\ base[c].seq \in Nat /\ base[c].ep \in Nat /\ nextSeq \in Nat /\ epoch \in Nat
  BY DEF TypeOK, Header
<1>2. Size[c] \in Nat /\ Size[c] > 0
  BY CmdAssumption
<1>3. queue \in Seq(Packet) /\ DOMAIN window \subseteq Nat
  BY DEF TypeOK
<1>4. Tidy(queue, window, nextSeq, Late) /\ stray \subseteq Late
  BY DEF LateInv
<1>5. CASE Send(c)
  <2>1. twin[c] = c /\ st' = [st EXCEPT ![c] = Written(c)] /\ twin' = twin
    BY <1>5 DEF Send, LateInv
  <2>2. base' = [base EXCEPT ![c] = [seq |-> nextSeq, ep |-> epoch]]
    BY <1>5 DEF Send
  <2>3. \A d \in Cmd : d # c => base'[d] = base[d]
    BY <2>2 DEF TypeOK
  <2>4. Late' = Late
    <3>1. {d \in Cmd : twin'[d] # d} = {d \in Cmd : twin[d] # d}
      BY <2>1
    <3>2. \A d \in {x \in Cmd : twin[x] # x} : Seqs(d)' = Seqs(d)
      BY <2>1, <2>3 DEF Seqs
    <3> QED
      BY <3>1, <3>2 DEF Late
  <2>5. nextSeq' = nextSeq + Size[c] /\ Write(c, nextSeq, epoch)
    BY <1>5 DEF Send
  <2>6. nextSeq' \in Nat /\ nextSeq <= nextSeq'
    BY <1>1, <1>2, <2>5
  <2>7. \A x \in nextSeq..(nextSeq + Size[c] - 1) : nextSeq <= x /\ x < nextSeq'
    BY <1>1, <1>2, <2>5
  <2>8. Tidy(queue \o PacketsOf(c, nextSeq, epoch), window, nextSeq', Late)
    BY <1>1, <1>3, <1>4, <2>6, <2>7, AppendTidy
  <2>9. queue \o PacketsOf(c, nextSeq, epoch) \in Seq(Packet)
    BY <1>1, <1>3, PacketsType
  <2>10. Tidy(queue', window', nextSeq', Late) /\ stray' \subseteq Late
    BY <1>4, <2>5, <2>6, <2>8, <2>9, SendNextTidy DEF Write
  <2>11. Written(c) # "idle" /\ Written(c) # "held"
    BY DEF Written
  <2>12. \A d \in Cmd : /\ st'[d] = "idle" => twin'[d] = d
                        /\ st'[d] = "held" => twin'[d] # d
    BY <2>1, <2>11 DEF LateInv, TypeOK
  <2> QED
    BY <2>4, <2>10, <2>12 DEF LateInv
<1>6. CASE Hold(c)
  <2>1. st[c] = "idle" /\ twin[c] = c /\ st' = [st EXCEPT ![c] = "held"]
    BY <1>6 DEF Hold, LateInv
  <2>2. PICK d \in Twins(c) : twin' = [twin EXCEPT ![c] = d]
    BY <1>6 DEF Hold
  <2>3. d # c /\ d \in Cmd
    BY DEF Twins
  <2>4. \A x \in Cmd : x # c => base'[x] = base[x] /\ twin'[x] = twin[x] /\ st'[x] = st[x]
    BY <1>6, <2>1, <2>2 DEF Hold, TypeOK
  <2>5. twin'[c] # c /\ st'[c] = "held"
    BY <2>1, <2>2, <2>3 DEF TypeOK
  <2>6. Late \subseteq Late'
    <3>1. \A x \in {y \in Cmd : twin[y] # y} : x \in Cmd /\ twin'[x] # x /\ Seqs(x)' = Seqs(x)
      BY <2>1, <2>4 DEF Seqs
    <3> QED
      BY <3>1 DEF Late
  <2>7. nextSeq' = nextSeq + Size[c] /\ UNCHANGED <<queue, window, stray>>
    BY <1>6 DEF Hold, bufferVars
  <2>8. \A i \in 1..Len(queue) : queue[i].seq \in Nat
    <3>1. \A i \in 1..Len(queue) : queue[i] \in Packet
      BY <1>3
    <3> QED
      BY <3>1 DEF Packet
  <2>9. \A x \in Nat : x < nextSeq => x < nextSeq + Size[c]
    BY <1>1, <1>2
  <2>10. Tidy(queue, window, nextSeq + Size[c], Late')
    BY <1>3, <1>4, <2>6, <2>8, <2>9 DEF Tidy
  <2>11. Tidy(queue', window', nextSeq', Late') /\ stray' \subseteq Late'
    BY <1>4, <2>6, <2>7, <2>10
  <2>12. \A x \in Cmd : /\ st'[x] = "idle" => twin'[x] = x
                        /\ st'[x] = "held" => twin'[x] # x
    BY <2>4, <2>5 DEF LateInv
  <2> QED
    BY <2>11, <2>12 DEF LateInv
<1>7. CASE WriteHeld(c)
  <2>1. twin[c] # c /\ UNCHANGED <<base, twin, nextSeq>> /\ Write(c, base[c].seq, base[c].ep)
    BY <1>7 DEF WriteHeld, LateInv
  <2>2. Seqs(c) \subseteq Late
    BY <2>1 DEF Late
  <2>3. \A x \in base[c].seq..(base[c].seq + Size[c] - 1) : x \in Late
    BY <2>2 DEF Seqs
  <2> DEFINE q == queue
             x0 == base[c].seq
             e0 == base[c].ep
             n0 == nextSeq
             w0 == window
  <2>4. /\ q \in Seq(Packet) /\ DOMAIN w0 \subseteq Nat
         /\ x0 \in Nat /\ e0 \in Nat /\ n0 \in Nat /\ n0 <= n0
         /\ Tidy(q, w0, n0, Late)
         /\ \A x \in x0..(x0 + Size[c] - 1) : (n0 <= x /\ x < n0) \/ x \in Late
    BY <1>1, <1>3, <1>4, <2>3
  <2> HIDE DEF q, x0, e0, n0, w0
  <2>5. Tidy(q \o PacketsOf(c, x0, e0), w0, n0, Late)
    BY <2>4, AppendTidy
  <2>6. Tidy(queue \o PacketsOf(c, base[c].seq, base[c].ep), window, nextSeq, Late)
    BY <2>5 DEF q, x0, e0, n0, w0
  <2>7. queue \o PacketsOf(c, base[c].seq, base[c].ep) \in Seq(Packet)
    BY <1>1, <1>3, PacketsType
  <2>8. Tidy(queue', window', nextSeq, Late) /\ stray' \subseteq Late
    BY <1>1, <1>4, <2>1, <2>6, <2>7, SendNextTidy DEF Write
  <2>9. Calm
    BY <1>7, <2>1 DEF WriteHeld, Calm, TypeOK
  <2> QED
    BY <2>1, <2>8, <2>9, LateCalm
<1>8. CASE ResponseTimeout(c) \/ ResumeAckFailed(c)
  <2>1. FailAndDrop(c)
    BY <1>8 DEF ResponseTimeout, ResumeAckFailed
  <2>2. Calm
    BY <2>1 DEF FailAndDrop, StartClose, headVars, Calm
  <2> QED
    BY <2>1, <2>2, LateCalm DEF FailAndDrop, StartClose, ClearSendBuffer
<1>9. CASE WriteHeldLost(c) \/ HeldTimeout(c) \/ Cancel(c) \/ Answer(c)
  <2>1. UNCHANGED <<nextSeq, bufferVars, base, twin>>
    BY <1>9 DEF WriteHeldLost, HeldTimeout, Cancel, Answer, headVars
  <2>2. \A d \in Cmd : st'[d] = st[d] \/ st'[d] \in {"failed", "done"}
    BY <1>9 DEF WriteHeldLost, HeldTimeout, Cancel, Answer, TypeOK
  <2>3. Calm
    BY <2>1, <2>2 DEF Calm
  <2> QED
    BY <2>1, <2>3, LateCalm DEF bufferVars
<1> QED
  BY <1>5, <1>6, <1>7, <1>8, <1>9 DEF CallStep

(* Every step keeps the numbers in doubt to those of calls that waited. *)
LEMMA LateStep ==
  ASSUME TypeOK, LateInv, [Next]_vars
  PROVE  LateInv'
<1>1. CASE UNCHANGED vars
  BY <1>1, Stuttering, LateCalm DEF Calm
<1>2. CASE Connect \/ Close \/ CameraDisconnect
  BY <1>2, LateCalm DEF Connect, Close, CameraDisconnect, StartClose, ClearSendBuffer,
                        callVars, headVars, Calm
<1>3. CASE ConnectionLost \/ Closed
  <2>1. Calm
    BY <1>3 DEF ConnectionLost, Closed, headVars, Calm
  <2> QED
    BY <1>3, <2>1, LateCalm DEF ConnectionLost, Closed, bufferVars
<1>4. ASSUME NEW c \in Cmd, CallStep(c) PROVE LateInv'
  BY <1>4, LateCall
<1>5. CASE CameraAck
  <2>1. PICK a \in camGot, t \in Tables : ReceivedAck(a, t)
    BY <1>5 DEF CameraAck
  <2> DEFINE left == [s \in DOMAIN window \ Acked(a, t) |-> window[s]]
  <2>2. DOMAIN left \subseteq DOMAIN window
    OBVIOUS
  <2>3. SendNext(queue, left, timers \ Acked(a, t)) /\ UNCHANGED <<nextSeq, callVars>>
    BY <2>1 DEF ReceivedAck
  <2> HIDE DEF left
  <2>4. Tidy(queue, left, nextSeq, Late)
    BY <2>2 DEF LateInv, Tidy
  <2>5. Tidy(queue', window', nextSeq, Late) /\ stray' \subseteq Late
    BY <2>3, <2>4, SendNextTidy DEF LateInv, TypeOK
  <2>6. Calm
    BY <2>3 DEF callVars, headVars, Calm
  <2> QED
    BY <2>3, <2>5, <2>6, LateCalm
<1>6. CASE (\E s \in timers : Timeout(s)) \/ (\E s \in stray : StrayTimeout(s))
  <2>1. PICK s : /\ TimeoutSendAck(s)
                 /\ stray' \subseteq stray
                 /\ UNCHANGED <<connVars, nextSeq, headVars, camGot>>
    BY <1>6 DEF Timeout, StrayTimeout
  <2>2. \A c \in Cmd : st'[c] = st[c] \/ st'[c] = "ackFailed"
    BY <2>1 DEF TimeoutSendAck, Resend, GiveUp
  <2>3. Calm
    BY <2>1, <2>2 DEF Calm, headVars
  <2>4. Tidy(queue', window', nextSeq', Late)
    <3>1. CASE queue' = queue /\ DOMAIN window' = DOMAIN window
      BY <2>1, <3>1 DEF LateInv, Tidy
    <3>2. CASE queue' = <<>> /\ window' = NoPackets
      <4>1. DOMAIN window' = {} /\ 1..Len(queue') = {}
        BY <3>2, NoPacketsType
      <4> QED
        BY <4>1 DEF Tidy
    <3> QED
      BY <2>1, <3>1, <3>2 DEF TimeoutSendAck, Resend, GiveUp
  <2>5. stray' \subseteq Late
    BY <2>1 DEF LateInv
  <2> QED
    BY <2>3, <2>4, <2>5, LateCalm
<1>7. CASE \E s \in wire : CameraReceive(s)
  <2>1. UNCHANGED <<nextSeq, bufferVars, callVars>>
    BY <1>7 DEF CameraReceive
  <2> QED
    BY <2>1, LateCalm DEF bufferVars, callVars, headVars, Calm
<1> QED
  BY <1>1, <1>2, <1>3, <1>4, <1>5, <1>6, <1>7 DEF Next, CallStep

(* On an open connection every packet of the window, and no packet that    *)
(* was acknowledged or dropped, has its own resend timer armed; a timer    *)
(* that outlives its packet is one of a number that a call took before it  *)
(* waited for its twin.                                                    *)
THEOREM TimersMatchWindow == Spec => []Guarded
<1>1. Init => LateInv
  <2> SUFFICES ASSUME Init PROVE LateInv
    OBVIOUS
  <2>1. DOMAIN window = {} /\ 1..Len(queue) = {} /\ stray = {}
    BY NoPacketsType DEF Init
  <2>2. \A c \in Cmd : st[c] = "idle" /\ twin[c] = c
    BY DEF Init
  <2> QED
    BY <2>1, <2>2 DEF LateInv, Tidy
<1>2. TypeOK /\ LateInv /\ [Next]_vars => LateInv'
  BY LateStep
<1>3. WindowInv /\ LateInv => Guarded
  BY DEF WindowInv, Armed, LateInv, Guarded
<1> QED
  BY <1>1, <1>2, <1>3, TypeCorrect, WindowCorrect, PTL DEF Spec

-----------------------------------------------------------------------------
(* Calls and their sequence numbers, when no two calls have the same key *)

DistinctKeys == \A c, d \in Cmd : Key[c] = Key[d] => c = d

(* A call made on the connection that is open, or was the last one. *)
OfEpoch(c) == st[c] # "idle" /\ base[c].ep = epoch

(* No call waits for a twin, a heartbeat has no future, and the calls of a *)
(* connection have numbers of their own, below the next one.               *)
NumberInv ==
  /\ \A c \in Cmd : st[c] # "held"
  /\ \A c \in Cmd : st[c] = "sent" => c \notin Heartbeats /\ reg[c] = base[c].ep
  /\ \A c \in Cmd : base[c].ep <= epoch
  /\ \A c \in Cmd : OfEpoch(c) => base[c].seq + Size[c] <= nextSeq
  /\ \A c, d \in Cmd : c # d /\ OfEpoch(c) /\ OfEpoch(d) =>
       \/ base[c].seq + Size[c] <= base[d].seq
       \/ base[d].seq + Size[d] <= base[c].seq

(* A step that starts no connection and no call. *)
Quiet == /\ UNCHANGED <<epoch, nextSeq, base, reg>>
         /\ \A c \in Cmd : /\ st'[c] = "idle" <=> st[c] = "idle"
                           /\ st'[c] # "held"
                           /\ st'[c] = "sent" => st[c] = "sent"

(* Without equal keys nobody waits for a twin. *)
LEMMA NoTwin ==
  ASSUME DistinctKeys, NEW c \in Cmd
  PROVE  Twins(c) = {}
  BY DEF DistinctKeys, Twins

(* The number of packets of a call. *)
LEMMA SizeType ==
  ASSUME NEW c \in Cmd
  PROVE  Size[c] \in Nat /\ Size[c] > 0
  BY CmdAssumption

(* Only Connect and Send start something. *)
LEMMA QuietSteps ==
  ASSUME TypeOK, NumberInv, DistinctKeys, [Next]_vars,
         ~Connect, \A c \in Cmd : ~Send(c)
  PROVE  Quiet
<1> USE DEF NumberInv
<1>1. CASE UNCHANGED vars
  BY <1>1, Stuttering DEF Quiet
<1>2. CASE Close \/ CameraDisconnect
  BY <1>2 DEF Close, CameraDisconnect, StartClose, headVars, Quiet
<1>3. CASE ConnectionLost \/ Closed
  <2>1. \A c \in Cmd : st'[c] = st[c] \/ (st[c] \in {"sent", "dropping"} /\ st'[c] = "failed")
    BY <1>3 DEF ConnectionLost, Closed
  <2> QED
    BY <1>3, <2>1 DEF ConnectionLost, Closed, headVars, Quiet
<1>4. ASSUME NEW c \in Cmd, CallStep(c) PROVE Quiet
  <2>1. ~Hold(c) /\ ~WriteHeld(c) /\ ~WriteHeldLost(c) /\ ~HeldTimeout(c) /\ ~Send(c)
    BY NoTwin DEF Hold, WriteHeld, WriteHeldLost, HeldTimeout
  <2>2. CASE Cancel(c)
    <3>1. st[c] = "sent" /\ CancelledWith(c) = {c}
      BY <2>2, NoTwin DEF Cancel, CancelledWith
    <3>2. \A d \in Cmd : st'[d] = IF d = c THEN "failed" ELSE st[d]
      BY <2>2, <3>1, NoTwin DEF Cancel, WaitersOn
    <3> QED
      BY <2>2, <3>1, <3>2 DEF Cancel, connVars, headVars, Quiet
  <2>3. CASE ResponseTimeout(c) \/ ResumeAckFailed(c) \/ Answer(c)
    <3>1. PICK v \in {"failed", "dropping", "done"} :
            \A d \in Cmd : st'[d] = IF d = c THEN v ELSE st[d]
      <4>1. CASE Answer(c)
        BY <4>1 DEF Answer, TypeOK
      <4>2. CASE FailAndDrop(c)
        <5>1. WaitersOn({c}) = {}
          BY NoTwin DEF WaitersOn
        <5>2. st' = [d \in Cmd |-> IF d = c /\ conn # "none" THEN "dropping"
                                   ELSE IF d = c THEN "failed" ELSE st[d]]
          BY <4>2, <5>1 DEF FailAndDrop
        <5>3. CASE conn = "none"
          BY <5>2, <5>3
        <5>4. CASE conn # "none"
          BY <5>2, <5>4
        <5> QED
          BY <5>3, <5>4
      <4> QED
        BY <2>3, <4>1, <4>2 DEF ResponseTimeout, ResumeAckFailed
    <3>2. st[c] # "idle" /\ UNCHANGED <<epoch, nextSeq, base, reg>>
      BY <2>3 DEF ResponseTimeout, ResumeAckFailed, Answer, FailAndDrop, StartClose,
                  connVars, headVars
    <3> QED
      BY <3>1, <3>2 DEF Quiet
  <2> QED
    BY <1>4, <2>1, <2>2, <2>3 DEF CallStep
<1>5. CASE CameraAck
  BY <1>5 DEF CameraAck, ReceivedAck, callVars, headVars, connVars, Quiet
<1>6. CASE (\E s \in timers : Timeout(s)) \/ (\E s \in stray : StrayTimeout(s))
  <2>1. PICK s \in Nat : /\ TimeoutSendAck(s)
                         /\ UNCHANGED <<connVars, nextSeq, headVars, camGot>>
    BY <1>6 DEF Timeout, StrayTimeout, TypeOK
  <2>2. \A c \in Cmd : st'[c] = st[c] \/ (st[c] = "sent" /\ st'[c] = "ackFailed")
    BY <2>1 DEF TimeoutSendAck, Resend, GiveUp
  <2> QED
    BY <2>1, <2>2 DEF Quiet, connVars, headVars
<1>7. CASE \E s \in wire : CameraReceive(s)
  BY <1>7 DEF CameraReceive, callVars, headVars, connVars, Quiet
<1> QED
  BY <1>1, <1>2, <1>3, <1>4, <1>5, <1>6, <1>7 DEF Next, CallStep

(* What Send does to the numbers. *)
LEMMA SendNumbers ==
  ASSUME TypeOK, NEW c \in Cmd, Send(c)
  PROVE  /\ st[c] = "idle"
         /\ nextSeq' = nextSeq + Size[c]
         /\ epoch' = epoch
         /\ base'[c] = [seq |-> nextSeq, ep |-> epoch]
         /\ reg'[c] = epoch
         /\ st'[c] = Written(c)
         /\ \A d \in Cmd \ {c} : base'[d] = base[d] /\ reg'[d] = reg[d] /\ st'[d] = st[d]
  BY DEF Send, TypeOK, connVars

(* Every step keeps the numbers of the calls apart. *)
LEMMA NumberStep ==
  ASSUME TypeOK, TypeOK', NumberInv, DistinctKeys, [Next]_vars
  PROVE  NumberInv'
<1>1. CASE Quiet
  <2>1. \A c \in Cmd : OfEpoch(c)' <=> OfEpoch(c)
    BY <1>1 DEF Quiet, OfEpoch
  <2> QED
    BY <1>1, <2>1 DEF Quiet, NumberInv
<1>2. CASE Connect
  <2>1. epoch' = epoch + 1 /\ epoch \in Nat /\ base' = base /\ reg' = reg /\ st' = st
    BY <1>2 DEF Connect, callVars, headVars, TypeOK
  <2>2. \A c \in Cmd : base[c].ep \in Nat /\ base[c].ep <= epoch
    BY DEF NumberInv, TypeOK, Header
  <2>3. \A c \in Cmd : ~OfEpoch(c)' /\ base'[c].ep <= epoch'
    BY <2>1, <2>2 DEF OfEpoch
  <2> QED
    BY <2>1, <2>3 DEF NumberInv
<1>3. ASSUME NEW c \in Cmd, Send(c) PROVE NumberInv'
  <2>1. /\ nextSeq' = nextSeq + Size[c] /\ epoch' = epoch
        /\ base'[c].seq = nextSeq /\ base'[c].ep = epoch /\ reg'[c] = epoch
        /\ st'[c] = Written(c)
        /\ \A d \in Cmd \ {c} : base'[d] = base[d] /\ reg'[d] = reg[d] /\ st'[d] = st[d]
    BY <1>3, SendNumbers
  <2>2. nextSeq \in Nat /\ epoch \in Nat
    BY DEF TypeOK
  <2>3. \A d \in Cmd : base[d].seq \in Nat /\ base[d].ep \in Nat /\ Size[d] \in Nat
    BY SizeType DEF TypeOK, Header
  <2>4. \A d \in Cmd \ {c} : OfEpoch(d)' <=> OfEpoch(d)
    BY <2>1 DEF OfEpoch
  <2>5. \A d \in Cmd : /\ st'[d] # "held"
                       /\ st'[d] = "sent" => d \notin Heartbeats /\ reg'[d] = base'[d].ep
    <3>1. /\ st'[c] # "held"
          /\ st'[c] = "sent" => c \notin Heartbeats /\ reg'[c] = base'[c].ep
      BY <2>1 DEF Written
    <3> QED
      BY <2>1, <3>1 DEF NumberInv
  <2>6. \A d \in Cmd : base'[d].ep <= epoch'
    BY <2>1, <2>2 DEF NumberInv
  <2>7. \A d \in Cmd \ {c} : OfEpoch(d) => base[d].seq + Size[d] <= nextSeq
    BY DEF NumberInv
  <2>8. \A d \in Cmd : OfEpoch(d)' => base'[d].seq + Size[d] <= nextSeq'
    BY <2>1, <2>2, <2>3, <2>4, <2>7
  <2>9. \A d \in Cmd \ {c} : OfEpoch(d)' => base'[d].seq + Size[d] <= base'[c].seq
    BY <2>1, <2>4, <2>7
  <2>10. \A d, e \in Cmd : d # e /\ OfEpoch(d)' /\ OfEpoch(e)' =>
            \/ base'[d].seq + Size[d] <= base'[e].seq
            \/ base'[e].seq + Size[e] <= base'[d].seq
    <3> SUFFICES ASSUME NEW d \in Cmd, NEW e \in Cmd, d # e, OfEpoch(d)', OfEpoch(e)'
                 PROVE  \/ base'[d].seq + Size[d] <= base'[e].seq
                        \/ base'[e].seq + Size[e] <= base'[d].seq
      OBVIOUS
    <3>1. CASE d = c \/ e = c
      BY <2>9, <3>1
    <3>2. CASE d # c /\ e # c
      BY <2>1, <2>4, <3>2 DEF NumberInv
    <3> QED
      BY <3>1, <3>2
  <2> QED
    BY <2>5, <2>6, <2>8, <2>10 DEF NumberInv
<1> QED
  BY <1>1, <1>2, <1>3, QuietSteps

-----------------------------------------------------------------------------
(* Packets and the calls they belong to *)

(* Packet number s with host id e, of call c, is one of the connection. *)
Owned(s, c, e) == c \in Cmd /\ OfEpoch(c) /\ e = epoch /\ s \in Seqs(c)

OwnedInv == /\ \A s \in DOMAIN window : Owned(s, window[s].cmd, window[s].ep)
            /\ \A i \in 1..Len(queue) : Owned(queue[i].seq, queue[i].cmd, queue[i].ep)

(* Nothing a call that waits has sent is lost track of. *)
Queued(q) == {q[i].seq : i \in 1..Len(q)}

KeptInv == conn = "open" =>
             \A c \in Cmd : Waiting(c) =>
               \A s \in Seqs(c) : \/ s \in camGot
                                  \/ s \in DOMAIN window
                                  \/ s \in Queued(queue)

(* _send_next loses no packet, and makes none. *)
LEMMA SendNextKeeps ==
  ASSUME NEW q \in Seq(Packet), NEW w, NEW t, SendNext(q, w, t)
  PROVE  /\ \A s : s \in DOMAIN w \/ s \in Queued(q) =>
               s \in DOMAIN window' \/ s \in Queued(queue')
         /\ \A i \in 1..Len(queue') : \E j \in 1..Len(q) : queue'[i] = q[j]
         /\ \A s \in DOMAIN window' :
              \/ s \in DOMAIN w /\ window'[s] = w[s]
              \/ \E j \in 1..Len(q) : /\ q[j].seq = s
                                      /\ window'[s].cmd = q[j].cmd
                                      /\ window'[s].ep = q[j].ep
<1>1. PICK n \in 0..Len(q) :
        /\ queue' = SubSeq(q, n + 1, Len(q))
        /\ window' = [s \in DOMAIN w \union First(q, n) |->
                        IF s \in First(q, n)
                          THEN [cmd |-> q[LastMoved(q, n, s)].cmd,
                                ep |-> q[LastMoved(q, n, s)].ep,
                                resends |-> 0]
                          ELSE w[s]]
  BY DEF SendNext
<1>2. Len(q) \in Nat /\ n \in Nat /\ n <= Len(q)
  OBVIOUS
<1>3. Len(queue') = Len(q) - n /\ \A i \in 1..Len(queue') : queue'[i] = q[n + i]
  BY <1>1, <1>2
<1>4. \A i \in 1..Len(queue') : n + i \in 1..Len(q)
  BY <1>2, <1>3
<1>5. \A i \in 1..Len(queue') : \E j \in 1..Len(q) : queue'[i] = q[j]
  BY <1>3, <1>4
<1>6. DOMAIN window' = DOMAIN w \union First(q, n)
  BY <1>1
<1>7. ASSUME NEW s, s \in DOMAIN w \/ s \in Queued(q)
      PROVE  s \in DOMAIN window' \/ s \in Queued(queue')
  <2>1. CASE s \in DOMAIN w
    BY <1>6, <2>1
  <2>2. CASE s \in Queued(q)
    <3>1. PICK j \in 1..Len(q) : q[j].seq = s
      BY <2>2 DEF Queued
    <3>2. CASE j <= n
      <4>1. j \in 1..n
        BY <1>2, <3>2
      <4>2. s \in First(q, n)
        BY <3>1, <4>1 DEF First
      <4> QED
        BY <1>6, <4>2
    <3>3. CASE j > n
      <4>1. j - n \in 1..Len(queue') /\ n + (j - n) = j
        BY <1>2, <1>3, <3>3
      <4>2. queue'[j - n].seq = s
        BY <1>3, <3>1, <4>1
      <4> QED
        BY <4>1, <4>2 DEF Queued
    <3> QED
      BY <1>2, <3>2, <3>3
  <2> QED
    BY <1>7, <2>1, <2>2
<1>8. ASSUME NEW s \in DOMAIN window'
      PROVE  \/ s \in DOMAIN w /\ window'[s] = w[s]
             \/ \E j \in 1..Len(q) : /\ q[j].seq = s
                                     /\ window'[s].cmd = q[j].cmd
                                     /\ window'[s].ep = q[j].ep
  <2>1. CASE s \in First(q, n)
    <3>1. LastMoved(q, n, s) \in 1..n /\ q[LastMoved(q, n, s)].seq = s
      BY <1>2, <2>1, LastMovedIs
    <3>2. LastMoved(q, n, s) \in 1..Len(q)
      BY <1>2, <3>1
    <3>3. window'[s] = [cmd |-> q[LastMoved(q, n, s)].cmd,
                        ep |-> q[LastMoved(q, n, s)].ep, resends |-> 0]
      BY <1>1, <1>6, <2>1
    <3> QED
      BY <3>1, <3>2, <3>3
  <2>2. CASE s \notin First(q, n)
    BY <1>1, <1>6, <2>2
  <2> QED
    BY <2>1, <2>2
<1> QED
  BY <1>5, <1>7, <1>8

(* What a write adds to the queue. *)
LEMMA Appended ==
  ASSUME NEW q \in Seq(Packet), NEW c \in Cmd, NEW s \in Nat, NEW e \in Nat
  PROVE  LET r == q \o PacketsOf(c, s, e)
         IN  /\ r \in Seq(Packet)
             /\ Queued(q) \subseteq Queued(r)
             /\ s..(s + Size[c] - 1) \subseteq Queued(r)
             /\ \A i \in 1..Len(r) :
                  \/ i \in 1..Len(q) /\ r[i] = q[i]
                  \/ r[i].cmd = c /\ r[i].ep = e /\ r[i].seq \in s..(s + Size[c] - 1)
<1> DEFINE new == PacketsOf(c, s, e)
           r == q \o new
<1>1. new \in Seq(Packet) /\ Len(new) = Size[c] /\ Size[c] \in Nat
  BY PacketsType, SizeType
<1>2. \A i \in 1..Size[c] : new[i] = [seq |-> s + i - 1, cmd |-> c, ep |-> e]
  BY DEF PacketsOf
<1> HIDE DEF new
<1>3. /\ r \in Seq(Packet)
      /\ Len(r) = Len(q) + Size[c]
      /\ \A i \in 1..Len(q) : r[i] = q[i]
      /\ \A i \in 1..Size[c] : r[Len(q) + i] = new[i]
  <2>1. r \in Seq(Packet) /\ Len(r) = Len(q) + Size[c]
    BY <1>1
  <2>2. \A i \in 1..Len(q) : r[i] = q[i]
    BY <1>1
  <2>3. ASSUME NEW i \in 1..Size[c] PROVE r[Len(q) + i] = new[i]
    <3>1. Len(q) + i \in 1..(Len(q) + Len(new)) /\ ~(Len(q) + i <= Len(q))
      BY <1>1
    <3>2. r[Len(q) + i] = new[Len(q) + i - Len(q)]
      BY <1>1, <3>1
    <3> QED
      BY <3>2
  <2> QED
    BY <2>1, <2>2, <2>3
<1> HIDE DEF r
<1>4. Len(q) \in Nat
  OBVIOUS
<1>5. \A i \in 1..Len(q) : i \in 1..Len(r)
  BY <1>1, <1>3, <1>4
<1>6. Queued(q) \subseteq Queued(r)
  BY <1>3, <1>5 DEF Queued
<1>7. ASSUME NEW k \in s..(s + Size[c] - 1) PROVE k \in Queued(r)
  <2>1. k - s + 1 \in 1..Size[c] /\ Len(q) + (k - s + 1) \in 1..Len(r)
    BY <1>1, <1>3, <1>4
  <2>2. r[Len(q) + (k - s + 1)].seq = s + (k - s + 1) - 1
    <3>1. r[Len(q) + (k - s + 1)] = new[k - s + 1]
      BY <1>3, <2>1
    <3>2. new[k - s + 1] = [seq |-> s + (k - s + 1) - 1, cmd |-> c, ep |-> e]
      BY <1>2, <2>1
    <3> QED
      BY <3>1, <3>2
  <2>3. s + (k - s + 1) - 1 = k
    OBVIOUS
  <2> QED
    BY <2>1, <2>2, <2>3 DEF Queued
<1>8. ASSUME NEW i \in 1..Len(r)
      PROVE  \/ i \in 1..Len(q) /\ r[i] = q[i]
             \/ r[i].cmd = c /\ r[i].ep = e /\ r[i].seq \in s..(s + Size[c] - 1)
  <2>1. CASE i <= Len(q)
    BY <1>3, <1>4, <2>1
  <2>2. CASE i > Len(q)
    <3>1. i - Len(q) \in 1..Size[c] /\ Len(q) + (i - Len(q)) = i
      BY <1>1, <1>3, <1>4, <2>2
    <3>2. r[i] = [seq |-> s + (i - Len(q)) - 1, cmd |-> c, ep |-> e]
      BY <1>2, <1>3, <3>1
    <3> QED
      BY <1>1, <3>1, <3>2
  <2> QED
    BY <1>4, <2>1, <2>2
<1> QED
  BY <1>3, <1>6, <1>7, <1>8 DEF r, new

(* The packets under a number of a call are those of the call. *)
LEMMA OwnerUnique ==
  ASSUME TypeOK, NumberInv, NEW c \in Cmd, OfEpoch(c), NEW s \in Seqs(c),
         NEW d, NEW e, Owned(s, d, e)
  PROVE  d = c
<1>1. d \in Cmd /\ OfEpoch(d) /\ s \in Seqs(d)
  BY DEF Owned
<1>2. \A x \in Cmd : base[x].seq \in Nat /\ Size[x] \in Nat
  BY SizeType DEF TypeOK, Header
<1>3. /\ s \in Int
      /\ base[c].seq <= s /\ s <= base[c].seq + Size[c] - 1
      /\ base[d].seq <= s /\ s <= base[d].seq + Size[d] - 1
  BY <1>1, <1>2 DEF Seqs
<1>4. c # d => \/ base[c].seq + Size[c] <= base[d].seq
               \/ base[d].seq + Size[d] <= base[c].seq
  BY <1>1 DEF NumberInv
<1> QED
  BY <1>1, <1>2, <1>3, <1>4

PacketInv == OwnedInv /\ KeptInv

(* Dropping everything is harmless when no call waits on an open connection. *)
LEMMA PacketClear ==
  ASSUME queue' = <<>>, window' = NoPackets,
         conn' = "open" => \A c \in Cmd : ~Waiting(c)'
  PROVE  PacketInv'
<1>1. DOMAIN window' = {} /\ 1..Len(queue') = {}
  BY NoPacketsType
<1> QED
  BY <1>1 DEF PacketInv, OwnedInv, KeptInv

(* A quiet step changes no ownership, and makes no call wait. *)
LEMMA QuietOwned ==
  ASSUME Quiet
  PROVE  /\ \A s, c, e : Owned(s, c, e) => c \in Cmd /\ OfEpoch(c)' /\ e = epoch' /\ s \in Seqs(c)'
         /\ \A c \in Cmd : Waiting(c)' => Waiting(c)
         /\ \A c \in Cmd : Seqs(c)' = Seqs(c)
  BY DEF Quiet, Owned, OfEpoch, Waiting, Seqs

(* A quiet step that leaves the buffer alone. *)
LEMMA PacketBuffer ==
  ASSUME PacketInv, Quiet, UNCHANGED bufferVars, camGot \subseteq camGot',
         conn' = "open" => conn = "open"
  PROVE  PacketInv'
<1>1. OwnedInv'
  BY QuietOwned DEF PacketInv, OwnedInv, Owned, bufferVars
<1>2. KeptInv'
  BY QuietOwned DEF PacketInv, KeptInv, Queued, bufferVars
<1> QED
  BY <1>1, <1>2 DEF PacketInv

(* Send: the packets of the call, and those before, are queued or moved on. *)
LEMMA PacketSend ==
  ASSUME TypeOK, NumberInv, PacketInv, NEW c \in Cmd, Send(c)
  PROVE  PacketInv'
<1> DEFINE q == queue \o PacketsOf(c, nextSeq, epoch)
<1>1. /\ st[c] = "idle" /\ epoch' = epoch
      /\ base'[c] = [seq |-> nextSeq, ep |-> epoch]
      /\ st'[c] = Written(c)
      /\ \A d \in Cmd \ {c} : base'[d] = base[d] /\ st'[d] = st[d]
  BY SendNumbers
<1>2. nextSeq \in Nat /\ epoch \in Nat /\ queue \in Seq(Packet)
  BY DEF TypeOK
<1>3. /\ q \in Seq(Packet)
      /\ Queued(queue) \subseteq Queued(q)
      /\ nextSeq..(nextSeq + Size[c] - 1) \subseteq Queued(q)
      /\ \A i \in 1..Len(q) :
           \/ i \in 1..Len(queue) /\ q[i] = queue[i]
           \/ /\ q[i].cmd = c /\ q[i].ep = epoch
              /\ q[i].seq \in nextSeq..(nextSeq + Size[c] - 1)
  BY <1>2, Appended
<1>4. SendNext(q, window, timers) /\ conn' = conn /\ camGot' = camGot
  BY DEF Send, Write, connVars
<1> HIDE DEF q
<1>5. /\ \A s : s \in DOMAIN window \/ s \in Queued(q) =>
            s \in DOMAIN window' \/ s \in Queued(queue')
      /\ \A i \in 1..Len(queue') : \E j \in 1..Len(q) : queue'[i] = q[j]
      /\ \A s \in DOMAIN window' :
           \/ s \in DOMAIN window /\ window'[s] = window[s]
           \/ \E j \in 1..Len(q) : /\ q[j].seq = s
                                   /\ window'[s].cmd = q[j].cmd
                                   /\ window'[s].ep = q[j].ep
  <2>1. q \in Seq(Packet) /\ SendNext(q, window, timers)
    BY <1>3, <1>4
  <2> QED
    BY ONLY <2>1, SendNextKeeps
<1>6. OfEpoch(c)' /\ Seqs(c)' = nextSeq..(nextSeq + Size[c] - 1)
  BY <1>1 DEF OfEpoch, Written, Seqs
<1>7. \A d \in Cmd \ {c} : /\ OfEpoch(d)' <=> OfEpoch(d)
                           /\ Seqs(d)' = Seqs(d)
                           /\ Waiting(d)' <=> Waiting(d)
  BY <1>1 DEF OfEpoch, Seqs, Waiting
<1>8. ~OfEpoch(c)
  BY <1>1 DEF OfEpoch
<1>9. \A s, d, e : Owned(s, d, e) => d \in Cmd /\ OfEpoch(d)' /\ e = epoch' /\ s \in Seqs(d)'
  BY <1>1, <1>7, <1>8 DEF Owned
<1>10. ASSUME NEW j \in 1..Len(q)
       PROVE  /\ q[j].cmd \in Cmd
              /\ \A d \in Cmd : q[j].cmd = d => OfEpoch(d)' /\ q[j].seq \in Seqs(d)'
              /\ q[j].ep = epoch'
  <2>1. CASE j \in 1..Len(queue) /\ q[j] = queue[j]
    <3>1. Owned(q[j].seq, q[j].cmd, q[j].ep)
      BY <2>1 DEF PacketInv, OwnedInv
    <3> QED
      BY <1>9, <3>1
  <2>2. CASE /\ q[j].cmd = c /\ q[j].ep = epoch
             /\ q[j].seq \in nextSeq..(nextSeq + Size[c] - 1)
    BY <1>1, <1>6, <2>2
  <2> QED
    BY <1>3, <2>1, <2>2
<1>11. ASSUME NEW s \in DOMAIN window
       PROVE  /\ window[s].cmd \in Cmd
              /\ \A d \in Cmd : window[s].cmd = d => OfEpoch(d)' /\ s \in Seqs(d)'
              /\ window[s].ep = epoch'
  <2>1. Owned(s, window[s].cmd, window[s].ep)
    BY DEF PacketInv, OwnedInv
  <2> QED
    BY <1>9, <2>1
<1>12. OwnedInv'
  <2>1. ASSUME NEW s \in DOMAIN window'
        PROVE  Owned(s, window[s].cmd, window[s].ep)'
    <3>1. PICK d \in Cmd : window'[s].cmd = d /\ OfEpoch(d)' /\ s \in Seqs(d)' /\ window'[s].ep = epoch'
      BY <1>5, <1>10, <1>11
    <3> QED
      BY <3>1 DEF Owned
  <2>2. ASSUME NEW i \in 1..Len(queue')
        PROVE  Owned(queue[i].seq, queue[i].cmd, queue[i].ep)'
    <3>1. PICK j \in 1..Len(q) : queue'[i] = q[j]
      BY <1>5
    <3>2. PICK d \in Cmd : q[j].cmd = d /\ OfEpoch(d)' /\ q[j].seq \in Seqs(d)' /\ q[j].ep = epoch'
      BY <1>10
    <3> QED
      BY <3>1, <3>2 DEF Owned
  <2> QED
    BY <2>1, <2>2 DEF OwnedInv
<1>13. KeptInv'
  <2> SUFFICES ASSUME conn' = "open", NEW d \in Cmd, Waiting(d)', NEW s \in Seqs(d)'
               PROVE  \/ s \in camGot' \/ s \in DOMAIN window' \/ s \in Queued(queue')
    BY DEF KeptInv
  <2>1. CASE d = c
    BY <1>3, <1>5, <1>6, <2>1
  <2>2. CASE d # c
    <3>1. Waiting(d) /\ s \in Seqs(d) /\ conn = "open"
      BY <1>4, <1>7, <2>2
    <3>2. s \in camGot \/ s \in DOMAIN window \/ s \in Queued(queue)
      BY <3>1 DEF PacketInv, KeptInv
    <3> QED
      BY <1>3, <1>4, <1>5, <3>2
  <2> QED
    BY <2>1, <2>2
<1> QED
  BY <1>12, <1>13 DEF PacketInv

(* A truthful ACK takes packets off the window that the camera has. *)
LEMMA PacketAck ==
  ASSUME TypeOK, PacketInv, Quiet, CameraAck
  PROVE  PacketInv'
<1>1. PICK a \in camGot, t \in Tables : Truthful(a, t) /\ ReceivedAck(a, t)
  BY DEF CameraAck
<1> DEFINE left == [s \in DOMAIN window \ Acked(a, t) |-> window[s]]
<1>2. /\ DOMAIN left = DOMAIN window \ Acked(a, t)
      /\ \A s \in DOMAIN left : left[s] = window[s]
  OBVIOUS
<1>3. SendNext(queue, left, timers \ Acked(a, t))
  BY <1>1 DEF ReceivedAck
<1>4. conn' = conn /\ camGot' = camGot
  BY <1>1 DEF ReceivedAck, connVars
<1>5. queue \in Seq(Packet)
  BY DEF TypeOK
<1> HIDE DEF left
<1>6. /\ \A s : s \in DOMAIN left \/ s \in Queued(queue) =>
            s \in DOMAIN window' \/ s \in Queued(queue')
      /\ \A i \in 1..Len(queue') : \E j \in 1..Len(queue) : queue'[i] = queue[j]
      /\ \A s \in DOMAIN window' :
           \/ s \in DOMAIN left /\ window'[s] = left[s]
           \/ \E j \in 1..Len(queue) : /\ queue[j].seq = s
                                       /\ window'[s].cmd = queue[j].cmd
                                       /\ window'[s].ep = queue[j].ep
  BY ONLY <1>3, <1>5, SendNextKeeps
<1>7. \A s \in Acked(a, t) : s \in camGot
  <2> SUFFICES ASSUME NEW s \in Acked(a, t) PROVE s \in camGot
    OBVIOUS
  <2>1. s \in Nat /\ a \in Nat
    BY DEF Acked, TypeOK
  <2>2. CASE s <= a
    BY <1>1, <2>1, <2>2 DEF Truthful, Processed
  <2>3. CASE s - a \in DOMAIN t /\ t[s - a]
    <3>1. a + (s - a) \in camGot
      BY <1>1, <2>3 DEF Truthful
    <3> QED
      BY <2>1, <3>1
  <2> QED
    BY <2>2, <2>3 DEF Acked
<1>8. OwnedInv'
  <2>1. ASSUME NEW s \in DOMAIN window'
        PROVE  Owned(s, window[s].cmd, window[s].ep)'
    <3>1. PICK d, e : Owned(s, d, e) /\ window'[s].cmd = d /\ window'[s].ep = e
      BY <1>2, <1>6 DEF PacketInv, OwnedInv
    <3> QED
      BY <3>1, QuietOwned DEF Owned
  <2>2. ASSUME NEW i \in 1..Len(queue')
        PROVE  Owned(queue[i].seq, queue[i].cmd, queue[i].ep)'
    <3>1. PICK j \in 1..Len(queue) : queue'[i] = queue[j]
      BY <1>6
    <3>2. Owned(queue[j].seq, queue[j].cmd, queue[j].ep)
      BY DEF PacketInv, OwnedInv
    <3> QED
      BY <3>1, <3>2, QuietOwned DEF Owned
  <2> QED
    BY <2>1, <2>2 DEF OwnedInv
<1>9. KeptInv'
  <2> SUFFICES ASSUME conn' = "open", NEW d \in Cmd, Waiting(d)', NEW s \in Seqs(d)'
               PROVE  \/ s \in camGot' \/ s \in DOMAIN window' \/ s \in Queued(queue')
    BY DEF KeptInv
  <2>1. s \in camGot \/ s \in DOMAIN window \/ s \in Queued(queue)
    BY <1>4, QuietOwned DEF PacketInv, KeptInv
  <2> QED
    BY <1>2, <1>4, <1>6, <1>7, <2>1
<1> QED
  BY <1>8, <1>9 DEF PacketInv

(* A packet given up takes with it every packet that is not acknowledged, *)
(* but no call of which one was goes on waiting.                          *)
LEMMA PacketGiveUp ==
  ASSUME TypeOK, NumberInv, PacketInv, Quiet, GiveUp, conn' = conn, camGot' = camGot
  PROVE  PacketInv'
<1>1. queue' = <<>> /\ window' = NoPackets
  BY DEF GiveUp
<1>2. DOMAIN window' = {} /\ 1..Len(queue') = {}
  BY <1>1, NoPacketsType
<1>3. OwnedInv'
  BY <1>2 DEF OwnedInv
<1>4. KeptInv'
  <2> SUFFICES ASSUME conn' = "open", NEW d \in Cmd, Waiting(d)', NEW s \in Seqs(d)'
               PROVE  s \in camGot
    BY DEF KeptInv
  <2>1. Waiting(d) /\ OfEpoch(d) /\ s \in Seqs(d)
    BY QuietOwned DEF Waiting, OfEpoch
  <2>2. d \notin Heartbeats
    BY <2>1 DEF NumberInv, Waiting
  <2>3. Key[d] \notin DroppedKeys
    <3>1. st'[d] = "sent"
      BY DEF Waiting
    <3>2. st[d] = "sent" /\ reg[d] = epoch /\ conn # "none"
      BY <2>1 DEF NumberInv, Waiting
    <3>3. st'[d] = IF Key[d] \in DroppedKeys THEN "ackFailed" ELSE st[d]
      BY <3>2 DEF GiveUp
    <3> QED
      BY <3>1, <3>3
  <2>4. ASSUME s \in DOMAIN window PROVE FALSE
    <3>1. window[s].cmd = d
      BY <2>1, <2>4, OwnerUnique DEF PacketInv, OwnedInv
    <3> QED
      BY <2>2, <2>3, <2>4, <3>1 DEF DroppedKeys
  <2>5. ASSUME s \in Queued(queue) PROVE FALSE
    <3>1. PICK i \in 1..Len(queue) : queue[i].seq = s
      BY <2>5 DEF Queued
    <3>2. queue[i].cmd = d
      BY <2>1, <3>1, OwnerUnique DEF PacketInv, OwnedInv
    <3>3. i \in DOMAIN queue
      BY <3>1 DEF TypeOK
    <3> QED
      BY <2>2, <2>3, <3>2, <3>3 DEF DroppedKeys
  <2> QED
    BY <2>1, <2>4, <2>5, conn' = conn DEF PacketInv, KeptInv
<1> QED
  BY <1>3, <1>4 DEF PacketInv

(* A packet sent again keeps its place. *)
LEMMA PacketTimeout ==
  ASSUME TypeOK, NumberInv, PacketInv, Quiet, NEW s \in Nat, TimeoutSendAck(s),
         conn' = conn, camGot' = camGot
  PROVE  PacketInv'
<1>1. CASE s \notin DOMAIN window
  <2>1. queue' = queue /\ window' = window
    BY <1>1 DEF TimeoutSendAck
  <2>2. OwnedInv'
    BY <2>1, QuietOwned DEF PacketInv, OwnedInv, Owned
  <2>3. KeptInv'
    BY <2>1, QuietOwned DEF PacketInv, KeptInv, Queued
  <2> QED
    BY <2>2, <2>3 DEF PacketInv
<1>2. CASE s \in DOMAIN window /\ window[s].resends < MaxResends
  <2>1. queue' = queue /\ window' = [window EXCEPT ![s].resends = @ + 1]
    BY <1>2 DEF TimeoutSendAck, Resend
  <2>2. \A r \in DOMAIN window : window[r] \in Slot
    BY DEF TypeOK
  <2>3. DOMAIN window' = DOMAIN window
    BY <2>1
  <2>4. \A r \in DOMAIN window : /\ window'[r].cmd = window[r].cmd
                                 /\ window'[r].ep = window[r].ep
    BY <2>1, <2>2 DEF Slot
  <2>5. OwnedInv'
    BY <2>1, <2>3, <2>4, QuietOwned DEF PacketInv, OwnedInv, Owned
  <2>6. KeptInv'
    BY <2>1, <2>3, QuietOwned DEF PacketInv, KeptInv, Queued
  <2> QED
    BY <2>5, <2>6 DEF PacketInv
<1>3. CASE s \in DOMAIN window /\ ~(window[s].resends < MaxResends)
  BY <1>3, PacketGiveUp DEF TimeoutSendAck
<1> QED
  BY <1>1, <1>2, <1>3

(* Every step keeps track of the packets. *)
LEMMA PacketStep ==
  ASSUME TypeOK, NumberInv, PacketInv, DistinctKeys, [Next]_vars
  PROVE  PacketInv'
<1>1. CASE Connect
  <2>1. epoch' = epoch + 1 /\ epoch \in Nat /\ base' = base
    BY <1>1 DEF Connect, callVars, headVars, TypeOK
  <2>2. \A c \in Cmd : base[c].ep \in Nat /\ base[c].ep <= epoch
    BY DEF NumberInv, TypeOK, Header
  <2>3. \A c \in Cmd : ~Waiting(c)'
    BY <2>1, <2>2 DEF Waiting
  <2> QED
    BY <1>1, <2>3, PacketClear DEF Connect, ClearSendBuffer
<1>2. ASSUME NEW c \in Cmd, Send(c) PROVE PacketInv'
  BY <1>2, PacketSend
<1>3. CASE ~Connect /\ \A c \in Cmd : ~Send(c)
  <2>1. Quiet
    BY <1>3, QuietSteps
  <2>2. CASE UNCHANGED vars
    BY <2>1, <2>2, Stuttering, PacketBuffer DEF bufferVars
  <2>3. CASE Close \/ CameraDisconnect
    BY <2>3, PacketClear DEF Close, CameraDisconnect, StartClose, ClearSendBuffer
  <2>4. CASE ConnectionLost \/ Closed
    BY <2>1, <2>4, PacketBuffer DEF ConnectionLost, Closed
  <2>5. ASSUME NEW c \in Cmd, CallStep(c) PROVE PacketInv'
    <3>1. CASE ResponseTimeout(c) \/ ResumeAckFailed(c)
      BY <3>1, PacketClear
         DEF ResponseTimeout, ResumeAckFailed, FailAndDrop, StartClose, ClearSendBuffer
    <3>2. CASE WriteHeldLost(c) \/ HeldTimeout(c) \/ Cancel(c) \/ Answer(c)
      BY <2>1, <3>2, PacketBuffer DEF WriteHeldLost, HeldTimeout, Cancel, Answer, connVars
    <3>3. ~Hold(c) /\ ~WriteHeld(c)
      BY NoTwin DEF Hold, WriteHeld, NumberInv
    <3> QED
      BY <1>3, <2>5, <3>1, <3>2, <3>3 DEF CallStep
  <2>6. CASE CameraAck
    BY <2>1, <2>6, PacketAck
  <2>7. CASE (\E s \in timers : Timeout(s)) \/ (\E s \in stray : StrayTimeout(s))
    <3>1. PICK s \in Nat : TimeoutSendAck(s) /\ conn' = conn /\ camGot' = camGot
      BY <2>7 DEF Timeout, StrayTimeout, TypeOK, connVars
    <3> QED
      BY <2>1, <3>1, PacketTimeout
  <2>8. CASE \E s \in wire : CameraReceive(s)
    BY <2>1, <2>8, PacketBuffer DEF CameraReceive, connVars
  <2> QED
    BY <1>3, <2>2, <2>3, <2>4, <2>5, <2>6, <2>7, <2>8 DEF Next, CallStep
<1> QED
  BY <1>1, <1>2, <1>3

(* The invariants about calls and packets hold from the start. *)
LEMMA NumbersAndPackets ==
  ASSUME DistinctKeys
  PROVE  Spec => [](NumberInv /\ PacketInv)
<1>1. Init => NumberInv /\ PacketInv
  <2> SUFFICES ASSUME Init PROVE NumberInv /\ PacketInv
    OBVIOUS
  <2>1. \A c \in Cmd : st[c] = "idle" /\ base[c].ep = epoch
    BY DEF Init
  <2>2. epoch \in Nat
    BY DEF Init
  <2>3. NumberInv
    BY <2>1, <2>2 DEF NumberInv, OfEpoch
  <2>4. DOMAIN window = {} /\ 1..Len(queue) = {} /\ conn # "open"
    BY NoPacketsType DEF Init
  <2>5. PacketInv
    BY <2>4 DEF PacketInv, OwnedInv, KeptInv
  <2> QED
    BY <2>3, <2>5
<1>2. TypeOK /\ TypeOK' /\ NumberInv /\ PacketInv /\ [Next]_vars => (NumberInv /\ PacketInv)'
  BY NumberStep, PacketStep
<1> QED
  BY <1>1, <1>2, TypeCorrect, PTL DEF Spec

(* When no two calls have the same cmd_id and mess_id, a command of which  *)
(* packets are dropped unacknowledged fails at once: none goes on waiting  *)
(* for the response to a message the camera cannot get, whatever calls are *)
(* cancelled and whatever connections come and go.                         *)
THEOREM FailsDirectly ==
  ASSUME DistinctKeys
  PROVE  Spec => []FailDirectly
<1>1. TypeOK /\ NumberInv /\ PacketInv => FailDirectly
  <2> SUFFICES ASSUME TypeOK, NumberInv, PacketInv, conn = "open", NEW c \in Cmd, Waiting(c),
                      NEW s \in Seqs(c), s \in Gap
               PROVE  FALSE
    BY DEF FailDirectly
  <2>1. s \notin camGot /\ ~Pending(s)
    BY DEF Gap
  <2>2. CASE s \in DOMAIN window
    BY <2>1, <2>2 DEF PacketInv, OwnedInv, Owned, Pending
  <2>3. CASE s \in Queued(queue)
    <3>1. PICK i \in 1..Len(queue) : queue[i].seq = s
      BY <2>3 DEF Queued
    <3>2. queue[i].ep = epoch /\ i \in DOMAIN queue
      BY <3>1 DEF PacketInv, OwnedInv, Owned, TypeOK
    <3> QED
      BY <2>1, <3>1, <3>2 DEF Pending
  <2> QED
    BY <2>1, <2>2, <2>3 DEF PacketInv, KeptInv
<1> QED
  BY <1>1, TypeCorrect, NumbersAndPackets, PTL

-----------------------------------------------------------------------------
(* No gap, when every call has a future and none is cancelled *)

AllWaited == Heartbeats = {} /\ Cancellable = {}

(* Every number of the connection belongs to a call, and every call of an  *)
(* open connection waits, holds the exception of a packet given up, or was *)
(* answered by a camera that has everything up to its last packet.         *)
GapInv ==
  /\ \A s \in 0..(nextSeq - 1) : \E c \in Cmd : OfEpoch(c) /\ s \in Seqs(c)
  /\ conn = "open" =>
       \A c \in Cmd : OfEpoch(c) =>
         /\ st[c] \in {"sent", "ackFailed", "done"}
         /\ st[c] = "done" => Processed(base[c].seq + Size[c] - 1)

(* A quiet step under which calls only go from waiting to ackFailed. *)
LEMMA GapQuiet ==
  ASSUME GapInv, Quiet, camGot \subseteq camGot', conn' = "open" => conn = "open",
         conn' = "open" =>
           \A c \in Cmd : st'[c] = st[c] \/ (st[c] = "sent" /\ st'[c] = "ackFailed")
  PROVE  GapInv'
<1>1. \A c \in Cmd : (OfEpoch(c)' <=> OfEpoch(c)) /\ Seqs(c)' = Seqs(c)
  BY DEF Quiet, OfEpoch, Seqs
<1>2. nextSeq' = nextSeq /\ base' = base
  BY DEF Quiet
<1>3. \A s : Processed(s) => Processed(s)'
  BY DEF Processed
<1> QED
  BY <1>1, <1>2, <1>3 DEF GapInv

(* Every step keeps the calls without a gap. *)
LEMMA GapStep ==
  ASSUME TypeOK, NumberInv, GapInv, DistinctKeys, AllWaited, [Next]_vars
  PROVE  GapInv'
<1>1. CASE Connect
  <2>1. epoch' = epoch + 1 /\ epoch \in Nat /\ base' = base /\ st' = st /\ nextSeq' = 0
    BY <1>1 DEF Connect, callVars, headVars, TypeOK
  <2>2. \A c \in Cmd : base[c].ep \in Nat /\ base[c].ep <= epoch
    BY DEF NumberInv, TypeOK, Header
  <2>3. \A c \in Cmd : ~OfEpoch(c)'
    BY <2>1, <2>2 DEF OfEpoch
  <2>4. 0..(nextSeq' - 1) = {}
    BY <2>1
  <2> QED
    BY <2>3, <2>4 DEF GapInv
<1>2. ASSUME NEW c \in Cmd, Send(c) PROVE GapInv'
  <2>1. /\ nextSeq' = nextSeq + Size[c] /\ st[c] = "idle" /\ epoch' = epoch
        /\ base'[c].seq = nextSeq /\ base'[c].ep = epoch
        /\ st'[c] = Written(c)
        /\ \A d \in Cmd \ {c} : base'[d] = base[d] /\ st'[d] = st[d]
    BY <1>2, SendNumbers
  <2>2. nextSeq \in Nat /\ Size[c] \in Nat
    BY SizeType DEF TypeOK
  <2>3. conn' = conn /\ camGot' = camGot
    BY <1>2 DEF Send, connVars
  <2>4. st'[c] = "sent" /\ OfEpoch(c)' /\ Seqs(c)' = nextSeq..(nextSeq + Size[c] - 1)
    BY <2>1 DEF AllWaited, Written, OfEpoch, Seqs
  <2>5. ~OfEpoch(c)
    BY <2>1 DEF OfEpoch
  <2>6. \A d \in Cmd \ {c} : (OfEpoch(d)' <=> OfEpoch(d)) /\ Seqs(d)' = Seqs(d)
    BY <2>1 DEF OfEpoch, Seqs
  <2>7. ASSUME NEW s \in 0..(nextSeq' - 1)
        PROVE  \E d \in Cmd : OfEpoch(d)' /\ s \in Seqs(d)'
    <3>1. CASE s < nextSeq
      <4>1. s \in 0..(nextSeq - 1)
        BY <2>2, <3>1
      <4>2. PICK d \in Cmd : OfEpoch(d) /\ s \in Seqs(d)
        BY <4>1 DEF GapInv
      <4> QED
        BY <2>5, <2>6, <4>2
    <3>2. CASE s >= nextSeq
      <4>1. s \in nextSeq..(nextSeq + Size[c] - 1)
        BY <2>1, <2>2, <3>2
      <4> QED
        BY <2>4, <4>1
    <3> QED
      BY <2>2, <3>1, <3>2
  <2>8. ASSUME conn' = "open", NEW d \in Cmd, OfEpoch(d)'
        PROVE  /\ st'[d] \in {"sent", "ackFailed", "done"}
               /\ st'[d] = "done" => Processed(base[d].seq + Size[d] - 1)'
    <3>1. CASE d = c
      BY <2>4, <3>1
    <3>2. CASE d # c
      BY <2>1, <2>3, <2>6, <2>8, <3>2 DEF GapInv, Processed
    <3> QED
      BY <3>1, <3>2
  <2> QED
    BY <2>7, <2>8 DEF GapInv
<1>3. CASE ~Connect /\ \A c \in Cmd : ~Send(c)
  <2>1. Quiet
    BY <1>3, QuietSteps
  <2>2. CASE UNCHANGED vars
    BY <2>1, <2>2, Stuttering, GapQuiet
  <2>3. CASE Close \/ CameraDisconnect \/ ConnectionLost \/ Closed
    <3>1. conn' # "open" /\ camGot' = camGot
      BY <2>3 DEF Close, CameraDisconnect, ConnectionLost, Closed, StartClose
    <3> QED
      BY <2>1, <3>1, GapQuiet
  <2>4. ASSUME NEW c \in Cmd, CallStep(c) PROVE GapInv'
    <3>1. CASE ResponseTimeout(c) \/ ResumeAckFailed(c)
      <4>1. conn' # "open" /\ camGot' = camGot
        BY <3>1 DEF ResponseTimeout, ResumeAckFailed, FailAndDrop, StartClose
      <4> QED
        BY <2>1, <4>1, GapQuiet
    <3>2. CASE Answer(c)
      <4>1. /\ st' = [st EXCEPT ![c] = "done"] /\ base' = base /\ conn' = conn
            /\ camGot' = camGot /\ nextSeq' = nextSeq
            /\ Processed(base[c].seq + Size[c] - 1)
        BY <3>2 DEF Answer, connVars, headVars
      <4>2. \A d \in Cmd : st'[d] = IF d = c THEN "done" ELSE st[d]
        BY <4>1 DEF TypeOK
      <4>3. \A d \in Cmd : (OfEpoch(d)' <=> OfEpoch(d)) /\ Seqs(d)' = Seqs(d)
        BY <2>1 DEF Quiet, OfEpoch, Seqs
      <4>4. \A s : Processed(s)' <=> Processed(s)
        BY <4>1 DEF Processed
      <4> QED
        BY <4>1, <4>2, <4>3, <4>4 DEF GapInv
    <3>3. ~Hold(c) /\ ~WriteHeld(c) /\ ~WriteHeldLost(c) /\ ~HeldTimeout(c) /\ ~Cancel(c)
      BY NoTwin DEF Hold, WriteHeld, WriteHeldLost, HeldTimeout, Cancel, NumberInv, AllWaited
    <3> QED
      BY <1>3, <2>4, <3>1, <3>2, <3>3 DEF CallStep
  <2>5. CASE CameraAck
    <3>1. st' = st /\ camGot' = camGot /\ conn' = conn
      BY <2>5 DEF CameraAck, ReceivedAck, connVars, callVars
    <3> QED
      BY <2>1, <3>1, GapQuiet
  <2>6. CASE (\E s \in timers : Timeout(s)) \/ (\E s \in stray : StrayTimeout(s))
    <3>1. PICK s \in Nat : TimeoutSendAck(s) /\ conn' = conn /\ camGot' = camGot
      BY <2>6 DEF Timeout, StrayTimeout, TypeOK, connVars
    <3>2. \A c \in Cmd : st'[c] = st[c] \/ (st[c] = "sent" /\ st'[c] = "ackFailed")
      BY <3>1 DEF TimeoutSendAck, Resend, GiveUp
    <3> QED
      BY <2>1, <3>1, <3>2, GapQuiet
  <2>7. CASE \E s \in wire : CameraReceive(s)
    <3>1. st' = st /\ camGot \subseteq camGot' /\ conn' = conn
      BY <2>7 DEF CameraReceive, connVars, callVars
    <3> QED
      BY <2>1, <3>1, GapQuiet
  <2> QED
    BY <1>3, <2>2, <2>3, <2>4, <2>5, <2>6, <2>7 DEF Next, CallStep
<1> QED
  BY <1>1, <1>2, <1>3

(* When moreover every call has a future and no caller is cancelled, an    *)
(* open connection has no command that waits behind a packet given up: the *)
(* one that failed is about to drop it.                                    *)
THEOREM NobodyWaitsBehindGap ==
  ASSUME DistinctKeys, AllWaited
  PROVE  Spec => []NoneBehindGap
<1>1. Init => GapInv
  <2> SUFFICES ASSUME Init PROVE GapInv
    OBVIOUS
  <2>1. 0..(nextSeq - 1) = {} /\ conn # "open"
    BY DEF Init
  <2> QED
    BY <2>1 DEF GapInv
<1>2. TypeOK /\ NumberInv /\ PacketInv /\ GapInv /\ [Next]_vars => GapInv'
  BY GapStep
<1>3. TypeOK /\ NumberInv /\ PacketInv /\ FailDirectly /\ GapInv => NoneBehindGap
  <2> SUFFICES ASSUME TypeOK, NumberInv, FailDirectly, GapInv, conn = "open",
                      \A c \in Cmd : st[c] # "ackFailed", NEW s \in Gap
               PROVE  FALSE
    BY DEF NoneBehindGap
  <2>1. s \in 0..(nextSeq - 1) /\ s \notin camGot
    BY DEF Gap
  <2>2. PICK c \in Cmd : OfEpoch(c) /\ s \in Seqs(c)
    BY <2>1 DEF GapInv
  <2>3. CASE st[c] = "sent"
    BY <2>2, <2>3 DEF FailDirectly, Waiting, OfEpoch
  <2>4. CASE st[c] = "done"
    <3>1. 0..(base[c].seq + Size[c] - 1) \subseteq camGot
      BY <2>2, <2>4 DEF GapInv, Processed
    <3>2. base[c].seq \in Nat /\ Size[c] \in Nat
      BY SizeType DEF TypeOK, Header
    <3>3. s \in 0..(base[c].seq + Size[c] - 1)
      BY <2>2, <3>2 DEF Seqs
    <3> QED
      BY <2>1, <3>1, <3>3
  <2> QED
    BY <2>2, <2>3, <2>4 DEF GapInv
<1> QED
  BY <1>1, <1>2, <1>3, TypeCorrect, NumbersAndPackets, FailsDirectly, PTL DEF Spec
=============================================================================
