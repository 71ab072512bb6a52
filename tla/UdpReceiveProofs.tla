-------------------------- MODULE UdpReceiveProofs --------------------------
(***************************************************************************)
(* Proofs about UdpReceive, for any number of packets and connections.     *)
(***************************************************************************)
EXTENDS UdpReceive, TLAPS

USE NAssumption, MaxSessionsAssumption, MaxRekeysAssumption

(* A new protocol object has no packet stored. *)
LEMMA NothingStoredType ==
  /\ DOMAIN NothingStored = {}
  /\ NothingStored \in [DOMAIN NothingStored -> Session]
  BY DEF NothingStored

(* Every ACK on the network has the type of an ACK. *)
LEMMA SendAckType ==
  ASSUME NEW r \in -1..(N - 1), NEW S \in SUBSET SeqId
  PROVE  SendAck(r, S) \subseteq AckMsg
<1>1. Payload(r, S) \in SUBSET SeqId
  BY DEF Payload
<1>2. r >= 0 => r \in SeqId
  BY DEF SeqId
<1> QED
  BY <1>1, <1>2 DEF SendAck, AckMsg

(* So has every ACK sent while stored packets are processed. *)
LEMMA DrainAcksType ==
  ASSUME TypeOK, NEW k \in SeqId, NEW n \in k..(N - 1)
  PROVE  ProcessedAcks(k, n) \subseteq AckMsg /\ DroppedAcks(k, n) \subseteq AckMsg
<1>1. k..n \subseteq -1..(N - 1) /\ n \in -1..(N - 1)
  BY DEF SeqId
<1>2. \A j : StoredAfter(k, j) \in SUBSET SeqId
  BY DEF StoredAfter, TypeOK
<1>3. \A j \in k..n : SendAck(j, StoredAfter(k, j)) \subseteq AckMsg
  BY <1>1, <1>2, SendAckType
<1>4. SendAck(n, StoredAfter(k, n + 1)) \subseteq AckMsg
  BY <1>1, <1>2, SendAckType
<1>5. ProcessedAcks(k, n) \subseteq AckMsg
  BY ONLY <1>3 DEF ProcessedAcks
<1> QED
  BY <1>4, <1>5 DEF DroppedAcks

-----------------------------------------------------------------------------
(* Type correctness *)

(* What Deliver does to the history of packets. *)
LEMMA DeliveredType ==
  ASSUME TypeOK, clientId # 0, NEW n \in Int, n >= recvSeq + 1, n <= N - 1
  PROVE  delivered \o [i \in 1..(n - recvSeq) |-> [cid |-> clientId, seq |-> recvSeq + i]]
           \in Seq(Packet)
<1> DEFINE new == [i \in 1..(n - recvSeq) |-> [cid |-> clientId, seq |-> recvSeq + i]]
<1>1. new \in Seq(Packet)
  <2>1. n - recvSeq \in Nat
    BY DEF TypeOK
  <2>2. \A i \in 1..(n - recvSeq) : new[i] \in Packet
    BY DEF TypeOK, Packet, Session, SeqId
  <2> QED
    BY <2>1, <2>2
<1> QED
  BY <1>1 DEF TypeOK

(* Every step keeps the types. *)
LEMMA TypeStep == TypeOK /\ [Next]_vars => TypeOK'
<1> SUFFICES ASSUME TypeOK, [Next]_vars PROVE TypeOK'
  OBVIOUS
<1> USE DEF TypeOK
<1>1. CASE Connect
  <2>1. seqData' = NothingStored
    BY <1>1 DEF Connect
  <2>2. DOMAIN seqData' \subseteq SeqId /\ seqData' \in [DOMAIN seqData' -> Session]
    BY <2>1, NothingStoredType
  <2>3. delivered' \in Seq(Packet)
    BY <1>1 DEF Connect
  <2>4. /\ session' \in 0..MaxSessions
        /\ clientId' \in {0, session'}
        /\ hostKnown' = FALSE
        /\ recvSeq' \in -1..(N - 1)
        /\ camId' \in 0..session'
    BY <1>1 DEF Connect, cameraVars
  <2>5. UNCHANGED <<rekeys, produced, released, acks>>
    BY <1>1 DEF Connect, cameraVars
  <2> QED
    BY <2>2, <2>3, <2>4, <2>5
<1>2. CASE Rekey
  BY <1>2 DEF Rekey, cameraVars, Session, SeqId
<1>3. CASE Established
  BY <1>3 DEF Established, cameraVars
<1>4. CASE ConnectionLost
  <2>1. seqData' = NothingStored
    BY <1>4 DEF ConnectionLost
  <2>2. DOMAIN seqData' \subseteq SeqId /\ seqData' \in [DOMAIN seqData' -> Session]
    BY <2>1, NothingStoredType
  <2>3. delivered' \in Seq(Packet)
    BY <1>4 DEF ConnectionLost
  <2>4. /\ session' \in 0..MaxSessions
        /\ clientId' \in {0, session'}
        /\ hostKnown' = FALSE
        /\ recvSeq' \in -1..(N - 1)
        /\ camId' \in 0..session'
    BY <1>4 DEF ConnectionLost, cameraVars
  <2>5. UNCHANGED <<rekeys, produced, released, acks>>
    BY <1>4 DEF ConnectionLost, cameraVars
  <2> QED
    BY <2>2, <2>3, <2>4, <2>5
<1>5. ASSUME NEW p \in Packet, Datagram(p)
      PROVE  TypeOK'
  <2>1. CASE IgnoreForeign(p) \/ IgnoreOld(p)
    <3>1. SendAck(recvSeq, DOMAIN seqData) \subseteq AckMsg
      BY SendAckType
    <3> QED
      BY <2>1, <3>1 DEF IgnoreForeign, IgnoreOld, protocolVars, cameraVars
  <2>2. CASE Store(p)
    <3>1. DOMAIN seqData' = DOMAIN seqData \union {p.seq}
      BY <2>2 DEF Store
    <3>2. SendAck(recvSeq, DOMAIN seqData') \subseteq AckMsg
      BY SendAckType, <3>1 DEF Packet
    <3>3. seqData' \in [DOMAIN seqData' -> Session]
      BY <2>2, <3>1 DEF Store, Packet
    <3> QED
      BY <2>2, <3>1, <3>2, <3>3 DEF Store, cameraVars, Packet
  <2>3. CASE Deliver(p)
    <3>1. PICK n \in p.seq..(N - 1) :
            /\ recvSeq' = n
            /\ seqData' = [k \in DOMAIN seqData \ Popped(p.seq, n) |-> seqData[k]]
            /\ delivered' = delivered \o
                  [i \in 1..(n - recvSeq) |-> [cid |-> clientId, seq |-> recvSeq + i]]
            /\ acks' = acks \union ProcessedAcks(p.seq, n) \union DroppedAcks(p.seq, n)
      BY <2>3 DEF Deliver
    <3>2. /\ ProcessedAcks(p.seq, n) \subseteq AckMsg
          /\ DroppedAcks(p.seq, n) \subseteq AckMsg
      BY DrainAcksType DEF Packet
    <3>3. n \in Int /\ n >= recvSeq + 1 /\ n <= N - 1 /\ clientId # 0
      BY <2>3 DEF Deliver, Arrives, Packet, SeqId
    <3>4. delivered' \in Seq(Packet)
      BY <3>1, <3>3, DeliveredType
    <3>5. /\ DOMAIN seqData' \subseteq SeqId
          /\ seqData' \in [DOMAIN seqData' -> Session]
      BY <3>1
    <3> QED
      BY <2>3, <3>1, <3>2, <3>3, <3>4, <3>5 DEF Deliver, cameraVars
  <2> QED
    BY <1>5, <2>1, <2>2, <2>3 DEF Datagram
<1>6. CASE CameraAccept
  BY <1>6 DEF CameraAccept, protocolVars
<1>7. CASE CameraSend
  BY <1>7 DEF CameraSend, protocolVars, Session
<1>8. CASE CameraAck
  <2>1. PICK a \in acks : /\ released' = released \union Acknowledged(a)
                          /\ acks' = acks \ {a}
    BY <1>8 DEF CameraAck
  <2>2. Acknowledged(a) \subseteq SeqId
    BY <2>1 DEF Acknowledged, AckMsg, SeqId
  <2> QED
    BY <1>8, <2>1, <2>2 DEF CameraAck, protocolVars
<1>9. CASE UNCHANGED vars
  BY <1>9 DEF vars, protocolVars, cameraVars
<1>10. CASE AckReceived
  <2>1. SendAck(recvSeq, DOMAIN seqData) \subseteq AckMsg
    BY SendAckType
  <2> QED
    BY <1>10, <2>1 DEF AckReceived, protocolVars, cameraVars
<1> QED
  BY <1>1, <1>2, <1>3, <1>4, <1>5, <1>6, <1>7, <1>8, <1>9, <1>10 DEF Next

(* The protocol object and the camera stay in the states the types name. *)
THEOREM TypeCorrect == Spec => []TypeOK
<1>1. Init => TypeOK
  <2> SUFFICES ASSUME Init PROVE TypeOK
    OBVIOUS
  <2>1. DOMAIN seqData \subseteq SeqId /\ seqData \in [DOMAIN seqData -> Session]
    BY NothingStoredType DEF Init
  <2>2. delivered \in Seq(Packet) /\ produced \in [Session -> 0..N]
    BY DEF Init
  <2>3. /\ session \in 0..MaxSessions
        /\ clientId \in {0, session}
        /\ hostKnown = FALSE
        /\ recvSeq \in -1..(N - 1)
        /\ camId \in 0..session
        /\ rekeys \in 0..MaxRekeys
        /\ released \subseteq SeqId
        /\ acks \subseteq AckMsg
    BY DEF Init
  <2> QED
    BY <2>1, <2>2, <2>3 DEF TypeOK
<1> QED
  BY <1>1, TypeStep, PTL DEF Spec

-----------------------------------------------------------------------------
(* The reorder buffer *)

(* Storing and draining leave in _seq_data only packets whose turn has not *)
(* come: this holds even when a handshake is restarted on an open socket.  *)
LEMMA StoredAheadStep == TypeOK /\ StoredAhead /\ [Next]_vars => StoredAhead'
<1> SUFFICES ASSUME TypeOK, StoredAhead, [Next]_vars PROVE StoredAhead'
  OBVIOUS
<1>1. CASE Connect \/ ConnectionLost
  <2>1. DOMAIN seqData' = {}
    BY <1>1, NothingStoredType DEF Connect, ConnectionLost
  <2> QED
    BY <2>1 DEF StoredAhead
<1>2. ASSUME NEW p \in Packet, Store(p) PROVE StoredAhead'
  <2>1. DOMAIN seqData' = DOMAIN seqData \union {p.seq} /\ recvSeq' = recvSeq
    BY <1>2 DEF Store
  <2>2. p.seq > recvSeq + 1
    BY <1>2 DEF Store
  <2> QED
    BY <2>1, <2>2 DEF StoredAhead
<1>3. ASSUME NEW p \in Packet, Deliver(p) PROVE StoredAhead'
  <2>1. PICK n \in p.seq..(N - 1) :
          /\ recvSeq' = n
          /\ seqData' = [k \in DOMAIN seqData \ Popped(p.seq, n) |-> seqData[k]]
    BY <1>3 DEF Deliver
  <2>2. p.seq = recvSeq + 1
    BY <1>3 DEF Deliver
  <2>3. \A k \in DOMAIN seqData' : k \in DOMAIN seqData /\ k \notin (p.seq + 1)..(n + 1)
    BY <2>1 DEF Popped
  <2>4. DOMAIN seqData \subseteq Int /\ n \in Int /\ recvSeq \in Int
    BY DEF TypeOK, SeqId, Packet
  <2> QED
    BY <2>1, <2>2, <2>3, <2>4 DEF StoredAhead
<1>4. CASE UNCHANGED <<recvSeq, seqData>>
  BY <1>4 DEF StoredAhead
<1> QED
  BY <1>1, <1>2, <1>3, <1>4
  DEF Next, Rekey, Established, Datagram, IgnoreForeign, IgnoreOld, AckReceived, CameraAccept,
      CameraSend, CameraAck, protocolVars, cameraVars, vars

(* The clearing loop of parse_udp_bc never finds a packet to clear. *)
THEOREM NeverStale == Spec => []StoredAhead
<1>1. Init => StoredAhead
  BY NothingStoredType DEF Init, StoredAhead
<1> QED
  BY <1>1, StoredAheadStep, TypeCorrect, PTL DEF Spec

-----------------------------------------------------------------------------
(* Order *)

(* Restarts are counted: none so far means this step is none and none before. *)
LEMMA NoRestart ==
  ASSUME TypeOK, [Next]_vars, rekeys' = 0
  PROVE  rekeys = 0 /\ ~Rekey
<1>1. CASE Rekey
  BY <1>1 DEF Rekey, TypeOK
<1>2. CASE ~Rekey
  BY <1>2 DEF Next, Connect, Established, ConnectionLost, Datagram, IgnoreForeign, IgnoreOld,
              Store, Deliver, AckReceived, CameraAccept, CameraSend, CameraAck, vars
<1> QED
  BY <1>1, <1>2

(* A new protocol object has delivered nothing. *)
LEMMA NothingDelivered ==
  <<>> = [i \in 1..(-1 + 1) |-> [cid |-> clientId', seq |-> i - 1]]
  OBVIOUS

(* Every step keeps the order, as long as none restarts a handshake. *)
LEMMA InOrderStep ==
  ASSUME TypeOK, InOrder, [Next]_vars
  PROVE  InOrder'
<1> SUFFICES ASSUME rekeys' = 0 PROVE InOrder'
  BY DEF InOrder
<1>0. rekeys = 0 /\ ~Rekey
  BY NoRestart
<1>1. CASE Connect \/ ConnectionLost
  BY <1>1, NothingDelivered DEF Connect, ConnectionLost, InOrder
<1>3. ASSUME NEW p \in Packet, Deliver(p) PROVE InOrder'
  <2>1. PICK n \in p.seq..(N - 1) :
          /\ recvSeq' = n
          /\ delivered' = delivered \o
               [i \in 1..(n - recvSeq) |-> [cid |-> clientId, seq |-> recvSeq + i]]
    BY <1>3 DEF Deliver
  <2>2. p.seq = recvSeq + 1 /\ clientId' = clientId
    BY <1>3 DEF Deliver
  <2>3. recvSeq \in Int /\ recvSeq >= -1 /\ n \in Int /\ n > recvSeq
    BY <2>2 DEF TypeOK
  <2>4. delivered = [i \in 1..(recvSeq + 1) |-> [cid |-> clientId, seq |-> i - 1]]
    BY <1>0 DEF InOrder
  <2>5. delivered' = [i \in 1..(recvSeq + 1) |-> [cid |-> clientId, seq |-> i - 1]]
            \o [i \in 1..(n - recvSeq) |-> [cid |-> clientId, seq |-> recvSeq + i]]
    BY <2>1, <2>4, Zenon
  <2>6. delivered' = [i \in 1..(n + 1) |-> [cid |-> clientId, seq |-> i - 1]]
    BY ONLY <2>3, <2>5
  <2> QED
    BY <2>1, <2>2, <2>6 DEF InOrder
<1>4. CASE UNCHANGED <<clientId, recvSeq, delivered>>
  BY <1>0, <1>4 DEF InOrder
<1> QED
  BY <1>0, <1>1, <1>3, <1>4
  DEF Next, Established, Datagram, IgnoreForeign, IgnoreOld, Store, AckReceived, CameraAccept,
      CameraSend, CameraAck, protocolVars, cameraVars, vars

(* The BC parser is given the packets of its connection in order, exactly  *)
(* once each, as long as no handshake is restarted on an open socket.      *)
THEOREM DeliveredInOrder == Spec => []InOrder
<1>1. Init => InOrder
  BY DEF Init, InOrder
<1>2. TypeOK /\ InOrder /\ [Next]_vars => InOrder'
  BY InOrderStep
<1> QED
  BY <1>1, <1>2, TypeCorrect, PTL DEF Spec

-----------------------------------------------------------------------------
(* Nothing is lost for good *)

(* Packets are stored under the client id of the connection. *)
OwnStored == \A k \in DOMAIN seqData : seqData[k] = clientId

(* Every ACK under way tells the truth, then and later. *)
AcksTrue == (clientId # 0 /\ camId = clientId) =>
              \A a \in acks : \A k \in Acknowledged(a) : Holds(k)

HeldInv == OwnStored /\ AcksTrue /\ ReleasedIsHeld

(* An ACK acknowledges what was processed or stored when it was sent. *)
LEMMA AckClaims ==
  ASSUME NEW r \in Int, NEW S, NEW a \in SendAck(r, S), NEW k \in Acknowledged(a)
  PROVE  k \in 0..r \/ k \in S
  BY DEF SendAck, Payload, Acknowledged

(* What the client has it keeps, while the connection lasts. *)
LEMMA HoldsStable ==
  ASSUME TypeOK, OwnStored, NEW p \in Packet, Datagram(p), NEW k \in SeqId, Holds(k)
  PROVE  Holds(k)'
<1>1. CASE IgnoreForeign(p) \/ IgnoreOld(p)
  BY <1>1 DEF IgnoreForeign, IgnoreOld, protocolVars, Holds, Parsable
<1>2. CASE Store(p)
  BY <1>2 DEF Store, Holds, Parsable
<1>3. CASE Deliver(p)
  <2>1. PICK n \in p.seq..(N - 1) :
          /\ Drains(p.seq, n)
          /\ recvSeq' = n
          /\ seqData' = [j \in DOMAIN seqData \ Popped(p.seq, n) |-> seqData[j]]
    BY <1>3 DEF Deliver
  <2>2. p.seq = recvSeq + 1 /\ clientId' = clientId
    BY <1>3 DEF Deliver
  <2>3. recvSeq \in Int /\ n \in Int /\ k \in Int
    BY DEF TypeOK, SeqId, Packet
  <2>4. CASE k <= n
    BY <2>1, <2>4 DEF Holds
  <2>5. CASE k > n
    <3>1. Parsable(k)
      BY <2>2, <2>3, <2>5 DEF Holds
    <3>2. k # n + 1
      BY <2>1, <3>1 DEF Drains
    <3>3. k \in DOMAIN seqData' /\ seqData'[k] = seqData[k]
      BY <2>1, <2>3, <2>5, <3>1, <3>2 DEF Popped, Parsable
    <3> QED
      BY <2>2, <3>1, <3>3 DEF Holds, Parsable
  <2> QED
    BY <2>3, <2>4, <2>5
<1> QED
  BY <1>1, <1>2, <1>3 DEF Datagram

(* The ACKs an arrival sends claim only what the client has afterwards. *)
LEMMA NewAcksTrue ==
  ASSUME TypeOK, OwnStored, NEW p \in Packet, Datagram(p),
         NEW a \in acks', a \notin acks, NEW k \in Acknowledged(a)
  PROVE  Holds(k)'
<1>0. k \in SeqId
  <2>1. TypeOK'
    BY TypeStep DEF Next
  <2> QED
    BY <2>1 DEF TypeOK, AckMsg, Acknowledged, SeqId
<1>1. CASE IgnoreForeign(p) \/ IgnoreOld(p)
  <2>1. k \in 0..recvSeq \/ k \in DOMAIN seqData
    BY <1>1, AckClaims DEF IgnoreForeign, IgnoreOld, TypeOK
  <2>2. Holds(k)
    BY <2>1 DEF Holds, Parsable, OwnStored
  <2> QED
    BY <1>0, <2>2, HoldsStable
<1>2. CASE Store(p)
  <2>1. k \in 0..recvSeq \/ k \in DOMAIN seqData'
    BY <1>2, AckClaims DEF Store, TypeOK
  <2>2. seqData' = [j \in DOMAIN seqData \union {p.seq} |->
                     IF j = p.seq THEN p.cid ELSE seqData[j]]
    BY <1>2 DEF Store
  <2>3. \A j \in DOMAIN seqData' : seqData'[j] = clientId'
    BY <1>2, <2>2 DEF Store, OwnStored
  <2> QED
    BY <1>2, <2>1, <2>3 DEF Store, Holds, Parsable
<1>3. CASE Deliver(p)
  <2>1. PICK n \in p.seq..(N - 1) :
          /\ recvSeq' = n
          /\ acks' = acks \union ProcessedAcks(p.seq, n) \union DroppedAcks(p.seq, n)
    BY <1>3 DEF Deliver
  <2>2. PICK j \in p.seq..n, i \in Int : a \in SendAck(j, StoredAfter(p.seq, i))
    <3>1. CASE a \in ProcessedAcks(p.seq, n)
      BY <3>1 DEF ProcessedAcks
    <3>2. CASE a \in DroppedAcks(p.seq, n)
      BY <3>2 DEF DroppedAcks, Packet, SeqId
    <3> QED
      BY <2>1, <3>1, <3>2
  <2>3. k \in 0..j \/ k \in DOMAIN seqData
    BY <2>2, AckClaims DEF StoredAfter, Packet, SeqId
  <2>4. CASE k \in 0..j
    BY <2>1, <2>2, <2>4 DEF Holds
  <2>5. CASE k \in DOMAIN seqData
    BY <1>0, <2>5, HoldsStable DEF Holds, Parsable, OwnStored
  <2> QED
    BY <2>3, <2>4, <2>5
<1> QED
  BY <1>1, <1>2, <1>3 DEF Datagram

(* Every step keeps the ACKs true and the client in possession. *)
LEMMA HeldStep ==
  ASSUME TypeOK, rekeys = 0, rekeys' = 0, HeldInv, [Next]_vars
  PROVE  HeldInv'
<1> USE DEF HeldInv
<1>1. CASE Connect
  <2>1. clientId' # 0 /\ camId' # clientId' /\ DOMAIN seqData' = {}
    BY <1>1, NothingStoredType DEF Connect, TypeOK, cameraVars
  <2> QED
    BY <2>1 DEF OwnStored, AcksTrue, ReleasedIsHeld
<1>2. CASE Rekey
  BY <1>2 DEF Rekey, TypeOK
<1>3. CASE ConnectionLost
  BY <1>3, NothingStoredType DEF ConnectionLost, OwnStored, AcksTrue, ReleasedIsHeld
<1>4. ASSUME NEW p \in Packet, Datagram(p) PROVE HeldInv'
  <2>1. /\ clientId # 0 /\ clientId' = clientId
        /\ camId' = camId /\ released' = released
    BY <1>4 DEF Datagram, IgnoreForeign, IgnoreOld, Store, Deliver, Arrives,
                protocolVars, cameraVars
  <2>2. OwnStored'
    <3>1. CASE Store(p)
      BY <3>1 DEF Store, OwnStored
    <3>2. CASE Deliver(p)
      BY <3>2 DEF Deliver, OwnStored
    <3> QED
      BY <1>4, <3>1, <3>2 DEF Datagram, IgnoreForeign, IgnoreOld, OwnStored, protocolVars
  <2>3. \A k \in SeqId : Holds(k) => Holds(k)'
    BY <1>4, HoldsStable
  <2>4. ReleasedIsHeld'
    BY <2>1, <2>3 DEF ReleasedIsHeld, TypeOK
  <2>5. AcksTrue'
    <3> SUFFICES ASSUME camId = clientId, NEW a \in acks', NEW k \in Acknowledged(a)
                 PROVE  Holds(k)'
      BY <2>1 DEF AcksTrue
    <3>1. CASE a \in acks
      BY <2>1, <2>3, <3>1 DEF AcksTrue, TypeOK, AckMsg, Acknowledged, SeqId
    <3>2. CASE a \notin acks
      BY <1>4, <3>2, NewAcksTrue
    <3> QED
      BY <3>1, <3>2
  <2> QED
    BY <2>2, <2>4, <2>5
<1>5. CASE CameraAccept
  BY <1>5 DEF CameraAccept, OwnStored, AcksTrue, ReleasedIsHeld, protocolVars
<1>6. CASE CameraAck
  <2>1. PICK a \in acks : /\ released' = released \union Acknowledged(a)
                          /\ acks' = acks \ {a}
    BY <1>6 DEF CameraAck
  <2>2. UNCHANGED <<clientId, camId, recvSeq, seqData>>
    BY <1>6 DEF CameraAck, protocolVars
  <2> QED
    BY <2>1, <2>2 DEF OwnStored, AcksTrue, ReleasedIsHeld, Holds, Parsable
<1>7. CASE UNCHANGED <<clientId, camId, recvSeq, seqData, released, acks>>
  BY <1>7 DEF OwnStored, AcksTrue, ReleasedIsHeld, Holds, Parsable
<1>8. CASE AckReceived
  <2>1. UNCHANGED <<clientId, camId, recvSeq, seqData, released>>
    BY <1>8 DEF AckReceived, protocolVars, cameraVars
  <2>2. acks' = acks \union SendAck(recvSeq, DOMAIN seqData)
    BY <1>8 DEF AckReceived
  <2>3. \A a \in SendAck(recvSeq, DOMAIN seqData) : \A k \in Acknowledged(a) : Holds(k)
    BY AckClaims DEF TypeOK, OwnStored, Holds, Parsable
  <2> QED
    BY <2>1, <2>2, <2>3 DEF OwnStored, AcksTrue, ReleasedIsHeld, Holds, Parsable
<1> QED
  BY <1>1, <1>2, <1>3, <1>4, <1>5, <1>6, <1>7, <1>8
  DEF Next, Established, CameraSend, protocolVars, cameraVars, vars

(* Whatever the camera no longer keeps, the client has. *)
THEOREM NothingLostForGood == Spec => []ReleasedIsHeld
<1>1. Init => HeldInv
  BY NothingStoredType DEF Init, HeldInv, OwnStored, AcksTrue, ReleasedIsHeld
<1>2. TypeOK /\ (rekeys = 0 => HeldInv) /\ [Next]_vars => (rekeys = 0 => HeldInv)'
  <2> SUFFICES ASSUME TypeOK, rekeys = 0 => HeldInv, [Next]_vars, rekeys' = 0
               PROVE  HeldInv'
    OBVIOUS
  <2> QED
    BY NoRestart, HeldStep
<1>3. (rekeys = 0 => HeldInv) => ReleasedIsHeld
  BY DEF HeldInv, ReleasedIsHeld
<1> QED
  BY <1>1, <1>2, <1>3, TypeCorrect, PTL DEF Spec

-----------------------------------------------------------------------------
(* The refinement *)

(* A connection the camera sends on is the last one it accepted, and the    *)
(* client has only packets that were sent.                                  *)
SentInv == /\ \A c \in Session : produced[c] > 0 => c <= camId
           /\ clientId # 0 => /\ recvSeq < produced[clientId]
                              /\ \A k \in DOMAIN seqData : k < produced[clientId]

(* Every step keeps the client from having what was never sent. *)
LEMMA SentStep ==
  ASSUME TypeOK, rekeys = 0, rekeys' = 0, SentInv, [Next]_vars
  PROVE  SentInv'
<1>1. CASE Connect
  BY <1>1, NothingStoredType DEF Connect, SentInv, TypeOK, cameraVars, Session
<1>2. CASE Rekey
  BY <1>2 DEF Rekey, TypeOK
<1>3. CASE ConnectionLost
  BY <1>3 DEF ConnectionLost, SentInv, cameraVars
<1>4. ASSUME NEW p \in Packet, Store(p) PROVE SentInv'
  BY <1>4 DEF Store, Arrives, SentInv, cameraVars
<1>5. ASSUME NEW p \in Packet, Deliver(p) PROVE SentInv'
  <2>1. PICK n \in p.seq..(N - 1) :
          /\ Drains(p.seq, n)
          /\ recvSeq' = n
          /\ seqData' = [k \in DOMAIN seqData \ Popped(p.seq, n) |-> seqData[k]]
    BY <1>5 DEF Deliver
  <2>2. /\ p.cid = clientId /\ p.seq < produced[clientId] /\ clientId # 0
        /\ clientId' = clientId /\ produced' = produced /\ camId' = camId
    BY <1>5 DEF Deliver, Arrives, cameraVars
  <2>3. n = p.seq \/ Parsable(n)
    BY <2>1 DEF Drains, Packet, SeqId
  <2>4. n < produced[clientId]
    BY <2>2, <2>3 DEF SentInv, Parsable
  <2>5. \A k \in DOMAIN seqData' : k < produced[clientId]
    BY <2>1, <2>2 DEF SentInv
  <2> QED
    BY <2>1, <2>2, <2>4, <2>5 DEF SentInv
<1>6. CASE CameraAccept
  BY <1>6 DEF CameraAccept, SentInv, TypeOK, protocolVars, Session
<1>7. CASE CameraSend
  <2>1. \A c \in Session : produced'[c] = produced[c] \/ (c = camId /\ produced'[c] = produced[c] + 1)
    BY <1>7 DEF CameraSend, TypeOK
  <2>2. UNCHANGED <<clientId, recvSeq, seqData, camId>>
    BY <1>7 DEF CameraSend, protocolVars
  <2>3. \A c \in Session : produced[c] \in Int
    BY DEF TypeOK, Session
  <2>4. clientId # 0 => clientId \in Session
    BY DEF TypeOK, Session
  <2>5. (\A c \in Session : produced[c] > 0 => c <= camId)'
    <3> SUFFICES ASSUME NEW c \in Session, produced'[c] > 0 PROVE c <= camId
      BY <2>2
    <3>1. CASE produced'[c] = produced[c]
      BY <3>1 DEF SentInv
    <3>2. CASE c = camId
      BY <3>2 DEF Session
    <3> QED
      BY <2>1, <3>1, <3>2
  <2>6. \A k \in DOMAIN seqData : k \in Int
    BY DEF TypeOK, SeqId
  <2>7. clientId # 0 => /\ recvSeq < produced'[clientId]
                       /\ \A k \in DOMAIN seqData : k < produced'[clientId]
    BY <2>1, <2>3, <2>4, <2>6 DEF SentInv, TypeOK
  <2> QED
    BY <2>2, <2>5, <2>7 DEF SentInv
<1>8. CASE UNCHANGED <<clientId, recvSeq, seqData, camId, produced>>
  BY <1>8 DEF SentInv
<1> QED
  BY <1>1, <1>2, <1>3, <1>4, <1>5, <1>6, <1>7, <1>8
  DEF Next, Established, Datagram, IgnoreForeign, IgnoreOld, AckReceived, CameraAck,
      protocolVars, cameraVars, vars

(* The two ends of the ordered stream, as the refinement sees them. *)
Submitted == IF rekeys = 0 /\ clientId # 0 /\ camId = clientId THEN produced[camId] ELSE 0
Received == IF rekeys = 0 THEN [i \in DOMAIN delivered |-> delivered[i].seq] ELSE <<>>

(* Every step is a step of the ordered stream, or changes nothing of it. *)
LEMMA RefinementStep ==
  ASSUME TypeOK, TypeOK', rekeys = 0, rekeys' = 0, InOrder, InOrder', SentInv, SentInv',
         [Next]_vars
  PROVE  [Stream!Next]_<<Submitted, Received>>
<1> USE DEF Stream!Next
<1>1. CASE Connect \/ ConnectionLost
  <2>1. Submitted' = 0 /\ delivered' = <<>>
    BY <1>1 DEF Connect, ConnectionLost, TypeOK, Submitted, cameraVars
  <2>2. Received' = <<>>
    BY <2>1 DEF Received
  <2> QED
    BY <2>1, <2>2 DEF Stream!Reset, Submitted, Received
<1>2. CASE Rekey
  BY <1>2 DEF Rekey, TypeOK
<1>3. ASSUME NEW p \in Packet, Deliver(p)
      PROVE  [Stream!Next]_<<Submitted, Received>>
  <2>1. recvSeq' \in Int /\ recvSeq' > recvSeq /\ recvSeq' < N
    BY <1>3 DEF Deliver, TypeOK
  <2>2. clientId # 0 /\ clientId' = clientId /\ produced[clientId] > 0
    BY <1>3 DEF Deliver, Arrives, Packet, SeqId, TypeOK
  <2>3. camId = clientId
    BY <2>2 DEF SentInv, TypeOK, Session
  <2>4. UNCHANGED <<camId, produced>>
    BY <1>3 DEF Deliver, cameraVars
  <2>5. Submitted = produced[clientId] /\ Submitted' = Submitted
    BY <2>2, <2>3, <2>4 DEF Submitted
  <2>6. recvSeq' < Submitted /\ Submitted \in Int
    BY <2>2, <2>4, <2>5 DEF SentInv, TypeOK, Session
  <2>7. Received = [i \in 1..(recvSeq + 1) |-> i - 1]
    BY DEF Received, InOrder, TypeOK
  <2>8. Received' = [i \in 1..(recvSeq' + 1) |-> i - 1]
    BY DEF Received, InOrder, TypeOK
  <2>9. Len(Received) = recvSeq + 1 /\ Len(Received') = recvSeq' + 1
    BY <2>1, <2>7, <2>8 DEF TypeOK
  <2>10. Stream!Receive
    BY <2>1, <2>5, <2>6, <2>8, <2>9 DEF Stream!Receive, Submitted, Received, TypeOK
  <2> QED
    BY <2>10
<1>4. CASE CameraAccept
  BY <1>4 DEF CameraAccept, Submitted, Received, SentInv, TypeOK, protocolVars, Session
<1>5. CASE CameraSend
  BY <1>5 DEF CameraSend, Submitted, Received, TypeOK, protocolVars, Stream!Submit, Session
<1>6. CASE UNCHANGED <<clientId, delivered, camId, produced>>
  BY <1>6 DEF Submitted, Received
<1> QED
  BY <1>1, <1>2, <1>3, <1>4, <1>5, <1>6
  DEF Next, Established, Datagram, IgnoreForeign, IgnoreOld, Store, AckReceived, CameraAck,
      protocolVars, cameraVars, vars

(* The receiving half of the transport implements the ordered stream. *)
THEOREM Refinement == Spec => ImplementsStream
<1>1. Init => Stream!Init
  BY DEF Init, Stream!Init
<1>2. Init => InOrder
  BY DEF Init, InOrder
<1>3. Init => (rekeys = 0 => SentInv)
  BY NothingStoredType DEF Init, SentInv
<1>4. TypeOK /\ InOrder /\ [Next]_vars => InOrder'
  BY InOrderStep
<1>5. TypeOK /\ (rekeys = 0 => SentInv) /\ [Next]_vars => (rekeys = 0 => SentInv)'
  BY NoRestart, SentStep
<1>6. ASSUME TypeOK, TypeOK', InOrder, InOrder', rekeys = 0 => SentInv,
             (rekeys = 0 => SentInv)', [Next]_vars
      PROVE  [Stream!Next]_(Stream!streamVars)
  <2>1. CASE rekeys' = 0
    BY <1>6, <2>1, NoRestart, RefinementStep DEF Stream!streamVars, Submitted, Received
  <2>2. CASE rekeys' # 0
    <3>1. Submitted' = 0 /\ Received' = <<>>
      BY <2>2 DEF Submitted, Received
    <3> QED
      BY <3>1 DEF Stream!Next, Stream!Reset, Submitted, Received
  <2> QED
    BY <2>1, <2>2
<1> QED
  BY <1>1, <1>2, <1>3, <1>4, <1>5, <1>6, TypeCorrect, PTL DEF Spec, ImplementsStream, Stream!Spec
=============================================================================
