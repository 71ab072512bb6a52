----------------------------- MODULE UdpReceive -----------------------------
(***************************************************************************)
(* The receiving half of the UDP transport: what BaichuanUdpClientProtocol *)
(* does with the BC packets a camera sends (parse_udp_bc, send_ack).       *)
(*                                                                         *)
(* The network may lose, repeat, delay and reorder packets.  The protocol  *)
(* object stores a packet that arrives ahead of its turn, hands chunks to  *)
(* the BC parser in sequence order, and answers every packet with an ACK:  *)
(* the highest number received without a gap and a truth table of what is  *)
(* stored beyond it.  datagram_received runs to completion on the event    *)
(* loop, so one arrival, with all the packets it releases, is one step.  A *)
(* datagram holding several packets is that many arrivals in a row.        *)
(*                                                                         *)
(* The camera is external.  It numbers the packets of a connection from 0, *)
(* keeps a packet until it is acknowledged and sends it again until then.  *)
(* A connection is known by its client_id: connect() draws one at random,  *)
(* here the next of 1..MaxSessions, so that no two connections share one.  *)
(***************************************************************************)
EXTENDS Integers, Sequences

CONSTANTS N,            \* packets the camera sends on one connection, at most
          MaxSessions,  \* client ids drawn in a behaviour, at most
          MaxRekeys     \* handshakes restarted on an open socket, at most

ASSUME NAssumption == N \in Nat \ {0}
ASSUME MaxSessionsAssumption == MaxSessions \in Nat
ASSUME MaxRekeysAssumption == MaxRekeys \in Nat

VARIABLES
  session,    \* the last client id drawn
  clientId,   \* _protocol.client_id, 0 for None
  hostKnown,  \* _protocol.host_id is not None
  recvSeq,    \* _recv_seq_id
  seqData,    \* _seq_data: sequence number -> client id in the stored header
  delivered,  \* history: the packets handed to bc_data_received
  rekeys,     \* handshakes restarted on an open socket so far
  camId,      \* camera: client id of its connection, 0 for none
  produced,   \* camera: number of packets sent, for every client id
  released,   \* camera: packets of camId it no longer keeps for a resend
  acks        \* ACKs on their way to the camera

protocolVars == <<clientId, hostKnown, recvSeq, seqData, delivered>>
cameraVars == <<camId, produced, released>>
vars == <<session, protocolVars, rekeys, cameraVars, acks>>

Session == 1..MaxSessions
SeqId == 0..(N - 1)
Packet == [cid : Session, seq : SeqId]
AckMsg == [seq : SeqId, stored : SUBSET SeqId]

(* _seq_data of a new protocol object *)
NothingStored == [k \in {} |-> 0]

Init == /\ session = 0
        /\ clientId = 0
        /\ hostKnown = FALSE
        /\ recvSeq = -1
        /\ seqData = NothingStored
        /\ delivered = <<>>
        /\ rekeys = 0
        /\ camId = 0
        /\ produced = [c \in Session |-> 0]
        /\ released = {}
        /\ acks = {}

-----------------------------------------------------------------------------
(* The acknowledgement *)

(* Mutant of Payload: the truth table is read one entry too far. *)
PayloadShifted(r, stored) == {k + 1 : k \in {j \in stored : j > r /\ \E i \in stored : i > j}}

(* The truth table of the packets after r, as the set of packets it marks  *)
(* as stored.  It ends before the highest packet stored; those in its range *)
(* that are not in the set are marked as missing.                           *)
Payload(r, stored) == {k \in stored : k > r /\ \E j \in stored : j > k}

(* The ACKs send_ack puts on the network: none before the handshake is done *)
(* and none as long as packet 0 is missing.                                 *)
SendAck(r, stored) ==
  IF hostKnown /\ r >= 0
    THEN {[seq |-> r, stored |-> Payload(r, stored)]}
    ELSE {}

-----------------------------------------------------------------------------
(* The life of a protocol object *)

(* A new protocol object, to which connect() gives a client id. *)
Connect == /\ clientId = 0
           /\ session < MaxSessions
           /\ session' = session + 1
           /\ clientId' = session + 1
           /\ hostKnown' = FALSE
           /\ recvSeq' = -1
           /\ seqData' = NothingStored
           /\ delivered' = <<>>
           /\ UNCHANGED <<rekeys, cameraVars, acks>>

(* Mutant of Rekey: an established connection gets another client id too. *)
RekeyEstablished == /\ clientId # 0
                    /\ rekeys < MaxRekeys
                    /\ session < MaxSessions
                    /\ session' = session + 1
                    /\ clientId' = session + 1
                    /\ rekeys' = rekeys + 1
                    /\ UNCHANGED <<hostKnown, recvSeq, seqData, delivered, cameraVars, acks>>

(* connect() after a handshake that failed but left the socket open: the *)
(* same protocol object gets another client id and keeps the rest.       *)
Rekey == /\ clientId # 0
         /\ ~hostKnown
         /\ rekeys < MaxRekeys
         /\ session < MaxSessions
         /\ session' = session + 1
         /\ clientId' = session + 1
         /\ rekeys' = rekeys + 1
         /\ UNCHANGED <<hostKnown, recvSeq, seqData, delivered, cameraVars, acks>>

(* The answer to the handshake names the client id the camera accepted. *)
Established == /\ clientId # 0
               /\ ~hostKnown
               /\ camId = clientId
               /\ hostKnown' = TRUE
               /\ UNCHANGED <<session, clientId, recvSeq, seqData, delivered,
                              rekeys, cameraVars, acks>>

ConnectionLost == /\ clientId # 0
                  /\ clientId' = 0
                  /\ hostKnown' = FALSE
                  /\ recvSeq' = -1
                  /\ seqData' = NothingStored
                  /\ delivered' = <<>>
                  /\ UNCHANGED <<session, rekeys, cameraVars, acks>>

-----------------------------------------------------------------------------
(* A BC packet arrives: the outcomes of parse_udp_bc *)

(* Packet p can arrive once it was sent, at any time and any number of times. *)
Arrives(p) == clientId # 0 /\ p.seq < produced[p.cid]

(* The packet belongs to another connection. *)
IgnoreForeign(p) ==
  /\ Arrives(p)
  /\ p.cid # clientId
  /\ acks' = acks \union SendAck(recvSeq, DOMAIN seqData)
  /\ UNCHANGED <<session, protocolVars, rekeys, cameraVars>>

(* Mutant of IgnoreOld: a repeated packet is processed once more. *)
ProcessOld(p) ==
  /\ Arrives(p)
  /\ p.cid = clientId
  /\ p.seq <= recvSeq
  /\ delivered' = Append(delivered, p)
  /\ acks' = acks \union SendAck(recvSeq, DOMAIN seqData)
  /\ UNCHANGED <<session, clientId, hostKnown, recvSeq, seqData, rekeys, cameraVars>>

(* The packet was already processed. *)
IgnoreOld(p) ==
  /\ Arrives(p)
  /\ p.cid = clientId
  /\ p.seq <= recvSeq
  /\ acks' = acks \union SendAck(recvSeq, DOMAIN seqData)
  /\ UNCHANGED <<session, protocolVars, rekeys, cameraVars>>

(* A packet before this one is missing: store it. *)
Store(p) ==
  /\ Arrives(p)
  /\ p.cid = clientId
  /\ p.seq > recvSeq + 1
  /\ seqData' = [k \in DOMAIN seqData \union {p.seq} |->
                   IF k = p.seq THEN p.cid ELSE seqData[k]]
  /\ acks' = acks \union SendAck(recvSeq, DOMAIN seqData')
  /\ UNCHANGED <<session, clientId, hostKnown, recvSeq, delivered, rekeys, cameraVars>>

(* Stored packet k would be accepted if it were parsed now. *)
Parsable(k) == k \in DOMAIN seqData /\ seqData[k] = clientId

(* Mutant of Drains: the stored packets are not looked at. *)
DrainsNone(k, n) == n = k

(* After packet k the stored packets up to n are processed, and no more. *)
Drains(k, n) == /\ \A j \in (k + 1)..n : Parsable(j)
                /\ ~Parsable(n + 1)

(* Mutant of Popped: one that belongs to another client id is left there. *)
PoppedProcessed(k, n) == (k + 1)..n

(* The packets taken out of _seq_data: those processed and the one after   *)
(* them, which is dropped if it is there but belongs to another client id. *)
Popped(k, n) == (k + 1)..(n + 1)

(* What is stored when packet j was just processed: its successors only. *)
StoredAfter(k, j) == DOMAIN seqData \ (k + 1)..j

(* Every packet processed is answered with an ACK, and so is one dropped. *)
ProcessedAcks(k, n) == UNION {SendAck(j, StoredAfter(k, j)) : j \in k..n}

DroppedAcks(k, n) ==
  IF n + 1 \in DOMAIN seqData THEN SendAck(n, StoredAfter(k, n + 1)) ELSE {}

(* Mutant of Deliver: a packet is processed though earlier ones are missing. *)
DeliverEarly(p) ==
  /\ Arrives(p)
  /\ p.cid = clientId
  /\ p.seq > recvSeq
  /\ recvSeq' = p.seq
  /\ delivered' = Append(delivered, p)
  /\ acks' = acks \union SendAck(p.seq, DOMAIN seqData)
  /\ UNCHANGED <<session, clientId, hostKnown, seqData, rekeys, cameraVars>>

(* The packet is the next one: process it and the stored ones it completes. *)
Deliver(p) ==
  /\ Arrives(p)
  /\ p.cid = clientId
  /\ p.seq = recvSeq + 1
  /\ \E n \in p.seq..(N - 1) :
       /\ Drains(p.seq, n)
       /\ recvSeq' = n
       /\ seqData' = [k \in DOMAIN seqData \ Popped(p.seq, n) |-> seqData[k]]
       /\ delivered' = delivered \o
                         [i \in 1..(n - recvSeq) |-> [cid |-> clientId, seq |-> recvSeq + i]]
       /\ acks' = acks \union ProcessedAcks(p.seq, n) \union DroppedAcks(p.seq, n)
  /\ UNCHANGED <<session, clientId, hostKnown, rekeys, cameraVars>>

(* An ACK of the camera arrives: it is answered with an ACK now and then. *)
AckReceived == /\ clientId # 0
               /\ acks' = acks \union SendAck(recvSeq, DOMAIN seqData)
               /\ UNCHANGED <<session, protocolVars, rekeys, cameraVars>>

Datagram(p) == IgnoreForeign(p) \/ IgnoreOld(p) \/ Store(p) \/ Deliver(p)

-----------------------------------------------------------------------------
(* The camera *)

(* It accepts the connection with the client id drawn last and forgets the *)
(* one before it; ACKs still under way carry the host id of that one.      *)
CameraAccept == /\ clientId # 0
                /\ camId # clientId
                /\ camId' = clientId
                /\ released' = {}
                /\ acks' = {}
                /\ UNCHANGED <<session, protocolVars, rekeys, produced>>

CameraSend == /\ camId # 0
              /\ produced[camId] < N
              /\ produced' = [produced EXCEPT ![camId] = @ + 1]
              /\ UNCHANGED <<session, protocolVars, rekeys, camId, released, acks>>

(* The packets an ACK tells the camera it need not keep. *)
Acknowledged(a) == 0..a.seq \union a.stored

CameraAck == \E a \in acks :
               /\ released' = released \union Acknowledged(a)
               /\ acks' = acks \ {a}
               /\ UNCHANGED <<session, protocolVars, rekeys, camId, produced>>

Next == \/ Connect
        \/ Rekey
        \/ Established
        \/ ConnectionLost
        \/ \E p \in Packet : Datagram(p)
        \/ AckReceived
        \/ CameraAccept
        \/ CameraSend
        \/ CameraAck

(* The camera repeats a packet it still keeps until one copy arrives. *)
Resend(k) == /\ camId # 0
             /\ k \notin released
             /\ Datagram([cid |-> camId, seq |-> k])

Spec == Init /\ [][Next]_vars

FairSpec == Spec /\ \A k \in SeqId : WF_vars(Resend(k))

-----------------------------------------------------------------------------
(* Properties *)

(* Types, and what the two ends of a connection can be. *)
TypeOK == /\ session \in 0..MaxSessions
          /\ clientId \in {0, session}
          /\ hostKnown \in BOOLEAN
          /\ hostKnown => clientId # 0 /\ camId = clientId
          /\ recvSeq \in -1..(N - 1)
          /\ DOMAIN seqData \subseteq SeqId
          /\ seqData \in [DOMAIN seqData -> Session]
          /\ delivered \in Seq(Packet)
          /\ rekeys \in 0..MaxRekeys
          /\ camId \in 0..session
          /\ produced \in [Session -> 0..N]
          /\ released \subseteq SeqId
          /\ acks \subseteq AckMsg

(* Between datagrams _seq_data holds only packets for which an earlier one  *)
(* is still missing.  The loop of parse_udp_bc that clears "already         *)
(* processed" packets removes entries of the dictionary it iterates over:   *)
(* it is harmless only because of this.                                     *)
StoredAhead == \A k \in DOMAIN seqData : k > recvSeq + 1

(* As long as no handshake is restarted on an open socket, the BC parser    *)
(* gets the packets of the current connection, from the first on, in order, *)
(* none twice and none left out.                                            *)
InOrder ==
  rekeys = 0 => delivered = [i \in 1..(recvSeq + 1) |-> [cid |-> clientId, seq |-> i - 1]]

(* The client holds packet k of its connection: processed or stored. *)
Holds(k) == k <= recvSeq \/ Parsable(k)

(* The camera never lets go of a packet the client does not have: a lost    *)
(* packet can always be sent again.  (Not so after a restart: the truth     *)
(* table counts packets stored under the client id before.)                 *)
ReleasedIsHeld == (rekeys = 0 /\ clientId # 0 /\ camId = clientId) =>
                    \A k \in released : Holds(k)

(* The UDP layer implements the ordered stream, until a restart. *)
Stream == INSTANCE OrderedStream WITH
            submitted <- IF rekeys = 0 /\ clientId # 0 /\ camId = clientId
                           THEN produced[camId] ELSE 0,
            received <- IF rekeys = 0 THEN [i \in DOMAIN delivered |-> delivered[i].seq]
                                      ELSE <<>>

ImplementsStream == Stream!Spec

(* A packet the camera has sent on an established connection is processed, *)
(* if the connection lasts and the network does not lose every copy.       *)
EventuallyDelivered ==
  \A k \in SeqId : \A c \in Session :
    (rekeys = 0 /\ clientId = c /\ hostKnown /\ k < produced[c])
      ~> (clientId # c \/ recvSeq >= k)

(* "this pakket was already received ignore": every number up to the last  *)
(* one processed was received on the current connection.                   *)
IgnoredWasReceived ==
  clientId # 0 => \A k \in 0..recvSeq :
                    \E i \in DOMAIN delivered :
                      delivered[i] = [cid |-> clientId, seq |-> k]
=============================================================================
