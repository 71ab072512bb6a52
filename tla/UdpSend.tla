------------------------------ MODULE UdpSend ------------------------------
(***************************************************************************)
(* The sending half of the UDP transport: how BaichuanUdpConnection gets   *)
(* the packets of commands to the camera (_construct_udp_header, _write,   *)
(* _send_next, received_ack, _timeout_send_ack, drop_connection, close).   *)
(*                                                                         *)
(* A command takes its sequence numbers when its header is constructed and *)
(* writes its packets later; only so many of them may wait on an ACK, the  *)
(* others queue.  A packet that is not acknowledged in time is sent again, *)
(* and given up after UDP_MAX_RESENDS: then everything unsent is dropped   *)
(* and the commands it belonged to fail, upon which they drop the          *)
(* connection and with it the numbering.                                   *)
(*                                                                         *)
(* The event loop runs one callback, or one task up to its next await, at  *)
(* a time: that is a step.  Time is abstract: a timer that is armed may    *)
(* fire.  The network may lose, repeat, delay and reorder packets: what    *)
(* was sent may arrive at any time.  The camera is external: it processes  *)
(* packets in order and its ACKs, which may be late, tell the truth.  A    *)
(* packet resent on request of an ACK repeats what is already on the wire. *)
(***************************************************************************)
EXTENDS Integers, Sequences, FiniteSets

CONSTANTS Cmd,         \* the calls of send() and send_without_wait() made
          Heartbeats,  \* those made by send_without_wait: no future waits
          Size,        \* the number of UDP packets a call is split in
          Key,         \* its (cmd_id, full_mess_id)
          Cancellable, \* the calls a caller may cancel
          Window,      \* UDP_SEND_WINDOW
          MaxResends,  \* UDP_MAX_RESENDS
          TableLen,    \* entries in the truth table of an ACK, at most
          MaxConns     \* connections opened in a behaviour, at most

ASSUME CmdAssumption == /\ IsFiniteSet(Cmd)
                        /\ Heartbeats \subseteq Cmd
                        /\ Cancellable \subseteq Cmd
                        /\ Size \in [Cmd -> Nat \ {0}]
                        /\ DOMAIN Key = Cmd
ASSUME WindowAssumption == Window \in Nat \ {0}
ASSUME MaxResendsAssumption == MaxResends \in Nat
ASSUME TableLenAssumption == TableLen \in Nat
ASSUME MaxConnsAssumption == MaxConns \in Nat

VARIABLES
  conn,     \* _transport: "none", "open", "closing", or "lost" but still set
  hostId,   \* _protocol.host_id is not None
  epoch,    \* the host id of the connection, the number of its connect()
  nextSeq,  \* _udp_mess_id
  queue,    \* _send_queue
  window,   \* _send_packets: sequence number -> packet
  timers,   \* numbers of the packets of the window whose timer is armed
  stray,    \* numbers of armed timers of packets that were replaced in the
            \* window; a number replaced twice counts once
  st,       \* where every call is
  base,     \* its first sequence number and the host id in its header
  reg,      \* the connection whose receive_futures its future is in, 0 for none
  twin,     \* the call whose future it waits on before it writes, itself for none
  wire,     \* numbers of the packets sent on the connection
  camGot    \* camera: numbers of the packets received on the connection

connVars == <<conn, hostId, epoch>>
bufferVars == <<queue, window, timers, stray>>
headVars == <<base, reg, twin>>
callVars == <<st, headVars>>
vars == <<connVars, nextSeq, bufferVars, callVars, wire, camGot>>

ConnState == {"none", "open", "closing", "lost"}
CallState == {"idle",       \* not made yet
              "held",       \* header constructed, waits for its twin to finish
              "sent",       \* written, a future waits for the response
              "ackFailed",  \* the future holds ReolinkTimeoutSendACK
              "dropping",   \* timed out, waits for drop_connection to end
              "done",       \* answered, or written by send_without_wait
              "failed"}

Packet == [seq : Nat, cmd : Cmd, ep : Nat]
Slot == [cmd : Cmd, ep : Nat, resends : 0..MaxResends]
Header == [seq : Nat, ep : Nat]

(* the sequence numbers of call c *)
Seqs(c) == base[c].seq..(base[c].seq + Size[c] - 1)

NoPackets == [s \in {} |-> 0]

Init == /\ conn = "none"
        /\ hostId = FALSE
        /\ epoch = 0
        /\ nextSeq = 0
        /\ queue = <<>>
        /\ window = NoPackets
        /\ timers = {}
        /\ stray = {}
        /\ st = [c \in Cmd |-> "idle"]
        /\ base = [c \in Cmd |-> [seq |-> 0, ep |-> 0]]
        /\ reg = [c \in Cmd |-> 0]
        /\ twin = [c \in Cmd |-> c]
        /\ wire = {}
        /\ camGot = {}

-----------------------------------------------------------------------------
(* The send window *)

(* The numbers of the first n packets of queue q. *)
First(q, n) == {q[i].seq : i \in 1..n}

(* Mutant of Moves: the limit is tested after the packet is in. *)
MovesOneMore(q, w, n) ==
  /\ n \in 0..Len(q)
  /\ \A m \in 0..(n - 1) : Cardinality(DOMAIN w \union First(q, m)) <= Window
  /\ n = Len(q) \/ Cardinality(DOMAIN w \union First(q, n)) > Window

(* _send_next moves n packets of queue q to window w: it goes on as long as *)
(* there are packets queued and room in the window.                         *)
Moves(q, w, n) ==
  /\ n \in 0..Len(q)
  /\ \A m \in 0..(n - 1) : Cardinality(DOMAIN w \union First(q, m)) < Window
  /\ n = Len(q) \/ Cardinality(DOMAIN w \union First(q, n)) >= Window

(* The packet that ends up under number s when n packets are moved. *)
LastMoved(q, n, s) == CHOOSE i \in 1..n : /\ q[i].seq = s
                                          /\ \A j \in (i + 1)..n : q[j].seq # s

(* A packet moved under a number already taken replaces the packet there, *)
(* the timer of which goes on.                                            *)
Replaced(q, w, t, n) ==
  {s \in First(q, n) : \/ s \in DOMAIN w /\ s \in t
                       \/ \E i, j \in 1..n : i < j /\ q[i].seq = s /\ q[j].seq = s}

(* What the network carries of these packets: the transport must be open,  *)
(* and the camera ignores packets with the host id of another connection.  *)
OnWire(q, n) == {q[i].seq : i \in {j \in 1..n : conn = "open" /\ q[j].ep = epoch}}

(* _send_next, with queue q, window w and armed timers t. *)
SendNext(q, w, t) ==
  \E n \in 0..Len(q) :
    /\ Moves(q, w, n)
    /\ queue' = SubSeq(q, n + 1, Len(q))
    /\ window' = [s \in DOMAIN w \union First(q, n) |->
                    IF s \in First(q, n)
                      THEN [cmd |-> q[LastMoved(q, n, s)].cmd,
                            ep |-> q[LastMoved(q, n, s)].ep,
                            resends |-> 0]
                      ELSE w[s]]
    /\ timers' = t \union First(q, n)
    /\ stray' = stray \union Replaced(q, w, t, n)
    /\ wire' = wire \union OnWire(q, n)

(* Mutant of ClearSendBuffer: the timers stay armed. *)
ClearKeepsTimers == /\ queue' = <<>>
                    /\ window' = NoPackets
                    /\ timers' = timers
                    /\ stray' = stray

(* _clear_send_buffer cancels the timers of the packets in the window only. *)
ClearSendBuffer == /\ queue' = <<>>
                   /\ window' = NoPackets
                   /\ timers' = {}
                   /\ stray' = stray

-----------------------------------------------------------------------------
(* The connection *)

(* connect() up to the moment the camera has accepted the connection. *)
Connect == /\ conn = "none"
           /\ epoch < MaxConns
           /\ conn' = "open"
           /\ hostId' = TRUE
           /\ epoch' = epoch + 1
           /\ nextSeq' = 0
           /\ ClearSendBuffer
           /\ wire' = {}
           /\ camGot' = {}
           /\ UNCHANGED callVars

(* close() up to its wait on close_future. *)
StartClose == /\ conn' = IF conn = "open" THEN "closing" ELSE conn
              /\ ClearSendBuffer
              /\ UNCHANGED <<epoch, nextSeq, headVars, wire, camGot>>

(* logout or an idle battery camera: close() *)
Close == /\ conn = "open"
         /\ StartClose
         /\ UNCHANGED <<hostId, st>>

(* The camera sent D2C_DISC: drop_connection() in a task of its own. *)
CameraDisconnect == /\ conn = "open"
                    /\ hostId' = FALSE
                    /\ StartClose
                    /\ UNCHANGED st

(* connection_lost: every future of the protocol object gets an exception. *)
ConnectionLost == /\ conn = "closing"
                  /\ conn' = "lost"
                  /\ hostId' = FALSE
                  /\ st' = [c \in Cmd |-> IF st[c] = "sent" /\ reg[c] = epoch
                                            THEN "failed" ELSE st[c]]
                  /\ UNCHANGED <<epoch, nextSeq, bufferVars, headVars, wire, camGot>>

(* close() resumes: transport and protocol are forgotten, and the calls *)
(* that closed the connection raise their timeout.                      *)
Closed == /\ conn = "lost"
          /\ conn' = "none"
          /\ st' = [c \in Cmd |-> IF st[c] = "dropping" THEN "failed" ELSE st[c]]
          /\ UNCHANGED <<hostId, epoch, nextSeq, bufferVars, headVars, wire, camGot>>

-----------------------------------------------------------------------------
(* The calls *)

(* The future of call d is in receive_futures of the current protocol. *)
Registered(d) == /\ conn # "none"
                 /\ reg[d] = epoch
                 /\ st[d] \in {"sent", "ackFailed", "dropping"}

(* The other calls with the same key that are in receive_futures. *)
Twins(c) == {d \in Cmd \ {c} : Key[d] = Key[c] /\ Registered(d)}

TwinBusy(c) == Twins(c) # {}

(* _write: split call c in packets numbered from s, with host id e. *)
PacketsOf(c, s, e) == [i \in 1..Size[c] |-> [seq |-> s + i - 1, cmd |-> c, ep |-> e]]

Write(c, s, e) == SendNext(queue \o PacketsOf(c, s, e), window, timers)

Written(c) == IF c \in Heartbeats THEN "done" ELSE "sent"

(* The header takes the sequence numbers; nothing holds the call up. *)
Send(c) == /\ st[c] = "idle"
           /\ hostId
           /\ c \in Heartbeats \/ ~TwinBusy(c)
           /\ nextSeq' = nextSeq + Size[c]
           /\ base' = [base EXCEPT ![c] = [seq |-> nextSeq, ep |-> epoch]]
           /\ reg' = [reg EXCEPT ![c] = epoch]
           /\ Write(c, nextSeq, epoch)
           /\ st' = [st EXCEPT ![c] = Written(c)]
           /\ UNCHANGED <<connVars, twin, camGot>>

(* The header takes the sequence numbers, then the call waits for its twin. *)
Hold(c) == /\ st[c] = "idle"
           /\ hostId
           /\ c \notin Heartbeats
           /\ nextSeq' = nextSeq + Size[c]
           /\ base' = [base EXCEPT ![c] = [seq |-> nextSeq, ep |-> epoch]]
           /\ \E d \in Twins(c) : twin' = [twin EXCEPT ![c] = d]
           /\ st' = [st EXCEPT ![c] = "held"]
           /\ UNCHANGED <<connVars, reg, bufferVars, wire, camGot>>

(* The twin has finished: write with the header constructed before. *)
WriteHeld(c) == /\ st[c] = "held"
                /\ st[twin[c]] # "sent"
                /\ ~TwinBusy(c)
                /\ conn # "none"
                /\ Write(c, base[c].seq, base[c].ep)
                /\ reg' = [reg EXCEPT ![c] = epoch]
                /\ st' = [st EXCEPT ![c] = "sent"]
                /\ UNCHANGED <<connVars, nextSeq, base, twin, camGot>>

(* The twin has finished but there is no transport: ReolinkConnectionError. *)
WriteHeldLost(c) == /\ st[c] = "held"
                    /\ st[twin[c]] # "sent"
                    /\ conn = "none"
                    /\ st' = [st EXCEPT ![c] = "failed"]
                    /\ UNCHANGED <<connVars, nextSeq, bufferVars, headVars, wire, camGot>>

(* The twin failed, its entry or that of yet another one stays: the call  *)
(* does not wait longer.  The twin's own timeout started before this one. *)
HeldTimeout(c) == /\ st[c] = "held"
                  /\ st[twin[c]] # "sent"
                  /\ TwinBusy(c)
                  /\ st' = [st EXCEPT ![c] = "failed"]
                  /\ UNCHANGED <<connVars, nextSeq, bufferVars, headVars, wire, camGot>>

(* The calls that wait on the future of a call of D.  If it is cancelled   *)
(* they fail with it: "except Exception" does not catch a CancelledError.  *)
WaitersOn(D) == {c \in Cmd : st[c] = "held" /\ twin[c] \in D /\ st[twin[c]] = "sent"}

(* The calls whose future is cancelled when the task of call c is.  A call  *)
(* that waits on the future of its twin takes that future with it, and the  *)
(* one whose connection was replaced removes the future its twin has now.   *)
CancelledWith(c) ==
  IF st[c] = "held"
    THEN {c} \union {d \in {twin[c]} : st[d] = "sent"}
    ELSE {c} \union {d \in Twins(c) : st[d] = "sent"}

(* The caller of send() is cancelled. *)
Cancel(c) == /\ c \in Cancellable
             /\ st[c] \in {"held", "sent"}
             /\ st' = [d \in Cmd |-> IF d \in CancelledWith(c) \union WaitersOn(CancelledWith(c))
                                       THEN "failed" ELSE st[d]]
             /\ UNCHANGED <<connVars, nextSeq, bufferVars, headVars, wire, camGot>>

(* Mutant of FailAndDrop: the connection is kept. *)
FailAndKeep(c) == /\ st' = [st EXCEPT ![c] = "failed"]
                  /\ UNCHANGED <<connVars, nextSeq, bufferVars, headVars, wire, camGot>>

(* A call fails with a timeout: drop_connection(), and wait for its end. *)
FailAndDrop(c) == /\ st' = [d \in Cmd |-> IF d = c /\ conn # "none" THEN "dropping"
                                          ELSE IF d \in {c} \union WaitersOn({c}) THEN "failed"
                                          ELSE st[d]]
                  /\ hostId' = FALSE
                  /\ StartClose

(* No response within the timeout of the command. *)
ResponseTimeout(c) == st[c] = "sent" /\ FailAndDrop(c)

(* The task of a call given up resumes. *)
ResumeAckFailed(c) == st[c] = "ackFailed" /\ FailAndDrop(c)

-----------------------------------------------------------------------------
(* Acknowledgements and timers *)

(* The packets of the window that an ACK of sequence number a with truth *)
(* table t says are received: up to a, and a + 1 + idx for entry idx.    *)
Acked(a, t) == {s \in DOMAIN window : \/ s <= a
                                      \/ s - a \in DOMAIN t /\ t[s - a]}

(* Mutant of ReceivedAck: the queue is not looked at. *)
ReceivedAckOnly(a, t) ==
  /\ conn = "open"
  /\ window' = [s \in DOMAIN window \ Acked(a, t) |-> window[s]]
  /\ timers' = timers \ Acked(a, t)
  /\ UNCHANGED <<connVars, nextSeq, queue, stray, callVars, wire, camGot>>

ReceivedAck(a, t) ==
  LET left == [s \in DOMAIN window \ Acked(a, t) |-> window[s]]
  IN /\ conn = "open"
     /\ SendNext(queue, left, timers \ Acked(a, t))
     /\ UNCHANGED <<connVars, nextSeq, callVars, camGot>>

(* Mutant of Resend: the resend is not counted. *)
ResendUncounted(s) ==
  /\ timers' = IF conn = "none" THEN timers \ {s} ELSE timers \union {s}
  /\ wire' = IF conn = "open" /\ window[s].ep = epoch THEN wire \union {s} ELSE wire
  /\ UNCHANGED <<queue, window, st>>

(* Send packet s once more, if there is a transport. *)
Resend(s) ==
  /\ window' = [window EXCEPT ![s].resends = @ + 1]
  /\ timers' = IF conn = "none" THEN timers \ {s} ELSE timers \union {s}
  /\ wire' = IF conn = "open" /\ window[s].ep = epoch THEN wire \union {s} ELSE wire
  /\ UNCHANGED <<queue, st>>

(* Mutant of DroppedKeys: the calls still queued are forgotten. *)
DroppedWindowKeys ==
  {Key[window[s].cmd] : s \in {r \in DOMAIN window : window[r].cmd \notin Heartbeats}}

(* The keys of the calls with a packet that is not acknowledged. *)
DroppedKeys == {Key[window[s].cmd] : s \in {r \in DOMAIN window : window[r].cmd \notin Heartbeats}}
                 \union {Key[queue[i].cmd] : i \in {j \in DOMAIN queue : queue[j].cmd \notin Heartbeats}}

(* Drop all that is not acknowledged and fail the calls it belongs to. *)
GiveUp ==
  /\ queue' = <<>>
  /\ window' = NoPackets
  /\ timers' = {}
  /\ wire' = wire
  /\ st' = [c \in Cmd |-> IF st[c] = "sent" /\ reg[c] = epoch /\ conn # "none" /\ Key[c] \in DroppedKeys
                            THEN "ackFailed" ELSE st[c]]

(* Mutant of TimeoutSendAck: one resend more than UDP_MAX_RESENDS. *)
TimeoutSendAckLate(s) ==
  IF s \in DOMAIN window
    THEN IF window[s].resends <= MaxResends THEN Resend(s) ELSE GiveUp
    ELSE UNCHANGED <<queue, window, timers, wire, st>>

(* _timeout_send_ack(s) *)
TimeoutSendAck(s) ==
  IF s \in DOMAIN window
    THEN IF window[s].resends < MaxResends THEN Resend(s) ELSE GiveUp
    ELSE UNCHANGED <<queue, window, timers, wire, st>>

Timeout(s) == /\ s \in timers
              /\ TimeoutSendAck(s)
              /\ stray' = stray
              /\ UNCHANGED <<connVars, nextSeq, headVars, camGot>>

(* The timer of a packet that was replaced in the window. *)
StrayTimeout(s) == /\ s \in stray
                   /\ TimeoutSendAck(s)
                   /\ stray' = stray \ {s}
                   /\ UNCHANGED <<connVars, nextSeq, headVars, camGot>>

-----------------------------------------------------------------------------
(* The camera *)

CameraReceive(s) == /\ s \in wire \ camGot
                    /\ camGot' = camGot \union {s}
                    /\ UNCHANGED <<connVars, nextSeq, bufferVars, callVars, wire>>

(* It has received everything up to s. *)
Processed(s) == 0..s \subseteq camGot

(* It has processed a call and its response arrives. *)
Answer(c) == /\ st[c] = "sent"
             /\ conn = "open"
             /\ base[c].ep = epoch
             /\ reg[c] = epoch
             /\ Processed(base[c].seq + Size[c] - 1)
             /\ st' = [st EXCEPT ![c] = "done"]
             /\ UNCHANGED <<connVars, nextSeq, bufferVars, headVars, wire, camGot>>

(* A truthful ACK, perhaps an old one.  There is none before packet 0. *)
Tables == UNION {[1..n -> BOOLEAN] : n \in 0..TableLen}

Truthful(a, t) == Processed(a) /\ \A i \in DOMAIN t : t[i] => a + i \in camGot

CameraAck == \E a \in camGot, t \in Tables : Truthful(a, t) /\ ReceivedAck(a, t)

-----------------------------------------------------------------------------
Next == \/ Connect
        \/ Close
        \/ CameraDisconnect
        \/ ConnectionLost
        \/ Closed
        \/ \E c \in Cmd : \/ Send(c)
                          \/ Hold(c)
                          \/ WriteHeld(c)
                          \/ WriteHeldLost(c)
                          \/ HeldTimeout(c)
                          \/ Cancel(c)
                          \/ ResponseTimeout(c)
                          \/ ResumeAckFailed(c)
                          \/ Answer(c)
        \/ CameraAck
        \/ \E s \in timers : Timeout(s)
        \/ \E s \in stray : StrayTimeout(s)
        \/ \E s \in wire : CameraReceive(s)

Spec == Init /\ [][Next]_vars

(* Armed timers fire, as the event loop promises. *)
FairSpec == Spec /\ WF_vars(\E s \in timers : Timeout(s))

-----------------------------------------------------------------------------
(* Properties *)

TypeOK == /\ conn \in ConnState
          /\ hostId \in BOOLEAN
          /\ epoch \in 0..MaxConns
          /\ nextSeq \in Nat
          /\ queue \in Seq(Packet)
          /\ DOMAIN window \subseteq Nat
          /\ window \in [DOMAIN window -> Slot]
          /\ timers \subseteq Nat
          /\ stray \subseteq Nat
          /\ st \in [Cmd -> CallState]
          /\ base \in [Cmd -> Header]
          /\ reg \in [Cmd -> Nat]
          /\ twin \in [Cmd -> Cmd]
          /\ wire \subseteq Nat
          /\ camGot \subseteq Nat

(* The camera never has more than UDP_SEND_WINDOW packets to acknowledge, *)
(* whatever mix of writes, ACKs and timeouts fills and empties the window. *)
WindowBound == Cardinality(DOMAIN window) <= Window

(* A packet waits in the queue only for lack of room in the window: the    *)
(* queue is never left standing with nothing that would start it again.    *)
NoStall == (conn = "open" /\ queue # <<>>) => Cardinality(DOMAIN window) = Window

(* The numbers of calls that waited for a twin after they had taken them. *)
Late == UNION {Seqs(c) : c \in {d \in Cmd : twin[d] # d}}

(* On an open connection the packets of the window, and no packet that was *)
(* acknowledged or dropped, have their own resend timer armed.  A packet   *)
(* that replaces another under its number leaves the timer of that one     *)
(* armed as well, even over a close(): then the number is one that a call  *)
(* took before it waited for its twin.  No other timer outlives its packet.*)
Guarded == /\ conn = "open" => timers = DOMAIN window
           /\ stray \subseteq Late

(* Packet s of this connection can still reach the camera. *)
Pending(s) == \/ s \in DOMAIN window /\ window[s].ep = epoch
              \/ \E i \in DOMAIN queue : queue[i].seq = s /\ queue[i].ep = epoch
              \/ \E c \in Cmd : st[c] = "held" /\ base[c].ep = epoch /\ s \in Seqs(c)

(* The packets the camera will wait for in vain. *)
Gap == {s \in 0..(nextSeq - 1) : s \notin camGot /\ ~Pending(s)}

Waiting(c) == st[c] = "sent" /\ base[c].ep = epoch

(* A command of which packets are dropped fails at once: none goes on      *)
(* waiting for the response to a message the camera cannot get.            *)
FailDirectly == conn = "open" => \A c \in Cmd : Waiting(c) => Seqs(c) \cap Gap = {}

(* "the camera will not process later packets without this one": no        *)
(* command goes on waiting behind a packet that was dropped, unless one    *)
(* that failed is about to drop the connection.                            *)
NoneBehindGap ==
  (conn = "open" /\ \A c \in Cmd : st[c] # "ackFailed") =>
    \A c \in Cmd : Waiting(c) => \A s \in Gap : s > base[c].seq + Size[c] - 1

(* Retransmission ends: all packets sent are acknowledged or given up. *)
Settles == (conn = "open" /\ window # NoPackets)
             ~> (conn # "open" \/ window = NoPackets)
=============================================================================
