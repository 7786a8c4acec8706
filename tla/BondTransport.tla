--------------------------- MODULE BondTransport ---------------------------
(***************************************************************************)
(* The bonded transport (internal/bond/bond.go), one direction of it: the  *)
(* sending half of one Transport, the receiving half of its peer, and a    *)
(* network that loses, duplicates and reorders every frame.  A datagram    *)
(* gets a transport sequence number once and is sent in attempts, each     *)
(* with a sequence number of its lane.  The receiver remembers both kinds  *)
(* of number in windows of receipts; an acknowledgement (ACK) carries, for *)
(* one lane, a bitmap of lane sequences and a total of bytes, and for the  *)
(* transport a bitmap of datagram sequences anchored at the oldest receipt *)
(* not reported yet.                                                       *)
(*                                                                         *)
(* Either end may restart: it is then a new epoch, and the other end takes *)
(* it with SetRemote (the probes that carry epochs are module ProbePlane). *)
(*                                                                         *)
(* Left to chance: which lane chooseLane picks, and when a timer is due.   *)
(* Poll does everything that is due in one call; because each timer may be *)
(* due alone, every Poll is a sequence of the Poll actions below.  A lane  *)
(* whose lease has run out neither sends nor accepts, which the network's  *)
(* losses and the sender's choice of lane include.                         *)
(***************************************************************************)
EXTENDS Naturals, FiniteSets, FiniteSetsExt, Functions

CONSTANTS
  Lanes,        \* the lanes of the peer, the same identifiers at both ends
  WindowBits,   \* receipts a receiptWindow remembers (8192 in the code)
  LaneBits,     \* lane receipts an ACK carries (64)
  ReceiptBits,  \* datagram receipts an ACK carries (256)
  RepairTail,   \* repairTail
  MaxAttempts,  \* attempts per datagram (4)
  MaxSeq,       \* bound: datagrams per epoch pair
  MaxFrames,    \* bound: DATA frames in all
  MaxAcks,      \* bound: ACKs in all
  MaxRestarts   \* bound: restarts of the two ends in all

ASSUME BondAssumption ==
  /\ \A n \in {WindowBits, LaneBits, ReceiptBits, MaxAttempts} : n \in Nat \ {0}
  /\ \A n \in {RepairTail, MaxSeq, MaxFrames, MaxAcks, MaxRestarts} : n \in Nat

VARIABLES
  tx,        \* the sending Transport
  rx,        \* the receiving Transport
  net,       \* every frame ever sent; any may still arrive, any number of times
  arrived,   \* history: datagrams some frame of which the receiver accepted
  delivered  \* history: how often the receiver handed each datagram up

Epoch == 1 .. MaxRestarts + 1

\* A datagram is named by the two epochs it was sent between and its sequence.
Datagrams == Epoch \X Epoch \X (1..MaxSeq)

vars == <<tx, rx, net, arrived, delivered>>

Least(a, b) == IF a <= b THEN a ELSE b

\* The map f with entry x set to y.
With(f, x, y) == [k \in DOMAIN f \cup {x} |-> IF k = x THEN y ELSE f[k]]

Keepalive == 0
DataBytes == 2
KeepaliveBytes == 1

----------------------------------------------------------------------------
(* receiptWindow: the highest sequence marked, and the marks of the last   *)
(* WindowBits sequences.                                                   *)

NoReceipts == [high |-> 0, marks |-> {}]

\* MUTANT: only a receipt the window still holds counts as a duplicate.
IsNewIfUnmarked(w, seq) == seq \notin w.marks

\* What receiptWindow.mark returns: FALSE for a receipt the window holds,
\* and for one too old for it.
IsNew(w, seq) == /\ seq \notin w.marks
                 /\ seq + WindowBits > w.high

Mark(w, seq) ==
  LET high == IF seq > w.high THEN seq ELSE w.high
  IN  [high  |-> high,
       marks |-> {m \in w.marks \cup {seq} : m + WindowBits > high}]

Oldest(w) == IF w.marks = {} THEN 0 ELSE Min(w.marks)

Bitmap(w, high, bits) == {m \in w.marks : m <= high /\ m + bits > high}

ForgetThrough(w, high) == [w EXCEPT !.marks = {m \in @ : m > high}]

----------------------------------------------------------------------------
(* The sender's records.                                                   *)

\* An entry of lane.attempts is the datagram it carried, or none; its bytes; and
\* the bytes sent on the lane up to and including it.
\* epochSent is not in the code: the bytes sent on the lane to the present
\* remote epoch.
FreshLane(sent) ==
  [seq |-> 0, attempts |-> << >>, inflight |-> 0, sent |-> sent,
   epochSent |-> 0, ackRevision |-> 0, receivedHigh |-> 0,
   receivedThrough |-> 0, ackReceipts |-> NoReceipts, ackedBytes |-> 0]

\* New
FreshSender(epoch) ==
  [epoch |-> epoch, remote |-> 0, seq |-> 0, pending |-> {}, acked |-> {},
   packets |-> << >>, lanes |-> [l \in Lanes |-> FreshLane(0)]]

FreshReceiver(epoch) ==
  [epoch |-> epoch, remote |-> 0, received |-> NoReceipts,
   unreported |-> NoReceipts,
   lanes |-> [l \in Lanes |-> [receipts |-> NoReceipts, bytes |-> 0,
                               pending |-> FALSE, revision |-> 0]]]

\* The bytes of the attempts S, counted one by one.
Bytes(attempts, S) ==
  Cardinality({u \in S \X (1..DataBytes) : u[2] <= attempts[u[1]].bytes})

Unreleased(attempts) == {n \in DOMAIN attempts : ~attempts[n].released}

\* lane.release for the attempts S of a lane, all unreleased before.
Release(p, S) == [p EXCEPT !.inflight = @ - Bytes(p.attempts, S)]

\* lane.passed: enough followed the last attempt on its lane to show it missing.
Passed(p, laneSeq) == \/ p.receivedHigh > laneSeq
                      \/ p.seq - laneSeq < RepairTail

----------------------------------------------------------------------------
(* Sending.                                                                *)

\* The lane's part of transmit and of a keepalive: beginAttempt, the new
\* entry of attempts, and the byte counts.
BeginAttempt(p, packet, bytes) ==
  [p EXCEPT !.seq = @ + 1,
            !.attempts = With(@, p.seq + 1,
                              [packet |-> packet, bytes |-> bytes,
                               through |-> p.sent + bytes,
                               released |-> FALSE, confirmed |-> FALSE]),
            !.inflight = @ + bytes,
            !.sent = @ + bytes,
            !.epochSent = @ + bytes]

DataFrame(l, laneSeq, packet, bytes) ==
  [type |-> "data", from |-> tx.epoch, to |-> tx.remote, lane |-> l,
   seq |-> laneSeq, packet |-> packet, bytes |-> bytes]

Sent(type) == Cardinality({m \in net : m.type = type})

CanSend(l) == tx.remote # 0 /\ Sent("data") < MaxFrames

\* transmit, of a datagram that has its sequence number already or gets it now.
Transmit(d, l, tries) ==
  LET p == BeginAttempt(tx.lanes[l], d, DataBytes)
  IN  /\ tx' = [tx EXCEPT !.seq = IF d > @ THEN d ELSE @,
                          !.lanes[l] = p,
                          !.pending = @ \cup {d},
                          !.packets = With(@, d, [attempts |-> tries, lane |-> l,
                                                  laneSeq |-> p.seq])]
      /\ net' = net \cup {DataFrame(l, p.seq, d, DataBytes)}
      /\ UNCHANGED <<rx, arrived, delivered>>

\* send: the first attempt of the next queued datagram.
Send(l) == /\ CanSend(l)
           /\ tx.seq < MaxSeq
           /\ Transmit(tx.seq + 1, l, 1)

\* Poll: another attempt of a pending datagram, on another lane, or on any
\* when the last attempt's lane has passed it.
Repair(d, l) ==
  LET p == tx.packets[d]
  IN  /\ CanSend(l)
      /\ p.attempts < MaxAttempts
      /\ l # p.lane \/ Passed(tx.lanes[p.lane], p.laneSeq)
      /\ Transmit(d, l, p.attempts + 1)

\* Poll: the keepalive of an idle lane.
SendKeepalive(l) ==
  LET p == BeginAttempt(tx.lanes[l], Keepalive, KeepaliveBytes)
  IN  /\ CanSend(l)
      /\ tx' = [tx EXCEPT !.lanes[l] = p]
      /\ net' = net \cup {DataFrame(l, p.seq, Keepalive, KeepaliveBytes)}
      /\ UNCHANGED <<rx, arrived, delivered>>

\* Poll: after the retransmission timeout an attempt no longer counts as in
\* flight.
ReleaseOverdue(l, n) ==
  LET p == tx.lanes[l]
  IN  /\ n \in Unreleased(p.attempts)
      /\ tx' = [tx EXCEPT !.lanes[l] = [Release(p, {n}) EXCEPT
                                          !.attempts[n].released = TRUE]]
      /\ UNCHANGED <<rx, net, arrived, delivered>>

\* MUTANT: an attempt released before is released again.
ForgetReleasesAgain(l, n) ==
  LET p == tx.lanes[l]
  IN  /\ n \in DOMAIN p.attempts
      /\ tx' = [tx EXCEPT !.lanes[l] =
                  [Release(p, {n}) EXCEPT !.attempts = Restrict(@, DOMAIN @ \ {n})]]
      /\ UNCHANGED <<rx, net, arrived, delivered>>

\* Poll: after feedbackHorizon an attempt is forgotten.
ForgetAttempt(l, n) ==
  LET p == tx.lanes[l]
  IN  /\ n \in DOMAIN p.attempts
      /\ tx' = [tx EXCEPT !.lanes[l] =
                  [Release(p, {n} \cap Unreleased(p.attempts)) EXCEPT
                     !.attempts = Restrict(@, DOMAIN @ \ {n})]]
      /\ UNCHANGED <<rx, net, arrived, delivered>>

\* Poll: the repair deadline of a datagram passes.
Expire(d) == /\ tx' = [tx EXCEPT !.pending = @ \ {d}]
             /\ UNCHANGED <<rx, net, arrived, delivered>>

----------------------------------------------------------------------------
(* Receiving DATA and reporting it.                                        *)

\* The epochs of DATA: from the remote it knows, to its own process.
DataAddressed(m) == m.from = rx.remote /\ m.to = rx.epoch

\* receive, DATA
ReceiveData(m) ==
  LET r == rx.lanes[m.lane]
      fresh == IsNew(r.receipts, m.seq)
      up == fresh /\ m.packet # Keepalive /\ IsNew(rx.received, m.packet)
      lane == IF fresh THEN [r EXCEPT !.receipts = Mark(@, m.seq),
                                      !.bytes = @ + m.bytes,
                                      !.pending = TRUE]
              ELSE r
  IN  /\ DataAddressed(m)
      /\ rx' = [rx EXCEPT !.lanes[m.lane] = lane,
                          !.received = IF up THEN Mark(@, m.packet) ELSE @,
                          !.unreported = IF up THEN Mark(@, m.packet) ELSE @]
      /\ arrived' = IF fresh /\ m.packet # Keepalive
                    THEN arrived \cup {<<m.from, m.to, m.packet>>} ELSE arrived
      /\ delivered' = IF up THEN [delivered EXCEPT ![<<m.from, m.to, m.packet>>] = @ + 1]
                      ELSE delivered
      /\ UNCHANGED <<tx, net>>

\* MUTANT: the bitmap always ends at the newest receipt.
AnchorNewest == rx.received.high

\* The datagram sequence the bitmap of the next ACK ends at.
Anchor ==
  LET oldest == Oldest(rx.unreported)
  IN  IF oldest = 0 THEN rx.received.high
      ELSE oldest + Least(ReceiptBits - 1, rx.received.high - oldest)

\* Poll: the ACK of a lane with receipts to report, or of any lane while the
\* transport has some.
SendAck(l) ==
  LET r == rx.lanes[l]
  IN  /\ rx.remote # 0 /\ r.receipts.high > 0
      /\ r.pending \/ Oldest(rx.unreported) # 0
      /\ Sent("ack") < MaxAcks
      /\ net' = net \cup
           {[type |-> "ack", from |-> rx.epoch, to |-> rx.remote, lane |-> l,
             seq |-> r.revision + 1, high |-> r.receipts.high,
             mask |-> Bitmap(r.receipts, r.receipts.high, LaneBits),
             bytes |-> r.bytes, receivedHigh |-> Anchor,
             received |-> Bitmap(rx.received, Anchor, ReceiptBits)]}
      /\ rx' = [rx EXCEPT !.lanes[l] = [r EXCEPT !.revision = @ + 1, !.pending = FALSE],
                          !.unreported = ForgetThrough(@, Anchor)]
      /\ UNCHANGED <<tx, arrived, delivered>>

----------------------------------------------------------------------------
(* The sender takes an ACK.                                                *)

\* The epochs of an ACK: from the remote it knows, of what this process sent.
AckAddressed(a) == a.from = tx.remote /\ a.to = tx.epoch

\* What receive demands of an ACK of the present epochs.
Possible(p, a) ==
  /\ a.high <= p.seq /\ a.receivedHigh <= tx.seq
  /\ IF a.seq > p.ackRevision THEN a.bytes >= p.ackedBytes
                              ELSE a.bytes <= p.ackedBytes

\* confirmArrived: the lane attempts that a byte total equal to what was sent
\* up to the acknowledged sequence shows to have arrived.
ConfirmArrived(attempts, a, through) ==
  IF through > 0 /\ through = a.bytes
  THEN {n \in DOMAIN attempts : n <= a.high} ELSE {}

\* MUTANT: the bytes sent on behalf of the acknowledged sequence are kept when
\* a later sequence is acknowledged.
ReceivedThroughKept(p, a) == p.receivedThrough

\* What is left of receivedThrough when an ACK is taken.
ReceivedThrough(p, a) == IF a.high > p.receivedHigh THEN 0 ELSE p.receivedThrough

\* The end of ack, for every lane: attempts of acknowledged datagrams are no
\* longer in flight, wherever they were sent.
Settle(p, acked) ==
  LET done == {n \in DOMAIN p.attempts :
                 p.attempts[n].packet \in acked /\ ~p.attempts[n].confirmed}
  IN  [Release(p, done \cap Unreleased(p.attempts)) EXCEPT
         !.attempts = [n \in DOMAIN p.attempts |->
            IF n \in done
            THEN [p.attempts[n] EXCEPT !.released = TRUE, !.confirmed = TRUE]
            ELSE p.attempts[n]]]

\* ack, the lane the ACK came on: hit are the attempts its bitmap names, stale
\* those of acknowledged datagrams that the bitmap has moved past, whole the
\* complete prefix that the byte total confirms.
Ack(l, a) ==
  LET p == tx.lanes[l]
      fresh == a.seq > p.ackRevision
      high == IF a.high > p.receivedHigh THEN a.high ELSE p.receivedHigh
      Packet(n) == p.attempts[n].packet
      hit == DOMAIN p.attempts \cap a.mask
      acked1 == tx.acked \cup a.received \cup ({Packet(n) : n \in hit} \ {Keepalive})
      stale == {n \in DOMAIN p.attempts \ hit :
                  Packet(n) \in acked1 /\ n + LaneBits <= a.high}
      rest == Restrict(p.attempts, DOMAIN p.attempts \ (hit \cup stale))
      through == IF fresh /\ a.high \in hit THEN p.attempts[a.high].through
                 ELSE ReceivedThrough(p, a)
      whole == IF fresh /\ a.high = high THEN ConfirmArrived(rest, a, through) ELSE {}
      acked == acked1 \cup ({Packet(n) : n \in whole} \ {Keepalive})
      gone == hit \cup stale \cup whole
      own == [Release(p, gone \cap Unreleased(p.attempts)) EXCEPT
                !.attempts = Restrict(@, DOMAIN @ \ gone),
                !.receivedHigh = high,
                !.receivedThrough = through,
                !.ackRevision = IF fresh THEN a.seq ELSE @,
                !.ackReceipts = Mark(@, a.seq),
                !.ackedBytes = IF fresh THEN a.bytes ELSE @]
  IN  tx' = [tx EXCEPT
               !.lanes = [k \in Lanes |->
                            Settle(IF k = l THEN own ELSE tx.lanes[k], acked)],
               !.acked = acked,
               !.pending = @ \ acked]

\* receive, ACK
ReceiveAck(a) ==
  LET p == tx.lanes[a.lane]
  IN  /\ AckAddressed(a)
      /\ Possible(p, a)
      /\ IsNew(p.ackReceipts, a.seq)
      /\ Ack(a.lane, a)
      /\ UNCHANGED <<rx, net, arrived, delivered>>

----------------------------------------------------------------------------
(* Epochs.                                                                 *)

Restarts == (tx.epoch - 1) + (rx.epoch - 1)

RestartSender == /\ Restarts < MaxRestarts
                 /\ tx' = FreshSender(tx.epoch + 1)
                 /\ UNCHANGED <<rx, net, arrived, delivered>>

RestartReceiver == /\ Restarts < MaxRestarts
                   /\ rx' = FreshReceiver(rx.epoch + 1)
                   /\ UNCHANGED <<tx, net, arrived, delivered>>

\* SetRemote, the sending half: everything starts anew, but lane.sent is kept.
SenderSetRemote ==
  /\ tx.remote # rx.epoch
  /\ tx' = [FreshSender(tx.epoch) EXCEPT
               !.remote = rx.epoch,
               !.lanes = [l \in Lanes |-> FreshLane(tx.lanes[l].sent)]]
  /\ UNCHANGED <<rx, net, arrived, delivered>>

\* SetRemote, the receiving half.
ReceiverSetRemote ==
  /\ rx.remote # tx.epoch
  /\ rx' = [FreshReceiver(rx.epoch) EXCEPT !.remote = tx.epoch]
  /\ UNCHANGED <<tx, net, arrived, delivered>>

----------------------------------------------------------------------------

Init == /\ tx = FreshSender(1)
        /\ rx = FreshReceiver(1)
        /\ net = {}
        /\ arrived = {}
        /\ delivered = [d \in Datagrams |-> 0]

Poll == \/ \E l \in Lanes : Send(l) \/ SendKeepalive(l) \/ SendAck(l)
        \/ \E l \in Lanes, d \in tx.pending : Repair(d, l)
        \/ \E l \in Lanes : \E n \in DOMAIN tx.lanes[l].attempts :
              ReleaseOverdue(l, n) \/ ForgetAttempt(l, n)
        \/ \E d \in tx.pending : Expire(d)

Receive == \E m \in net : \/ m.type = "data" /\ ReceiveData(m)
                          \/ m.type = "ack" /\ ReceiveAck(m)

Epochs == \/ RestartSender \/ RestartReceiver
          \/ SenderSetRemote \/ ReceiverSetRemote

Next == Poll \/ Receive \/ Epochs

Spec == Init /\ [][Next]_vars

----------------------------------------------------------------------------
(* Properties.                                                             *)

\* No datagram is handed up twice, whatever the network duplicates and
\* delays, however often it is repaired on other lanes and across restarts of
\* either end (receive: both receipt windows, both epochs).
AtMostOnce == \A d \in Datagrams : delivered[d] <= 1

\* The sender gives up a datagram as acknowledged only if a frame that carried
\* it reached the receiver it was sent to: neither a bitmap nor an equal byte
\* total ever vouches for something lost (ack, confirmArrived).
AckedArrived == \A d \in tx.acked : <<tx.epoch, tx.remote, d>> \in arrived

\* The bytes a lane counts as in flight are exactly those of the attempts not
\* released: the timeout, the horizon, the lane bitmap, the datagram bitmap
\* and the byte total may each release an attempt, and only one does.
InflightExact ==
  \A l \in Lanes : LET p == tx.lanes[l]
                   IN  p.inflight = Bytes(p.attempts, Unreleased(p.attempts))

\* The check of "impossible" ACKs in receive never turns down a genuine one, in
\* whatever order the ACKs of a lane arrive.
GenuineAcksPossible ==
  \A a \in net : (a.type = "ack" /\ AckAddressed(a)
                    /\ a.seq \notin tx.lanes[a.lane].ackReceipts.marks)
                  => Possible(tx.lanes[a.lane], a)

\* Every receipt gets its report: a datagram handed up in the present epochs, and
\* still within the window, is either due for the next ACK or in the bitmap of
\* one that was sent (unreported, Anchor, forgetThrough), and no ACK that arrives
\* first, last or out of order makes the sender refuse a genuine one.
ReceiptsReported ==
  /\ \A d \in rx.received.marks :
       \/ d \in rx.unreported.marks
       \/ \E a \in net : /\ a.type = "ack" /\ a.from = rx.epoch /\ a.to = rx.remote
                        /\ d \in a.received
  /\ GenuineAcksPossible

\* The bytes the sender takes to have been sent up to an attempt are bytes sent
\* to the present remote epoch, like the receiver's total they are compared
\* with (confirmArrived, SetRemote).
ThroughOfThisEpoch ==
  \A l \in Lanes : \A n \in DOMAIN tx.lanes[l].attempts :
    tx.lanes[l].attempts[n].through <= tx.lanes[l].epochSent
============================================================================
