------------------------ MODULE BondTransportProofs ------------------------
(***************************************************************************)
(* Proof that the bonded transport hands up no datagram twice, for any     *)
(* lanes, any windows, any number of attempts and restarts, and a network  *)
(* that loses, duplicates and reorders.                                    *)
(***************************************************************************)
EXTENDS BondTransport, TLAPS

----------------------------------------------------------------------------
(* The receipt window.                                                     *)

Windows == [high : Nat, marks : SUBSET Nat]

\* What mark makes of a window: it stays one, the receipt is no longer new, and
\* what was not new before is not new after, remembered or too old.
LEMMA MarkKeeps ==
  ASSUME NEW w \in Windows, NEW x \in Nat
  PROVE  /\ Mark(w, x) \in Windows
         /\ ~IsNew(Mark(w, x), x)
         /\ \A s \in Nat : ~IsNew(w, s) => ~IsNew(Mark(w, x), s)
<1> DEFINE high == IF x > w.high THEN x ELSE w.high
           marks == {m \in w.marks \cup {x} : m + WindowBits > high}
<1>1. WindowBits \in Nat
  BY BondAssumption
<1>2. w.high \in Nat /\ w.marks \in SUBSET Nat
  BY DEF Windows
<1>3. high \in Nat /\ high >= w.high /\ marks \in SUBSET Nat
  BY <1>2
<1>4. Mark(w, x) = [high |-> high, marks |-> marks]
  BY DEF Mark
<1>5. Mark(w, x).high = high /\ Mark(w, x).marks = marks
  BY <1>4
<1>6. Mark(w, x) \in Windows
  BY <1>3, <1>4 DEF Windows
<1>7. ~IsNew(Mark(w, x), x)
  BY <1>5 DEF IsNew
<1>8. ASSUME NEW s \in Nat, ~IsNew(w, s) PROVE ~IsNew(Mark(w, x), s)
  <2>1. CASE s \in w.marks
    BY <1>5, <2>1 DEF IsNew
  <2>2. CASE ~(s + WindowBits > w.high)
    <3>1. ~(s + WindowBits > high)
      BY <1>1, <1>2, <1>3, <2>2
    <3> QED
      BY <1>5, <3>1 DEF IsNew
  <2> QED
    BY <1>8, <2>1, <2>2 DEF IsNew
<1> QED
  BY <1>6, <1>7, <1>8

----------------------------------------------------------------------------
(* The invariant.                                                          *)

TxFields == {"epoch", "remote", "seq", "pending", "acked", "packets", "lanes"}
RxFields == {"epoch", "remote", "received", "unreported", "lanes"}

\* Datagrams are numbered, at the sender and on the wire.
Numbered ==
  /\ DOMAIN tx = TxFields
  /\ tx.epoch \in Nat /\ tx.seq \in Nat /\ tx.pending \in SUBSET Nat
  /\ \A m \in net : m.type = "data" => m.packet \in Nat

\* The receiver's epochs only move on.
Ordered ==
  /\ DOMAIN rx = RxFields
  /\ rx.epoch \in Nat /\ rx.remote \in Nat /\ rx.remote <= tx.epoch
  /\ rx.received \in Windows

\* A datagram that was handed up belongs to epochs the receiver has left for good,
\* or to the present ones, and then its window knows it.
Known(d) == \/ d[2] < rx.epoch
            \/ d[2] = rx.epoch /\ d[1] < rx.remote
            \/ d[2] = rx.epoch /\ d[1] = rx.remote /\ ~IsNew(rx.received, d[3])

Once ==
  /\ delivered \in [Datagrams -> Nat]
  /\ \A d \in Datagrams : delivered[d] <= 1 /\ (delivered[d] = 1 => Known(d))

\* Epochs and sequences are numbers.
LEMMA DatagramType ==
  ASSUME NEW d \in Datagrams
  PROVE  d[1] \in Nat /\ d[2] \in Nat /\ d[3] \in Nat
BY BondAssumption DEF Datagrams, Epoch

\* transmit numbers what it sends.
LEMMA TransmitNumbered ==
  ASSUME Numbered, NEW d \in Nat, NEW l, NEW tries, Transmit(d, l, tries)
  PROVE  Numbered' /\ tx'.epoch = tx.epoch
<1>1. /\ DOMAIN tx' = TxFields /\ tx'.epoch = tx.epoch
      /\ tx'.seq \in Nat /\ tx'.pending \in SUBSET Nat
  BY DEF Transmit, Numbered, TxFields
<1>2. \E n, b : net' = net \cup {[type |-> "data", from |-> tx.epoch, to |-> tx.remote, lane |-> l,
                                  seq |-> n, packet |-> d, bytes |-> b]}
  BY DEF Transmit, DataFrame
<1>3. \A m \in net' : m.type = "data" => m.packet \in Nat
  BY <1>2 DEF Numbered
<1> QED
  BY <1>1, <1>3 DEF Numbered

\* Every step keeps the numbering, and the sender's epoch does not go back.
LEMMA NumberedStep == Numbered /\ [Next]_vars => Numbered' /\ tx'.epoch \in Nat /\ tx'.epoch >= tx.epoch
<1> SUFFICES ASSUME Numbered, [Next]_vars PROVE Numbered' /\ tx'.epoch >= tx.epoch
  BY DEF Numbered
<1>0. tx.epoch \in Nat /\ tx.epoch >= tx.epoch
  BY DEF Numbered
<1>1. CASE UNCHANGED <<tx, net>>
  BY <1>0, <1>1 DEF Numbered
<1>2. ASSUME NEW l \in Lanes, Send(l) PROVE Numbered' /\ tx'.epoch >= tx.epoch
  <2>1. tx.seq + 1 \in Nat /\ Transmit(tx.seq + 1, l, 1)
    BY <1>2 DEF Send, Numbered
  <2> QED
    BY <1>0, <2>1, TransmitNumbered
<1>3. ASSUME NEW l \in Lanes, NEW d \in tx.pending, Repair(d, l)
      PROVE  Numbered' /\ tx'.epoch >= tx.epoch
  <2>1. d \in Nat
    BY DEF Numbered
  <2>2. PICK tries : Transmit(d, l, tries)
    BY <1>3 DEF Repair
  <2> QED
    BY <1>0, <2>1, <2>2, TransmitNumbered
<1>4. ASSUME NEW l \in Lanes, SendKeepalive(l) PROVE Numbered' /\ tx'.epoch >= tx.epoch
  <2>1. \E p : tx' = [tx EXCEPT !.lanes[l] = p]
    BY <1>4 DEF SendKeepalive
  <2>2. \E n, b : net' = net \cup {[type |-> "data", from |-> tx.epoch, to |-> tx.remote, lane |-> l,
                                    seq |-> n, packet |-> 0, bytes |-> b]}
    BY <1>4 DEF SendKeepalive, DataFrame, Keepalive
  <2>3. \A m \in net' : m.type = "data" => m.packet \in Nat
    BY <2>2 DEF Numbered
  <2> QED
    BY <1>0, <2>1, <2>3 DEF Numbered, TxFields
<1>5. ASSUME NEW l \in Lanes, SendAck(l) PROVE Numbered' /\ tx'.epoch >= tx.epoch
  <2>1. UNCHANGED tx
    BY <1>5 DEF SendAck
  <2>2. \E s, h, k, b, a, r :
          net' = net \cup {[type |-> "ack", from |-> rx.epoch, to |-> rx.remote, lane |-> l, seq |-> s,
                           high |-> h, mask |-> k, bytes |-> b, receivedHigh |-> a, received |-> r]}
    BY <1>5, Zenon DEF SendAck
  <2>3. \A m \in net' : m.type = "data" => m \in net
    BY <2>2
  <2> QED
    BY <1>0, <2>1, <2>3 DEF Numbered
<1>6. ASSUME NEW l \in Lanes, NEW n, ReleaseOverdue(l, n) \/ ForgetAttempt(l, n)
      PROVE  Numbered' /\ tx'.epoch >= tx.epoch
  <2>1. UNCHANGED net /\ \E p : tx' = [tx EXCEPT !.lanes[l] = p]
    BY <1>6 DEF ReleaseOverdue, ForgetAttempt
  <2> QED
    BY <1>0, <2>1 DEF Numbered, TxFields
<1>7. ASSUME NEW d, Expire(d) PROVE Numbered' /\ tx'.epoch >= tx.epoch
  BY <1>0, <1>7 DEF Expire, Numbered, TxFields
<1>8. ASSUME NEW a, ReceiveAck(a) PROVE Numbered' /\ tx'.epoch >= tx.epoch
  <2>1. UNCHANGED net /\ \E L, A : tx' = [tx EXCEPT !.lanes = L, !.acked = A, !.pending = @ \ A]
    BY <1>8 DEF ReceiveAck, Ack
  <2> QED
    BY <1>0, <2>1 DEF Numbered, TxFields
<1>9. CASE RestartSender
  BY <1>0, <1>9 DEF RestartSender, FreshSender, Numbered, TxFields
<1>10. CASE SenderSetRemote
  <2>1. UNCHANGED net /\ \E r, L : tx' = [FreshSender(tx.epoch) EXCEPT !.remote = r, !.lanes = L]
    BY <1>10 DEF SenderSetRemote
  <2> QED
    BY <1>0, <2>1 DEF FreshSender, Numbered, TxFields
<1>11. ASSUME NEW m, ReceiveData(m) PROVE UNCHANGED <<tx, net>>
  BY <1>11 DEF ReceiveData
<1>12. CASE RestartReceiver \/ ReceiverSetRemote \/ UNCHANGED vars
  BY <1>1, <1>12 DEF RestartReceiver, ReceiverSetRemote, vars
<1> QED
  BY <1>1, <1>2, <1>3, <1>4, <1>5, <1>6, <1>7, <1>8, <1>9, <1>10, <1>11, <1>12
  DEF Next, Poll, Receive, Epochs

\* While the epochs stay and the window only learns, what was known stays known.
LEMMA KnownStays ==
  ASSUME Ordered, Once, rx'.epoch = rx.epoch, rx'.remote = rx.remote,
         \A s \in Nat : ~IsNew(rx.received, s) => ~IsNew(rx'.received, s),
         UNCHANGED delivered
  PROVE  Once'
<1>1. ASSUME NEW d \in Datagrams, Known(d) PROVE Known(d)'
  BY <1>1, DatagramType DEF Known
<1> QED
  BY <1>1 DEF Once

\* DATA is handed up once: the window then knows it.
LEMMA ReceiveDataOnce ==
  ASSUME Numbered, Ordered, Once, NEW m \in net, m.type = "data", ReceiveData(m)
  PROVE  Ordered' /\ Once'
<1> DEFINE up == /\ IsNew(rx.lanes[m.lane].receipts, m.seq)
                 /\ m.packet # Keepalive /\ IsNew(rx.received, m.packet)
           x == <<m.from, m.to, m.packet>>
<1>1. PICK L, U : rx' = [rx EXCEPT !.lanes = L,
                                   !.received = IF up THEN Mark(@, m.packet) ELSE @,
                                   !.unreported = U]
  <2>1. \E L : [rx EXCEPT !.lanes[m.lane] = L] = [rx EXCEPT !.lanes = [rx.lanes EXCEPT ![m.lane] = L]]
    OBVIOUS
  <2> QED
    BY DEF ReceiveData
<1>2. /\ m.from = rx.remote /\ m.to = rx.epoch /\ UNCHANGED <<tx, net>>
      /\ delivered' = IF up THEN [delivered EXCEPT ![x] = @ + 1] ELSE delivered
  BY DEF ReceiveData, DataAddressed
<1>3. m.packet \in Nat
  BY DEF Numbered
<1> HIDE DEF up
<1>4. /\ DOMAIN rx' = RxFields /\ rx'.epoch = rx.epoch /\ rx'.remote = rx.remote
      /\ rx'.received = IF up THEN Mark(rx.received, m.packet) ELSE rx.received
  BY <1>1 DEF Ordered, RxFields
<1>5. /\ rx'.received \in Windows
      /\ \A s \in Nat : ~IsNew(rx.received, s) => ~IsNew(rx'.received, s)
  BY <1>3, <1>4, MarkKeeps DEF Ordered
<1>6. Ordered'
  BY <1>2, <1>4, <1>5 DEF Ordered
<1>7. CASE ~up
  <2>1. UNCHANGED delivered
    BY <1>2, <1>7
  <2>2. Once'
    BY <1>4, <1>5, <2>1, KnownStays
  <2> QED
    BY <1>6, <2>2
<1>8. CASE up
  <2>1. IsNew(rx.received, m.packet)
    BY <1>8 DEF up
  <2>2. ~IsNew(rx'.received, m.packet)
    BY <1>3, <1>4, <1>8, MarkKeeps DEF Ordered
  <2>3. ASSUME NEW d \in Datagrams, Known(d) PROVE Known(d)'
    BY <1>4, <1>5, <2>3, DatagramType DEF Known
  <2>4. ASSUME NEW d \in Datagrams, d # x
        PROVE  delivered'[d] = delivered[d]
    BY <1>2, <1>8, <2>4 DEF Once
  <2>5. ASSUME x \in Datagrams
        PROVE  delivered'[x] = 1 /\ Known(x)'
    <3>1. ~Known(x)
      BY <1>2, <2>1 DEF Known, Ordered
    <3>2. delivered[x] = 0
      BY <2>5, <3>1 DEF Once
    <3>3. delivered'[x] = 1
      BY <1>2, <1>8, <2>5, <3>2 DEF Once
    <3>4. Known(x)'
      BY <1>2, <1>4, <2>2 DEF Known
    <3> QED
      BY <3>3, <3>4
  <2> HIDE DEF x
  <2>6. delivered' \in [Datagrams -> Nat]
    <3>1. delivered' = [delivered EXCEPT ![x] = @ + 1] /\ delivered \in [Datagrams -> Nat]
      BY <1>2, <1>8 DEF Once
    <3>2. CASE x \in Datagrams
      BY <3>1, <3>2
    <3>3. CASE x \notin Datagrams
      BY <3>1, <3>3
    <3> QED
      BY <3>2, <3>3
  <2>7. ASSUME NEW d \in Datagrams PROVE delivered'[d] <= 1 /\ (delivered'[d] = 1 => Known(d)')
    BY <2>3, <2>4, <2>5 DEF Once
  <2> QED
    BY <1>6, <2>6, <2>7 DEF Once
<1> QED
  BY <1>6, <1>7, <1>8

\* Every step of the two ends keeps it.
LEMMA OnceStep == Numbered /\ Ordered /\ Once /\ [Next]_vars => Ordered' /\ Once'
<1> SUFFICES ASSUME Numbered, Ordered, Once, [Next]_vars PROVE Ordered' /\ Once'
  OBVIOUS
<1>0. tx.epoch \in Nat /\ tx'.epoch \in Nat /\ tx'.epoch >= tx.epoch
  BY NumberedStep DEF Numbered
<1>1. CASE UNCHANGED <<rx, delivered>>
  <2>1. Ordered'
    BY <1>0, <1>1 DEF Ordered
  <2>2. Once'
    BY <1>1 DEF Once, Known
  <2> QED
    BY <2>1, <2>2
<1>2. ASSUME NEW m \in net, m.type = "data", ReceiveData(m) PROVE Ordered' /\ Once'
  BY <1>2, ReceiveDataOnce
<1>3. ASSUME NEW l \in Lanes, SendAck(l) PROVE Ordered' /\ Once'
  <2>1. UNCHANGED delivered /\ \E L, U : rx' = [rx EXCEPT !.lanes = L, !.unreported = U]
    BY <1>3 DEF SendAck
  <2>2. /\ DOMAIN rx' = RxFields /\ rx'.epoch = rx.epoch /\ rx'.remote = rx.remote
        /\ rx'.received = rx.received
    BY <2>1 DEF Ordered, RxFields
  <2>3. Ordered'
    BY <1>0, <2>2 DEF Ordered
  <2> QED
    BY <2>1, <2>2, <2>3, KnownStays
<1>4. CASE RestartReceiver
  <2>1. /\ DOMAIN rx' = RxFields /\ rx'.epoch = rx.epoch + 1 /\ rx'.remote = 0
        /\ rx'.received = NoReceipts /\ UNCHANGED delivered
    BY <1>4 DEF RestartReceiver, FreshReceiver, RxFields
  <2>2. Ordered'
    BY <1>0, <2>1 DEF Ordered, Windows, NoReceipts
  <2>3. ASSUME NEW d \in Datagrams, Known(d) PROVE Known(d)'
    BY <2>1, <2>3, DatagramType DEF Known, Ordered
  <2> QED
    BY <2>1, <2>2, <2>3 DEF Once
<1>5. CASE ReceiverSetRemote
  <2>1. /\ DOMAIN rx' = RxFields /\ rx'.epoch = rx.epoch /\ rx'.remote = tx.epoch
        /\ rx'.received = NoReceipts /\ UNCHANGED <<delivered, tx>> /\ rx.remote # tx.epoch
    BY <1>5 DEF ReceiverSetRemote, FreshReceiver, RxFields
  <2>2. Ordered'
    BY <1>0, <2>1 DEF Ordered, Windows, NoReceipts
  <2>3. ASSUME NEW d \in Datagrams, Known(d) PROVE Known(d)'
    BY <1>0, <2>1, <2>3, DatagramType DEF Known, Ordered
  <2> QED
    BY <2>1, <2>2, <2>3 DEF Once
<1>6. ASSUME NEW l, NEW d, NEW tries, Transmit(d, l, tries) PROVE UNCHANGED <<rx, delivered>>
  BY <1>6 DEF Transmit
<1>7. ASSUME NEW l \in Lanes,
             Send(l) \/ SendKeepalive(l) \/ (\E d \in tx.pending : Repair(d, l))
               \/ \E n : ReleaseOverdue(l, n) \/ ForgetAttempt(l, n)
      PROVE  UNCHANGED <<rx, delivered>>
  BY <1>6, <1>7 DEF Send, SendKeepalive, Repair, ReleaseOverdue, ForgetAttempt
<1>8. ASSUME NEW d, Expire(d) \/ ReceiveAck(d) PROVE UNCHANGED <<rx, delivered>>
  BY <1>8 DEF Expire, ReceiveAck
<1>9. CASE RestartSender \/ SenderSetRemote \/ UNCHANGED vars
  BY <1>1, <1>9 DEF RestartSender, SenderSetRemote, vars
<1> QED
  BY <1>1, <1>2, <1>3, <1>4, <1>5, <1>7, <1>8, <1>9 DEF Next, Poll, Receive, Epochs

\* No datagram is handed up twice, whatever the network duplicates and delays,
\* however often it is repaired on other lanes and across restarts of either end.
THEOREM DeliveredOnce == Spec => []AtMostOnce
<1>1. Init => Numbered
  BY DEF Init, Numbered, FreshSender, TxFields
<1>2. Init => Ordered
  BY DEF Init, Ordered, FreshSender, FreshReceiver, RxFields, Windows, NoReceipts
<1>3. Init => Once
  BY DEF Init, Once
<1>4. Once => AtMostOnce
  BY DEF Once, AtMostOnce
<1> QED
  BY <1>1, <1>2, <1>3, <1>4, NumberedStep, OnceStep, PTL DEF Spec
============================================================================
