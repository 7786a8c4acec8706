---------------------------- MODULE Resequencer ----------------------------
(***************************************************************************)
(* The receive resequencer of internal/reseq/reseq.go: a ring of Window    *)
(* cells that puts bulk datagrams back into the order of their outer       *)
(* sequence numbers.                                                       *)
(*                                                                         *)
(* rq is the Resequencer struct.  Every method runs under its mutex, so    *)
(* one action is one method call.  Observe, SetHoldBound and RebaselineAt  *)
(* are called by the owner of the transport, which serializes them and     *)
(* reads the clock inside its own lock; the drainer reads the clock BEFORE *)
(* it takes the mutex (PopClock, then Pop), so its time may be stale.      *)
(*                                                                         *)
(* A datagram is its sequence number and the number of re-pins (resyncs +  *)
(* rebaselines) before it was observed: a re-pin starts another stream,    *)
(* whose sequence numbers may repeat.  rel and skip are the counters releasedN *)
(* and skipped since the last re-pin, and base is where that one pinned    *)
(* the release point.                                                      *)
(***************************************************************************)
EXTENDS Integers, Sequences, FiniteSets

CONSTANTS Window,       \* ring cells
          Timeout,      \* the construction timeout
          HoldFloor,    \* holdBoundFloor
          Factor,       \* resyncFactor (4 in the code)
          Corroborate,  \* resyncCorroborate (3 in the code)
          Seqs,         \* sequence numbers that can arrive
          FirstSeqs,    \* arguments of RebaselineAt (the bind passes 1)
          HoldBounds,   \* arguments of SetHoldBound
          MaxTime,      \* bound: the clock
          MaxPins,      \* bound: re-pins
          MaxReady      \* bound: released batches the drainer has not taken

ASSUME ReseqAssumption ==
    /\ Window \in Nat \ {0}
    /\ Timeout \in Nat \ {0}
    /\ HoldFloor \in Nat \ {0}
    /\ Factor \in Nat \ {0}
    /\ Corroborate \in Nat \ {0, 1}
    /\ Seqs \subseteq Nat \ {0}
    /\ FirstSeqs \subseteq Nat \ {0}
    /\ HoldBounds \subseteq Nat
    /\ MaxTime \in Nat
    /\ MaxPins \in Nat
    /\ MaxReady \in Nat

VARIABLES rq,      \* the struct
          now,     \* the clock
          popNow,  \* the clock value the drainer carries to Pop, or NoTime
          last     \* the datagram the drainer took last

vars == <<rq, now, popNow, last>>

NoTime == -1
Cells == 0 .. (Window - 1)
Empty == [occupied |-> FALSE, seq |-> 0, at |-> 0, pin |-> 0]
Item(s, p) == [seq |-> s, pin |-> p]

Present(ring, s) == /\ ring[s % Window].occupied
                    /\ ring[s % Window].seq = s

Buffered(ring) == {ring[i].seq : i \in {j \in Cells : ring[j].occupied}}

\* effectiveHoldLocked: the installed bound, or the timeout when there is none.
EffectiveHold(st) == IF st.holdBound = 0 THEN Timeout ELSE st.holdBound

EndHold(st) == [st EXCEPT !.waiting = FALSE]

(***************************************************************************)
(* Releasing.  Advance moves the release point to target: what it passes   *)
(* in the ring goes to the ready FIFO in ascending order, the rest is      *)
(* skipped.  ready is a sequence of batches; the items of a batch were     *)
(* released by one such walk and leave in ascending order.                 *)
(***************************************************************************)
Passed(st, target) == {s \in st.next .. (target - 1) :
                           s < st.next + Window /\ Present(st.ring, s)}

Release(st, out) ==
    [st EXCEPT !.ready = IF out = {} THEN @
                         ELSE Append(@, {Item(s, st.ring[s % Window].pin) : s \in out}),
               !.ring = [i \in Cells |-> IF @[i].occupied /\ @[i].seq \in out
                                         THEN Empty ELSE @[i]],
               !.buf = @ - Cardinality(out),
               !.rel = @ + Cardinality(out)]

Advance(st, target) ==
    LET out == Passed(st, target)
    IN  [Release(st, out) EXCEPT !.skip = @ + (target - st.next - Cardinality(out)),
                                 !.next = target]

\* The end of the contiguous run that starts at s.
RunEnd(ring, s) == CHOOSE e \in s .. (s + Window) :
                       /\ ~Present(ring, e)
                       /\ \A k \in s .. (e - 1) : Present(ring, k)

Drain(st) == Advance(st, RunEnd(st.ring, st.next))

(***************************************************************************)
(* The hold.  held lists what was buffered behind a gap in order of        *)
(* arrival (r.held from heldPos on); the first entry still buffered at or  *)
(* above n dates the hold.                                                 *)
(***************************************************************************)
LiveAt(st, n, k) == Present(st.ring, st.held[k]) /\ st.held[k] >= n

LiveFrom(st, n) == {k \in 1 .. Len(st.held) : LiveAt(st, n, k)}

OldestHeld(st, n) == CHOOSE k \in LiveFrom(st, n) :
                         \A j \in LiveFrom(st, n) : k <= j

ObservedAt(ring, s) == ring[s % Window].at

Arm(st) ==
    IF Present(st.ring, st.next) \/ st.buf = 0
    THEN EndHold(st)
    ELSE IF st.waiting
    THEN st
    ELSE IF LiveFrom(st, st.next) = {}
    THEN [st EXCEPT !.panicked = TRUE]
    ELSE LET k == OldestHeld(st, st.next)
         IN  [st EXCEPT !.waiting = TRUE,
                        !.deadline = ObservedAt(st.ring, st.held[k])
                                         + EffectiveHold(st),
                        !.held = SubSeq(@, k, Len(@))]

(***************************************************************************)
(* expire loops: skip to the lowest buffered sequence, release its run,    *)
(* arm for the next gap, until the new deadline lies ahead or the buffer   *)
(* is empty.  Each turn of the loop stops at the end of a run, so the loop *)
(* as a whole stops at the first run end from which it need not go on.     *)
(***************************************************************************)
RunEnds(st) == {e \in (st.next + 1) .. (st.next + Window) :
                    Present(st.ring, e - 1) /\ ~Present(st.ring, e)}

\* MUTANT: expiry stops after the first run it frees.
StopsAfterOneRun(st, e, t) == TRUE

StopsAt(st, e, t) ==
    \/ \A s \in Buffered(st.ring) : s < e
    \/ /\ LiveFrom(st, e) # {}
       /\ t < ObservedAt(st.ring, st.held[OldestHeld(st, e)]) + EffectiveHold(st)

Stops(st, t) == {e \in RunEnds(st) : StopsAt(st, e, t)}

ExpireTo(st, t) == CHOOSE e \in Stops(st, t) : \A d \in Stops(st, t) : e <= d

\* MUTANT: no hold is armed for the gap expiry stops at.
ExpireWithoutArm(st, t) ==
    IF ~st.waiting \/ t < st.deadline
    THEN st
    ELSE IF Buffered(st.ring) = {}
    THEN EndHold(st)
    ELSE EndHold(Advance(st, ExpireTo(st, t)))

Expire(st, t) ==
    IF ~st.waiting \/ t < st.deadline
    THEN st
    ELSE IF Buffered(st.ring) = {}
    THEN EndHold(st)
    ELSE Arm(EndHold(Advance(st, ExpireTo(st, t))))

(***************************************************************************)
(* Observe.  The first sequence pins the release point, an elapsed hold is *)
(* given up, and then the frame is classified against the window.          *)
(***************************************************************************)
Pinned(st, s) == IF st.started THEN st
                 ELSE [st EXCEPT !.started = TRUE, !.next = s, !.base = s]

Arrived(s) == Expire(Pinned(rq, s), now)

Late(st, s) == s < st.next /\ st.next - s <= Window

Suspect(st, s) == \/ s < st.next /\ st.next - s > Window
                  \/ s >= st.next /\ s - st.next >= Factor * Window

InBand(st, s) == s >= st.next /\ s - st.next < Factor * Window

\* spanExceeds: s does not lie within one window of the whole run.
SpanExceeds(run, s) == \E a, b \in run \cup {s} : a - b >= Window

Corroborates(st, s) ==
    /\ st.run # {}
    /\ ~SpanExceeds(st.run, s)
    /\ s \notin st.run
    /\ Cardinality(st.run) + 1 >= Corroborate

\* MUTANT: a re-pin keeps what was buffered.
RepinKeepsRing(st, n) ==
    [st EXCEPT !.held = <<>>, !.started = TRUE,
               !.next = n, !.base = n, !.rel = 0, !.skip = 0,
               !.waiting = FALSE, !.run = {}, !.pins = @ + 1]

Repin(st, n) ==
    [st EXCEPT !.ring = [i \in Cells |-> Empty],
               !.buf = 0, !.held = <<>>, !.started = TRUE,
               !.next = n, !.base = n, !.rel = 0, !.skip = 0,
               !.waiting = FALSE, !.run = {}, !.pins = @ + 1]

Store(st, s, t) ==
    [st EXCEPT !.ring[s % Window] = [occupied |-> TRUE, seq |-> s,
                                      at |-> t, pin |-> st.pins],
               !.buf = @ + 1,
               !.held = IF s = st.next THEN @ ELSE Append(@, s),
               !.waiting = @ /\ s # st.next]

Place(st, s, t) == IF Present(st.ring, s) THEN st
                   ELSE Arm(Drain(Store(st, s, t)))

\* MUTANT: the window advances one too little.
FitShort(st, s) == IF s - st.next < Window THEN st
                   ELSE Advance(EndHold(st), s - Window)

\* admit's window advance: a frame beyond the window moves the window up to it.
Fit(st, s) == IF s - st.next < Window THEN st
              ELSE Advance(EndHold(st), s - Window + 1)

ObserveLate(s) ==
    LET st == Arrived(s) IN
    /\ Late(st, s)
    /\ rq' = [st EXCEPT !.run = {}]

ObserveSuspect(s) ==
    LET st == Arrived(s) IN
    /\ Suspect(st, s)
    /\ ~Corroborates(st, s)
    /\ rq' = [st EXCEPT !.run = IF @ = {} \/ SpanExceeds(@, s)
                                THEN {s} ELSE @ \cup {s}]

ObserveResync(s) ==
    LET st == Arrived(s) IN
    /\ Suspect(st, s)
    /\ Corroborates(st, s)
    /\ st.pins < MaxPins
    /\ rq' = Place(Repin(st, s), s, now)

ObserveInBand(s) ==
    LET st == Arrived(s) IN
    /\ InBand(st, s)
    /\ rq' = Place(Fit([st EXCEPT !.run = {}], s), s, now)

Observe(s) ==
    /\ Len(rq.ready) < MaxReady
    /\ \/ ObserveLate(s)
       \/ ObserveSuspect(s)
       \/ ObserveResync(s)
       \/ ObserveInBand(s)
    /\ UNCHANGED <<now, popNow, last>>

SetHoldBound(d) ==
    LET floored == IF d < HoldFloor THEN HoldFloor ELSE d IN
    /\ rq' = [rq EXCEPT !.holdBound = IF floored > Timeout THEN Timeout
                                      ELSE floored]
    /\ UNCHANGED <<now, popNow, last>>

RebaselineAt(n) ==
    /\ rq.pins < MaxPins
    /\ rq' = Repin(rq, n)
    /\ UNCHANGED <<now, popNow, last>>

Close ==
    /\ ~rq.closed
    /\ rq' = [EndHold(rq) EXCEPT !.closed = TRUE]
    /\ UNCHANGED <<now, popNow, last>>

(***************************************************************************)
(* The drainer.                                                            *)
(***************************************************************************)
\* The next item of a batch.
First(batch) == CHOOSE x \in batch : \A y \in batch : x.seq <= y.seq

PopClock ==
    /\ popNow = NoTime
    /\ popNow' = now
    /\ UNCHANGED <<rq, now, last>>

Pop ==
    LET st == Expire(rq, popNow) IN
    /\ popNow # NoTime
    /\ popNow' = NoTime
    /\ IF st.ready = <<>>
       THEN /\ rq' = st
            /\ UNCHANGED last
       ELSE LET x == First(Head(st.ready)) IN
            /\ rq' = [st EXCEPT !.ready = IF Head(@) = {x} THEN Tail(@)
                                          ELSE <<Head(@) \ {x}>> \o Tail(@)]
            /\ last' = x
    /\ UNCHANGED now

Tick ==
    /\ now < MaxTime
    /\ now' = now + 1
    /\ UNCHANGED <<rq, popNow, last>>

Init ==
    /\ rq = [started |-> FALSE, next |-> 0, ring |-> [i \in Cells |-> Empty],
             buf |-> 0, held |-> <<>>, ready |-> <<>>, waiting |-> FALSE,
             deadline |-> 0, run |-> {}, holdBound |-> 0,
             closed |-> FALSE, panicked |-> FALSE, pins |-> 0,
             base |-> 0, rel |-> 0, skip |-> 0]
    /\ now = 0
    /\ popNow = NoTime
    /\ last = Item(0, 0)

Next ==
    \/ \E s \in Seqs : Observe(s)
    \/ \E d \in HoldBounds : SetHoldBound(d)
    \/ \E n \in FirstSeqs : RebaselineAt(n)
    \/ Close
    \/ PopClock
    \/ Pop
    \/ Tick

Spec == Init /\ [][Next]_vars

-----------------------------------------------------------------------------
(***************************************************************************)
(* Properties.                                                             *)
(***************************************************************************)
Cell == [occupied : BOOLEAN, seq : Nat, at : Nat, pin : Nat]

Batch == (SUBSET [seq : Nat, pin : Nat]) \ {{}}

Struct == [started : BOOLEAN, next : Nat, ring : [Cells -> Cell], buf : Int,
           held : Seq(Nat), ready : Seq(Batch),
           waiting : BOOLEAN, deadline : Nat, run : SUBSET Nat,
           holdBound : Nat, closed : BOOLEAN, panicked : BOOLEAN,
           pins : Nat, base : Nat, rel : Int, skip : Int]

\* The types of the struct's fields and of the drainer's.
TypeOK ==
    /\ rq \in Struct
    /\ now \in Nat
    /\ popNow \in Nat \cup {NoTime}
    /\ last \in [seq : Nat, pin : Nat]

\* "All occupied cells live in [next, next+window)" (advanceTo, smallestBuffered):
\* a buffered datagram is in its own cell and inside the window, so storing one
\* never overwrites another, and a stale cell is never taken for a live one.
InWindow(st) ==
    \A i \in Cells : st.ring[i].occupied =>
        /\ st.ring[i].seq % Window = i
        /\ st.next <= st.ring[i].seq
        /\ st.ring[i].seq < st.next + Window

RingInWindow == InWindow(rq)

\* Ordering and exactly-once: what the drainer has taken and will take is
\* strictly ascending by stream and sequence number, and the release point is
\* above all of it, so nothing is delivered late, twice, or after a datagram of
\* a later stream.
Before(a, b) == \/ a.pin < b.pin
                \/ a.pin = b.pin /\ a.seq < b.seq

DeliveredInOrder ==
    /\ \A j, k \in 1 .. Len(rq.ready) :
          j < k => \A x \in rq.ready[j], y \in rq.ready[k] : Before(x, y)
    /\ \A k \in 1 .. Len(rq.ready) : \A x \in rq.ready[k] :
          /\ \A y \in rq.ready[k] : x.pin = y.pin
          /\ Before(last, x)
          /\ Before(x, Item(rq.next, rq.pins))
    /\ last = Item(0, 0) \/ Before(last, Item(rq.next, rq.pins))

\* A gap at the head with something behind it always has a hold armed, and a hold
\* is armed for nothing else: the drainer sleeps on the armed deadline, so a gap
\* without one would hold its successors until the next arrival.  The counters this
\* rests on are exact whatever mix of arrivals, window advances, expiries and re-pins
\* moved the release point: buf counts the occupied cells (arm panics when it does
\* not), and every sequence since the pin was either released or skipped, once.
HeadKept ==
    /\ rq.waiting => ~Present(rq.ring, rq.next) /\ rq.buf > 0
    /\ ~rq.closed /\ ~Present(rq.ring, rq.next) /\ rq.buf > 0 => rq.waiting
    /\ rq.buf = Cardinality({i \in Cells : rq.ring[i].occupied}) /\ ~rq.panicked
    /\ rq.started => rq.base + rq.rel + rq.skip = rq.next

\* The release point moves back only when a re-pin moves it.
NextMonotone ==
    [][rq.started => rq'.next >= rq.next \/ rq'.pins > rq.pins]_vars

ShortestHold == IF HoldFloor < Timeout THEN HoldFloor ELSE Timeout

\* The drainer's Pop at time t, stale as t may be, gives up neither too late nor too
\* soon: nothing observed a whole timeout before t stays buffered behind a gap, and a
\* gap given up, one that an earlier gap hid included, had some datagram behind it
\* observed the shortest possible hold before t.
HoldsBounded ==
    [][Pop =>
         /\ ~rq.closed => \A i \in Cells :
               rq'.ring[i].occupied => popNow < rq'.ring[i].at + Timeout
         /\ \A g \in rq.next .. (rq'.next - 1) :
               Present(rq.ring, g) \/ \E i \in Cells :
                   /\ rq.ring[i].occupied
                   /\ rq.ring[i].seq > g
                   /\ popNow >= rq.ring[i].at + ShortestHold]_vars
=============================================================================
