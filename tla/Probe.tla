------------------------------- MODULE Probe -------------------------------
(***************************************************************************)
(* The event queue of probe/probe.js in one page: emit, trim and flush.    *)
(* JavaScript runs each of them to completion, so each is one step.        *)
(*                                                                         *)
(* Every event takes one unit of a beacon's byte budget.  ts stands for    *)
(* performance.now(): the position of the event in the page's history.     *)
(***************************************************************************)
EXTENDS Naturals, Sequences, FiniteSets, Functions

CONSTANTS QueueCap,    \* QUEUE_CAP
          BeaconCap,   \* BEACON_CAP, in events
          MaxTicks     \* bound: emits and flushes in a behaviour

VARIABLES
    queue,     \* the events waiting
    lost,      \* events dropped since the last probe-drop was written
    clock,     \* emits and flushes so far
    shed,      \* the events that were dropped (history)
    sent,      \* the batches sendBeacon accepted (history)
    wire       \* those of them still under way

ProbeInit ==
    /\ queue = <<>>
    /\ lost = 0
    /\ clock = 0
    /\ shed = {}
    /\ sent = <<>>
    /\ wire = {}

Event == [kind : {"seen", "probe-drop"}, ts : 0..MaxTicks, dropped : Nat]

Pack(kind, dropped) == [kind |-> kind, ts |-> clock, dropped |-> dropped]

(* What trim leaves of a queue, and what it takes off the front.           *)
Kept(q) == SubSeq(q, Len(q) - QueueCap + 1, Len(q))
Excess(q) == IF Len(q) > QueueCap THEN SubSeq(q, 1, Len(q) - QueueCap) ELSE <<>>

Trimmed(q) == IF Len(q) > QueueCap THEN Kept(q) ELSE q

Events(q) == {e \in Range(q) : e.kind # "probe-drop"}

(* Mutated: the events trimmed off are not counted.                        *)
DroppedSilently(q, counted, before) ==
    /\ lost' = counted
    /\ shed' = before \cup Events(Excess(q))

(* `lost` and the dropped events once trim() has cut q.                    *)
Dropped(q, counted, before) ==
    /\ lost' = counted + Len(Excess(q))
    /\ shed' = before \cup Events(Excess(q))

-----------------------------------------------------------------------------
(* flush()                                                                 *)

(* The queue, led by a probe-drop when something was lost.                 *)
Pending(q, counted) ==
    IF counted = 0 THEN q ELSE <<Pack("probe-drop", counted)>> \o q

(* The members of s at the places of I, in their order.                    *)
Only(s, I) ==
    [m \in 1..Cardinality(I) |->
        s[CHOOSE i \in I : Cardinality({j \in I : j <= i}) = m]]

(* ship() is called when a part is full: the number of the part that the   *)
(* event at place i is shipped in.                                         *)
Part(i) == (i - 1) \div BeaconCap + 1

Parts(q) == {Part(i) : i \in DOMAIN q}

Chunks(q) == [k \in Parts(q) |-> Only(q, {i \in DOMAIN q : Part(i) = k})]

(* Mutated: one failure puts the whole batch back.                         *)
PutBackAll(q, ok) == IF ok = Parts(q) THEN <<>> ELSE q

(* `failed`: the events of the parts sendBeacon did not accept.            *)
PutBack(q, ok) == Only(q, {i \in DOMAIN q : Part(i) \notin ok})

(* flush() of queue q with `counted` lost: sendBeacon accepts some parts   *)
(* and refuses others, which are put back and trimmed.                     *)
FlushQueue(q, counted, before) ==
    LET pend == Pending(q, counted)
    IN  \E ok \in SUBSET Parts(pend) :
           /\ sent' = sent \o Only(Chunks(pend), ok)
           /\ wire' = wire \cup (Len(sent) + 1)..Len(sent')
           /\ queue' = Trimmed(PutBack(pend, ok))
           /\ Dropped(PutBack(pend, ok), 0, before)

-----------------------------------------------------------------------------
(* What runs in the page                                                   *)

Tick ==
    /\ clock < MaxTicks
    /\ clock' = clock + 1

(* The timer, or the page being hidden.                                    *)
Flush ==
    /\ Tick
    /\ FlushQueue(queue, lost, shed)

(* emit() of an ordinary kind.                                             *)
Emit ==
    LET q == Append(queue, Pack("seen", 0))
    IN  /\ Tick
        /\ queue' = Trimmed(q)
        /\ Dropped(q, lost, shed)
        /\ UNCHANGED <<sent, wire>>

(* emit() of an urgent kind: trim, then flush at once.                     *)
EmitUrgent ==
    LET q == Append(queue, Pack("seen", 0))
    IN  /\ Tick
        /\ FlushQueue(Trimmed(q), lost + Len(Excess(q)), shed \cup Events(Excess(q)))

ProbeNext == Emit \/ EmitUrgent \/ Flush

-----------------------------------------------------------------------------
(* Properties                                                              *)

(* Every probe-drop that is waiting or was accepted.                       *)
Reports == {e \in Range(queue) \cup UNION {Range(sent[k]) : k \in DOMAIN sent} :
               e.kind = "probe-drop"}

(* Losing events is never silent: while any was dropped, a report of it is *)
(* waiting, was sent, or will lead the next flush (the queue cap of        *)
(* probe/README.md), although the trim may drop a report itself.           *)
DropNeverSilent == shed # {} => lost > 0 \/ \E e \in Reports : e.dropped > 0
=============================================================================
