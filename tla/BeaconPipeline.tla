--------------------------- MODULE BeaconPipeline ---------------------------
(***************************************************************************)
(* One page, the network and the ingest worker.  A batch that sendBeacon   *)
(* accepted arrives once, in any order, or never; other senders post what  *)
(* they like (Bodies).                                                     *)
(***************************************************************************)
EXTENDS Integers, Sequences, FiniteSets

CONSTANTS QueueCap, BeaconCap, MaxTicks, MaxEvents, MaxPage, MaxSpan, MaxBodies, NoOffset,
          Bodies     \* what other senders post

ASSUME QueueAssumption == QueueCap \in Nat \ {0} /\ BeaconCap \in Nat \ {0}
ASSUME TicksAssumption == MaxTicks \in Nat
ASSUME LimitsAssumption ==
    /\ {MaxEvents, MaxPage, MaxSpan, MaxBodies} \subseteq Nat
    /\ NoOffset \notin Int

(* What others post is told apart from the events of this page; "none" is  *)
(* what does not decode.                                                   *)
PostedEvent == [kind : {"other", "none"}, ts : Int \cup {NoOffset}, dropped : {0}]
ASSUME BodiesAssumption == Bodies \subseteq Seq(PostedEvent)

VARIABLES queue, lost, clock, shed, sent, wire, got, since, disk, health

Page == INSTANCE Probe
Server == INSTANCE BeaconIngest

pageVars == <<queue, lost, clock, shed, sent, wire>>
ingestVars == <<got, since, disk, health>>
beaconVars == <<pageVars, ingestVars>>

BeaconInit == Page!ProbeInit /\ Server!IngestInit

PageStep ==
    /\ Page!Emit \/ Page!EmitUrgent \/ Page!Flush
    /\ UNCHANGED ingestVars

Arrive ==
    /\ \E k \in wire :
          /\ wire' = wire \ {k}
          /\ Server!Ingest(sent[k]) \/ Server!IngestFails(sent[k])
    /\ UNCHANGED <<queue, lost, clock, shed, sent>>

LoseBatch ==
    /\ \E k \in wire : wire' = wire \ {k}
    /\ UNCHANGED <<queue, lost, clock, shed, sent, ingestVars>>

StrangerPosts ==
    /\ \/ \E body \in Bodies : Server!Ingest(body) \/ Server!IngestFails(body)
       \/ \E counted \in BOOLEAN : Server!Refuse(counted)
    /\ UNCHANGED pageVars

Restart == Server!Restart /\ UNCHANGED pageVars

BeaconNext == PageStep \/ Arrive \/ LoseBatch \/ StrangerPosts \/ Restart

BeaconSpec == BeaconInit /\ [][BeaconNext]_beaconVars

-----------------------------------------------------------------------------
(* Properties                                                              *)

(* Every variable has the shape the code gives it; the caps are kept.      *)
BeaconTypeOK ==
    /\ queue \in Seq(Page!Event) /\ Len(queue) <= QueueCap
    /\ sent \in Seq(Seq(Page!Event)) /\ \A k \in DOMAIN sent : Len(sent[k]) \in 1..BeaconCap
    /\ shed \subseteq Page!Event
    /\ lost \in Nat
    /\ clock \in 0..MaxTicks
    /\ wire \subseteq DOMAIN sent
    /\ got \in Seq(Seq(Page!Event \cup PostedEvent)) /\ Len(got) <= MaxBodies
    /\ since \in 0..Len(got)
    /\ disk \subseteq [body : DOMAIN got, pos : Nat, behind : 0..MaxSpan]
    /\ health \in [DOMAIN Server!Fresh -> Nat]

(* Where an event of the page is recorded.                                 *)
Copies(e) == {r \in disk : got[r.body][r.pos] = e}

(* A page's event reaches the stock at most once, however often its chunk  *)
(* failed and was sent again, and never after it was counted as dropped.   *)
StoredOnce ==
    \A k \in DOMAIN sent : \A i \in DOMAIN sent[k] :
       sent[k][i].kind = "seen" =>
          /\ Cardinality(Copies(sent[k][i])) <= 1
          /\ sent[k][i] \notin shed

(* Losing events is never silent (probe/README.md, "Queue cap").           *)
DropNeverSilent == Page!DropNeverSilent

(* A healthy worker has lost nothing it accepted (IngestHealth.ok).        *)
OkMeansKept == Server!OkMeansKept

(* Records are placed inside their batch's span and in page order, and a   *)
(* minority of absurd clocks moves no honest record (_anchor, _instant).   *)
Placement == Server!Placement
=============================================================================
