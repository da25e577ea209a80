---------------------------- MODULE BeaconIngest ----------------------------
(***************************************************************************)
(* POST /beacon (ui_servo/adapters/beacon_ingest/router.py): a body is     *)
(* decoded, every event that says what was observed is placed on the       *)
(* server's clock, and the batch is appended to the evidence store.  The   *)
(* handler does not await after it has read the body, so a request is one  *)
(* step.                                                                   *)
(*                                                                         *)
(* An event that carries its own ISO instant keeps it; ts here is the      *)
(* page-relative kind.  The store is EvidenceStore; here it appends a      *)
(* batch, or fails after some of it.                                       *)
(***************************************************************************)
EXTENDS Integers, Sequences, FiniteSets

CONSTANTS MaxEvents,   \* MAX_EVENTS
          MaxPage,     \* MAX_PAGE_MS
          MaxSpan,     \* MAX_BATCH_SPAN_MS
          MaxBodies,   \* bound: bodies decoded, and refused by this worker
          NoOffset     \* a ts that is not a finite number

VARIABLES
    got,       \* the events of every body that was decoded (history)
    since,     \* index in got where this server's life began (history)
    disk,      \* the records in the evidence store
    health     \* IngestHealth

Fresh == [batches |-> 0, events |-> 0, stored |-> 0, skipped |-> 0,
          truncated |-> 0, refused |-> 0, lost |-> 0]

IngestInit ==
    /\ got = <<>>
    /\ since = 0
    /\ disk = {}
    /\ health = Fresh

-----------------------------------------------------------------------------
(* decode_batch                                                            *)

Least(m, n) == IF m < n THEN m ELSE n
Most(m, n) == IF m > n THEN m ELSE n

(* _offset                                                                 *)
Offset(ts) == IF ts = NoOffset THEN NoOffset ELSE Least(Most(ts, 0), MaxPage)

(* The positions of the events that are kept and decode.                   *)
Kept(body) == 1..Least(Len(body), MaxEvents)
Decoded(body) == {i \in Kept(body) : body[i].kind # "none"}

Placeable(body) == {i \in Decoded(body) : Offset(body[i].ts) # NoOffset}

(* ordered[len(ordered) // 2] of the offsets of the events in I.           *)
Median(body, I) ==
    CHOOSE v \in {Offset(body[i].ts) : i \in I} :
       /\ Cardinality({i \in I : Offset(body[i].ts) < v}) <= Cardinality(I) \div 2
       /\ Cardinality({i \in I : Offset(body[i].ts) <= v}) > Cardinality(I) \div 2

(* Mutated: the newest offset stands for "now".                            *)
AnchorNewest(body) ==
    IF Placeable(body) = {} THEN 0
    ELSE CHOOSE v \in {Offset(body[i].ts) : i \in Placeable(body)} :
            \A i \in Placeable(body) : Offset(body[i].ts) <= v

(* _anchor: the newest offset that the median makes plausible.             *)
Anchor(body) ==
    LET I == Placeable(body)
        plausible == {v \in {Offset(body[i].ts) : i \in I} : v <= Median(body, I) + MaxSpan}
    IN  IF I = {} THEN 0 ELSE CHOOSE v \in plausible : \A w \in plausible : w <= v

(* _instant: how long before the arrival event i is placed.                *)
Behind(body, i) ==
    IF i \in Placeable(body)
    THEN Least(Most(Anchor(body) - Offset(body[i].ts), 0), MaxSpan)
    ELSE 0

(* The signals of body number b.                                           *)
Signals(b, body) ==
    {[body |-> b, pos |-> i, behind |-> Behind(body, i)] : i \in Decoded(body)}

-----------------------------------------------------------------------------
(* The route                                                               *)

(* What decode_batch counts.                                               *)
Counted(body) ==
    [health EXCEPT !.batches = @ + 1,
                   !.events = @ + Len(body),
                   !.truncated = @ + Len(body) - Cardinality(Kept(body)),
                   !.skipped = @ + Cardinality(Kept(body)) - Cardinality(Decoded(body))]

Room == Len(got) + health.refused < MaxBodies

(* append_many of an empty batch is not called; a full one returns.        *)
Ingest(body) ==
    /\ Room
    /\ got' = Append(got, body)
    /\ disk' = disk \cup Signals(Len(got'), body)
    /\ health' = [Counted(body) EXCEPT !.stored = @ + Cardinality(Decoded(body))]
    /\ UNCHANGED since

(* Mutated: a StoreError is logged and forgotten.                          *)
IngestForgotten(body) ==
    /\ Room
    /\ Decoded(body) # {}
    /\ got' = Append(got, body)
    /\ \E landed \in SUBSET Signals(Len(got'), body) : disk' = disk \cup landed
    /\ health' = [Counted(body) EXCEPT !.skipped = @ + Cardinality(Decoded(body))]
    /\ UNCHANGED since

(* StoreError: the whole batch counts as lost, whatever part of it landed. *)
IngestFails(body) ==
    /\ Room
    /\ Decoded(body) # {}
    /\ got' = Append(got, body)
    /\ \E landed \in SUBSET Signals(Len(got'), body) : disk' = disk \cup landed
    /\ health' = [Counted(body) EXCEPT !.lost = @ + Cardinality(Decoded(body))]
    /\ UNCHANGED since

(* 413 before the body is counted, 400 after.                              *)
Refuse(counted) ==
    /\ Room
    /\ health' = [health EXCEPT !.refused = @ + 1,
                                !.batches = IF counted THEN @ + 1 ELSE @]
    /\ UNCHANGED <<got, since, disk>>

(* The worker is replaced: its counters start again.                       *)
Restart ==
    /\ health # Fresh
    /\ health' = Fresh
    /\ since' = Len(got)
    /\ UNCHANGED <<got, disk>>

-----------------------------------------------------------------------------
(* Properties                                                              *)

(* IngestHealth.ok                                                         *)
Ok == health.lost = 0

(* While /beacon/health answers 200, everything this worker accepted and   *)
(* did not skip or truncate is in the stock ("ok is false the moment any   *)
(* signal is lost").                                                       *)
OkMeansKept ==
    Ok => \A b \in since+1..Len(got) : Signals(b, got[b]) \subseteq disk

(* No event is placed after the batch's arrival or further before it than  *)
(* a batch spans, and the page's order survives the translation.           *)
InPageOrder ==
    \A r \in disk :
       /\ r.behind \in 0..MaxSpan
       /\ \A s \in disk :
             LET body == got[r.body]
             IN  r.body = s.body /\ {r.pos, s.pos} \subseteq Placeable(body)
                 /\ Offset(body[r.pos].ts) <= Offset(body[s.pos].ts) => r.behind >= s.behind

(* H is a group of offsets that agree within a batch's span, and the other *)
(* values of the batch are too far above it to belong to it.               *)
Honest(body, H) ==
    \A i \in H : /\ \A j \in H : Offset(body[j].ts) - Offset(body[i].ts) <= MaxSpan
                 /\ \A k \in Placeable(body) \ H : Offset(body[k].ts) > Offset(body[i].ts) + MaxSpan

(* Placed as if the rest of the batch were not there.                      *)
Unmoved(b, H) ==
    \A r \in disk : r.body = b /\ r.pos \in H =>
       \E j \in H : /\ \A i \in H : Offset(got[b][i].ts) <= Offset(got[b][j].ts)
                    /\ r.behind = Offset(got[b][j].ts) - Offset(got[b][r.pos].ts)

(* A minority of absurd values moves no honest record (_anchor).           *)
MajorityUnmoved ==
    \A b \in DOMAIN got : \A H \in SUBSET Placeable(got[b]) :
       Honest(got[b], H) /\ 2 * Cardinality(H) > Cardinality(Placeable(got[b])) => Unmoved(b, H)

(* Where a batch's records are placed in time (_anchor, _instant).         *)
Placement == InPageOrder /\ MajorityUnmoved
=============================================================================
