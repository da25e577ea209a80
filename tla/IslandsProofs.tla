---------------------------- MODULE IslandsProofs ----------------------------
(***************************************************************************)
(* What data-island says of a sandbox, the handles it owns and the scene of *)
(* a constellation, for every number of elements and of moves.             *)
(***************************************************************************)
EXTENDS Islands, FiniteSetTheorems, SequenceTheorems, TLAPS

-----------------------------------------------------------------------------
(* The inductive invariant                                                 *)

PageType ==
    /\ here \in [Element -> BOOLEAN]
    /\ label \in [Element -> Labels]
    /\ reduce \in BOOLEAN
    /\ moves \in 0..MaxMoves /\ toggles \in 0..MaxToggles

(* A promise settles once: as long as reactions to it are left, the load   *)
(* is what they were told.                                                 *)
LoadType ==
    /\ wasm \in {"none", "pending", "up"}
    /\ waiting \in Seq(Reaction) /\ (waiting # <<>> => wasm = "pending")
    /\ jobs \in Seq(Job) /\ \A i \in DOMAIN jobs : jobs[i].ok <=> wasm = "up"

SandboxType ==
    /\ draining \in BOOLEAN
    /\ mounting \in Sandbox \cup {Nobody}
    /\ boxes \in Seq(Box)
    /\ slot \in [Sandbox -> 0..Len(boxes)]
    /\ island \in [Sandbox -> BOOLEAN]
    /\ live \in [Sandbox -> Nat]

SceneType ==
    /\ canvas \in [Constellation -> BOOLEAN]
    /\ scene \in [Constellation -> {"none", "still", "running"}]
    /\ alive \in [Constellation -> Nat]
    /\ drawnFor \in [Constellation -> BOOLEAN]
    /\ hears \in [Constellation -> BOOLEAN]

(* A reaction is about a box or about a constellation.                     *)
ReactionInv ==
    \A r \in Left : \/ r.box = 0 /\ r.of # Nobody
                    \/ r.box \in DOMAIN boxes /\ r.of = Nobody

(* A box that has not settled is the one its maker refers to and has its   *)
(* reaction to come.                                                       *)
BoxInv ==
    \A b \in DOMAIN boxes : ~boxes[b].settled =>
       /\ slot[boxes[b].by] = b
       /\ \E r \in Left : r.box = b

(* A box holds its maker, in the document, or nobody, once it has settled. *)
HoldInv ==
    \A b \in DOMAIN boxes : boxes[b].holds # Nobody =>
       /\ ~boxes[b].settled
       /\ boxes[b].holds = boxes[b].by
       /\ here[boxes[b].holds]

SlotInv == \A s \in Sandbox : slot[s] # 0 => boxes[slot[s]].by = s

(* A handle is made by a load that is up, freed when its element leaves,   *)
(* and never made twice.                                                   *)
HandleInv ==
    \A s \in Sandbox :
       /\ live[s] = IF island[s] THEN 1 ELSE 0
       /\ island[s] => here[s] /\ label[s] = "ready" /\ wasm = "up"
       /\ mounting = s => ~island[s] /\ wasm = "up"

LabelInv ==
    \A s \in Sandbox :
       /\ label[s] = "ready" => island[s]
       /\ here[s] /\ label[s] = "loading" =>
             mounting = s \/ \E b \in DOMAIN boxes : boxes[b].holds = s
       /\ here[s] => label[s] # "detached"

(* The listeners are there exactly while the element is.                   *)
SceneInv ==
    \A k \in Constellation :
       /\ hears[k] = here[k]
       /\ alive[k] = IF scene[k] = "none" THEN 0 ELSE 1
       /\ scene[k] = "running" => here[k] /\ drawnFor[k] = reduce

SandboxInv == BoxInv /\ HoldInv /\ SlotInv /\ HandleInv /\ LabelInv

IInv ==
    /\ PageType /\ LoadType /\ SandboxType /\ SceneType
    /\ ReactionInv
    /\ SandboxInv
    /\ SceneInv

USE ElementAssumption, BoundAssumption DEF Element

-----------------------------------------------------------------------------
(* Reactions and boxes                                                     *)

LEMMA BoxesAreWhole ==
    /\ Reaction = [box : Nat, of : Constellation \cup {Nobody}, reports : BOOLEAN]
    /\ \A j \in Job : j.on \in Reaction /\ j.ok \in BOOLEAN
    /\ \A r \in Reaction, ok \in BOOLEAN :
          /\ [on |-> r, ok |-> ok] \in Job
          /\ [on |-> r, ok |-> ok].on = r /\ [on |-> r, ok |-> ok].ok = ok
BY DEF Job, Reaction

(* `then` leaves the load as it is, and its reactions are the new ones.    *)
LEMMA Registered ==
    ASSUME LoadType, NEW rs \in Seq(Reaction), Register(rs)
    PROVE  /\ LoadType'
           /\ (wasm = "up") = (wasm' = "up")
           /\ Left' = Left \cup ToSet(rs)
<1> DEFINE Wrapped == [i \in DOMAIN rs |-> [on |-> rs[i], ok |-> TRUE]]
<1>0. Reaction = Reaction /\ Job = Job
    OBVIOUS
<1>1. DOMAIN rs = 1..Len(rs) /\ Len(rs) \in Nat /\ \A i \in 1..Len(rs) : rs[i] \in Reaction
    BY LenProperties, ElementOfSeq
<1>2. \A i \in 1..Len(rs) : Wrapped[i] \in Job /\ Wrapped[i].on = rs[i] /\ Wrapped[i].ok = TRUE
    BY <1>1, BoxesAreWhole
<1>3. Wrapped \in Seq(Job) /\ Len(Wrapped) = Len(rs) /\ DOMAIN Wrapped = 1..Len(rs)
  <2>1. Wrapped \in [1..Len(rs) -> Job]
      BY <1>1, <1>2
  <2> HIDE DEF Wrapped
  <2>2. Wrapped \in Seq(Job)
      BY <2>1, <1>1, SeqDef
  <2>3. DOMAIN Wrapped = 1..Len(rs)
      BY <2>1
  <2>4. Len(Wrapped) \in Nat /\ DOMAIN Wrapped = 1..Len(Wrapped)
      BY <2>2, LenProperties
  <2> QED  BY <2>2, <2>3, <2>4, <1>1
<1>4. CASE wasm = "up"
  <2>1. jobs' = jobs \o Wrapped /\ wasm' = wasm /\ waiting' = waiting
      BY <1>4 DEF Register
  <2> HIDE DEF Wrapped
  <2>2. jobs \in Seq(Job) /\ Len(jobs) \in Nat /\ DOMAIN jobs = 1..Len(jobs)
      BY LenProperties DEF LoadType
  <2>3. /\ jobs' \in Seq(Job) /\ Len(jobs') = Len(jobs) + Len(rs)
        /\ \A i \in 1..Len(jobs) + Len(rs) :
              jobs'[i] = IF i <= Len(jobs) THEN jobs[i] ELSE Wrapped[i - Len(jobs)]
    <3>1. /\ jobs \o Wrapped \in Seq(Job) /\ Len(jobs \o Wrapped) = Len(jobs) + Len(Wrapped)
          /\ \A i \in 1..Len(jobs) + Len(Wrapped) :
                (jobs \o Wrapped)[i] = IF i <= Len(jobs) THEN jobs[i] ELSE Wrapped[i - Len(jobs)]
      <4>1. jobs \in Seq(Job) /\ Wrapped \in Seq(Job) /\ Len(Wrapped) = Len(rs)
          BY <2>2, <1>3
      <4> QED  BY <4>1, ConcatProperties, ZenonT(60)
    <3>2. jobs' = jobs \o Wrapped /\ Len(Wrapped) = Len(rs)
        BY <2>1, <1>3
    <3> QED  BY <3>1, <3>2
  <2>4. DOMAIN jobs' = 1..Len(jobs) + Len(rs)
      BY <2>3, LenProperties
  <2>5. \A i \in 1..Len(jobs) + Len(rs) : jobs'[i].ok <=> wasm' = "up"
    <3>1. \A i \in DOMAIN jobs : jobs[i].ok <=> wasm = "up"
        BY DEF LoadType
    <3> QED  BY <3>1, <2>1, <2>2, <2>3, <1>1, <1>2, <1>4
  <2>6. LoadType'
      BY <2>1, <2>3, <2>4, <2>5 DEF LoadType
  <2>7. \A i \in 1..Len(jobs) : i \in DOMAIN jobs' /\ jobs'[i] = jobs[i]
      BY <2>2, <2>3, <2>4, <1>1
  <2>8. \A i \in 1..Len(rs) : Len(jobs) + i \in DOMAIN jobs' /\ jobs'[Len(jobs) + i].on = rs[i]
      BY <2>2, <2>3, <2>4, <1>1, <1>2
  <2>9. \A i \in DOMAIN jobs' : \/ i \in 1..Len(jobs) /\ jobs'[i] = jobs[i]
                                \/ i - Len(jobs) \in 1..Len(rs) /\ jobs'[i].on = rs[i - Len(jobs)]
    <3> SUFFICES ASSUME NEW i \in DOMAIN jobs'
                 PROVE  \/ i \in 1..Len(jobs) /\ jobs'[i] = jobs[i]
                        \/ i - Len(jobs) \in 1..Len(rs) /\ jobs'[i].on = rs[i - Len(jobs)]
        OBVIOUS
    <3>1. i \in 1..Len(jobs) + Len(rs)
        BY <2>4
    <3>2. CASE i <= Len(jobs)
        BY <2>2, <2>3, <3>1, <3>2
    <3>3. CASE i > Len(jobs)
      <4>1. i - Len(jobs) \in 1..Len(rs) /\ jobs'[i] = Wrapped[i - Len(jobs)]
          BY <1>1, <2>2, <2>3, <3>1, <3>3
      <4> QED  BY <1>2, <4>1
    <3> QED  BY <2>2, <3>1, <3>2, <3>3
  <2>10. {jobs'[i].on : i \in DOMAIN jobs'} = {jobs[i].on : i \in DOMAIN jobs} \cup {rs[i] : i \in DOMAIN rs}
      BY <2>2, <2>7, <2>8, <2>9, <1>1
  <2> QED  BY <2>1, <2>6, <2>10 DEF Left, ToSet
<1>5. CASE wasm # "up"
  <2>1. jobs' = jobs /\ wasm' = "pending" /\ waiting' = waiting \o rs
      BY <1>5 DEF Register
  <2>2. waiting \in Seq(Reaction) /\ Len(waiting) \in Nat /\ DOMAIN waiting = 1..Len(waiting)
      BY LenProperties DEF LoadType
  <2>3. /\ waiting' \in Seq(Reaction) /\ Len(waiting') = Len(waiting) + Len(rs)
        /\ \A i \in 1..Len(waiting) + Len(rs) :
              waiting'[i] = IF i <= Len(waiting) THEN waiting[i] ELSE rs[i - Len(waiting)]
      BY <2>1, <2>2, ConcatProperties
  <2>4. DOMAIN waiting' = 1..Len(waiting) + Len(rs)
      BY <2>3, LenProperties
  <2>6. LoadType'
      BY <2>1, <2>3, <1>5 DEF LoadType
  <2>7. \A i \in 1..Len(waiting) : i \in DOMAIN waiting' /\ waiting'[i] = waiting[i]
      BY <2>2, <2>3, <2>4, <1>1
  <2>8. \A i \in 1..Len(rs) : Len(waiting) + i \in DOMAIN waiting' /\ waiting'[Len(waiting) + i] = rs[i]
      BY <2>2, <2>3, <2>4, <1>1
  <2>9. \A i \in DOMAIN waiting' : \/ i \in 1..Len(waiting) /\ waiting'[i] = waiting[i]
                                   \/ i - Len(waiting) \in 1..Len(rs) /\ waiting'[i] = rs[i - Len(waiting)]
      BY <2>2, <2>3, <2>4, <1>1
  <2>10. {waiting'[i] : i \in DOMAIN waiting'} = {waiting[i] : i \in DOMAIN waiting} \cup {rs[i] : i \in DOMAIN rs}
      BY <2>2, <2>7, <2>8, <2>9, <1>1
  <2> QED  BY <2>1, <2>6, <2>10, <1>5 DEF Left, ToSet
<1> QED  BY <1>4, <1>5

(* One reaction.                                                           *)
LEMMA One ==
    ASSUME NEW r \in Reaction
    PROVE  <<r>> \in Seq(Reaction) /\ ToSet(<<r>>) = {r}
<1>1. <<r>> \in Seq(Reaction)
    OBVIOUS
<1>2. Len(<<r>>) = 1 /\ <<r>>[1] = r /\ DOMAIN <<r>> = {1}
    OBVIOUS
<1> QED  BY <1>1, <1>2 DEF ToSet

(* The constellations that are rebuilt, in some order.                     *)
LEMMA Several ==
    ASSUME NEW K \in SUBSET Constellation
    PROVE  LET S == {Bound(k, FALSE) : k \in K}
           IN  /\ SetToSeq(S) \in Seq(Reaction)
               /\ ToSet(SetToSeq(S)) \subseteq S
<1> DEFINE S == {Bound(k, FALSE) : k \in K}
<1>1. IsFiniteSet(K)
    BY FS_Subset
<1>2. IsFiniteSet(S)
  <2> DEFINE f == [k \in K |-> Bound(k, FALSE)]
  <2>1. f \in Surjection(K, S)
      BY DEF Surjection
  <2> QED  BY <2>1, <1>1, FS_Surjection
<1>3. Cardinality(S) \in Nat /\ ExistsBijection(1..Cardinality(S), S)
    BY <1>2, FS_CardinalityType
<1>4. PICK f \in [1..Cardinality(S) -> S] : IsInjective(f)
    BY <1>3 DEF ExistsBijection, Bijection, Injection, IsInjective
<1>5. SetToSeq(S) \in [1..Cardinality(S) -> S]
    BY <1>4 DEF SetToSeq
<1>6. S \subseteq Reaction
  <2>1. \A k \in K : Bound(k, FALSE) \in Reaction
      BY DEF Bound, Reaction
  <2> QED  BY <2>1
<1> HIDE DEF S
<1>7. SetToSeq(S) \in Seq(Reaction)
    BY <1>5, <1>3, <1>6, SeqDef
<1>8. ToSet(SetToSeq(S)) \subseteq S
    BY <1>5 DEF ToSet
<1> QED  BY <1>7, <1>8 DEF S

LEMMA Rebuilding ==
    ASSUME LoadType, NEW K \in SUBSET Constellation, Rebuild(K)
    PROVE  /\ LoadType'
           /\ (wasm = "up") = (wasm' = "up")
           /\ Left \subseteq Left'
           /\ \A r \in Left' \ Left : r.box = 0 /\ r.of # Nobody
<1> DEFINE S == {Bound(k, FALSE) : k \in K}
<1>1. \A r \in S : r.box = 0 /\ r.of # Nobody
    BY DEF Bound
<1>2. CASE wasm = "none"
  <2>1. UNCHANGED loading
      BY <1>2 DEF Rebuild
  <2> QED  BY <2>1 DEF loading, LoadType, Left
<1>3. CASE wasm # "none"
  <2>1. Register(SetToSeq(S))
      BY <1>3 DEF Rebuild
  <2>2. SetToSeq(S) \in Seq(Reaction) /\ ToSet(SetToSeq(S)) \subseteq S
      BY Several
  <2> HIDE DEF S
  <2>3. LoadType' /\ (wasm = "up") = (wasm' = "up") /\ Left' = Left \cup ToSet(SetToSeq(S))
      BY <2>1, <2>2, Registered
  <2> QED  BY <2>3, <2>2, <1>1
<1> QED  BY <1>2, <1>3

(* The next job is told what the load is now.                              *)
LEMMA Taken ==
    ASSUME LoadType, jobs # <<>>, TakeJob
    PROVE  /\ LoadType' /\ wasm' = wasm
           /\ Head(jobs).on \in Left /\ Head(jobs).on \in Reaction
           /\ Head(jobs).ok <=> wasm = "up"
           /\ Left' \subseteq Left
           /\ \A r \in Left \ Left' : r = Head(jobs).on
<1> DEFINE first == Head(jobs)
<1>1. jobs \in Seq(Job) /\ Len(jobs) \in Nat \ {0} /\ DOMAIN jobs = 1..Len(jobs)
    BY LenProperties, EmptySeq DEF LoadType
<1>2. jobs' = Tail(jobs) /\ wasm' = wasm /\ waiting' = waiting
    BY DEF TakeJob
<1>3. /\ jobs' \in Seq(Job) /\ Len(jobs') = Len(jobs) - 1
      /\ \A i \in 1..Len(jobs') : jobs'[i] = jobs[i + 1]
    BY <1>1, <1>2, HeadTailProperties
<1>4. first = jobs[1] /\ first \in Job
    BY <1>1, HeadTailProperties
<1>5. DOMAIN jobs' = 1..Len(jobs) - 1
    BY <1>3, LenProperties
<1>6. \A i \in DOMAIN jobs' : i + 1 \in DOMAIN jobs /\ jobs'[i] = jobs[i + 1]
    BY <1>1, <1>3, <1>5
<1>7. \A i \in DOMAIN jobs : i = 1 \/ (i - 1 \in DOMAIN jobs' /\ jobs'[i - 1] = jobs[i])
    BY <1>1, <1>3, <1>5
<1>8. LoadType'
    BY <1>2, <1>3, <1>6 DEF LoadType
<1>9. 1 \in DOMAIN jobs
    BY <1>1
<1> HIDE DEF first
<1>10. first.on \in Left /\ first.on \in Reaction /\ (first.ok <=> wasm = "up")
    BY <1>4, <1>9, BoxesAreWhole DEF Left, LoadType
<1>11. Left' \subseteq Left
    BY <1>2, <1>6 DEF Left, ToSet
<1>12. \A r \in Left \ Left' : r = first.on
  <2>1. /\ \A r \in Left : r \in ToSet(waiting) \/ \E i \in DOMAIN jobs : r = jobs[i].on
        /\ \A r : r \in ToSet(waiting') \/ (\E i \in DOMAIN jobs' : r = jobs'[i].on) => r \in Left'
    BY DEF Left
  <2>2. ToSet(waiting') = ToSet(waiting)
    BY <1>2
  <2>3. ASSUME NEW i \in DOMAIN jobs, i # 1 PROVE jobs[i].on \in Left'
    BY <1>7, <2>1, <2>3
  <2> QED  BY <1>4, <2>1, <2>2, <2>3
<1> QED  BY <1>2, <1>8, <1>10, <1>11, <1>12 DEF first

LEMMA Settled ==
    ASSUME LoadType, NEW ok \in BOOLEAN, Settle(ok)
    PROVE  /\ LoadType' /\ Left' = Left
           /\ wasm = "pending" /\ (wasm' = "up" <=> ok)
<1> DEFINE Told == [i \in DOMAIN waiting |-> [on |-> waiting[i], ok |-> ok]]
<1>1. /\ waiting \in Seq(Reaction) /\ Len(waiting) \in Nat /\ DOMAIN waiting = 1..Len(waiting)
      /\ \A i \in 1..Len(waiting) : waiting[i] \in Reaction
    BY LenProperties, ElementOfSeq DEF LoadType
<1>2. \A i \in 1..Len(waiting) : Told[i] \in Job /\ Told[i].on = waiting[i] /\ Told[i].ok = ok
    BY <1>1, BoxesAreWhole
<1>3. Told \in [1..Len(waiting) -> Job]
    BY <1>1, <1>2
<1>4. /\ jobs = <<>> /\ wasm = "pending" /\ jobs' = Told /\ waiting' = <<>>
      /\ wasm' = IF ok THEN "up" ELSE "none"
    BY DEF Settle
<1> HIDE DEF Told
<1>5. Told \in Seq(Job) /\ DOMAIN Told = 1..Len(waiting)
    BY <1>1, <1>3, SeqDef
<1>6. LoadType'
    BY <1>1, <1>2, <1>4, <1>5, EmptySeq DEF LoadType
<1>7. Left = ToSet(waiting)
    BY <1>4 DEF Left, ToSet
<1>8. Left' = ToSet(waiting)
    BY <1>1, <1>2, <1>4, <1>5 DEF Left, ToSet
<1> QED  BY <1>4, <1>6, <1>7, <1>8

(* Whom a box holds.                                                       *)
LEMMA Holding ==
    ASSUME boxes \in Seq(Box), NEW b \in DOMAIN boxes, NEW h \in Sandbox \cup {Nobody},
           boxes' = [boxes EXCEPT ![b].holds = h]
    PROVE  /\ boxes' \in Seq(Box) /\ Len(boxes') = Len(boxes) /\ DOMAIN boxes' = DOMAIN boxes
           /\ \A c \in DOMAIN boxes : /\ boxes'[c].by = boxes[c].by
                                      /\ (boxes'[c].settled <=> boxes[c].settled)
                                      /\ boxes'[c].holds = IF c = b THEN h ELSE boxes[c].holds
<1> DEFINE e == [boxes[b] EXCEPT !.holds = h]
<1>1. b \in 1..Len(boxes) /\ DOMAIN boxes = 1..Len(boxes) /\ boxes[b] \in Box
    BY LenProperties, ElementOfSeq
<1>2. e \in Box /\ e.by = boxes[b].by /\ e.settled = boxes[b].settled /\ e.holds = h
    BY <1>1 DEF Box
<1>3. boxes' = [boxes EXCEPT ![b] = e]
    OBVIOUS
<1> HIDE DEF e
<1>4. /\ boxes' \in Seq(Box) /\ Len(boxes') = Len(boxes)
      /\ \A c \in 1..Len(boxes) : boxes'[c] = IF c = b THEN e ELSE boxes[c]
    BY <1>1, <1>2, <1>3, ExceptSeq
<1>5. DOMAIN boxes' = 1..Len(boxes)
    BY <1>4, LenProperties
<1> QED  BY <1>1, <1>2, <1>4, <1>5

LEMMA Settling ==
    ASSUME boxes \in Seq(Box), NEW b \in DOMAIN boxes,
           boxes' = [boxes EXCEPT ![b].settled = TRUE, ![b].holds = Nobody]
    PROVE  /\ boxes' \in Seq(Box) /\ Len(boxes') = Len(boxes) /\ DOMAIN boxes' = DOMAIN boxes
           /\ \A c \in DOMAIN boxes : /\ boxes'[c].by = boxes[c].by
                                      /\ (boxes'[c].settled <=> c = b \/ boxes[c].settled)
                                      /\ boxes'[c].holds = IF c = b THEN Nobody ELSE boxes[c].holds
<1> DEFINE e == [boxes[b] EXCEPT !.settled = TRUE, !.holds = Nobody]
<1>1. b \in 1..Len(boxes) /\ DOMAIN boxes = 1..Len(boxes) /\ boxes[b] \in Box
    BY LenProperties, ElementOfSeq
<1>2. e \in Box /\ e.by = boxes[b].by /\ e.settled = TRUE /\ e.holds = Nobody
    BY <1>1 DEF Box
<1>3. boxes' = [boxes EXCEPT ![b] = e]
    OBVIOUS
<1> HIDE DEF e
<1>4. /\ boxes' \in Seq(Box) /\ Len(boxes') = Len(boxes)
      /\ \A c \in 1..Len(boxes) : boxes'[c] = IF c = b THEN e ELSE boxes[c]
  <2>1. /\ [boxes EXCEPT ![b] = e] \in Seq(Box) /\ Len([boxes EXCEPT ![b] = e]) = Len(boxes)
        /\ \A c \in 1..Len(boxes) : [boxes EXCEPT ![b] = e][c] = IF c = b THEN e ELSE boxes[c]
      BY <1>1, <1>2, ExceptSeq
  <2> QED  BY <2>1, <1>3
<1>5. DOMAIN boxes' = 1..Len(boxes)
    BY <1>4, LenProperties
<1> QED  BY <1>1, <1>2, <1>4, <1>5

-----------------------------------------------------------------------------
(* What leaves what alone                                                  *)

LEMMA Boxes ==
    ASSUME boxes \in Seq(Box)
    PROVE  /\ Len(boxes) \in Nat /\ DOMAIN boxes = 1..Len(boxes)
           /\ \A b \in DOMAIN boxes : /\ b # 0
                                      /\ boxes[b].by \in Sandbox
                                      /\ boxes[b].holds \in Sandbox \cup {Nobody}
<1>1. Len(boxes) \in Nat /\ DOMAIN boxes = 1..Len(boxes)
    BY LenProperties
<1>2. \A b \in DOMAIN boxes : boxes[b] \in Box
    BY <1>1, ElementOfSeq
<1>3. \A x \in Box : x.by \in Sandbox /\ x.holds \in Sandbox \cup {Nobody}
    BY DEF Box
<1> QED  BY <1>1, <1>2, <1>3

LEMMA Moved ==
    ASSUME PageType, NEW e \in Element, NEW to \in BOOLEAN, Move(e, to)
    PROVE  /\ here' \in [Element -> BOOLEAN]
           /\ \A f \in Element : here'[f] = IF f = e THEN to ELSE here[f]
           /\ here[e] # to
           /\ moves' \in 0..MaxMoves
           /\ UNCHANGED <<draining, mounting, reduce, toggles>>
BY DEF Move, PageType, stack

LEMMA Labelled ==
    ASSUME PageType, NEW e \in Element, NEW text \in Labels, Relabel(e, text)
    PROVE  /\ label' \in [Element -> Labels]
           /\ \A f \in Element : label'[f] = IF f = e THEN text ELSE label[f]
BY DEF Relabel, PageType

(* What happens to constellations and to their reactions does not concern  *)
(* a sandbox.                                                              *)
LEMMA SandboxesUntouched ==
    ASSUME SandboxInv, UNCHANGED <<mounting, sandbox>>, wasm = "up" => wasm' = "up",
           \A s \in Sandbox : here'[s] = here[s] /\ label'[s] = label[s],
           boxes \in Seq(Box),
           \A r \in Left : r.box # 0 => r \in Left'
    PROVE  SandboxInv'
<1>0. UNCHANGED <<mounting, boxes, slot, island, live>>
    BY DEF sandbox
<1>1. \A b \in DOMAIN boxes : b # 0 /\ boxes[b].holds \in Sandbox \cup {Nobody}
    BY Boxes
<1>2. BoxInv'
    BY <1>0, <1>1 DEF BoxInv, SandboxInv
<1>3. HoldInv'
    BY <1>0, <1>1 DEF HoldInv, SandboxInv
<1>4. SlotInv'
    BY <1>0 DEF SlotInv, SandboxInv
<1>5. HandleInv'
    BY <1>0 DEF HandleInv, SandboxInv
<1>6. LabelInv'
    BY <1>0 DEF LabelInv, SandboxInv
<1> QED  BY <1>2, <1>3, <1>4, <1>5, <1>6 DEF SandboxInv

LEMMA ScenesUntouched ==
    ASSUME SceneType, SceneInv, UNCHANGED <<constellation, reduce>>,
           \A k \in Constellation : here'[k] = here[k]
    PROVE  SceneType' /\ SceneInv'
BY DEF constellation, SceneType, SceneInv

-----------------------------------------------------------------------------
(* <resume-sandbox>                                                        *)

(* A sandbox that connects has no handle, and nothing holds it.            *)
LEMMA Loose ==
    ASSUME IInv, NEW s \in Sandbox, ~here[s]
    PROVE  ~island[s] /\ \A b \in DOMAIN boxes : boxes[b].holds # s
BY DEF IInv, SandboxInv, HandleInv, HoldInv

(* A connect whose load is in flight: the box holds its maker again.       *)
LEMMA ConnectAgain ==
    ASSUME IInv, NEW s \in Sandbox, ConnectSandbox(s), InFlight(s)
    PROVE  IInv'
<1>1. /\ Move(s, TRUE) /\ Relabel(s, "loading") /\ ~island[s]
      /\ boxes' = [boxes EXCEPT ![slot[s]].holds = s]
      /\ UNCHANGED <<slot, loading, island, live, constellation>>
    BY Loose DEF ConnectSandbox, Move, IInv, PageType
<1>2. /\ here' \in [Element -> BOOLEAN] /\ moves' \in 0..MaxMoves
      /\ \A f \in Element : here'[f] = IF f = s THEN TRUE ELSE here[f]
      /\ ~here[s] /\ UNCHANGED <<draining, mounting, reduce, toggles>>
    BY <1>1, Moved DEF IInv, PageType
<1>3. /\ label' \in [Element -> Labels]
      /\ \A f \in Element : label'[f] = IF f = s THEN "loading" ELSE label[f]
    BY <1>1, Labelled DEF IInv, Labels
<1>4. slot[s] \in DOMAIN boxes /\ ~boxes[slot[s]].settled /\ boxes[slot[s]].by = s
    BY LenProperties DEF InFlight, IInv, SandboxType, SandboxInv, SlotInv
<1>5. boxes \in Seq(Box)
    BY DEF IInv, SandboxType
<1>6. /\ boxes' \in Seq(Box) /\ Len(boxes') = Len(boxes) /\ DOMAIN boxes' = DOMAIN boxes
      /\ \A c \in DOMAIN boxes : /\ boxes'[c].by = boxes[c].by
                                 /\ (boxes'[c].settled <=> boxes[c].settled)
                                 /\ boxes'[c].holds = IF c = slot[s] THEN s ELSE boxes[c].holds
  <2>1. s \in Sandbox \cup {Nobody}
      OBVIOUS
  <2>2. PICK b \in DOMAIN boxes : b = slot[s]
      BY <1>4
  <2>3. boxes' = [boxes EXCEPT ![b].holds = s]
      BY <1>1, <2>2
  <2>4. /\ boxes' \in Seq(Box) /\ Len(boxes') = Len(boxes) /\ DOMAIN boxes' = DOMAIN boxes
        /\ \A c \in DOMAIN boxes : /\ boxes'[c].by = boxes[c].by
                                   /\ (boxes'[c].settled <=> boxes[c].settled)
                                   /\ boxes'[c].holds = IF c = b THEN s ELSE boxes[c].holds
      BY <2>1, <2>3, <1>5, Holding
  <2> QED  BY <2>2, <2>4
<1>7. Left' = Left /\ LoadType' /\ wasm' = wasm
    BY <1>1 DEF loading, Left, LoadType, IInv
<1>8. PageType'
    BY <1>2, <1>3 DEF PageType, IInv
<1>9. SandboxType'
    BY <1>1, <1>2, <1>6 DEF SandboxType, IInv
<1>10. SceneType' /\ SceneInv'
    BY <1>1, <1>2, ScenesUntouched DEF IInv
<1>11. ReactionInv'
    BY <1>6, <1>7 DEF ReactionInv, IInv
<1>12. BoxInv'
    BY <1>1, <1>6, <1>7 DEF BoxInv, SandboxInv, IInv
<1>13. \A b \in DOMAIN boxes : boxes[b].holds \in Sandbox \cup {Nobody}
    BY <1>5, Boxes
<1>14. HoldInv'
  <2> SUFFICES ASSUME NEW b \in DOMAIN boxes', boxes'[b].holds # Nobody
               PROVE  /\ ~boxes'[b].settled /\ boxes'[b].holds = boxes'[b].by
                      /\ here'[boxes'[b].holds]
      BY DEF HoldInv
  <2>1. CASE b = slot[s]
    <3>1. boxes'[b].holds = s /\ boxes'[b].by = s
        BY <2>1, <1>4, <1>6
    <3>2. ~boxes'[b].settled
        BY <2>1, <1>4, <1>6
    <3>3. here'[s]
        BY <1>2
    <3> QED  BY <3>1, <3>2, <3>3
  <2>2. CASE b # slot[s]
    <3>1. b \in DOMAIN boxes /\ boxes'[b].holds = boxes[b].holds
        BY <2>2, <1>6
    <3>2. ~boxes[b].settled /\ boxes[b].holds = boxes[b].by /\ here[boxes[b].holds]
        BY <3>1 DEF IInv, SandboxInv, HoldInv
    <3> QED  BY <3>1, <3>2, <1>2, <1>6, <1>13
  <2> QED  BY <2>1, <2>2
<1>15. SlotInv'
  <2>1. \A t \in Sandbox : slot[t] # 0 => slot[t] \in DOMAIN boxes
      BY <1>5, LenProperties DEF IInv, SandboxType
  <2> QED  BY <1>1, <1>6, <2>1 DEF SlotInv, SandboxInv, IInv
<1>16. HandleInv'
    BY <1>1, <1>2, <1>3, <1>7 DEF HandleInv, SandboxInv, IInv
<1>17. LabelInv'
  <2>1. slot[s] \in DOMAIN boxes' /\ boxes'[slot[s]].holds = s
      BY <1>4, <1>6
  <2>2. \A b \in DOMAIN boxes : boxes[b].holds # Nobody =>
            b \in DOMAIN boxes' /\ (boxes'[b].holds = boxes[b].holds \/ boxes[b].holds = s)
      BY <1>4, <1>6 DEF IInv, SandboxInv, HoldInv
  <2> SUFFICES ASSUME NEW t \in Sandbox
               PROVE  /\ label'[t] = "ready" => island'[t]
                      /\ here'[t] /\ label'[t] = "loading" =>
                            mounting' = t \/ \E b \in DOMAIN boxes' : boxes'[b].holds = t
                      /\ here'[t] => label'[t] # "detached"
      BY DEF LabelInv
  <2>3. CASE t = s
      BY <2>1, <2>3, <1>1, <1>2, <1>3
  <2>4. CASE t # s
    <3>1. /\ label[t] = "ready" => island[t]
          /\ here[t] /\ label[t] = "loading" =>
                mounting = t \/ \E b \in DOMAIN boxes : boxes[b].holds = t
          /\ here[t] => label[t] # "detached"
        BY DEF IInv, SandboxInv, LabelInv
    <3>2. /\ label'[t] = label[t] /\ island'[t] = island[t] /\ here'[t] = here[t]
          /\ mounting' = mounting
        BY <2>4, <1>1, <1>2, <1>3
    <3>3. (\E b \in DOMAIN boxes : boxes[b].holds = t)
             => \E b \in DOMAIN boxes' : boxes'[b].holds = t
      <4>1. t # Nobody
          BY ElementAssumption
      <4> QED  BY <2>2, <2>4, <4>1
    <3> QED  BY <3>1, <3>2, <3>3
  <2> QED  BY <2>3, <2>4
<1> QED  BY <1>7, <1>8, <1>9, <1>10, <1>11, <1>12, <1>14, <1>15, <1>16, <1>17 DEF IInv, SandboxInv

(* A connect that asks for the load.                                       *)
LEMMA ConnectAnew ==
    ASSUME IInv, NEW s \in Sandbox, ConnectSandbox(s), ~InFlight(s)
    PROVE  IInv'
<1> DEFINE n == Len(boxes) + 1
           box == [by |-> s, holds |-> s, settled |-> FALSE]
<1>1. /\ Move(s, TRUE) /\ Relabel(s, "loading") /\ ~island[s] /\ NewBox(s)
      /\ UNCHANGED <<island, live, constellation>>
    BY Loose DEF ConnectSandbox, Move, IInv, PageType
<1>2. /\ here' \in [Element -> BOOLEAN] /\ moves' \in 0..MaxMoves
      /\ \A f \in Element : here'[f] = IF f = s THEN TRUE ELSE here[f]
      /\ ~here[s] /\ UNCHANGED <<draining, mounting, reduce, toggles>>
    BY <1>1, Moved DEF IInv, PageType
<1>3. /\ label' \in [Element -> Labels]
      /\ \A f \in Element : label'[f] = IF f = s THEN "loading" ELSE label[f]
    BY <1>1, Labelled DEF IInv, Labels
<1>4. boxes \in Seq(Box) /\ Len(boxes) \in Nat /\ DOMAIN boxes = 1..Len(boxes)
    BY LenProperties DEF IInv, SandboxType
<1>5. box \in Box /\ box.by = s /\ box.holds = s /\ box.settled = FALSE
    BY DEF Box
<1>6. boxes' = Append(boxes, box) /\ slot' = [slot EXCEPT ![s] = Len(boxes')]
      /\ Register(<<Boxed(Len(boxes'))>>)
    BY <1>1 DEF NewBox
<1> HIDE DEF box
<1>7. /\ boxes' \in Seq(Box) /\ Len(boxes') = n
      /\ \A b \in 1..Len(boxes) : boxes'[b] = boxes[b]
      /\ boxes'[n] = box
    BY <1>4, <1>5, <1>6, AppendProperties
<1>8. DOMAIN boxes' = 1..n
    BY <1>7, LenProperties
<1>9. /\ LoadType' /\ (wasm = "up") = (wasm' = "up")
      /\ Left' = Left \cup {Boxed(n)}
  <2>1. Boxed(n) \in Reaction
      BY <1>4 DEF Boxed, Reaction
  <2>2. Register(<<Boxed(n)>>)
      BY <1>6, <1>7
  <2> QED  BY <2>1, <2>2, One, Registered DEF IInv
<1>10. Boxed(n).box = n /\ Boxed(n).of = Nobody
    BY DEF Boxed
<1>11. PageType'
    BY <1>2, <1>3 DEF PageType, IInv
<1>12. SandboxType'
  <2>1. slot' \in [Sandbox -> 0..n]
      BY <1>4, <1>6, <1>7 DEF IInv, SandboxType
  <2> QED  BY <1>1, <1>2, <1>7, <2>1 DEF SandboxType, IInv
<1>13. SceneType' /\ SceneInv'
    BY <1>1, <1>2, ScenesUntouched DEF IInv
<1>14. ReactionInv'
    BY <1>4, <1>8, <1>9, <1>10 DEF ReactionInv, IInv
<1>15. \A t \in Sandbox : /\ slot'[t] = IF t = s THEN n ELSE slot[t]
                          /\ slot[t] # 0 => slot[t] \in DOMAIN boxes
    BY <1>4, <1>6, <1>7 DEF IInv, SandboxType
<1>16. \A b \in DOMAIN boxes : boxes[b].by \in Sandbox /\ boxes[b].holds \in Sandbox \cup {Nobody}
    BY <1>4, Boxes
<1>17. BoxInv'
  <2> SUFFICES ASSUME NEW b \in DOMAIN boxes', ~boxes'[b].settled
               PROVE  slot'[boxes'[b].by] = b /\ \E r \in Left' : r.box = b
      BY DEF BoxInv
  <2>1. CASE b = n
      BY <2>1, <1>5, <1>7, <1>9, <1>10, <1>15
  <2>2. CASE b # n
    <3>1. b \in DOMAIN boxes /\ boxes'[b] = boxes[b]
        BY <2>2, <1>4, <1>7, <1>8
    <3>2. slot[boxes[b].by] = b /\ \E r \in Left : r.box = b
        BY <3>1 DEF IInv, SandboxInv, BoxInv
    <3>3. boxes[b].by # s
        BY <3>1, <3>2, <1>4 DEF InFlight
    <3> QED  BY <3>1, <3>2, <3>3, <1>9, <1>15, <1>16
  <2> QED  BY <2>1, <2>2
<1>18. HoldInv'
  <2> SUFFICES ASSUME NEW b \in DOMAIN boxes', boxes'[b].holds # Nobody
               PROVE  /\ ~boxes'[b].settled /\ boxes'[b].holds = boxes'[b].by
                      /\ here'[boxes'[b].holds]
      BY DEF HoldInv
  <2>1. CASE b = n
      BY <2>1, <1>5, <1>7, <1>2
  <2>2. CASE b # n
    <3>1. b \in DOMAIN boxes /\ boxes'[b] = boxes[b]
        BY <2>2, <1>4, <1>7, <1>8
    <3> QED  BY <3>1, <1>2, <1>16 DEF IInv, SandboxInv, HoldInv
  <2> QED  BY <2>1, <2>2
<1>19. SlotInv'
  <2> SUFFICES ASSUME NEW t \in Sandbox, slot'[t] # 0 PROVE boxes'[slot'[t]].by = t
      BY DEF SlotInv
  <2>1. CASE t = s
      BY <2>1, <1>5, <1>7, <1>15
  <2>2. CASE t # s
      BY <2>2, <1>4, <1>7, <1>15 DEF IInv, SandboxInv, SlotInv
  <2> QED  BY <2>1, <2>2
<1>20. HandleInv'
    BY <1>1, <1>2, <1>3, <1>9 DEF HandleInv, SandboxInv, IInv
<1>21. LabelInv'
  <2>1. n \in DOMAIN boxes' /\ boxes'[n].holds = s
      BY <1>4, <1>5, <1>7, <1>8
  <2>2. \A b \in DOMAIN boxes : b \in DOMAIN boxes' /\ boxes'[b].holds = boxes[b].holds
      BY <1>4, <1>7, <1>8
  <2> SUFFICES ASSUME NEW t \in Sandbox
               PROVE  /\ label'[t] = "ready" => island'[t]
                      /\ here'[t] /\ label'[t] = "loading" =>
                            mounting' = t \/ \E b \in DOMAIN boxes' : boxes'[b].holds = t
                      /\ here'[t] => label'[t] # "detached"
      BY DEF LabelInv
  <2>3. CASE t = s
      BY <2>1, <2>3, <1>1, <1>2, <1>3
  <2>4. CASE t # s
    <3>1. /\ label[t] = "ready" => island[t]
          /\ here[t] /\ label[t] = "loading" =>
                mounting = t \/ \E b \in DOMAIN boxes : boxes[b].holds = t
          /\ here[t] => label[t] # "detached"
        BY DEF IInv, SandboxInv, LabelInv
    <3> QED  BY <2>2, <2>4, <3>1, <1>1, <1>2, <1>3
  <2> QED  BY <2>3, <2>4
<1> QED  BY <1>9, <1>11, <1>12, <1>13, <1>14, <1>17, <1>18, <1>19, <1>20, <1>21 DEF IInv, SandboxInv

(* A disconnect empties the box and frees the handle.                      *)
LEMMA DisconnectKeeps ==
    ASSUME IInv, NEW s \in Sandbox, DisconnectSandbox(s)
    PROVE  IInv'
<1>1. /\ Move(s, FALSE) /\ Relabel(s, "detached")
      /\ boxes' = IF slot[s] = 0 THEN boxes ELSE [boxes EXCEPT ![slot[s]].holds = Nobody]
      /\ island' = [island EXCEPT ![s] = FALSE]
      /\ live' = [live EXCEPT ![s] = IF island[s] THEN @ - 1 ELSE @]
      /\ UNCHANGED <<slot, loading, constellation>>
    BY DEF DisconnectSandbox
<1>2. /\ here' \in [Element -> BOOLEAN] /\ moves' \in 0..MaxMoves
      /\ \A f \in Element : here'[f] = IF f = s THEN FALSE ELSE here[f]
      /\ here[s] /\ UNCHANGED <<draining, mounting, reduce, toggles>>
    BY <1>1, Moved DEF IInv, PageType
<1>3. /\ label' \in [Element -> Labels]
      /\ \A f \in Element : label'[f] = IF f = s THEN "detached" ELSE label[f]
    BY <1>1, Labelled DEF IInv, Labels
<1>4. boxes \in Seq(Box)
    BY DEF IInv, SandboxType
<1>5. \A t \in Sandbox : slot[t] # 0 => slot[t] \in DOMAIN boxes /\ boxes[slot[t]].by = t
    BY <1>4, Boxes DEF IInv, SandboxType, SandboxInv, SlotInv
<1>6. /\ boxes' \in Seq(Box) /\ Len(boxes') = Len(boxes) /\ DOMAIN boxes' = DOMAIN boxes
      /\ \A c \in DOMAIN boxes : /\ boxes'[c].by = boxes[c].by
                                 /\ (boxes'[c].settled <=> boxes[c].settled)
                                 /\ boxes'[c].holds = IF c = slot[s] THEN Nobody ELSE boxes[c].holds
  <2>1. CASE slot[s] = 0
      BY <1>1, <1>4, <2>1, Boxes
  <2>2. CASE slot[s] # 0
    <3>1. PICK b \in DOMAIN boxes : b = slot[s]
        BY <1>5, <2>2
    <3>2. boxes' = [boxes EXCEPT ![b].holds = Nobody] /\ Nobody \in Sandbox \cup {Nobody}
        BY <1>1, <2>2, <3>1
    <3>3. /\ boxes' \in Seq(Box) /\ Len(boxes') = Len(boxes) /\ DOMAIN boxes' = DOMAIN boxes
          /\ \A c \in DOMAIN boxes : /\ boxes'[c].by = boxes[c].by
                                     /\ (boxes'[c].settled <=> boxes[c].settled)
                                     /\ boxes'[c].holds = IF c = b THEN Nobody ELSE boxes[c].holds
        BY <3>2, <1>4, Holding
    <3> QED  BY <3>1, <3>3
  <2> QED  BY <2>1, <2>2
<1>7. Left' = Left /\ LoadType' /\ wasm' = wasm
    BY <1>1 DEF loading, Left, LoadType, IInv
<1>8. PageType'
    BY <1>2, <1>3 DEF PageType, IInv
<1>9. /\ island' \in [Sandbox -> BOOLEAN]
      /\ \A t \in Sandbox : island'[t] = IF t = s THEN FALSE ELSE island[t]
    BY <1>1 DEF IInv, SandboxType
<1>10. \A t \in Sandbox : live[t] \in Nat /\ live[t] = IF island[t] THEN 1 ELSE 0
    BY DEF IInv, SandboxType, SandboxInv, HandleInv
<1>11. /\ live' \in [Sandbox -> Nat]
       /\ \A t \in Sandbox : live'[t] = IF t = s THEN 0 ELSE live[t]
  <2>1. live' = [live EXCEPT ![s] = 0]
    <3>1. (IF island[s] THEN live[s] - 1 ELSE live[s]) = 0
        BY <1>10
    <3> QED  BY <1>1, <3>1
  <2> QED  BY <2>1 DEF IInv, SandboxType
<1>12. SandboxType'
    BY <1>1, <1>2, <1>6, <1>9, <1>11 DEF SandboxType, IInv
<1>13. SceneType' /\ SceneInv'
    BY <1>1, <1>2, ScenesUntouched DEF IInv
<1>14. ReactionInv'
    BY <1>6, <1>7 DEF ReactionInv, IInv
<1>15. BoxInv'
    BY <1>1, <1>6, <1>7 DEF BoxInv, SandboxInv, IInv
<1>16. HoldInv'
  <2> SUFFICES ASSUME NEW b \in DOMAIN boxes', boxes'[b].holds # Nobody
               PROVE  /\ ~boxes'[b].settled /\ boxes'[b].holds = boxes'[b].by
                      /\ here'[boxes'[b].holds]
      BY DEF HoldInv
  <2>1. b \in DOMAIN boxes /\ b # slot[s] /\ boxes'[b].holds = boxes[b].holds
      BY <1>6
  <2>2. ~boxes[b].settled /\ boxes[b].holds = boxes[b].by /\ here[boxes[b].holds]
      BY <2>1 DEF IInv, SandboxInv, HoldInv
  <2>3. slot[boxes[b].by] = b
      BY <2>1, <2>2 DEF IInv, SandboxInv, BoxInv
  <2>4. boxes[b].by \in Sandbox /\ boxes[b].by # s
      BY <1>4, <2>1, <2>3, Boxes
  <2> QED  BY <2>1, <2>2, <2>4, <1>2, <1>6
<1>17. SlotInv'
    BY <1>1, <1>5, <1>6 DEF SlotInv
<1>18. HandleInv'
    BY <1>2, <1>3, <1>7, <1>9, <1>11 DEF HandleInv, SandboxInv, IInv
<1>19. LabelInv'
  <2> SUFFICES ASSUME NEW t \in Sandbox
               PROVE  /\ label'[t] = "ready" => island'[t]
                      /\ here'[t] /\ label'[t] = "loading" =>
                            mounting' = t \/ \E b \in DOMAIN boxes' : boxes'[b].holds = t
                      /\ here'[t] => label'[t] # "detached"
      BY DEF LabelInv
  <2>1. CASE t = s
      BY <2>1, <1>2, <1>3
  <2>2. CASE t # s
    <3>1. /\ label[t] = "ready" => island[t]
          /\ here[t] /\ label[t] = "loading" =>
                mounting = t \/ \E b \in DOMAIN boxes : boxes[b].holds = t
          /\ here[t] => label[t] # "detached"
        BY DEF IInv, SandboxInv, LabelInv
    <3>2. \A b \in DOMAIN boxes : boxes[b].holds = t => boxes'[b].holds = t
      <4> SUFFICES ASSUME NEW b \in DOMAIN boxes, boxes[b].holds = t, b = slot[s]
                   PROVE  FALSE
          BY <1>6
      <4>1. boxes[b].holds = boxes[b].by
          BY DEF IInv, SandboxInv, HoldInv
      <4>2. s = boxes[b].by
          BY <1>4, <1>5, Boxes
      <4> QED  BY <4>1, <4>2, <2>2
    <3> QED  BY <2>2, <3>1, <3>2, <1>2, <1>3, <1>6, <1>9
  <2> QED  BY <2>1, <2>2
<1> QED  BY <1>7, <1>8, <1>12, <1>13, <1>14, <1>15, <1>16, <1>17, <1>18, <1>19 DEF IInv, SandboxInv

(* The reaction settles its box; whom the box held is mounted, or told     *)
(* that the load failed.                                                   *)
LEMMA ReactKeeps ==
    ASSUME IInv, React
    PROVE  IInv'
<1> DEFINE b == Head(jobs).on.box
           s == boxes[b].holds
           ok == Head(jobs).ok
           boot == s # Nobody /\ ok /\ here[s] /\ ~island[s]
<1>1. /\ jobs # <<>> /\ b # 0 /\ TakeJob
      /\ mounting' = IF boot THEN s ELSE Nobody
      /\ boxes' = [boxes EXCEPT ![b].settled = TRUE, ![b].holds = Nobody]
      /\ slot' = IF s = Nobody THEN slot ELSE [slot EXCEPT ![s] = 0]
      /\ label' = IF s # Nobody /\ ~ok /\ here[s] THEN [label EXCEPT ![s] = "error"] ELSE label
      /\ UNCHANGED <<here, moves, toggles, reduce, island, live, constellation>>
    BY DEF React
<1>2. mounting = Nobody /\ draining' \in BOOLEAN
    BY <1>1 DEF TakeJob
<1>3. /\ LoadType' /\ wasm' = wasm /\ (ok <=> wasm = "up")
      /\ Head(jobs).on \in Left /\ Left' \subseteq Left
      /\ \A r \in Left \ Left' : r = Head(jobs).on
    BY <1>1, Taken DEF IInv
<1>4. b \in DOMAIN boxes /\ boxes \in Seq(Box)
    BY <1>1, <1>3 DEF IInv, ReactionInv, SandboxType
<1>5. s \in Sandbox \cup {Nobody}
    BY <1>4, Boxes
<1>6. s # Nobody => ~boxes[b].settled /\ s = boxes[b].by /\ here[s] /\ slot[s] = b
    BY <1>4 DEF IInv, SandboxInv, HoldInv, BoxInv
<1>7. \A r \in Left \ Left' : r.box = b
    BY <1>3
<1> HIDE DEF b, ok
<1>8. /\ boxes' \in Seq(Box) /\ Len(boxes') = Len(boxes) /\ DOMAIN boxes' = DOMAIN boxes
      /\ \A c \in DOMAIN boxes : /\ boxes'[c].by = boxes[c].by
                                 /\ (boxes'[c].settled <=> c = b \/ boxes[c].settled)
                                 /\ boxes'[c].holds = IF c = b THEN Nobody ELSE boxes[c].holds
    BY <1>1, <1>4, Settling
<1> HIDE DEF s
<1>9. /\ slot' \in [Sandbox -> 0..Len(boxes)]
      /\ \A t \in Sandbox : slot'[t] = IF t = s THEN 0 ELSE slot[t]
  <2>1. slot \in [Sandbox -> 0..Len(boxes)] /\ 0 \in 0..Len(boxes)
      BY <1>4, Boxes DEF IInv, SandboxType
  <2> QED  BY <2>1, <1>1, <1>5
<1>10. /\ label' \in [Element -> Labels]
       /\ \A f \in Element : label'[f] = IF f = s /\ ~ok THEN "error" ELSE label[f]
  <2>1. label \in [Element -> Labels] /\ "error" \in Labels
      BY DEF IInv, PageType, Labels
  <2> QED  BY <2>1, <1>1, <1>5, <1>6
<1>11. mounting' \in Sandbox \cup {Nobody}
    BY <1>1, <1>5
<1>12. \A c \in DOMAIN boxes : c # 0 /\ boxes[c].by \in Sandbox /\ boxes[c].holds \in Sandbox \cup {Nobody}
    BY <1>4, Boxes
<1>13. \A t \in Sandbox : slot[t] # 0 => slot[t] \in DOMAIN boxes /\ boxes[slot[t]].by = t
    BY <1>4, Boxes DEF IInv, SandboxType, SandboxInv, SlotInv
<1>14. PageType'
    BY <1>1, <1>10 DEF PageType, IInv
<1>15. SandboxType'
    BY <1>1, <1>2, <1>8, <1>9, <1>11 DEF SandboxType, IInv
<1>16. SceneType' /\ SceneInv'
    BY <1>1, ScenesUntouched DEF IInv
<1>17. ReactionInv'
    BY <1>3, <1>8 DEF ReactionInv, IInv
<1>18. BoxInv'
  <2> SUFFICES ASSUME NEW c \in DOMAIN boxes', ~boxes'[c].settled
               PROVE  slot'[boxes'[c].by] = c /\ \E r \in Left' : r.box = c
      BY DEF BoxInv
  <2>1. c \in DOMAIN boxes /\ c # b /\ ~boxes[c].settled /\ boxes'[c].by = boxes[c].by
      BY <1>8
  <2>2. slot[boxes[c].by] = c /\ \E r \in Left : r.box = c
      BY <2>1 DEF IInv, SandboxInv, BoxInv
  <2>3. boxes[c].by # s
      BY <2>1, <2>2, <1>5, <1>6, <1>12
  <2> QED  BY <2>1, <2>2, <2>3, <1>7, <1>9, <1>12
<1>19. HoldInv'
    BY <1>1, <1>8 DEF HoldInv, SandboxInv, IInv
<1>20. SlotInv'
    BY <1>8, <1>9, <1>13 DEF SlotInv
<1>21. HandleInv'
  <2> SUFFICES ASSUME NEW t \in Sandbox
               PROVE  /\ live'[t] = IF island'[t] THEN 1 ELSE 0
                      /\ island'[t] => here'[t] /\ label'[t] = "ready" /\ wasm' = "up"
                      /\ mounting' = t => ~island'[t] /\ wasm' = "up"
      BY DEF HandleInv
  <2>1. /\ live[t] = IF island[t] THEN 1 ELSE 0
        /\ island[t] => here[t] /\ label[t] = "ready" /\ wasm = "up"
      BY DEF IInv, SandboxInv, HandleInv
  <2> QED  BY <2>1, <1>1, <1>3, <1>10
<1>22. LabelInv'
  <2> SUFFICES ASSUME NEW t \in Sandbox
               PROVE  /\ label'[t] = "ready" => island'[t]
                      /\ here'[t] /\ label'[t] = "loading" =>
                            mounting' = t \/ \E c \in DOMAIN boxes' : boxes'[c].holds = t
                      /\ here'[t] => label'[t] # "detached"
      BY DEF LabelInv
  <2>1. /\ label[t] = "ready" => island[t]
        /\ here[t] /\ label[t] = "loading" =>
              mounting = t \/ \E c \in DOMAIN boxes : boxes[c].holds = t
        /\ here[t] => label[t] # "detached"
        /\ island[t] => label[t] = "ready"
      BY DEF IInv, SandboxInv, LabelInv, HandleInv
  <2>2. CASE t = s
    <3>1. ~ok => label'[t] = "error"
        BY <2>2, <1>10
    <3>2. ok /\ ~island[t] => mounting' = t
        BY <2>2, <1>1, <1>6
    <3>3. ok => label'[t] = label[t]
        BY <1>10
    <3> QED  BY <2>1, <3>1, <3>2, <3>3, <1>1
  <2>3. CASE t # s
    <3>1. \A c \in DOMAIN boxes : boxes[c].holds = t => boxes'[c].holds = t
        BY <2>3, <1>8 DEF s
    <3> QED  BY <2>1, <2>3, <3>1, <1>1, <1>2, <1>8, <1>10
  <2> QED  BY <2>2, <2>3
<1> QED  BY <1>3, <1>14, <1>15, <1>16, <1>17, <1>18, <1>19, <1>20, <1>21, <1>22 DEF IInv, SandboxInv

(* The far side of a mount: the handle is kept only in the document.       *)
LEMMA MountReturnsKeeps ==
    ASSUME IInv, MountReturns
    PROVE  IInv'
<1>1. /\ mounting # Nobody /\ mounting' = Nobody /\ draining' \in BOOLEAN
      /\ live' = [live EXCEPT ![mounting] = IF here[mounting] THEN @ + 1 ELSE @]
      /\ island' = [island EXCEPT ![mounting] = here[mounting]]
      /\ Relabel(mounting, IF here[mounting] THEN "ready" ELSE "detached")
      /\ UNCHANGED <<here, moves, toggles, reduce, loading, boxes, slot, constellation>>
    BY DEF MountReturns
<1>2. PICK s \in Sandbox : s = mounting
    BY <1>1 DEF IInv, SandboxType
<1>3. ~island[s] /\ wasm = "up" /\ live[s] = 0
    BY <1>2 DEF IInv, SandboxInv, HandleInv
<1>4. /\ label' \in [Element -> Labels]
      /\ \A f \in Element : label'[f] = IF f = s THEN IF here[s] THEN "ready" ELSE "detached"
                                                 ELSE label[f]
  <2>1. (IF here[s] THEN "ready" ELSE "detached") \in Labels
      BY DEF Labels
  <2>2. Relabel(s, IF here[s] THEN "ready" ELSE "detached")
      BY <1>1, <1>2
  <2> QED  BY <2>1, <2>2, Labelled DEF IInv
<1>5. here[s] \in BOOLEAN
    BY DEF IInv, PageType
<1>6. /\ island' \in [Sandbox -> BOOLEAN]
      /\ \A t \in Sandbox : island'[t] = IF t = s THEN here[s] ELSE island[t]
    BY <1>1, <1>2, <1>5 DEF IInv, SandboxType
<1>7. /\ live' \in [Sandbox -> Nat]
      /\ \A t \in Sandbox : live'[t] = IF t = s THEN IF here[s] THEN 1 ELSE 0 ELSE live[t]
  <2>1. live' = [live EXCEPT ![s] = IF here[s] THEN 1 ELSE 0]
    <3>1. (IF here[s] THEN live[s] + 1 ELSE live[s]) = IF here[s] THEN 1 ELSE 0
        BY <1>3
    <3> QED  BY <1>1, <1>2, <3>1
  <2> QED  BY <2>1 DEF IInv, SandboxType
<1>8. Left' = Left /\ LoadType' /\ wasm' = wasm
    BY <1>1 DEF loading, Left, LoadType, IInv
<1>9. PageType'
    BY <1>1, <1>4 DEF PageType, IInv
<1>10. SandboxType'
    BY <1>1, <1>6, <1>7 DEF SandboxType, IInv
<1>11. SceneType' /\ SceneInv'
    BY <1>1, ScenesUntouched DEF IInv
<1>12. ReactionInv' /\ BoxInv' /\ HoldInv' /\ SlotInv'
    BY <1>1, <1>8 DEF ReactionInv, BoxInv, HoldInv, SlotInv, SandboxInv, IInv
<1>13. HandleInv'
    BY <1>1, <1>3, <1>4, <1>6, <1>7, <1>8 DEF HandleInv, SandboxInv, IInv
<1>14. LabelInv'
    BY <1>1, <1>2, <1>4, <1>6 DEF LabelInv, SandboxInv, IInv
<1> QED  BY <1>8, <1>9, <1>10, <1>11, <1>12, <1>13, <1>14 DEF IInv, SandboxInv

LEMMA MountThrowsKeeps ==
    ASSUME IInv, MountThrows
    PROVE  IInv'
<1>1. /\ mounting # Nobody /\ mounting' = Nobody /\ draining' \in BOOLEAN
      /\ Relabel(mounting, "error")
      /\ UNCHANGED <<here, moves, toggles, reduce, loading, sandbox, constellation>>
    BY DEF MountThrows
<1>2. PICK s \in Sandbox : s = mounting
    BY <1>1 DEF IInv, SandboxType
<1>3. ~island[s]
    BY <1>2 DEF IInv, SandboxInv, HandleInv
<1>4. /\ label' \in [Element -> Labels]
      /\ \A f \in Element : label'[f] = IF f = s THEN "error" ELSE label[f]
    BY <1>1, <1>2, Labelled DEF IInv, Labels
<1>5. Left' = Left /\ LoadType' /\ wasm' = wasm
    BY <1>1 DEF loading, Left, LoadType, IInv
<1>6. UNCHANGED <<boxes, slot, island, live>>
    BY <1>1 DEF sandbox
<1>7. PageType'
    BY <1>1, <1>4 DEF PageType, IInv
<1>8. SandboxType'
    BY <1>1, <1>6 DEF SandboxType, IInv
<1>9. SceneType' /\ SceneInv'
    BY <1>1, ScenesUntouched DEF IInv
<1>10. ReactionInv' /\ BoxInv' /\ HoldInv' /\ SlotInv'
    BY <1>1, <1>5, <1>6 DEF ReactionInv, BoxInv, HoldInv, SlotInv, SandboxInv, IInv
<1>11. HandleInv'
    BY <1>1, <1>3, <1>4, <1>5, <1>6 DEF HandleInv, SandboxInv, IInv
<1>12. LabelInv'
    BY <1>1, <1>2, <1>3, <1>4, <1>6 DEF LabelInv, SandboxInv, IInv
<1> QED  BY <1>5, <1>7, <1>8, <1>9, <1>10, <1>11, <1>12 DEF IInv, SandboxInv

-----------------------------------------------------------------------------
(* <ui-constellation>                                                      *)

(* What a step of constellations leaves of the sandboxes' invariant.       *)
LEMMA OthersKeep ==
    ASSUME IInv, LoadType', UNCHANGED <<mounting, sandbox>>, draining' \in BOOLEAN,
           (wasm = "up") = (wasm' = "up"),
           \A s \in Sandbox : here'[s] = here[s] /\ label'[s] = label[s],
           \A r \in Left : r.box # 0 => r \in Left',
           \A r \in Left' \ Left : r.box = 0 /\ r.of # Nobody
    PROVE  SandboxType' /\ ReactionInv' /\ SandboxInv'
<1>1. boxes \in Seq(Box)
    BY DEF IInv, SandboxType
<1>2. SandboxInv'
    BY <1>1, SandboxesUntouched DEF IInv
<1>3. SandboxType'
    BY DEF SandboxType, sandbox, IInv
<1>4. ReactionInv'
    BY DEF ReactionInv, sandbox, IInv
<1> QED  BY <1>2, <1>3, <1>4

(* #dropScene                                                              *)
LEMMA Dropping ==
    ASSUME SceneType, SceneInv, NEW K \in SUBSET Constellation, Drop(K)
    PROVE  /\ scene' \in [Constellation -> {"none", "still", "running"}]
           /\ alive' \in [Constellation -> Nat]
           /\ \A k \in Constellation : scene'[k] = IF k \in K THEN "none" ELSE scene[k]
           /\ \A k \in Constellation : alive'[k] = IF scene'[k] = "none" THEN 0 ELSE 1
<1>1. \A k \in Constellation : scene'[k] = IF k \in K THEN "none" ELSE scene[k]
    BY DEF Drop
<1>2. \A k \in Constellation : alive'[k] = IF k \in K /\ scene[k] # "none" THEN alive[k] - 1 ELSE alive[k]
    BY DEF Drop
<1>3. \A k \in Constellation : alive[k] = IF scene[k] = "none" THEN 0 ELSE 1
    BY DEF SceneInv
<1>4. \A k \in Constellation : alive'[k] = IF scene'[k] = "none" THEN 0 ELSE 1
    BY <1>1, <1>2, <1>3
<1>5. scene' \in [Constellation -> {"none", "still", "running"}]
    BY DEF Drop, SceneType
<1>6. alive' = [k \in Constellation |-> alive'[k]]
    BY DEF Drop
<1>7. alive' \in [Constellation -> Nat]
    BY <1>4, <1>6
<1> QED  BY <1>1, <1>4, <1>5, <1>7

LEMMA ConnectKeeps ==
    ASSUME IInv, NEW k \in Constellation, ConnectConstellation(k)
    PROVE  IInv'
<1>1. /\ Move(k, TRUE) /\ hears' = [hears EXCEPT ![k] = TRUE]
      /\ UNCHANGED <<drawnFor, sandbox>>
    BY DEF ConnectConstellation
<1>2. /\ here' \in [Element -> BOOLEAN] /\ moves' \in 0..MaxMoves
      /\ \A f \in Element : here'[f] = IF f = k THEN TRUE ELSE here[f]
      /\ UNCHANGED <<draining, mounting, reduce, toggles>>
    BY <1>1, Moved DEF IInv, PageType
<1>3. SceneType /\ SceneInv /\ LoadType /\ PageType
    BY DEF IInv
<1>4. /\ hears' \in [Constellation -> BOOLEAN]
      /\ \A j \in Constellation : hears'[j] = IF j = k THEN TRUE ELSE hears[j]
    BY <1>1, <1>3 DEF SceneType
<1>5. draining \in BOOLEAN /\ k \notin Sandbox
    BY DEF IInv, SandboxType
(* What each of the four ways does to label, load and scene.               *)
<1>6. /\ label' \in [Element -> Labels] /\ \A s \in Sandbox : label'[s] = label[s]
      /\ LoadType' /\ (wasm = "up") = (wasm' = "up")
      /\ Left \subseteq Left' /\ \A r \in Left' \ Left : r.box = 0 /\ r.of # Nobody
      /\ canvas' \in [Constellation -> BOOLEAN]
      /\ scene' \in [Constellation -> {"none", "still", "running"}]
      /\ alive' \in [Constellation -> Nat]
      /\ \A j \in Constellation : alive'[j] = IF scene'[j] = "none" THEN 0 ELSE 1
      /\ \A j \in Constellation : \/ scene'[j] = scene[j]
                                  \/ scene'[j] = "none"
                                  \/ j = k /\ drawnFor[k] = reduce
  <2>1. CASE scene[k] # "none" /\ drawnFor[k] # reduce
    <3>1. Rebuild({k}) /\ UNCHANGED <<label, canvas>>
        BY <2>1 DEF ConnectConstellation
    <3>2. {k} \in SUBSET Constellation /\ Drop({k})
        BY <3>1 DEF Rebuild
    <3>3. /\ LoadType' /\ (wasm = "up") = (wasm' = "up") /\ Left \subseteq Left'
          /\ \A r \in Left' \ Left : r.box = 0 /\ r.of # Nobody
        BY <1>3, <3>1, <3>2, Rebuilding
    <3>4. /\ scene' \in [Constellation -> {"none", "still", "running"}]
          /\ alive' \in [Constellation -> Nat]
          /\ \A j \in Constellation : scene'[j] = IF j \in {k} THEN "none" ELSE scene[j]
          /\ \A j \in Constellation : alive'[j] = IF scene'[j] = "none" THEN 0 ELSE 1
        BY <1>3, <3>2, Dropping
    <3> QED  BY <1>3, <3>1, <3>3, <3>4 DEF PageType, SceneType
  <2>2. CASE scene[k] # "none" /\ drawnFor[k] = reduce
    <3>1. /\ scene' = [scene EXCEPT ![k] = "running"] /\ Relabel(k, "ready")
          /\ UNCHANGED <<canvas, alive, loading>>
        BY <2>2 DEF ConnectConstellation
    <3>2. /\ label' \in [Element -> Labels]
          /\ \A f \in Element : label'[f] = IF f = k THEN "ready" ELSE label[f]
        BY <1>3, <3>1, Labelled DEF Labels
    <3>3. LoadType' /\ wasm' = wasm /\ Left' = Left
        BY <1>3, <3>1 DEF loading, LoadType, Left
    <3>4. /\ scene' \in [Constellation -> {"none", "still", "running"}]
          /\ \A j \in Constellation : scene'[j] = IF j = k THEN "running" ELSE scene[j]
        BY <1>3, <3>1 DEF SceneType
    <3>5. \A j \in Constellation : alive'[j] = IF scene'[j] = "none" THEN 0 ELSE 1
        BY <1>3, <2>2, <3>1, <3>4 DEF SceneInv
    <3> QED  BY <1>3, <1>5, <2>2, <3>1, <3>2, <3>3, <3>4, <3>5 DEF SceneType
  <2>3. CASE scene[k] = "none" /\ canvas[k]
    <3>1. UNCHANGED <<label, canvas, scene, alive, loading>>
        BY <2>3 DEF ConnectConstellation
    <3> QED  BY <1>3, <3>1 DEF PageType, SceneType, SceneInv, loading, LoadType, Left
  <2>4. CASE scene[k] = "none" /\ ~canvas[k]
    <3>1. /\ canvas' = [canvas EXCEPT ![k] = TRUE] /\ Relabel(k, "loading")
          /\ Register(<<Bound(k, TRUE)>>) /\ UNCHANGED <<scene, alive>>
        BY <2>4 DEF ConnectConstellation
    <3>2. /\ label' \in [Element -> Labels]
          /\ \A f \in Element : label'[f] = IF f = k THEN "loading" ELSE label[f]
        BY <1>3, <3>1, Labelled DEF Labels
    <3>3. Bound(k, TRUE) \in Reaction /\ Bound(k, TRUE).box = 0 /\ Bound(k, TRUE).of # Nobody
        BY DEF Bound, Reaction
    <3>4. LoadType' /\ (wasm = "up") = (wasm' = "up") /\ Left' = Left \cup {Bound(k, TRUE)}
        BY <1>3, <3>1, <3>3, One, Registered
    <3> QED  BY <1>3, <1>5, <3>1, <3>2, <3>3, <3>4 DEF SceneType, SceneInv
  <2> QED  BY <2>1, <2>2, <2>3, <2>4
<1>7. \A s \in Sandbox : here'[s] = here[s]
    BY <1>2, <1>5
<1>8. SandboxType' /\ ReactionInv' /\ SandboxInv'
    BY <1>1, <1>2, <1>5, <1>6, <1>7, OthersKeep
<1>9. PageType'
    BY <1>2, <1>3, <1>6 DEF PageType
<1>10. SceneType'
    BY <1>1, <1>3, <1>4, <1>6 DEF SceneType
<1>11. SceneInv'
  <2> SUFFICES ASSUME NEW j \in Constellation
               PROVE  /\ hears'[j] = here'[j]
                      /\ alive'[j] = IF scene'[j] = "none" THEN 0 ELSE 1
                      /\ scene'[j] = "running" => here'[j] /\ drawnFor'[j] = reduce'
      BY DEF SceneInv
  <2>1. /\ hears[j] = here[j]
        /\ scene[j] = "running" => here[j] /\ drawnFor[j] = reduce
      BY <1>3 DEF SceneInv
  <2>2. CASE j = k
      BY <2>1, <2>2, <1>1, <1>2, <1>4, <1>6
  <2>3. CASE j # k
      BY <2>1, <2>3, <1>1, <1>2, <1>4, <1>6
  <2> QED  BY <2>2, <2>3
<1> QED  BY <1>6, <1>8, <1>9, <1>10, <1>11 DEF IInv

LEMMA TeardownKeeps ==
    ASSUME IInv, NEW k \in Constellation, DisconnectConstellation(k)
    PROVE  IInv'
<1>1. /\ Move(k, FALSE) /\ hears' = [hears EXCEPT ![k] = FALSE]
      /\ scene' = [scene EXCEPT ![k] = IF @ = "none" THEN "none" ELSE "still"]
      /\ UNCHANGED <<label, canvas, alive, drawnFor, loading, sandbox>>
    BY DEF DisconnectConstellation
<1>2. /\ here' \in [Element -> BOOLEAN] /\ moves' \in 0..MaxMoves
      /\ \A f \in Element : here'[f] = IF f = k THEN FALSE ELSE here[f]
      /\ UNCHANGED <<draining, mounting, reduce, toggles>>
    BY <1>1, Moved DEF IInv, PageType
<1>3. SceneType /\ SceneInv /\ LoadType /\ PageType /\ draining \in BOOLEAN /\ k \notin Sandbox
    BY DEF IInv, SandboxType
<1>4. \A j \in Constellation :
          /\ hears'[j] = IF j = k THEN FALSE ELSE hears[j]
          /\ scene'[j] = IF j = k THEN IF scene[k] = "none" THEN "none" ELSE "still" ELSE scene[j]
    BY <1>1, <1>3 DEF SceneType
<1>5. LoadType' /\ wasm' = wasm /\ Left' = Left
    BY <1>1, <1>3 DEF loading, LoadType, Left
<1>6. \A s \in Sandbox : here'[s] = here[s] /\ label'[s] = label[s]
    BY <1>1, <1>2, <1>3
<1>7. SandboxType' /\ ReactionInv' /\ SandboxInv'
    BY <1>1, <1>2, <1>3, <1>5, <1>6, OthersKeep
<1>8. PageType'
    BY <1>1, <1>2, <1>3 DEF PageType
<1>9. SceneType'
    BY <1>1, <1>3, <1>4 DEF SceneType
<1>10. SceneInv'
  <2> SUFFICES ASSUME NEW j \in Constellation
               PROVE  /\ hears'[j] = here'[j]
                      /\ alive'[j] = IF scene'[j] = "none" THEN 0 ELSE 1
                      /\ scene'[j] = "running" => here'[j] /\ drawnFor'[j] = reduce'
      BY DEF SceneInv
  <2>1. /\ hears[j] = here[j]
        /\ alive[j] = IF scene[j] = "none" THEN 0 ELSE 1
        /\ scene[j] = "running" => here[j] /\ drawnFor[j] = reduce
      BY <1>3 DEF SceneInv
  <2>2. CASE j = k
    <3>1. scene'[j] # "running" /\ (scene'[j] = "none" <=> scene[j] = "none")
        BY <2>2, <1>4
    <3>2. hears'[j] = FALSE /\ here'[j] = FALSE
        BY <2>2, <1>2, <1>4
    <3>3. alive'[j] = alive[j]
        BY <1>1
    <3> QED  BY <2>1, <3>1, <3>2, <3>3
  <2>3. CASE j # k
      BY <2>1, <2>3, <1>1, <1>2, <1>4
  <2> QED  BY <2>2, <2>3
<1> QED  BY <1>5, <1>7, <1>8, <1>9, <1>10 DEF IInv

(* Every constellation in the document hears of the change, and loses its  *)
(* scene; the others do not draw.                                          *)
LEMMA ToggleKeeps ==
    ASSUME IInv, Toggle
    PROVE  IInv'
<1> DEFINE K == {k \in Constellation : hears[k]}
<1>1. /\ toggles < MaxToggles /\ toggles' = toggles + 1 /\ reduce' = ~reduce /\ Rebuild(K)
      /\ UNCHANGED <<here, label, moves, stack, sandbox, canvas, drawnFor, hears>>
    BY DEF Toggle
<1>2. SceneType /\ SceneInv /\ LoadType /\ PageType /\ draining \in BOOLEAN
    BY DEF IInv, SandboxType
<1>3. K \in SUBSET Constellation /\ Drop(K)
    BY <1>1 DEF Rebuild
<1>4. /\ LoadType' /\ (wasm = "up") = (wasm' = "up") /\ Left \subseteq Left'
      /\ \A r \in Left' \ Left : r.box = 0 /\ r.of # Nobody
    BY <1>1, <1>2, <1>3, Rebuilding
<1>5. /\ scene' \in [Constellation -> {"none", "still", "running"}]
      /\ alive' \in [Constellation -> Nat]
      /\ \A k \in Constellation : scene'[k] = IF k \in K THEN "none" ELSE scene[k]
      /\ \A k \in Constellation : alive'[k] = IF scene'[k] = "none" THEN 0 ELSE 1
    BY <1>2, <1>3, Dropping
<1>6. UNCHANGED <<draining, mounting>>
    BY <1>1 DEF stack
<1>7. SandboxType' /\ ReactionInv' /\ SandboxInv'
    BY <1>1, <1>2, <1>4, <1>6, OthersKeep
<1>8. PageType'
    BY <1>1, <1>2 DEF PageType
<1>9. SceneType'
    BY <1>1, <1>2, <1>5 DEF SceneType
<1>10. SceneInv'
    BY <1>1, <1>2, <1>5 DEF SceneInv
<1> QED  BY <1>4, <1>7, <1>8, <1>9, <1>10 DEF IInv

(* A reaction of a constellation is taken.                                 *)
LEMMA BootTaken ==
    ASSUME IInv, jobs # <<>>, TakeJob, UNCHANGED mounting, Head(jobs).on.of # Nobody
    PROVE  /\ LoadType' /\ wasm' = wasm /\ draining' \in BOOLEAN
           /\ Head(jobs).on.of \in Constellation
           /\ \A r \in Left : r.box # 0 => r \in Left'
           /\ Left' \subseteq Left
<1>1. /\ LoadType' /\ wasm' = wasm /\ Left' \subseteq Left
      /\ Head(jobs).on \in Left /\ Head(jobs).on \in Reaction
      /\ \A r \in Left \ Left' : r = Head(jobs).on
    BY Taken DEF IInv
<1>2. Head(jobs).on.box = 0
    BY <1>1 DEF IInv, ReactionInv
<1>3. Head(jobs).on.of \in Constellation
    BY <1>1 DEF Reaction
<1>4. draining' \in BOOLEAN
    BY DEF TakeJob
<1> QED  BY <1>1, <1>2, <1>3, <1>4

LEMMA BootKeeps ==
    ASSUME IInv, Boot
    PROVE  IInv'
<1> DEFINE k == Head(jobs).on.of
<1>1. /\ UNCHANGED mounting /\ TakeJob /\ k # Nobody
      /\ IF here[k] /\ canvas[k]
           THEN Draw(k) \/ (Drop({k}) /\ Relabel(k, "error") /\ UNCHANGED drawnFor)
           ELSE UNCHANGED <<label, scene, alive, drawnFor>>
      /\ UNCHANGED <<here, moves, toggles, reduce, sandbox, canvas, hears>>
      /\ jobs # <<>>
    BY DEF Boot, TakeJob
<1>2. /\ LoadType' /\ wasm' = wasm /\ draining' \in BOOLEAN /\ k \in Constellation
      /\ \A r \in Left : r.box # 0 => r \in Left'
      /\ Left' \subseteq Left
    BY <1>1, BootTaken
<1> HIDE DEF k
<1>3. SceneType /\ SceneInv /\ PageType /\ k \notin Sandbox
    BY <1>2 DEF IInv
<1>4. /\ label' \in [Element -> Labels] /\ \A s \in Sandbox : label'[s] = label[s]
      /\ scene' \in [Constellation -> {"none", "still", "running"}]
      /\ alive' \in [Constellation -> Nat]
      /\ drawnFor' \in [Constellation -> BOOLEAN]
      /\ \A j \in Constellation : alive'[j] = IF scene'[j] = "none" THEN 0 ELSE 1
      /\ \A j \in Constellation : \/ scene'[j] = scene[j] /\ drawnFor'[j] = drawnFor[j]
                                  \/ scene'[j] # "running"
                                  \/ j = k /\ here[k] /\ drawnFor'[k] = reduce
  <2>1. CASE here[k] /\ Draw(k)
    <3>1. PICK result \in {"panicked", "ready", "stuck"} :
              /\ scene' = [scene EXCEPT ![k] = CASE result = "ready" -> "running"
                                                 [] result = "stuck" -> "still"
                                                 [] OTHER -> "none"]
              /\ alive' = [alive EXCEPT ![k] = (IF scene[k] = "none" THEN @ ELSE @ - 1)
                                                + (IF result = "panicked" THEN 0 ELSE 1)]
              /\ Relabel(k, IF result = "stuck" THEN "error" ELSE result)
        BY <2>1 DEF Draw
    <3>2. drawnFor' = [drawnFor EXCEPT ![k] = reduce]
        BY <2>1 DEF Draw
    <3> DEFINE drawn == CASE result = "ready" -> "running"
                          [] result = "stuck" -> "still"
                          [] OTHER -> "none"
    <3>3. drawn \in {"none", "still", "running"} /\ (drawn = "none" <=> result = "panicked")
        OBVIOUS
    <3>4. scene' = [scene EXCEPT ![k] = drawn]
        BY <3>1
    <3> HIDE DEF drawn
    <3>5. /\ scene' \in [Constellation -> {"none", "still", "running"}]
          /\ \A j \in Constellation : scene'[j] = IF j = k THEN drawn ELSE scene[j]
        BY <1>2, <1>3, <3>3, <3>4 DEF SceneType
    <3>6. alive[k] = IF scene[k] = "none" THEN 0 ELSE 1
        BY <1>2, <1>3 DEF SceneInv
    <3>7. alive' = [alive EXCEPT ![k] = IF drawn = "none" THEN 0 ELSE 1]
      <4>1. (IF scene[k] = "none" THEN alive[k] ELSE alive[k] - 1)
                + (IF result = "panicked" THEN 0 ELSE 1) = IF drawn = "none" THEN 0 ELSE 1
          BY <3>3, <3>6
      <4> QED  BY <3>1, <4>1
    <3>8. /\ alive' \in [Constellation -> Nat]
          /\ \A j \in Constellation : alive'[j] = IF scene'[j] = "none" THEN 0 ELSE 1
        BY <1>2, <1>3, <3>5, <3>7 DEF SceneType, SceneInv
    <3>9. (IF result = "stuck" THEN "error" ELSE result) \in Labels
        BY DEF Labels
    <3>10. label' \in [Element -> Labels] /\ \A s \in Sandbox : label'[s] = label[s]
        BY <1>2, <1>3, <3>1, <3>9, Labelled
    <3>11. /\ drawnFor' \in [Constellation -> BOOLEAN]
           /\ \A j \in Constellation : drawnFor'[j] = IF j = k THEN reduce ELSE drawnFor[j]
        BY <1>2, <1>3, <3>2 DEF SceneType, PageType
    <3> QED  BY <2>1, <3>5, <3>8, <3>10, <3>11
  <2>2. CASE Drop({k}) /\ Relabel(k, "error") /\ UNCHANGED drawnFor
    <3>1. {k} \in SUBSET Constellation
        BY <1>2
    <3>2. /\ scene' \in [Constellation -> {"none", "still", "running"}]
          /\ alive' \in [Constellation -> Nat]
          /\ \A j \in Constellation : scene'[j] = IF j \in {k} THEN "none" ELSE scene[j]
          /\ \A j \in Constellation : alive'[j] = IF scene'[j] = "none" THEN 0 ELSE 1
        BY <1>3, <2>2, <3>1, Dropping
    <3>3. "error" \in Labels /\ k \in Element
        BY <1>2 DEF Labels
    <3>4. label' \in [Element -> Labels] /\ \A s \in Sandbox : label'[s] = label[s]
        BY <1>3, <2>2, <3>3, Labelled
    <3> QED  BY <1>3, <2>2, <3>2, <3>4 DEF SceneType
  <2>3. CASE UNCHANGED <<label, scene, alive, drawnFor>>
      BY <1>3, <2>3 DEF PageType, SceneType, SceneInv
  <2> QED  BY <1>1, <2>1, <2>2, <2>3
<1>5. SandboxType' /\ ReactionInv' /\ SandboxInv'
    BY <1>1, <1>2, <1>4, OthersKeep
<1>6. PageType'
    BY <1>1, <1>3, <1>4 DEF PageType
<1>7. SceneType'
    BY <1>1, <1>3, <1>4 DEF SceneType
<1>8. SceneInv'
  <2> SUFFICES ASSUME NEW j \in Constellation
               PROVE  /\ hears'[j] = here'[j]
                      /\ alive'[j] = IF scene'[j] = "none" THEN 0 ELSE 1
                      /\ scene'[j] = "running" => here'[j] /\ drawnFor'[j] = reduce'
      BY DEF SceneInv
  <2>1. /\ hears[j] = here[j]
        /\ scene[j] = "running" => here[j] /\ drawnFor[j] = reduce
      BY <1>3 DEF SceneInv
  <2> QED  BY <2>1, <1>1, <1>4
<1> QED  BY <1>2, <1>5, <1>6, <1>7, <1>8 DEF IInv

LEMMA BootFailsKeeps ==
    ASSUME IInv, BootFails
    PROVE  IInv'
<1> DEFINE k == Head(jobs).on.of
<1>1. /\ UNCHANGED mounting /\ TakeJob /\ k # Nobody /\ jobs # <<>>
      /\ label' = label \/ label' = [label EXCEPT ![k] = "error"]
      /\ UNCHANGED <<here, moves, toggles, reduce, sandbox, constellation>>
    BY DEF BootFails, TakeJob
<1>2. /\ LoadType' /\ wasm' = wasm /\ draining' \in BOOLEAN /\ k \in Constellation
      /\ \A r \in Left : r.box # 0 => r \in Left'
      /\ Left' \subseteq Left
    BY <1>1, BootTaken
<1> HIDE DEF k
<1>3. label' \in [Element -> Labels] /\ \A s \in Sandbox : label'[s] = label[s]
    BY <1>1, <1>2 DEF IInv, PageType, Labels
<1>4. SandboxType' /\ ReactionInv' /\ SandboxInv'
    BY <1>1, <1>2, <1>3, OthersKeep
<1>5. PageType'
    BY <1>1, <1>3 DEF PageType, IInv
<1>6. SceneType' /\ SceneInv'
    BY <1>1, ScenesUntouched DEF IInv
<1> QED  BY <1>2, <1>4, <1>5, <1>6 DEF IInv

(* The load settles while no reaction is left of an earlier one.           *)
LEMMA SettleKeeps ==
    ASSUME IInv, NEW ok \in BOOLEAN, Settle(ok)
    PROVE  IInv'
<1>1. LoadType' /\ Left' = Left /\ wasm = "pending" /\ (wasm' = "up" <=> ok)
    BY Settled DEF IInv
<1>2. mounting = Nobody /\ UNCHANGED <<page, mounting, sandbox, constellation>> /\ draining' \in BOOLEAN
    BY DEF Settle
<1>3. UNCHANGED <<here, label, moves, toggles, reduce, boxes, slot, island, live>>
    BY <1>2 DEF page, sandbox
<1>4. PageType' /\ SandboxType'
    BY <1>2, <1>3 DEF PageType, SandboxType, IInv
<1>5. SceneType' /\ SceneInv'
    BY <1>2, <1>3, ScenesUntouched DEF IInv
<1>6. ReactionInv' /\ BoxInv' /\ HoldInv' /\ SlotInv'
    BY <1>1, <1>2, <1>3 DEF ReactionInv, BoxInv, HoldInv, SlotInv, SandboxInv, IInv
<1>7. HandleInv'
    BY <1>1, <1>2, <1>3 DEF HandleInv, SandboxInv, IInv
<1>8. LabelInv'
    BY <1>2, <1>3 DEF LabelInv, SandboxInv, IInv
<1> QED  BY <1>1, <1>4, <1>5, <1>6, <1>7, <1>8 DEF IInv, SandboxInv

-----------------------------------------------------------------------------
(* The theorems                                                            *)

LEMMA InitIInv == Init => IInv
<1> SUFFICES ASSUME Init PROVE IInv
    OBVIOUS
<1>1. PageType
    BY DEF Init, PageType, Labels
<1>2. LoadType
    BY EmptySeq DEF Init, LoadType
<1>3. SandboxType
  <2>1. boxes \in Seq(Box) /\ Len(boxes) = 0
      BY EmptySeq DEF Init
  <2>2. slot \in [Sandbox -> 0..Len(boxes)]
      BY <2>1 DEF Init
  <2> QED  BY <2>1, <2>2 DEF Init, SandboxType
<1>4. SceneType
    BY DEF Init, SceneType
<1>5. Left = {} /\ DOMAIN boxes = {}
    BY DEF Init, Left, ToSet
<1>6. ReactionInv /\ SandboxInv
    BY <1>5 DEF Init, ReactionInv, SandboxInv, BoxInv, HoldInv, SlotInv, HandleInv, LabelInv
<1>7. SceneInv
    BY DEF Init, SceneInv
<1> QED  BY <1>1, <1>2, <1>3, <1>4, <1>6, <1>7 DEF IInv

LEMMA StutterKeeps ==
    ASSUME IInv, UNCHANGED vars
    PROVE  IInv'
<1>1. /\ UNCHANGED <<here, label, moves, toggles, reduce, wasm, waiting, jobs, draining, mounting>>
      /\ UNCHANGED <<boxes, slot, island, live, constellation>>
    BY DEF vars, page, loading, stack, sandbox
<1>2. Left' = Left
    BY <1>1 DEF Left
<1>3. PageType' /\ LoadType' /\ SandboxType'
    BY <1>1 DEF IInv, PageType, LoadType, SandboxType
<1>4. SceneType' /\ SceneInv'
    BY <1>1, ScenesUntouched DEF IInv
<1>5. ReactionInv' /\ BoxInv' /\ HoldInv' /\ SlotInv'
    BY <1>1, <1>2 DEF ReactionInv, BoxInv, HoldInv, SlotInv, SandboxInv, IInv
<1>6. HandleInv' /\ LabelInv'
    BY <1>1 DEF HandleInv, LabelInv, SandboxInv, IInv
<1> QED  BY <1>3, <1>4, <1>5, <1>6 DEF IInv, SandboxInv

(* The page may move its elements at any point, inside a mount included:   *)
(* boxes, handles, labels and scenes stay in step.                         *)
THEOREM IslandInvariant == Spec => []IInv
<1>1. ASSUME IInv, [Next]_vars
      PROVE  IInv'
  <2>1. CASE Proceed
      BY <1>1, <2>1, ReactKeeps, MountReturnsKeeps, MountThrowsKeeps, BootKeeps, BootFailsKeeps DEF Proceed
  <2>2. CASE \E ok \in BOOLEAN : Settle(ok)
      BY <1>1, <2>2, SettleKeeps
  <2>3. CASE \E s \in Sandbox : ConnectSandbox(s) \/ DisconnectSandbox(s)
      BY <1>1, <2>3, ConnectAgain, ConnectAnew, DisconnectKeeps
  <2>4. CASE \E k \in Constellation : ConnectConstellation(k) \/ DisconnectConstellation(k)
      BY <1>1, <2>4, ConnectKeeps, TeardownKeeps
  <2>5. CASE Toggle
      BY <1>1, <2>5, ToggleKeeps
  <2>6. CASE UNCHANGED vars
      BY <1>1, <2>6, StutterKeeps
  <2> QED  BY <1>1, <2>1, <2>2, <2>3, <2>4, <2>5, <2>6 DEF Next
<1> QED  BY InitIInv, <1>1, PTL DEF Spec

(* Every variable of the loader keeps its type, and reactions are told of  *)
(* a load that is up only while it is.                                     *)
THEOREM IslandTypeCorrect == Spec => []TypeOK
<1>1. IInv => TypeOK
    BY DEF IInv, PageType, LoadType, SandboxType, SceneType, TypeOK
<1> QED  BY <1>1, IslandInvariant, PTL

(* A load that stalls holds no element that was removed, and a sandbox has *)
(* one reaction to come at most, however often it is moved meanwhile.      *)
LEMMA NothingHeld == IInv => StalledLoadHoldsNothing
<1> SUFFICES ASSUME IInv PROVE StalledLoadHoldsNothing
    OBVIOUS
<1>1. ASSUME NEW s \in Sandbox
      PROVE  Cardinality({b \in DOMAIN boxes : boxes[b].by = s /\ ~boxes[b].settled}) <= 1
  <2> DEFINE B == {b \in DOMAIN boxes : boxes[b].by = s /\ ~boxes[b].settled}
  <2>1. B \in SUBSET {slot[s]}
      BY DEF IInv, SandboxInv, BoxInv
  <2>2. IsFiniteSet({slot[s]}) /\ Cardinality({slot[s]}) = 1
      BY FS_Singleton
  <2> HIDE DEF B
  <2>3. Cardinality(B) <= Cardinality({slot[s]})
      BY <2>1, <2>2, FS_Subset
  <2> QED  BY <2>2, <2>3 DEF B
<1>2. \A b \in DOMAIN boxes : boxes[b].holds # Nobody => here[boxes[b].holds]
    BY DEF IInv, SandboxInv, HoldInv
<1> QED  BY <1>1, <1>2 DEF StalledLoadHoldsNothing

(* No order of moves, loads and mounts leaks a handle made for a sandbox,  *)
(* or a removed element to a load that stalls.                             *)
THEOREM HandlesDoNotLeak == Spec => []NoLeakedHandle
<1>1. IInv => NoLeakedHandle
  <2> SUFFICES ASSUME IInv PROVE NoLeakedHandle
      OBVIOUS
  <2>1. \A s \in Sandbox : /\ live[s] = IF island[s] THEN 1 ELSE 0
                           /\ island[s] => here[s]
      BY DEF IInv, SandboxInv, HandleInv
  <2> QED  BY <2>1, NothingHeld DEF NoLeakedHandle
<1> QED  BY <1>1, IslandInvariant, PTL

(* What data-island says of a sandbox is so: ready with a handle, loading  *)
(* with a reaction to come, never detached in the document.                *)
THEOREM LabelsAreHonest == Spec => []SandboxLabelHonest
<1>1. IInv => SandboxLabelHonest
  <2> SUFFICES ASSUME IInv, NEW s \in Sandbox
               PROVE  /\ island[s] => label[s] \in {"ready", "loading"}
                      /\ label[s] = "ready" => island[s]
                      /\ here[s] /\ label[s] = "loading" => Awaited(s)
                      /\ here[s] /\ mounting # s => label[s] # "detached"
      BY DEF SandboxLabelHonest
  <2>1. ASSUME NEW b \in DOMAIN boxes, boxes[b].holds = s
        PROVE  Awaited(s)
    <3>1. ~boxes[b].settled /\ b # 0
        BY <2>1, Boxes DEF IInv, SandboxType, SandboxInv, HoldInv
    <3>2. PICK r \in Left : r.box = b
        BY <3>1 DEF IInv, SandboxInv, BoxInv
    <3> QED  BY <2>1, <3>1, <3>2 DEF Awaited
  <2>2. here[s] /\ label[s] = "loading" => Awaited(s)
      BY <2>1 DEF IInv, SandboxInv, LabelInv, Awaited
  <2> QED  BY <2>2 DEF IInv, SandboxInv, LabelInv, HandleInv
<1> QED  BY <1>1, IslandInvariant, PTL

(* A constellation has one scene at most, and what draws is in the         *)
(* document and drawn for the preference the visitor has now.              *)
THEOREM ScenesFollowThePage == Spec => []SceneFollowsPage
<1>1. IInv => SceneFollowsPage
    BY DEF IInv, SceneInv, SceneFollowsPage
<1> QED  BY <1>1, IslandInvariant, PTL
=============================================================================
