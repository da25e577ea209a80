---------------------------- MODULE FastLoopProofs ----------------------------
(***************************************************************************)
(* What a gate pass hands to the panel is witnessed, clean and pictured    *)
(* truly, for every set of processes, every turn and every number of       *)
(* passes.  The pictures of one observation are told apart by their file   *)
(* names, so what they show is proved for spans that keep different names  *)
(* as path segments (DistinctNames); whose render they are needs no such   *)
(* hypothesis, because mkdir gives a directory to one observation only.    *)
(***************************************************************************)
EXTENDS FastLoop, SequenceTheorems, FiniteSetTheorems, TLAPS

DistinctNames ==
    \A v \in Variant : \A s, t \in SpansOf(v) : SafeName[s] = SafeName[t] => s = t

-----------------------------------------------------------------------------
(* The inductive invariant                                                 *)

Active(p) == at[p].step # "idle"
Rendering(p) == at[p].step \in {"dir", "capture", "audit"}
(* The pictures of this observation are on disk.                           *)
Pictured(p) == at[p].step = "audit" \/ (at[p].step = "report" /\ ~at[p].refused)

(* A pass walks the candidates in order, one observation for each.         *)
WalkInv(p) ==
    Active(p) =>
        /\ Len(at[p].todo) + Len(results[p]) = Len(Candidates)
        /\ \A i \in 1..Len(at[p].todo) : at[p].todo[i] = Candidates[Len(results[p]) + i]
        /\ \A i \in 1..Len(results[p]) : results[p][i].variant = Candidates[i]
        /\ at[p].step # "read" => at[p].todo # <<>>

(* A run belongs to one pass of one process.                               *)
RunInv(p) ==
    /\ Active(p) => at[p].run \in 1..passes
    /\ \A i \in 1..Len(results[p]) : results[p][i].run \in 1..passes
    /\ Active(p) => \A i \in 1..Len(results[p]) : results[p][i].run = at[p].run
    /\ \A q \in Process \ {p} : Active(p) =>
          /\ Active(q) => at[q].run # at[p].run
          /\ \A i \in 1..Len(results[q]) : results[q][i].run # at[p].run

Made(s) == s.source # "probe"

StockRuns == \A i \in 1..Len(stock) : Made(stock[i]) => stock[i].run \in 1..passes

(* What was found moving in a pass that still runs was found in a variant  *)
(* that it has done with.                                                  *)
MotionInv(p) ==
    Active(p) => \A i \in 1..Len(stock) :
        (stock[i].kind = "motion-violation" /\ stock[i].source = "harness"
         /\ stock[i].run = at[p].run) =>
           \E j \in 1..Len(results[p]) : stock[i].page = Candidates[j]

(* What was read of the probe is still what the stock holds.               *)
ProbeInv(p) ==
    /\ at[p].seen <= Len(stock)
    /\ Active(p) /\ at[p].step # "read" =>
          \A i \in 1..at[p].seen :
              stock[i].source = "probe" /\ stock[i].span = Subject(p) => i \in at[p].probe
    /\ \A i \in at[p].probe : i \in 1..at[p].seen /\ stock[i].source = "probe"

RefusedInv(p) == Rendering(p) => ~at[p].refused

(* A directory belongs to one observation, and is empty until its pictures *)
(* are taken.                                                              *)
DirInv(p) ==
    /\ at[p].step = "capture" =>
          /\ at[p].dir \in dirs
          /\ \A f \in DOMAIN disk : f[1] # at[p].dir
          /\ \A q \in Process \ {p} : at[q].step = "capture" => at[q].dir # at[p].dir
    /\ Pictured(p) =>
          /\ at[p].dir \in dirs
          /\ at[p].sensed.shots \subseteq SpansOf(Subject(p))
          /\ FullPage(p) \in DOMAIN disk
          /\ disk[FullPage(p)] = [of |-> "full-page", run |-> at[p].run]
          /\ \A s \in at[p].sensed.shots :
                /\ FileOf(p, s) \in DOMAIN disk
                /\ disk[FileOf(p, s)].run = at[p].run
                /\ DistinctNames => disk[FileOf(p, s)].of = s

DiskInv == \A f \in DOMAIN disk : f[1] \in dirs

StockPictures ==
    \A i \in 1..Len(stock) : stock[i].kind = "screenshot" =>
        /\ stock[i].path \in DOMAIN disk
        /\ disk[stock[i].path].run = stock[i].run
        /\ DistinctNames => disk[stock[i].path].of = stock[i].of

PanelPictures ==
    \A p \in Process : \A i \in 1..Len(results[p]) :
        results[p][i].screenshot # <<>> =>
            /\ results[p][i].screenshot \in DOMAIN disk
            /\ disk[results[p][i].screenshot].run = results[p][i].run

ResultsSeen ==
    \A p \in Process : \A i \in 1..Len(results[p]) : results[p][i].seen <= Len(stock)

(* PassIsWitnessed and PassMeansClean by the index.                        *)
Witnesses(s, r, g) ==
    s.kind = "gate" /\ s.span = r.variant /\ s.run = r.run /\ s.gate = g /\ s.passed

MovedIn(s, r) ==
    s.kind = "motion-violation" /\ s.source = "harness" /\ s.run = r.run
    /\ s.page = r.variant

WitnessInv ==
    \A p \in Process : \A i \in 1..Len(results[p]) : results[p][i].passed =>
        \A g \in Range(REQUIRED_GATES) : \E k \in 1..Len(stock) :
            Witnesses(stock[k], results[p][i], g)

CleanInv ==
    \A p \in Process : \A i \in 1..Len(results[p]) : results[p][i].passed =>
        /\ \A k \in 1..results[p][i].seen :
              ~(stock[k].source = "probe" /\ stock[k].span = results[p][i].variant)
        /\ \A k \in 1..Len(stock) : ~MovedIn(stock[k], results[p][i])

PassInv(p) ==
    /\ WalkInv(p) /\ RunInv(p) /\ MotionInv(p)
    /\ ProbeInv(p) /\ RefusedInv(p) /\ DirInv(p)

LoopInv ==
    /\ \A p \in Process : PassInv(p)
    /\ StockRuns /\ DiskInv /\ ResultsSeen
    /\ StockPictures /\ PanelPictures /\ WitnessInv /\ CleanInv

IInv == TypeOK /\ LoopInv

-----------------------------------------------------------------------------
(* Sequences                                                               *)

LEMMA InRange ==
    ASSUME NEW S, NEW s \in Seq(S), NEW x
    PROVE  x \in Range(s) <=> \E i \in 1..Len(s) : x = s[i]
BY DEF Range

(* A finite set laid out as a sequence holds nothing else.                 *)
LEMMA LaidOut ==
    ASSUME NEW S, IsFiniteSet(S)
    PROVE  SetToSeq(S) \in Seq(S)
<1>1. ExistsBijection(1..Cardinality(S), S) /\ Cardinality(S) \in Nat
    BY FS_CardinalityType
<1>2. \E f \in [1..Cardinality(S) -> S] : IsInjective(f)
    BY <1>1 DEF ExistsBijection, Bijection, Injection, IsInjective
<1>3. SetToSeq(S) \in [1..Cardinality(S) -> S]
    BY <1>2 DEF SetToSeq
<1> QED
    BY <1>1, <1>3

LEMMA Offset ==
    ASSUME NEW a \in Nat, NEW b \in Nat, NEW j \in 1..b
    PROVE  a + j \in 1..(a + b)
OBVIOUS

LEMMA Shift ==
    ASSUME NEW a \in Nat, NEW n \in Nat, NEW i \in 1..(a - 1)
    PROVE  i + 1 \in 1..a /\ n + (i + 1) = (n + 1) + i
OBVIOUS

LEMMA TwoAreFinite ==
    ASSUME NEW x, NEW y
    PROVE  IsFiniteSet({x, y})
<1>1. IsFiniteSet({x})
    BY FS_Singleton
<1>2. IsFiniteSet({x} \cup {y})
    BY <1>1, FS_AddElement
<1>3. {x, y} = {x} \cup {y}
    OBVIOUS
<1> QED
    BY <1>2, <1>3

(* The two halves of a concatenation.                                      *)
LEMMA Glued ==
    ASSUME NEW s \in Seq(Signal), NEW t \in Seq(Signal)
    PROVE  /\ s \o t \in Seq(Signal) /\ Len(s \o t) = Len(s) + Len(t)
           /\ \A i \in 1..Len(s) : (s \o t)[i] = s[i]
           /\ \A i \in 1..Len(t) : (s \o t)[Len(s) + i] = t[i]
           /\ \A i \in 1..Len(s \o t) : i \in 1..Len(s) \/ i - Len(s) \in 1..Len(t)
OBVIOUS

(* What has been begun stays what it was when the stock grows.             *)
Grown(news) ==
    /\ stock' \in Seq(Signal)
    /\ Len(stock') = Len(stock) + Len(news)
    /\ \A i \in 1..Len(stock) : stock'[i] = stock[i]
    /\ \A i \in 1..Len(news) : stock'[Len(stock) + i] = news[i]
    /\ \A i \in 1..Len(stock') : i > Len(stock) =>
          \E j \in 1..Len(news) : stock'[i] = news[j]

LEMMA ConcatGrows ==
    ASSUME TypeOK, NEW news \in Seq(Signal), stock' = stock \o news
    PROVE  Grown(news)
<1>1. stock \in Seq(Signal) /\ Len(stock) \in Nat /\ Len(news) \in Nat
    BY DEF TypeOK
<1>2. /\ stock' \in Seq(Signal)
      /\ Len(stock') = Len(stock) + Len(news)
      /\ \A i \in 1..Len(stock) + Len(news) :
            stock'[i] = IF i <= Len(stock) THEN stock[i] ELSE news[i - Len(stock)]
    BY <1>1, ConcatProperties
<1> QED
    BY <1>1, <1>2 DEF Grown

-----------------------------------------------------------------------------
(* Types                                                                   *)

LEMMA Shape ==
    ASSUME TypeOK
    PROVE  /\ stock \in Seq(Signal) /\ Len(stock) \in Nat
           /\ DOMAIN disk \subseteq Path
           /\ dirs \subseteq Dir
           /\ passes \in Nat
           /\ \A p \in Process : at[p] \in Pass
           /\ \A p \in Process : results[p] \in Seq(Result) /\ Len(results[p]) \in Nat
BY BoundsAssumption DEF TypeOK

LEMMA PassFields ==
    ASSUME NEW x \in Pass
    PROVE  /\ x.step \in {"idle", "read", "dir", "capture", "audit", "report"}
           /\ x.run \in Nat /\ x.todo \in Seq(Variant) /\ Len(x.todo) \in Nat
           /\ x.probe \in SUBSET Nat /\ x.seen \in Nat
           /\ x.refused \in BOOLEAN /\ x.unknown \in BOOLEAN
           /\ x.dir \in Dir \cup {<<>>}
           /\ x.sensed.shots \in SUBSET Span
           /\ x.sensed.axe \in BOOLEAN /\ x.sensed.moves \in BOOLEAN
BY DEF Pass, Sensed

LEMMA Names ==
    /\ \A v \in Variant : v \in Span /\ RootSpan[v] \in Span /\ SpansOf(v) \subseteq Span
    /\ \A s \in Span : SafeName[s] \in Range(SafeName)
BY NamesAssumption DEF Span, SpansOf, BodySpan, Range

LEMMA IdleType ==
    /\ Idle \in Pass /\ Idle.step = "idle" /\ Idle.todo = <<>>
    /\ Idle.seen = 0 /\ Idle.probe = {}
BY DEF Idle, Pass, NoReport, Sensed

LEMMA CandidatesType ==
    /\ Candidates \in Seq(Variant) /\ Len(Candidates) \in Nat
    /\ \A i \in 1..Len(Candidates) : Candidates[i] \in Variant
    /\ \A i, j \in 1..Len(Candidates) : Candidates[i] = Candidates[j] => i = j
BY CandidatesAssumption DEF IsInjective

LEMMA SubjectIs ==
    ASSUME TypeOK, NEW p \in Process, WalkInv(p), Active(p), at[p].todo # <<>>
    PROVE  /\ Subject(p) \in Variant
           /\ Len(results[p]) + 1 \in 1..Len(Candidates)
           /\ Subject(p) = Candidates[Len(results[p]) + 1]
           /\ Len(at[p].todo) >= 1
<1>1. at[p].todo \in Seq(Variant) /\ Len(at[p].todo) \in Nat /\ Len(results[p]) \in Nat
    BY Shape, PassFields
<1>2. Len(at[p].todo) >= 1 /\ Subject(p) = at[p].todo[1] /\ Subject(p) \in Variant
    BY <1>1 DEF Subject
<1>3. /\ Len(at[p].todo) + Len(results[p]) = Len(Candidates)
      /\ \A i \in 1..Len(at[p].todo) : at[p].todo[i] = Candidates[Len(results[p]) + i]
    BY DEF WalkInv
<1>4. 1 \in 1..Len(at[p].todo) /\ Len(results[p]) + 1 \in 1..Len(Candidates)
  <2> DEFINE a == Len(at[p].todo)
             b == Len(results[p])
             c == Len(Candidates)
  <2>1. a \in Nat /\ b \in Nat /\ c \in Nat /\ a >= 1 /\ a + b = c
      BY <1>1, <1>2, <1>3, CandidatesType
  <2> HIDE DEF a, b, c
  <2>2. 1 \in 1..a /\ b + 1 \in 1..c
      BY <2>1
  <2> QED
      BY <2>2 DEF a, b, c
<1> QED
    BY <1>2, <1>3, <1>4

LEMMA FileType ==
    ASSUME NEW p \in Process, at[p].dir \in Dir
    PROVE  /\ FullPage(p) \in Path
           /\ \A s \in Span : FileOf(p, s) \in Path
           /\ \A s : FileOf(p, s) # FullPage(p)
BY Names DEF FullPage, FileOf, Path

-----------------------------------------------------------------------------
(* What an observation adds to the stock                                   *)

Pictures(p) == {Picture(p, s, FileOf(p, s), s) : s \in at[p].sensed.shots}

(* The kinds of signal that p writes.                                      *)
NewSignal(p, s) ==
    /\ s \in Signal
    /\ s.source # "probe" /\ s.run = at[p].run
    /\ s.kind = "motion-violation" => s.page = Subject(p) /\ at[p].sensed.moves
    /\ s.kind = "screenshot" =>
          /\ s.path \in DOMAIN disk
          /\ disk[s.path].run = at[p].run
          /\ DistinctNames => disk[s.path].of = s.of

LEMMA PictureIsNew ==
    ASSUME TypeOK, NEW p \in Process, NEW span \in Span, NEW path \in DOMAIN disk,
           NEW of \in Span \cup {"full-page"}, path \in Path,
           disk[path].run = at[p].run, DistinctNames => disk[path].of = of
    PROVE  NewSignal(p, Picture(p, span, path, of))
<1>1. at[p].run \in Nat
    BY Shape, PassFields
<1>2. Picture(p, span, path, of) \in PictureSignal
    BY <1>1 DEF Picture, PictureSignal
<1>3. Picture(p, span, path, of).kind = "screenshot"
      /\ Picture(p, span, path, of).source = "harness"
      /\ Picture(p, span, path, of).path = path /\ Picture(p, span, path, of).of = of
      /\ Picture(p, span, path, of).run = at[p].run
    BY DEF Picture
<1> QED
    BY <1>2, <1>3 DEF NewSignal, Signal

(* At its report a pass has a subject, and its pictures if it rendered.    *)
Reporting(p) == at[p].step = "report" /\ WalkInv(p) /\ DirInv(p)

LEMMA HarnessIsNew ==
    ASSUME TypeOK, NEW p \in Process, Reporting(p)
    PROVE  /\ Harness(p) \in Seq(Signal)
           /\ \A i \in 1..Len(Harness(p)) : NewSignal(p, Harness(p)[i])
<1> DEFINE New == {s \in Signal : NewSignal(p, s)}
           Page == <<Picture(p, Subject(p), FullPage(p), "full-page")>>
           Motion == [source |-> "harness", kind |-> "motion-violation",
                      span |-> RootSpan[Subject(p)], run |-> at[p].run,
                      page |-> Subject(p)]
           Moved == IF ~at[p].sensed.moves THEN <<>> ELSE <<Motion>>
<1>1. at[p] \in Pass /\ Active(p) /\ at[p].todo # <<>>
    BY Shape DEF Reporting, Active, WalkInv
<1>2. Subject(p) \in Variant /\ Subject(p) \in Span /\ RootSpan[Subject(p)] \in Span
    BY <1>1, SubjectIs, Names DEF Reporting
<1>3. CASE at[p].refused
    BY <1>3 DEF Harness
<1>4. CASE ~at[p].refused
  <2>1. Pictured(p) /\ DirInv(p)
      BY <1>4 DEF Pictured, Reporting
  <2>2. at[p].dir \in Dir /\ at[p].sensed.shots \subseteq Span
      BY <1>1, <2>1, Shape, PassFields DEF DirInv
  <2>3. Page \in Seq(New)
    <3>1. NewSignal(p, Picture(p, Subject(p), FullPage(p), "full-page"))
      <4>1. FullPage(p) \in DOMAIN disk /\ FullPage(p) \in Path
            /\ disk[FullPage(p)].run = at[p].run /\ disk[FullPage(p)].of = "full-page"
          BY <2>1, <2>2, FileType DEF DirInv
      <4> QED
          BY <1>2, <4>1, PictureIsNew
    <3> QED
        BY <3>1 DEF NewSignal
  <2>4. SetToSeq(Pictures(p)) \in Seq(New)
    <3>1. \A s \in at[p].sensed.shots : Picture(p, s, FileOf(p, s), s) \in New
      <4> TAKE s \in at[p].sensed.shots
      <4>1. FileOf(p, s) \in DOMAIN disk /\ FileOf(p, s) \in Path /\ s \in Span
            /\ disk[FileOf(p, s)].run = at[p].run
            /\ (DistinctNames => disk[FileOf(p, s)].of = s)
          BY <2>1, <2>2, FileType DEF DirInv
      <4>2. NewSignal(p, Picture(p, s, FileOf(p, s), s))
          BY <4>1, PictureIsNew
      <4> QED
          BY <4>2 DEF NewSignal
    <3>2. Pictures(p) \subseteq New
        BY <3>1 DEF Pictures
    <3>3. IsFiniteSet(Pictures(p))
      <4>1. at[p].sensed.shots \subseteq {Subject(p), RootSpan[Subject(p)]}
          BY <2>1 DEF DirInv, SpansOf, BodySpan
      <4> DEFINE T == {Picture(p, Subject(p), FileOf(p, Subject(p)), Subject(p)),
                       Picture(p, RootSpan[Subject(p)], FileOf(p, RootSpan[Subject(p)]),
                               RootSpan[Subject(p)])}
      <4>2. Pictures(p) \subseteq T
          BY <4>1 DEF Pictures
      <4>3. IsFiniteSet(T)
          BY TwoAreFinite
      <4> QED
          BY <4>2, <4>3, FS_Subset
    <3>4. SetToSeq(Pictures(p)) \in Seq(Pictures(p))
        BY <3>3, LaidOut
    <3> QED
        BY <3>2, <3>4, SeqMonotonic
  <2>5. Moved \in Seq(New)
    <3>1. CASE ~at[p].sensed.moves
        BY <3>1
    <3>2. CASE at[p].sensed.moves
      <4>1. Motion \in MotionSignal
          BY <1>1, <1>2, PassFields DEF MotionSignal
      <4>2. NewSignal(p, Motion)
          BY <3>2, <4>1 DEF NewSignal, Signal
      <4> QED
          BY <3>2, <4>2 DEF NewSignal
    <3> QED
        BY <3>1, <3>2
  <2>6. Harness(p) = (Page \o SetToSeq(Pictures(p))) \o Moved
      BY <1>4 DEF Harness, Pictures
  <2>7. Page \o SetToSeq(Pictures(p)) \in Seq(New)
      BY <2>3, <2>4, ConcatProperties
  <2>8. Harness(p) \in Seq(New)
    <3> HIDE DEF New, Page, Moved
    <3> QED
      BY <2>5, <2>6, <2>7, ConcatProperties
  <2>9. New \subseteq Signal /\ \A s \in New : NewSignal(p, s)
      OBVIOUS
  <2> HIDE DEF New
  <2>10. Harness(p) \in Seq(Signal)
      BY <2>8, <2>9, SeqMonotonic
  <2>11. \A i \in 1..Len(Harness(p)) : Harness(p)[i] \in New
      BY <2>8, ElementOfSeq
  <2> QED
      BY <2>9, <2>10, <2>11
<1> QED
    BY <1>3, <1>4

(* The gate's line of the evidence.                                        *)
Line(p, g) ==
    [source |-> "gate", kind |-> "gate", span |-> Subject(p), run |-> at[p].run,
     gate |-> g, passed |-> Passes(p, g), evaluated |-> Evaluated(p, g)]

LEMMA Bar ==
    /\ REQUIRED_GATES \in Seq(Range(REQUIRED_GATES))
    /\ Len(REQUIRED_GATES) = 7 /\ DOMAIN REQUIRED_GATES = 1..7
    /\ \A g \in Range(REQUIRED_GATES) : \E i \in 1..7 : g = REQUIRED_GATES[i]
    /\ \A i \in 1..7 : REQUIRED_GATES[i] \in Range(REQUIRED_GATES)
<1>1. Len(REQUIRED_GATES) = 7 /\ DOMAIN REQUIRED_GATES = 1..7
    BY DEF REQUIRED_GATES
<1>2. REQUIRED_GATES \in Seq({REQUIRED_GATES[i] : i \in 1..7})
    BY DEF REQUIRED_GATES
<1>3. Range(REQUIRED_GATES) = {REQUIRED_GATES[i] : i \in 1..7}
    BY <1>1 DEF Range
<1> QED
    BY <1>1, <1>2, <1>3

LEMMA EmittedIsNew ==
    ASSUME TypeOK, NEW p \in Process, Reporting(p)
    PROVE  /\ Emitted(p) \in Seq(Signal)
           /\ \A i \in 1..Len(Emitted(p)) : NewSignal(p, Emitted(p)[i])
           /\ Len(Emitted(p)) = 8
           /\ \A i \in 1..7 : Emitted(p)[i + 1] = Line(p, REQUIRED_GATES[i])
<1> DEFINE First == [source |-> "gate", kind |-> "sanitize", span |-> Subject(p),
                     run |-> at[p].run, accepted |-> ~at[p].refused]
           Lines == [i \in DOMAIN REQUIRED_GATES |-> Line(p, REQUIRED_GATES[i])]
<1>1. at[p] \in Pass /\ Active(p) /\ at[p].todo # <<>>
    BY Shape DEF Reporting, Active, WalkInv
<1>2. Subject(p) \in Variant /\ Subject(p) \in Span
    BY <1>1, SubjectIs, Names DEF Reporting
<1>3. First \in Signal /\ NewSignal(p, First)
  <2>1. First \in SanitizeSignal
      BY <1>1, <1>2, PassFields DEF SanitizeSignal
  <2> QED
      BY <2>1 DEF Signal, NewSignal
<1>4. \A g \in Range(REQUIRED_GATES) : Line(p, g) \in Signal /\ NewSignal(p, Line(p, g))
  <2> TAKE g \in Range(REQUIRED_GATES)
  <2>1. Passes(p, g) \in BOOLEAN /\ Evaluated(p, g) \in BOOLEAN
      BY DEF Passes, Evaluated
  <2>2. Line(p, g) \in GateSignal
      BY <1>1, <1>2, <2>1, PassFields DEF GateSignal, Line
  <2> QED
      BY <2>2 DEF Signal, NewSignal, Line
<1>5. Emitted(p) = <<First>> \o Lines
    BY DEF Emitted, Line, GateResult
<1>6. Lines \in Seq(Signal) /\ Len(Lines) = 7
    BY <1>4, Bar
<1>7. \A i \in 1..7 : Lines[i] = Line(p, REQUIRED_GATES[i])
    BY Bar
<1> DEFINE Top == <<First>>
<1>8. Top \in Seq(Signal) /\ Len(Top) = 1 /\ Top[1] = First
    BY <1>3
<1>8a. Emitted(p) = Top \o Lines
    BY <1>5
<1> HIDE DEF First, Lines, Top
<1>9. /\ Emitted(p) \in Seq(Signal)
      /\ Len(Emitted(p)) = Len(Top) + Len(Lines)
      /\ \A i \in 1..Len(Top) : Emitted(p)[i] = Top[i]
      /\ \A i \in 1..Len(Lines) : Emitted(p)[Len(Top) + i] = Lines[i]
  <2>1. Top \in Seq(Signal) /\ Lines \in Seq(Signal)
      BY <1>6, <1>8
  <2>2. /\ Top \o Lines \in Seq(Signal)
        /\ Len(Top \o Lines) = Len(Top) + Len(Lines)
        /\ \A i \in 1..Len(Top) : (Top \o Lines)[i] = Top[i]
        /\ \A i \in 1..Len(Lines) : (Top \o Lines)[Len(Top) + i] = Lines[i]
      BY ONLY <2>1, Glued
  <2> QED
      BY <1>8a, <2>2
<1>10. Len(Emitted(p)) = 8 /\ \A i \in 1..7 : Emitted(p)[i + 1] = Line(p, REQUIRED_GATES[i])
  <2>1. \A i \in 1..7 : 1 + i = i + 1
      OBVIOUS
  <2>2. \A i \in 1..7 : Emitted(p)[i + 1] = Lines[i]
      BY <1>6, <1>8, <1>9, <2>1
  <2> QED
      BY <1>6, <1>7, <1>8, <1>9, <2>2
<1>11. Emitted(p)[1] = First
    BY <1>8, <1>9
<1>12. \A i \in 1..8 : NewSignal(p, Emitted(p)[i])
  <2> TAKE i \in 1..8
  <2>1. CASE i = 1
      BY <2>1, <1>3, <1>11
  <2>2. CASE i # 1
    <3>1. i - 1 \in 1..7 /\ (i - 1) + 1 = i
        BY <2>2
    <3> QED
        BY <3>1, <1>4, <1>10, Bar
  <2> QED
      BY <2>1, <2>2
<1> QED
    BY <1>9, <1>10, <1>12

LEMMA FreshIsNew ==
    ASSUME TypeOK, NEW p \in Process, Reporting(p)
    PROVE  /\ Fresh(p) \in Seq(Signal)
           /\ \A i \in 1..Len(Fresh(p)) : NewSignal(p, Fresh(p)[i])
           /\ \A g \in Range(REQUIRED_GATES) :
                 \E i \in 1..Len(Fresh(p)) : Fresh(p)[i] = Line(p, g)
<1>1. /\ Harness(p) \in Seq(Signal) /\ Len(Harness(p)) \in Nat
      /\ Emitted(p) \in Seq(Signal) /\ Len(Emitted(p)) = 8
    BY HarnessIsNew, EmittedIsNew
<1>2. /\ Fresh(p) \in Seq(Signal)
      /\ Len(Fresh(p)) = Len(Harness(p)) + Len(Emitted(p))
      /\ \A i \in 1..Len(Harness(p)) : Fresh(p)[i] = Harness(p)[i]
      /\ \A i \in 1..Len(Emitted(p)) : Fresh(p)[Len(Harness(p)) + i] = Emitted(p)[i]
      /\ \A i \in 1..Len(Fresh(p)) :
            i \in 1..Len(Harness(p)) \/ i - Len(Harness(p)) \in 1..Len(Emitted(p))
    BY <1>1, Glued DEF Fresh
<1>3. ASSUME NEW i \in 1..Len(Fresh(p))
      PROVE  NewSignal(p, Fresh(p)[i])
  <2>1. CASE i \in 1..Len(Harness(p))
      BY <2>1, <1>2, HarnessIsNew
  <2>2. CASE i - Len(Harness(p)) \in 1..Len(Emitted(p))
    <3>1. Len(Harness(p)) + (i - Len(Harness(p))) = i
        BY <1>1
    <3>2. Fresh(p)[i] = Emitted(p)[i - Len(Harness(p))]
        BY <1>2, <2>2, <3>1
    <3> QED
        BY <2>2, <3>2, EmittedIsNew
  <2> QED
      BY <1>2, <2>1, <2>2
<1>4. ASSUME NEW g \in Range(REQUIRED_GATES)
      PROVE  \E i \in 1..Len(Fresh(p)) : Fresh(p)[i] = Line(p, g)
  <2>1. PICK i \in 1..7 : g = REQUIRED_GATES[i]
      BY Bar
  <2>2. i + 1 \in 1..Len(Emitted(p))
      BY <1>1
  <2>3. Len(Harness(p)) + (i + 1) \in 1..Len(Fresh(p))
    <3>1. Len(Harness(p)) + (i + 1) \in 1..(Len(Harness(p)) + Len(Emitted(p)))
        BY <1>1, <2>2, Offset
    <3> QED
        BY <3>1, <1>2
  <2>4. Fresh(p)[Len(Harness(p)) + (i + 1)] = Emitted(p)[i + 1]
      BY <1>2, <2>2
  <2> QED
      BY <2>1, <2>3, <2>4, EmittedIsNew
<1> QED
    BY <1>2, <1>3, <1>4

-----------------------------------------------------------------------------
(* What a step does to the pass that takes it, and leaves of the others    *)

Others(p) == \A q \in Process \ {p} : at'[q] = at[q] /\ results'[q] = results[q]

Stays(p) ==
    /\ Active(p) /\ at'[p].step # "idle"
    /\ at'[p].step # "read" /\ at[p].todo # <<>>
    /\ at'[p].run = at[p].run /\ at'[p].todo = at[p].todo
    /\ results'[p] = results[p] /\ passes' = passes

(* A rendering step leaves alone what was read and judged before it.       *)
Renders(p) ==
    /\ Stays(p) /\ Rendering(p)
    /\ at'[p].seen = at[p].seen /\ at'[p].probe = at[p].probe
    /\ at'[p].refused = at[p].refused
    /\ stock' = stock

Begins(p) ==
    /\ ~Active(p) /\ at'[p].step = "read"
    /\ passes' = passes + 1 /\ at'[p].run = passes + 1
    /\ at'[p].todo = Candidates /\ results'[p] = <<>>
    /\ at'[p].seen = 0 /\ at'[p].probe = {}
    /\ stock' = stock /\ disk' = disk /\ dirs' = dirs

Ends(p) ==
    /\ Active(p) /\ at'[p] = Idle /\ passes' = passes /\ disk' = disk /\ dirs' = dirs
    /\ results'[p] = results[p] \/ results'[p] = <<>>

Extended(p) ==
    /\ stock' \in Seq(Signal)
    /\ Len(stock) <= Len(stock')
    /\ \A i \in 1..Len(stock) : stock'[i] = stock[i]
    /\ \A i \in 1..Len(stock') : i > Len(stock) => NewSignal(p, stock'[i])

Accepts(p) ==
    /\ at[p].step = "report" /\ passes' = passes /\ disk' = disk /\ dirs' = dirs
    /\ at'[p] = NextVariant(p)
    /\ results'[p] = Append(results[p], Observation(p))
    /\ \A g \in Range(REQUIRED_GATES) : \E k \in 1..Len(stock') : stock'[k] = Line(p, g)

LEMMA BeginEffect ==
    ASSUME TypeOK, NEW p \in Process, Begin(p)
    PROVE  /\ Others(p) /\ Begins(p) /\ beacons' = beacons
           /\ at' \in [Process -> Pass] /\ results' \in [Process -> Seq(Result)]
<1>1. at \in [Process -> Pass] /\ results \in [Process -> Seq(Result)]
    BY DEF TypeOK
<1> DEFINE new == [Idle EXCEPT !.step = "read", !.run = passes + 1, !.todo = Candidates]
<1>2. /\ new \in Pass /\ new.step = "read" /\ new.run = passes + 1
      /\ new.todo = Candidates /\ new.seen = 0 /\ new.probe = {}
  <2>1. passes + 1 \in Nat /\ Candidates \in Seq(Variant)
      BY Shape, CandidatesType
  <2> DEFINE run == passes + 1
  <2> HIDE DEF run
  <2>2. LET x == [Idle EXCEPT !.step = "read", !.run = run, !.todo = Candidates]
        IN  x \in Pass /\ x.step = "read" /\ x.run = run
            /\ x.todo = Candidates /\ x.seen = 0 /\ x.probe = {}
    <3>1. run \in Nat
        BY <2>1 DEF run
    <3> QED
        BY <2>1, <3>1, IdleType DEF Pass
  <2> QED
      BY <2>2 DEF run
<1>3. at' = [at EXCEPT ![p] = new] /\ results' = [results EXCEPT ![p] = <<>>]
    BY DEF Begin
<1> HIDE DEF new
<1>4. at'[p] = new /\ results'[p] = <<>> /\ Others(p)
    BY <1>1, <1>3 DEF Others
<1>5. at' \in [Process -> Pass] /\ results' \in [Process -> Seq(Result)]
    BY <1>1, <1>2, <1>3
<1> QED
    BY <1>2, <1>4, <1>5 DEF Begin, Begins, Active

LEMMA RegulateEffect ==
    ASSUME TypeOK, NEW p \in Process, Regulate(p)
    PROVE  /\ Others(p) /\ Stays(p)
           /\ at'[p].step \in {"dir", "report"}
           /\ at'[p].step = "dir" <=> ~at'[p].refused
           /\ at'[p].seen \in Nat /\ at'[p].seen <= Len(stock)
           /\ at'[p].probe = {i \in 1..at'[p].seen : /\ stock[i].source = "probe"
                                                     /\ stock[i].span = Subject(p)}
           /\ at' \in [Process -> Pass]
           /\ UNCHANGED <<stock, disk, dirs, results, passes, beacons>>
<1>1. at \in [Process -> Pass] /\ at[p] \in Pass /\ Len(stock) \in Nat
    BY Shape DEF TypeOK
<1>2. PICK seen \in {0, Len(stock)}, refused \in BOOLEAN, unknown \in BOOLEAN :
          /\ unknown => refused
          /\ at' = [at EXCEPT
                ![p].step = IF refused THEN "report" ELSE "dir",
                ![p].seen = seen,
                ![p].probe = {i \in 1..seen : /\ stock[i].source = "probe"
                                              /\ stock[i].span = Subject(p)},
                ![p].refused = refused,
                ![p].unknown = unknown]
    BY DEF Regulate
<1> DEFINE held == {i \in 1..seen : /\ stock[i].source = "probe"
                                    /\ stock[i].span = Subject(p)}
           new == [at[p] EXCEPT !.step = IF refused THEN "report" ELSE "dir",
                                !.seen = seen, !.probe = held,
                                !.refused = refused, !.unknown = unknown]
<1>3. seen \in Nat /\ seen <= Len(stock) /\ held \in SUBSET Nat
    BY <1>1
<1>4. at' = [at EXCEPT ![p] = new]
    BY <1>1, <1>2
<1>5. /\ new \in Pass /\ new.step = (IF refused THEN "report" ELSE "dir")
      /\ new.seen = seen /\ new.probe = held /\ new.refused = refused
      /\ new.run = at[p].run /\ new.todo = at[p].todo
  <2> HIDE DEF held
  <2> QED
    BY <1>1, <1>3 DEF Pass
<1>6. at'[p] = new /\ \A q \in Process \ {p} : at'[q] = at[q]
  <2> HIDE DEF new
  <2> QED
    BY <1>1, <1>4
<1>7. at' \in [Process -> Pass]
  <2> HIDE DEF new
  <2> QED
    BY <1>1, <1>4, <1>5
<1>8. /\ at[p].step = "read" /\ at[p].todo # <<>>
      /\ UNCHANGED <<stock, disk, dirs, results, passes, beacons>>
    BY DEF Regulate
<1>9. /\ at'[p].step = (IF refused THEN "report" ELSE "dir") /\ at'[p].refused = refused
      /\ at'[p].run = at[p].run /\ at'[p].todo = at[p].todo
      /\ at'[p].seen = seen /\ at'[p].probe = held
    BY <1>5, <1>6
<1> HIDE DEF new
<1>10. Others(p) /\ Stays(p)
    BY <1>6, <1>8, <1>9 DEF Others, Stays, Active
<1> QED
    BY <1>3, <1>7, <1>8, <1>9, <1>10

LEMMA MakeDirEffect ==
    ASSUME TypeOK, NEW p \in Process, at[p].todo # <<>>, Subject(p) \in Variant, MakeDir(p)
    PROVE  /\ Others(p) /\ Renders(p)
           /\ at'[p].step = "capture"
           /\ at'[p].dir \in Dir /\ at'[p].dir \notin dirs
           /\ dirs' = dirs \cup {at'[p].dir}
           /\ at' \in [Process -> Pass]
           /\ UNCHANGED <<stock, disk, results, passes, beacons>>
<1>1. at \in [Process -> Pass] /\ at[p] \in Pass /\ dirs \subseteq Dir /\ MaxObs \in Nat
    BY Shape, BoundsAssumption DEF TypeOK
<1>2. PICK n \in (1..MaxObs) \ Taken(Subject(p)) :
          /\ dirs' = dirs \cup {<<SafeName[Subject(p)], n>>}
          /\ at' = [at EXCEPT ![p].step = "capture", ![p].dir = <<SafeName[Subject(p)], n>>]
    BY DEF MakeDir
<1> DEFINE made == <<SafeName[Subject(p)], n>>
           new == [at[p] EXCEPT !.step = "capture", !.dir = made]
<1>3. made \in Dir
    BY <1>1, Names DEF Dir
<1>4. made \notin dirs
  <2> SUFFICES ASSUME made \in dirs PROVE FALSE
      OBVIOUS
  <2>1. made \in {e \in dirs : e[1] = SafeName[Subject(p)]} /\ made[2] = n
      OBVIOUS
  <2>2. n \in Taken(Subject(p))
      BY <2>1 DEF Taken
  <2> QED
      BY <2>2
<1>5. dirs' = dirs \cup {made} /\ at' = [at EXCEPT ![p] = new]
    BY <1>1, <1>2
<1> HIDE DEF made
<1>6. /\ new \in Pass /\ new.step = "capture" /\ new.dir = made
      /\ new.run = at[p].run /\ new.todo = at[p].todo /\ new.seen = at[p].seen
      /\ new.probe = at[p].probe /\ new.refused = at[p].refused
    BY <1>1, <1>3 DEF Pass
<1> HIDE DEF new
<1>7. at'[p] = new /\ (\A q \in Process \ {p} : at'[q] = at[q]) /\ at' \in [Process -> Pass]
    BY <1>1, <1>5, <1>6
<1>8. at[p].step = "dir" /\ UNCHANGED <<stock, disk, results, passes, beacons>>
    BY DEF MakeDir
<1>9. Others(p) /\ Renders(p)
    BY <1>6, <1>7, <1>8 DEF Others, Renders, Stays, Active, Rendering
<1> QED
    BY <1>3, <1>4, <1>5, <1>6, <1>7, <1>8, <1>9

LEMMA CaptureEffect ==
    ASSUME TypeOK, NEW p \in Process, at[p].todo # <<>>, Subject(p) \in Variant, Capture(p)
    PROVE  /\ Others(p) /\ Renders(p)
           /\ at[p].step = "capture" /\ at'[p].step = "audit" /\ at'[p].dir = at[p].dir
           /\ at'[p].sensed.shots \subseteq SpansOf(Subject(p))
           /\ disk' = [f \in DOMAIN disk \cup Written(p, at'[p].sensed.shots) |->
                         IF f \in Written(p, at'[p].sensed.shots)
                         THEN [of |-> ShownOn(p, at'[p].sensed.shots, f), run |-> at[p].run]
                         ELSE disk[f]]
           /\ at' \in [Process -> Pass]
           /\ UNCHANGED <<stock, dirs, results, passes, beacons>>
<1>1. at \in [Process -> Pass] /\ at[p] \in Pass
    BY Shape DEF TypeOK
<1>2. PICK seen \in SUBSET SpansOf(Subject(p)) :
          /\ disk' = [f \in DOMAIN disk \cup Written(p, seen) |->
                         IF f \in Written(p, seen)
                         THEN [of |-> ShownOn(p, seen, f), run |-> at[p].run]
                         ELSE disk[f]]
          /\ at' = [at EXCEPT ![p].step = "audit", ![p].sensed.shots = seen]
    BY DEF Capture
<1> DEFINE new == [at[p] EXCEPT !.step = "audit", !.sensed.shots = seen]
<1>3. seen \subseteq Span
    BY Names
<1>4. at' = [at EXCEPT ![p] = new]
    BY <1>1, <1>2
<1>5. /\ new \in Pass /\ new.step = "audit" /\ new.sensed.shots = seen /\ new.dir = at[p].dir
      /\ new.run = at[p].run /\ new.todo = at[p].todo /\ new.seen = at[p].seen
      /\ new.probe = at[p].probe /\ new.refused = at[p].refused
    BY <1>1, <1>3 DEF Pass, Sensed
<1> HIDE DEF new
<1>6. at'[p] = new /\ (\A q \in Process \ {p} : at'[q] = at[q]) /\ at' \in [Process -> Pass]
    BY <1>1, <1>4, <1>5
<1>7. at[p].step = "capture" /\ UNCHANGED <<stock, dirs, results, passes, beacons>>
    BY DEF Capture
<1>8. Others(p) /\ Renders(p)
    BY <1>5, <1>6, <1>7 DEF Others, Renders, Stays, Active, Rendering
<1>9. at'[p].sensed.shots = seen
    BY <1>5, <1>6
<1> QED
    BY <1>2, <1>5, <1>6, <1>7, <1>8, <1>9

LEMMA AuditEffect ==
    ASSUME TypeOK, NEW p \in Process, at[p].todo # <<>>, Audit(p)
    PROVE  /\ Others(p) /\ Renders(p)
           /\ at[p].step = "audit" /\ at'[p].step = "report" /\ at'[p].dir = at[p].dir
           /\ at'[p].sensed.shots = at[p].sensed.shots
           /\ at' \in [Process -> Pass]
           /\ UNCHANGED <<stock, disk, dirs, results, passes, beacons>>
<1>1. at \in [Process -> Pass] /\ at[p] \in Pass
    BY Shape DEF TypeOK
<1>2. PICK clean \in BOOLEAN, moves \in BOOLEAN :
          at' = [at EXCEPT ![p].step = "report", ![p].sensed.axe = clean,
                           ![p].sensed.moves = moves]
    BY DEF Audit
<1> DEFINE new == [at[p] EXCEPT !.step = "report", !.sensed.axe = clean,
                                !.sensed.moves = moves]
<1>3. at' = [at EXCEPT ![p] = new]
    BY <1>1, <1>2
<1>4. /\ new \in Pass /\ new.step = "report" /\ new.sensed.shots = at[p].sensed.shots
      /\ new.dir = at[p].dir
      /\ new.run = at[p].run /\ new.todo = at[p].todo /\ new.seen = at[p].seen
      /\ new.probe = at[p].probe /\ new.refused = at[p].refused
    BY <1>1 DEF Pass, Sensed
<1> HIDE DEF new
<1>5. at'[p] = new /\ (\A q \in Process \ {p} : at'[q] = at[q]) /\ at' \in [Process -> Pass]
    BY <1>1, <1>3, <1>4
<1>6. at[p].step = "audit" /\ UNCHANGED <<stock, disk, dirs, results, passes, beacons>>
    BY DEF Audit
<1>7. Others(p) /\ Renders(p)
    BY <1>4, <1>5, <1>6 DEF Others, Renders, Stays, Active, Rendering
<1> QED
    BY <1>4, <1>5, <1>6, <1>7

LEMMA EndEffect ==
    ASSUME TypeOK, NEW p \in Process, Raise(p) \/ Crash(p) \/ Return(p)
    PROVE  /\ Others(p) /\ Ends(p) /\ stock' = stock /\ beacons' = beacons
           /\ at' \in [Process -> Pass] /\ results' \in [Process -> Seq(Result)]
<1>1. at \in [Process -> Pass] /\ results \in [Process -> Seq(Result)]
    BY DEF TypeOK
<1>2. Active(p) /\ at' = [at EXCEPT ![p] = Idle]
      /\ (results' = [results EXCEPT ![p] = <<>>] \/ results' = results)
    BY DEF Raise, Crash, Return, Active
<1>3. at'[p] = Idle /\ (\A q \in Process \ {p} : at'[q] = at[q]) /\ at' \in [Process -> Pass]
  <2> HIDE DEF Idle
  <2> QED
    BY <1>1, <1>2, IdleType
<1>4. /\ results'[p] = <<>> \/ results'[p] = results[p]
      /\ \A q \in Process \ {p} : results'[q] = results[q]
      /\ results' \in [Process -> Seq(Result)]
  <2>1. CASE results' = results
      BY <1>1, <2>1
  <2>2. CASE results' = [results EXCEPT ![p] = <<>>]
      BY <1>1, <2>2
  <2> QED
      BY <1>2, <2>1, <2>2
<1>5. stock' = stock /\ disk' = disk /\ dirs' = dirs /\ passes' = passes /\ beacons' = beacons
    BY DEF Raise, Crash, Return
<1> QED
    BY <1>2, <1>3, <1>4, <1>5 DEF Others, Ends

LEMMA NextVariantType ==
    ASSUME TypeOK, NEW p \in Process, at[p].todo # <<>>
    PROVE  /\ NextVariant(p) \in Pass
           /\ NextVariant(p).step = "read" /\ NextVariant(p).run = at[p].run
           /\ NextVariant(p).todo = Tail(at[p].todo)
           /\ NextVariant(p).seen = 0 /\ NextVariant(p).probe = {}
<1>1. at[p].run \in Nat /\ at[p].todo \in Seq(Variant)
    BY Shape, PassFields
<1>2. Tail(at[p].todo) \in Seq(Variant)
    BY <1>1, HeadTailProperties
<1> QED
    BY <1>1, <1>2, IdleType DEF NextVariant, Pass

LEMMA ScreenshotIs ==
    ASSUME TypeOK, NEW p \in Process, Reporting(p)
    PROVE  \/ ScreenshotOf(p) = <<>>
           \/ /\ ScreenshotOf(p) \in DOMAIN disk
              /\ disk[ScreenshotOf(p)].run = at[p].run
<1>1. CASE at[p].refused
    BY <1>1 DEF ScreenshotOf
<1>2. CASE ~at[p].refused
  <2>1. Pictured(p) /\ DirInv(p)
      BY <1>2 DEF Pictured, Reporting
  <2>2. FullPage(p) \in DOMAIN disk /\ disk[FullPage(p)].run = at[p].run
      BY <2>1 DEF DirInv
  <2>3. \A s \in at[p].sensed.shots :
           FileOf(p, s) \in DOMAIN disk /\ disk[FileOf(p, s)].run = at[p].run
      BY <2>1 DEF DirInv
  <2>4. \/ ScreenshotOf(p) = FullPage(p)
        \/ \E s \in at[p].sensed.shots : ScreenshotOf(p) = FileOf(p, s)
      BY <1>2 DEF ScreenshotOf
  <2> QED
      BY <2>2, <2>3, <2>4
<1> QED
    BY <1>1, <1>2

LEMMA ObservationType ==
    ASSUME TypeOK, NEW p \in Process, Reporting(p)
    PROVE  Observation(p) \in Result
<1>1. Active(p) /\ at[p].todo # <<>>
    BY DEF Reporting, Active, WalkInv
<1>2. Subject(p) \in Variant
    BY <1>1, SubjectIs DEF Reporting
<1>3. at[p].run \in Nat /\ at[p].seen \in Nat
    BY Shape, PassFields
<1>4. ScreenshotOf(p) \in Path \cup {<<>>}
    BY ScreenshotIs, Shape
<1>5. Passed(p) \in BOOLEAN
    BY DEF Passed
<1> QED
    BY <1>2, <1>3, <1>4, <1>5 DEF Observation, Result

LEMMA ObservationFields ==
    ASSUME NEW p \in Process
    PROVE  /\ Observation(p).variant = Subject(p) /\ Observation(p).run = at[p].run
           /\ Observation(p).passed = Passed(p) /\ Observation(p).seen = at[p].seen
           /\ Observation(p).screenshot = ScreenshotOf(p)
BY DEF Observation

LEMMA ConcludeEffect ==
    ASSUME TypeOK, NEW p \in Process, WalkInv(p), DirInv(p), Conclude(p)
    PROVE  /\ Reporting(p) /\ Others(p) /\ Extended(p) /\ (Accepts(p) \/ Ends(p))
           /\ at' \in [Process -> Pass] /\ results' \in [Process -> Seq(Result)]
           /\ beacons' = beacons
<1>1. at \in [Process -> Pass] /\ results \in [Process -> Seq(Result)]
    BY DEF TypeOK
<1>2. /\ Reporting(p) /\ at[p].todo # <<>> /\ at[p].step = "report"
      /\ UNCHANGED <<disk, dirs, passes, beacons>>
    BY DEF Conclude, Reporting, WalkInv, Active
<1>3. Fresh(p) \in Seq(Signal) /\ Len(Fresh(p)) \in Nat
    BY <1>2, FreshIsNew
<1>4. CASE /\ stock' = stock \o Fresh(p)
           /\ results' = [results EXCEPT ![p] = Append(@, Observation(p))]
           /\ at' = [at EXCEPT ![p] = NextVariant(p)]
  <2>1. Grown(Fresh(p))
      BY <1>3, <1>4, ConcatGrows
  <2>2. Len(stock) \in Nat
      BY Shape
  <2>3. Extended(p)
    <3>1. stock' \in Seq(Signal) /\ Len(stock) <= Len(stock')
          /\ \A i \in 1..Len(stock) : stock'[i] = stock[i]
        BY <1>3, <2>1, <2>2 DEF Grown
    <3>2. \A i \in 1..Len(stock') : i > Len(stock) => NewSignal(p, stock'[i])
        BY <1>2, <2>1, FreshIsNew DEF Grown
    <3> QED
        BY <3>1, <3>2 DEF Extended
  <2>4. ASSUME NEW g \in Range(REQUIRED_GATES)
        PROVE  \E k \in 1..Len(stock') : stock'[k] = Line(p, g)
    <3>1. PICK i \in 1..Len(Fresh(p)) : Fresh(p)[i] = Line(p, g)
        BY <1>2, FreshIsNew
    <3>2. Len(stock) + i \in 1..(Len(stock) + Len(Fresh(p)))
        BY <1>3, <2>2, Offset
    <3>3. stock'[Len(stock) + i] = Fresh(p)[i] /\ Len(stock') = Len(stock) + Len(Fresh(p))
        BY <2>1 DEF Grown
    <3> QED
        BY <3>1, <3>2, <3>3
  <2>5. /\ at'[p] = NextVariant(p) /\ (\A q \in Process \ {p} : at'[q] = at[q])
        /\ at' \in [Process -> Pass]
      BY <1>1, <1>2, <1>4, NextVariantType
  <2>6. Append(results[p], Observation(p)) \in Seq(Result)
      BY <1>1, <1>2, ObservationType
  <2>7. /\ results'[p] = Append(results[p], Observation(p))
        /\ \A q \in Process \ {p} : results'[q] = results[q]
        /\ results' \in [Process -> Seq(Result)]
      BY <1>1, <1>4, <2>6
  <2>8. Accepts(p) /\ Others(p)
      BY <1>2, <2>4, <2>5, <2>7 DEF Accepts, Others
  <2> QED
      BY <1>2, <2>3, <2>5, <2>7, <2>8
<1>5. CASE /\ \E n \in TornLengths \cap 0..(Len(Fresh(p)) - 1) :
                stock' = stock \o SubSeq(Fresh(p), 1, n)
           /\ results' = [results EXCEPT ![p] = <<>>]
           /\ at' = [at EXCEPT ![p] = Idle]
  <2>1. PICK n \in 0..(Len(Fresh(p)) - 1) : stock' = stock \o SubSeq(Fresh(p), 1, n)
      BY <1>5
  <2> DEFINE news == SubSeq(Fresh(p), 1, n)
  <2>2. news \in Seq(Signal) /\ Len(news) \in Nat
        /\ \A i \in 1..Len(news) : i \in 1..Len(Fresh(p)) /\ news[i] = Fresh(p)[i]
      BY <1>3
  <2>3. stock' = stock \o news
      BY <2>1
  <2> HIDE DEF news
  <2>4. Grown(news) /\ Len(stock) \in Nat
      BY <2>2, <2>3, ConcatGrows, Shape
  <2>5. Extended(p)
    <3>1. stock' \in Seq(Signal) /\ Len(stock) <= Len(stock')
          /\ \A i \in 1..Len(stock) : stock'[i] = stock[i]
        BY <2>2, <2>4 DEF Grown
    <3>2. \A i \in 1..Len(news) : NewSignal(p, news[i])
        BY <1>2, <2>2, FreshIsNew
    <3>3. \A i \in 1..Len(stock') : i > Len(stock) => NewSignal(p, stock'[i])
        BY <2>4, <3>2 DEF Grown
    <3> QED
        BY <3>1, <3>3 DEF Extended
  <2>6. /\ at'[p] = Idle /\ (\A q \in Process \ {p} : at'[q] = at[q])
        /\ at' \in [Process -> Pass]
    <3> HIDE DEF Idle
    <3> QED
      BY <1>1, <1>5, IdleType
  <2>7. /\ results'[p] = <<>> /\ (\A q \in Process \ {p} : results'[q] = results[q])
        /\ results' \in [Process -> Seq(Result)]
      BY <1>1, <1>5
  <2>8. Ends(p) /\ Others(p)
      BY <1>2, <2>6, <2>7 DEF Ends, Others, Active
  <2> QED
      BY <1>2, <2>5, <2>6, <2>7, <2>8
<1> QED
    BY <1>4, <1>5 DEF Conclude

LEMMA BeaconEffect ==
    ASSUME TypeOK, Beacon
    PROVE  /\ stock' \in Seq(Signal) /\ Len(stock') = Len(stock) + 1
           /\ \A i \in 1..Len(stock) : stock'[i] = stock[i]
           /\ stock'[Len(stock) + 1].source = "probe"
           /\ stock'[Len(stock) + 1].kind \in FAILURE_KINDS
           /\ UNCHANGED <<disk, dirs, at, results, passes>>
           /\ beacons' \in 0..MaxBeacons
<1>1. PICK v \in Range(Candidates), kind \in FAILURE_KINDS :
         \E span \in FiledUnder(kind, v) :
            stock' = Append(stock, [source |-> "probe", kind |-> kind,
                                    span |-> span, page |-> v])
    BY DEF Beacon
<1>2. PICK span \in FiledUnder(kind, v) :
         stock' = Append(stock, [source |-> "probe", kind |-> kind,
                                 span |-> span, page |-> v])
    BY <1>1
<1> DEFINE new == [source |-> "probe", kind |-> kind, span |-> span, page |-> v]
<1>3. v \in Variant
    BY CandidatesType, InRange
<1>4. span \in Span \cup {"probe"}
    BY <1>3, Names DEF FiledUnder
<1>5. new \in Signal /\ new.source = "probe" /\ new.kind \in FAILURE_KINDS
    BY <1>3, <1>4 DEF Signal, ProbeSignal
<1> HIDE DEF new
<1>6. stock \in Seq(Signal) /\ stock' = Append(stock, new)
    BY <1>2, Shape DEF new
<1>7. /\ stock' \in Seq(Signal) /\ Len(stock') = Len(stock) + 1
      /\ \A i \in 1..Len(stock) : stock'[i] = stock[i]
      /\ stock'[Len(stock) + 1] = new
    BY <1>5, <1>6, AppendProperties
<1>8. UNCHANGED <<disk, dirs, at, results, passes>> /\ beacons' \in 0..MaxBeacons
  <2>1. beacons \in 0..MaxBeacons /\ MaxBeacons \in Nat
      BY BoundsAssumption DEF TypeOK
  <2> QED
      BY <2>1 DEF Beacon
<1> QED
    BY <1>5, <1>7, <1>8

-----------------------------------------------------------------------------
(* Whose turn it is, and in which run                                      *)

Moves(p) == Begins(p) \/ Stays(p) \/ Ends(p) \/ (Reporting(p) /\ Accepts(p))

LEMMA AcceptFields ==
    ASSUME TypeOK, NEW p \in Process, Reporting(p), Accepts(p)
    PROVE  /\ Active(p) /\ at[p].todo # <<>>
           /\ at'[p].step = "read" /\ at'[p].run = at[p].run
           /\ at'[p].todo = Tail(at[p].todo)
           /\ at'[p].seen = 0 /\ at'[p].probe = {}
           /\ Len(results'[p]) = Len(results[p]) + 1
           /\ \A i \in 1..Len(results[p]) : results'[p][i] = results[p][i]
           /\ results'[p][Len(results[p]) + 1] = Observation(p)
<1>1. Active(p) /\ at[p].todo # <<>>
    BY DEF Reporting, Active, WalkInv
<1>2. results[p] \in Seq(Result) /\ Observation(p) \in Result
    BY Shape, ObservationType
<1>3. /\ Len(results'[p]) = Len(results[p]) + 1
      /\ \A i \in 1..Len(results[p]) : results'[p][i] = results[p][i]
      /\ results'[p][Len(results[p]) + 1] = Observation(p)
    BY <1>2, AppendProperties DEF Accepts
<1> QED
    BY <1>1, <1>3, NextVariantType DEF Accepts

LEMMA WalkStep ==
    ASSUME TypeOK, NEW p \in Process, WalkInv(p), Moves(p)
    PROVE  WalkInv(p)'
<1>1. CASE Begins(p)
    BY <1>1, CandidatesType DEF Begins, WalkInv, Active
<1>2. CASE Stays(p)
    BY <1>2 DEF Stays, WalkInv, Active
<1>3. CASE Ends(p)
    BY <1>3, IdleType DEF Ends, WalkInv, Active
<1>4. CASE Reporting(p) /\ Accepts(p)
  <2> DEFINE n == Len(results[p])
  <2>1. /\ n \in Nat /\ at[p].todo \in Seq(Variant) /\ at[p].todo # <<>>
        /\ Len(at[p].todo) \in Nat /\ Len(Candidates) \in Nat
      BY <1>4, Shape, PassFields, AcceptFields, CandidatesType
  <2>2. /\ Tail(at[p].todo) \in Seq(Variant) /\ Len(Tail(at[p].todo)) = Len(at[p].todo) - 1
        /\ \A i \in 1..Len(Tail(at[p].todo)) : Tail(at[p].todo)[i] = at[p].todo[i + 1]
      BY <2>1, HeadTailProperties
  <2>3. /\ Len(at[p].todo) + n = Len(Candidates)
        /\ \A i \in 1..Len(at[p].todo) : at[p].todo[i] = Candidates[n + i]
        /\ \A i \in 1..n : results[p][i].variant = Candidates[i]
      BY <1>4, AcceptFields DEF WalkInv
  <2>4. /\ at'[p].todo = Tail(at[p].todo) /\ Len(results'[p]) = n + 1
        /\ \A i \in 1..n : results'[p][i] = results[p][i]
        /\ results'[p][n + 1].variant = Subject(p)
        /\ Subject(p) = Candidates[n + 1]
        /\ at'[p].step = "read"
      BY <1>4, AcceptFields, SubjectIs, ObservationFields DEF Reporting
  <2> HIDE DEF n
  <2>5. Len(at'[p].todo) + Len(results'[p]) = Len(Candidates)
    <3> DEFINE left == Len(at[p].todo)
               total == Len(Candidates)
    <3>1. Len(at'[p].todo) = left - 1 /\ Len(results'[p]) = n + 1
        BY <2>2, <2>4
    <3>2. left + n = total /\ n \in Nat /\ left \in Nat /\ total \in Nat
        BY <2>1, <2>3
    <3> HIDE DEF left, total
    <3>3. (left - 1) + (n + 1) = total
        BY <3>2
    <3>4. Len(at'[p].todo) + Len(results'[p]) = (left - 1) + (n + 1)
        BY <3>1
    <3> QED
        BY <3>3, <3>4 DEF total
  <2>6. ASSUME NEW i \in 1..Len(at'[p].todo)
        PROVE  at'[p].todo[i] = Candidates[Len(results'[p]) + i]
    <3>1. i + 1 \in 1..Len(at[p].todo) /\ n + (i + 1) = (n + 1) + i
      <4>1. i \in 1..(Len(at[p].todo) - 1)
          BY <2>2, <2>4
      <4> QED
          BY <2>1, <4>1, Shift
    <3> QED
        BY <2>2, <2>3, <2>4, <3>1
  <2>7. ASSUME NEW i \in 1..Len(results'[p])
        PROVE  results'[p][i].variant = Candidates[i]
    <3>1. i \in 1..n \/ i = n + 1
        BY <2>1, <2>4
    <3> QED
        BY <2>3, <2>4, <3>1
  <2> QED
      BY <2>4, <2>5, <2>6, <2>7 DEF WalkInv
<1> QED
    BY <1>1, <1>2, <1>3, <1>4 DEF Moves

(* What RunInv says of two processes.                                      *)
Apart(p, q) ==
    Active(p) =>
        /\ Active(q) => at[q].run # at[p].run
        /\ \A i \in 1..Len(results[q]) : results[q][i].run # at[p].run

LEMMA MoveRuns ==
    ASSUME TypeOK, NEW p \in Process, RunInv(p), Moves(p)
    PROVE  /\ passes' \in Nat /\ passes <= passes'
           /\ Active(p)' => at'[p].run \in 1..passes'
           /\ Active(p)' => at'[p].run = passes + 1 \/ (Active(p) /\ at'[p].run = at[p].run)
           /\ \A i \in 1..Len(results'[p]) :
                 /\ results'[p][i].run \in 1..passes'
                 /\ \/ Active(p) /\ results'[p][i].run = at[p].run
                    \/ /\ i \in 1..Len(results[p])
                       /\ results'[p][i].run = results[p][i].run
                 /\ Active(p)' => results'[p][i].run = at'[p].run
<1>0. passes \in Nat
    BY Shape
<1>1. CASE Begins(p)
    BY <1>0, <1>1 DEF Begins, Active
<1>2. CASE Stays(p)
    BY <1>0, <1>2 DEF Stays, Active, RunInv
<1>3. CASE Ends(p)
    BY <1>0, <1>3, IdleType DEF Ends, Active, RunInv
<1>4. CASE Reporting(p) /\ Accepts(p)
  <2>1. /\ Active(p) /\ at'[p].step = "read" /\ at'[p].run = at[p].run
        /\ Len(results'[p]) = Len(results[p]) + 1 /\ Len(results[p]) \in Nat
        /\ \A i \in 1..Len(results[p]) : results'[p][i] = results[p][i]
        /\ results'[p][Len(results[p]) + 1].run = at[p].run
        /\ passes' = passes
      BY <1>4, AcceptFields, Shape, ObservationFields DEF Accepts
  <2>2. ASSUME NEW i \in 1..Len(results'[p])
        PROVE  results'[p][i].run = at[p].run
    <3>1. i \in 1..Len(results[p]) \/ i = Len(results[p]) + 1
        BY <2>1
    <3> QED
        BY <2>1, <3>1 DEF RunInv
  <2>3. at[p].run \in 1..passes
      BY <2>1 DEF RunInv
  <2> QED
      BY <1>0, <2>1, <2>2, <2>3 DEF Active
<1> QED
    BY <1>1, <1>2, <1>3, <1>4 DEF Moves

LEMMA RunStep ==
    ASSUME TypeOK, \A q \in Process : RunInv(q), NEW p \in Process, Others(p), Moves(p)
    PROVE  \A q \in Process : RunInv(q)'
<1>0. passes \in Nat /\ RunInv(p)
    BY Shape
<1>1. \A q \in Process \ {p} :
         /\ at'[q] = at[q] /\ results'[q] = results[q]
         /\ Active(q) => at[q].run \in 1..passes
         /\ \A i \in 1..Len(results[q]) : results[q][i].run \in 1..passes
         /\ Active(q) => \A i \in 1..Len(results[q]) : results[q][i].run = at[q].run
         /\ Active(q)' = Active(q)
    BY DEF Others, RunInv, Active
<1>2. \A q, r \in Process : q # r => Apart(q, r)
    BY DEF RunInv, Apart
<1>3. ASSUME NEW q \in Process, NEW r \in Process, q # r
      PROVE  Apart(q, r)'
  <2>1. CASE q # p /\ r # p
      BY <2>1, <1>1, <1>2, <1>3 DEF Apart, Active
  <2>2. CASE q = p
    <3>1. SUFFICES ASSUME Active(p)'
                   PROVE  /\ Active(r) => at[r].run # at'[p].run
                          /\ \A i \in 1..Len(results[r]) : results[r][i].run # at'[p].run
        BY <2>2, <1>1, <1>3 DEF Apart, Active
    <3>2. CASE at'[p].run = passes + 1
        BY <3>2, <2>2, <1>0, <1>1, <1>3
    <3>3. CASE Active(p) /\ at'[p].run = at[p].run
        BY <3>3, <2>2, <1>2, <1>3 DEF Apart
    <3> QED
        BY <1>0, <3>1, <3>2, <3>3, MoveRuns
  <2>3. CASE r = p
    <3>1. SUFFICES ASSUME Active(q)
                   PROVE  /\ Active(p)' => at'[p].run # at[q].run
                          /\ \A i \in 1..Len(results'[p]) : results'[p][i].run # at[q].run
        BY <2>3, <1>1, <1>3 DEF Apart, Active
    <3>2. Apart(q, p) /\ at[q].run \in 1..passes /\ at[q].run # passes + 1
        BY <2>3, <1>0, <1>1, <1>2, <1>3, <3>1
    <3>3. Active(p) => at[p].run # at[q].run
        BY <3>1, <3>2 DEF Apart
    <3>4. Active(p)' => at'[p].run # at[q].run
        BY <1>0, <3>2, <3>3, MoveRuns
    <3>5. ASSUME NEW i \in 1..Len(results'[p])
          PROVE  results'[p][i].run # at[q].run
        BY <1>0, <3>1, <3>2, <3>3, MoveRuns DEF Apart
    <3> QED
        BY <3>4, <3>5
  <2> QED
      BY <1>3, <2>1, <2>2, <2>3
<1>4. ASSUME NEW q \in Process
      PROVE  /\ Active(q)' => at'[q].run \in 1..passes'
             /\ \A i \in 1..Len(results'[q]) : results'[q][i].run \in 1..passes'
             /\ Active(q)' => \A i \in 1..Len(results'[q]) : results'[q][i].run = at'[q].run
  <2>1. CASE q = p
      BY <1>0, <2>1, MoveRuns
  <2>2. CASE q # p
    <3>1. passes' \in Nat /\ passes <= passes'
        BY <1>0, MoveRuns
    <3> QED
        BY <1>0, <1>1, <2>2, <3>1
  <2> QED
      BY <2>1, <2>2
<1> QED
    BY <1>3, <1>4 DEF RunInv, Apart

-----------------------------------------------------------------------------
(* What is in the stock                                                    *)

DiskKept == \A f \in DOMAIN disk : f \in DOMAIN disk' /\ disk'[f] = disk[f]

(* A step of p adds only what p writes, and only as it concludes.          *)
Adds(p) ==
    /\ Extended(p)
    /\ stock' = stock \/ (Active(p) /\ Reporting(p) /\ ~Stays(p))

LEMMA NothingAdded ==
    ASSUME TypeOK, NEW p \in Process, stock' = stock
    PROVE  Adds(p)
BY Shape DEF Adds, Extended

LEMMA StockRunsStep ==
    ASSUME TypeOK, NEW p \in Process, RunInv(p), Moves(p), StockRuns, Adds(p)
    PROVE  StockRuns'
<1>1. passes \in Nat /\ passes' \in Nat /\ passes <= passes' /\ Len(stock) \in Nat
    BY Shape, MoveRuns
<1>2. ASSUME NEW i \in 1..Len(stock'), Made(stock'[i])
      PROVE  stock'[i].run \in 1..passes'
  <2>1. CASE i <= Len(stock)
    <3>1. i \in 1..Len(stock) /\ stock'[i] = stock[i]
        BY <1>1, <2>1 DEF Adds, Extended
    <3>2. stock[i].run \in 1..passes
        BY <1>2, <3>1 DEF StockRuns
    <3> QED
        BY <1>1, <3>1, <3>2
  <2>2. CASE i > Len(stock)
    <3>1. Active(p) /\ stock'[i].run = at[p].run
        BY <2>2, <1>1 DEF Adds, Extended, NewSignal
    <3> QED
        BY <1>1, <3>1 DEF RunInv
  <2> QED
      BY <1>1, <2>1, <2>2, Shape DEF Adds, Extended
<1> QED
    BY <1>2 DEF StockRuns, Made

LEMMA MotionStep ==
    ASSUME TypeOK, NEW p \in Process, Others(p), Moves(p), Adds(p), StockRuns,
           \A q \in Process : RunInv(q) /\ WalkInv(q) /\ MotionInv(q)
    PROVE  \A q \in Process : MotionInv(q)'
<1>1. passes \in Nat /\ Len(stock) \in Nat /\ Len(stock') \in Nat
    BY Shape DEF Adds, Extended
<1> DEFINE Moving(s, run) ==
              s.kind = "motion-violation" /\ s.source = "harness" /\ s.run = run
<1>2. SUFFICES ASSUME NEW q \in Process, Active(q)', NEW i \in 1..Len(stock'),
                      Moving(stock'[i], at'[q].run)
               PROVE  \E j \in 1..Len(results'[q]) : stock'[i].page = Candidates[j]
    BY DEF MotionInv
<1>3. CASE i <= Len(stock)
  <2>1. i \in 1..Len(stock) /\ stock'[i] = stock[i]
      BY <1>1, <1>3 DEF Adds, Extended
  <2>2. stock[i].run \in 1..passes
      BY <1>2, <2>1 DEF StockRuns, Made
  <2>3. Active(q) /\ at'[q].run = at[q].run
    <3>1. CASE q = p
      <4>1. at'[p].run # passes + 1
          BY <1>1, <1>2, <2>1, <2>2, <3>1
      <4> QED
          BY <1>2, <3>1, <4>1, MoveRuns
    <3>2. CASE q # p
        BY <1>2, <3>2 DEF Others, Active
    <3> QED
        BY <3>1, <3>2
  <2>4. PICK j \in 1..Len(results[q]) : stock[i].page = Candidates[j]
      BY <1>2, <2>1, <2>3 DEF MotionInv
  <2>5. Len(results[q]) \in Nat /\ (Len(results'[q]) = Len(results[q])
                                    \/ Len(results'[q]) = Len(results[q]) + 1)
    <3>1. CASE q # p
        BY <3>1, Shape DEF Others
    <3>2. CASE q = p
      <4>1. Stays(p) \/ (Reporting(p) /\ Accepts(p))
          BY <1>2, <2>3, <3>2, IdleType DEF Moves, Begins, Ends, Active
      <4> QED
          BY <3>2, <4>1, AcceptFields, Shape DEF Stays
    <3> QED
        BY <3>1, <3>2
  <2>6. j \in 1..Len(results'[q])
      BY <2>4, <2>5
  <2> QED
      BY <2>1, <2>4, <2>6
<1>4. CASE i > Len(stock)
  <2>1. Active(p) /\ Reporting(p) /\ ~Stays(p) /\ NewSignal(p, stock'[i])
      BY <1>1, <1>4 DEF Adds, Extended
  <2>2. stock'[i].run = at[p].run /\ stock'[i].page = Subject(p)
      BY <1>2, <2>1 DEF NewSignal
  <2>3. q = p
    <3>1. SUFFICES ASSUME q # p PROVE FALSE
        OBVIOUS
    <3>2. Active(q) /\ at'[q] = at[q]
        BY <1>2, <3>1 DEF Others, Active
    <3> QED
      <4>1. at[q].run # at[p].run
          BY <2>1, <3>1, <3>2 DEF RunInv
      <4> QED
          BY <1>2, <2>2, <3>2, <4>1
  <2>4. Accepts(p)
      BY <1>2, <2>1, <2>3, IdleType DEF Moves, Begins, Ends, Active
  <2>5. Subject(p) = Candidates[Len(results[p]) + 1] /\ Len(results[p]) \in Nat
        /\ Len(results'[p]) = Len(results[p]) + 1
      BY <2>1, <2>4, AcceptFields, SubjectIs, Shape DEF Reporting
  <2> QED
      BY <2>2, <2>3, <2>5
<1> QED
    BY <1>1, <1>3, <1>4

(* What a pass has read of the probe, the stock holds still.               *)
LEMMA HoldsStill ==
    ASSUME TypeOK, NEW p \in Process, NEW q \in Process, ProbeInv(q), Adds(p),
           at'[q].seen = at[q].seen, at'[q].probe = at[q].probe,
           at'[q].todo = at[q].todo, Active(q)' /\ at'[q].step # "read" =>
                                        Active(q) /\ at[q].step # "read"
    PROVE  ProbeInv(q)'
<1>1. at[q].seen \in Nat /\ Len(stock) \in Nat /\ Len(stock') \in Nat
    BY Shape, PassFields DEF Adds, Extended
<1>2. /\ Len(stock) <= Len(stock')
      /\ \A i \in 1..Len(stock) : stock'[i] = stock[i]
    BY DEF Adds, Extended
<1>3. Subject(q)' = Subject(q)
    BY DEF Subject
<1>4. \A i \in 1..at[q].seen : i \in 1..Len(stock)
    BY <1>1 DEF ProbeInv
<1> QED
    BY <1>1, <1>2, <1>3, <1>4 DEF ProbeInv

LEMMA ForgottenProbe ==
    ASSUME TypeOK, NEW p \in Process, Adds(p), at'[p].seen = 0, at'[p].probe = {}
    PROVE  ProbeInv(p)'
BY Shape DEF ProbeInv, Adds, Extended

LEMMA ResultsSeenStep ==
    ASSUME TypeOK, NEW p \in Process, Others(p), Moves(p), Adds(p), ResultsSeen, ProbeInv(p)
    PROVE  ResultsSeen'
<1>1. /\ Len(stock) \in Nat /\ Len(stock') \in Nat /\ Len(stock) <= Len(stock')
      /\ at[p].seen \in Nat /\ at[p].seen <= Len(stock)
    BY Shape, PassFields DEF Adds, Extended, ProbeInv
<1>2. ASSUME NEW q \in Process, NEW i \in 1..Len(results'[q])
      PROVE  results'[q][i].seen <= Len(stock')
  <2>1. ASSUME i \in 1..Len(results[q]), results'[q][i] = results[q][i]
        PROVE  results'[q][i].seen <= Len(stock')
    <3>1. results[q][i] \in Result
        BY <2>1, Shape
    <3>2. results[q][i].seen \in Nat /\ results[q][i].seen <= Len(stock)
        BY <2>1, <3>1 DEF ResultsSeen, Result
    <3> QED
        BY <1>1, <2>1, <3>2
  <2>2. CASE q # p
      BY <1>2, <2>1, <2>2 DEF Others
  <2>3. CASE q = p /\ Reporting(p) /\ Accepts(p)
    <3>1. i \in 1..Len(results[p]) \/ i = Len(results[p]) + 1
        BY <1>2, <2>3, AcceptFields, Shape
    <3>2. results'[p][Len(results[p]) + 1].seen = at[p].seen
        BY <2>3, AcceptFields, ObservationFields
    <3>3. CASE i \in 1..Len(results[p])
      <4>1. results'[q][i] = results[q][i]
          BY <2>3, <3>3, AcceptFields
      <4> QED
          BY <2>1, <2>3, <3>3, <4>1
    <3>4. CASE i = Len(results[p]) + 1
      <4>1. at[p].seen <= Len(stock')
          BY <1>1, <2>3, AcceptFields
      <4> QED
          BY <2>3, <3>2, <3>4, <4>1
    <3> QED
        BY <3>1, <3>3, <3>4
  <2>4. CASE q = p /\ (Begins(p) \/ Stays(p) \/ Ends(p))
      BY <1>2, <2>1, <2>4 DEF Begins, Stays, Ends
  <2> QED
      BY <2>2, <2>3, <2>4 DEF Moves
<1> QED
    BY <1>2 DEF ResultsSeen

-----------------------------------------------------------------------------
(* What the results say                                                    *)

LEMMA StockPicturesStep ==
    ASSUME TypeOK, NEW p \in Process, Adds(p), DiskKept, StockPictures
    PROVE  StockPictures'
<1>1. Len(stock) \in Nat /\ Len(stock') \in Nat
    BY Shape DEF Adds, Extended
<1>2. ASSUME NEW i \in 1..Len(stock'), stock'[i].kind = "screenshot"
      PROVE  /\ stock'[i].path \in DOMAIN disk
             /\ disk[stock'[i].path].run = stock'[i].run
             /\ DistinctNames => disk[stock'[i].path].of = stock'[i].of
  <2>1. CASE i <= Len(stock)
    <3>1. i \in 1..Len(stock) /\ stock'[i] = stock[i]
        BY <1>1, <2>1 DEF Adds, Extended
    <3> QED
        BY <1>2, <3>1 DEF StockPictures
  <2>2. CASE i > Len(stock)
    <3>1. NewSignal(p, stock'[i])
        BY <1>1, <2>2 DEF Adds, Extended
    <3> QED
        BY <1>2, <3>1 DEF NewSignal
  <2> QED
      BY <1>1, <2>1, <2>2
<1>3. DistinctNames' = DistinctNames
    BY DEF DistinctNames
<1> QED
    BY <1>2, <1>3 DEF StockPictures, DiskKept

(* The results of a pass are those it had and, as it accepts, one more.    *)
LEMMA ResultsStep ==
    ASSUME TypeOK, NEW p \in Process, Others(p), Moves(p),
           NEW q \in Process, NEW i \in 1..Len(results'[q])
    PROVE  \/ i \in 1..Len(results[q]) /\ results'[q][i] = results[q][i]
           \/ /\ q = p /\ Reporting(p) /\ Accepts(p)
              /\ results'[q][i] = Observation(p)
<1>1. CASE q # p
    BY <1>1 DEF Others
<1>2. CASE q = p /\ Reporting(p) /\ Accepts(p)
  <2>1. i \in 1..Len(results[p]) \/ i = Len(results[p]) + 1
      BY <1>2, AcceptFields, Shape
  <2> QED
      BY <1>2, <2>1, AcceptFields
<1>3. CASE q = p /\ (Begins(p) \/ Stays(p) \/ Ends(p))
    BY <1>3 DEF Begins, Stays, Ends
<1> QED
    BY <1>1, <1>2, <1>3 DEF Moves

LEMMA PassedAll ==
    ASSUME NEW p \in Process, Passed(p), NEW g \in Range(REQUIRED_GATES)
    PROVE  Passes(p, g)
<1>1. PICK i \in 1..7 : g = REQUIRED_GATES[i]
    BY Bar
<1>2. DOMAIN Report(p) = 1..7 /\ Report(p)[i] = GateResult(p, g)
    BY <1>1, Bar DEF Report
<1>3. GateResult(p, g) \in Range(Report(p))
    BY <1>2 DEF Range
<1>4. GateResult(p, g).passed
    BY <1>3 DEF Passed
<1> QED
    BY <1>4 DEF GateResult

(* Every kind that counts as a failure has a gate in the bar.              *)
LEMMA GatedKinds ==
    \A kind \in FAILURE_KINDS :
        \E g \in Range(REQUIRED_GATES) : g \in DOMAIN KindOf /\ KindOf[g] = kind
<1>1. DOMAIN KindOf \subseteq Range(REQUIRED_GATES)
  <2>1. /\ REQUIRED_GATES[2] = "no-runtime-errors" /\ REQUIRED_GATES[3] = "no-unknown-class"
        /\ REQUIRED_GATES[4] = "no-overflow" /\ REQUIRED_GATES[5] = "no-motion-violation"
      BY DEF REQUIRED_GATES
  <2> QED
      BY <2>1, Bar DEF KindOf
<1> QED
    BY <1>1 DEF FAILURE_KINDS

LEMMA MotionIsFailure == "motion-violation" \in FAILURE_KINDS
BY DEF FAILURE_KINDS, KindOf

ProbeKinds ==
    \A k \in 1..Len(stock) : stock[k].source = "probe" => stock[k].kind \in FAILURE_KINDS

LEMMA ProbeKindsAlways == TypeOK => ProbeKinds
<1> SUFFICES ASSUME TypeOK, NEW k \in 1..Len(stock), stock[k].source = "probe"
             PROVE  stock[k].kind \in FAILURE_KINDS
    BY DEF ProbeKinds
<1>1. stock[k] \in Signal
    BY Shape
<1> HIDE DEF FAILURE_KINDS
<1> QED
    BY <1>1 DEF Signal, ProbeSignal, PictureSignal, MotionSignal, SanitizeSignal, GateSignal

LEMMA PanelPicturesStep ==
    ASSUME TypeOK, NEW p \in Process, Others(p), Moves(p), DiskKept, PanelPictures
    PROVE  PanelPictures'
<1>1. ASSUME NEW q \in Process, NEW i \in 1..Len(results'[q]),
             results'[q][i].screenshot # <<>>
      PROVE  /\ results'[q][i].screenshot \in DOMAIN disk
             /\ disk[results'[q][i].screenshot].run = results'[q][i].run
  <2>1. CASE i \in 1..Len(results[q]) /\ results'[q][i] = results[q][i]
      BY <1>1, <2>1 DEF PanelPictures
  <2>2. CASE Reporting(p) /\ results'[q][i] = Observation(p)
      BY <1>1, <2>2, ScreenshotIs, ObservationFields
  <2> QED
      BY <2>1, <2>2, ResultsStep
<1> QED
    BY <1>1 DEF PanelPictures, DiskKept

LEMMA WitnessStep ==
    ASSUME TypeOK, NEW p \in Process, Others(p), Moves(p), Adds(p), WitnessInv
    PROVE  WitnessInv'
<1>1. Len(stock) \in Nat /\ Len(stock') \in Nat
    BY Shape DEF Adds, Extended
<1>2. ASSUME NEW q \in Process, NEW i \in 1..Len(results'[q]), results'[q][i].passed,
             NEW g \in Range(REQUIRED_GATES)
      PROVE  \E k \in 1..Len(stock') : Witnesses(stock'[k], results'[q][i], g)
  <2>1. CASE i \in 1..Len(results[q]) /\ results'[q][i] = results[q][i]
    <3>1. PICK k \in 1..Len(stock) : Witnesses(stock[k], results[q][i], g)
        BY <1>2, <2>1 DEF WitnessInv
    <3>2. k \in 1..Len(stock') /\ stock'[k] = stock[k]
        BY <1>1 DEF Adds, Extended
    <3> QED
        BY <2>1, <3>1, <3>2
  <2>2. CASE Accepts(p) /\ results'[q][i] = Observation(p)
    <3>1. PICK k \in 1..Len(stock') : stock'[k] = Line(p, g)
        BY <2>2 DEF Accepts
    <3>2. Passes(p, g)
      <4>1. Passed(p)
          BY <1>2, <2>2, ObservationFields
      <4> QED
          BY <4>1, PassedAll
    <3>3. /\ Line(p, g).kind = "gate" /\ Line(p, g).span = Subject(p)
          /\ Line(p, g).run = at[p].run /\ Line(p, g).gate = g
          /\ Line(p, g).passed
        BY <3>2 DEF Line
    <3>4. Witnesses(Line(p, g), Observation(p), g)
        BY <3>3, ObservationFields DEF Witnesses
    <3> QED
        BY <2>2, <3>1, <3>4
  <2> QED
      BY <2>1, <2>2, ResultsStep
<1> QED
    BY <1>2 DEF WitnessInv, Witnesses

LEMMA CleanStep ==
    ASSUME TypeOK, NEW p \in Process, Others(p), Moves(p), Adds(p), CleanInv, ResultsSeen,
           \A q \in Process : RunInv(q) /\ WalkInv(q), MotionInv(p), ProbeInv(p), ProbeKinds
    PROVE  CleanInv'
<1>1. Len(stock) \in Nat /\ Len(stock') \in Nat /\ Len(stock) <= Len(stock')
      /\ \A k \in 1..Len(stock) : stock'[k] = stock[k]
    BY Shape DEF Adds, Extended
<1>2. SUFFICES ASSUME NEW q \in Process, NEW i \in 1..Len(results'[q]),
                      results'[q][i].passed
               PROVE  /\ \A k \in 1..results'[q][i].seen :
                            ~(stock'[k].source = "probe"
                              /\ stock'[k].span = results'[q][i].variant)
                      /\ \A k \in 1..Len(stock') : ~MovedIn(stock'[k], results'[q][i])
    BY DEF CleanInv, MovedIn
<1>3. CASE i \in 1..Len(results[q]) /\ results'[q][i] = results[q][i]
  <2> DEFINE r == results[q][i]
  <2>1. r.seen \in Nat /\ r.seen <= Len(stock) /\ r.passed
        /\ r.run \in 1..passes
    <3>1. r \in Result
        BY <1>3, Shape
    <3> QED
        BY <1>2, <1>3, <3>1 DEF ResultsSeen, Result, RunInv
  <2>2. \A k \in 1..r.seen : ~(stock'[k].source = "probe" /\ stock'[k].span = r.variant)
    <3> TAKE k \in 1..r.seen
    <3>1. k \in 1..Len(stock)
        BY <1>1, <2>1
    <3> QED
        BY <1>1, <1>3, <2>1, <3>1 DEF CleanInv
  <2>3. ASSUME NEW k \in 1..Len(stock'), MovedIn(stock'[k], r) PROVE FALSE
    <3>1. CASE k <= Len(stock)
      <4>1. k \in 1..Len(stock)
          BY <1>1, <3>1
      <4> QED
          BY <1>1, <1>3, <2>1, <2>3, <4>1 DEF CleanInv
    <3>2. CASE k > Len(stock)
      <4>1. Active(p) /\ Reporting(p) /\ NewSignal(p, stock'[k])
          BY <1>1, <3>2 DEF Adds, Extended
      <4>2. r.run = at[p].run /\ r.variant = Subject(p)
          BY <2>3, <4>1 DEF NewSignal, MovedIn
      <4>3. q = p
          BY <1>3, <4>1, <4>2 DEF RunInv
      <4>4. r.variant = Candidates[i] /\ i \in 1..Len(results[p])
          BY <1>3, <4>1, <4>3 DEF WalkInv
      <4>5. /\ Subject(p) = Candidates[Len(results[p]) + 1]
            /\ Len(results[p]) + 1 \in 1..Len(Candidates) /\ Len(results[p]) \in Nat
          BY <4>1, SubjectIs, Shape DEF WalkInv, Reporting, Active
      <4>6. i \in 1..Len(Candidates) /\ i # Len(results[p]) + 1
          BY <4>4, <4>5, CandidatesType
      <4> QED
          BY <4>2, <4>4, <4>5, <4>6, CandidatesType
    <3> QED
        BY <1>1, <3>1, <3>2
  <2> QED
      BY <1>3, <2>2, <2>3
<1>4. CASE q = p /\ Reporting(p) /\ Accepts(p) /\ results'[q][i] = Observation(p)
  <2>1. Passed(p) /\ \A g \in Range(REQUIRED_GATES) : Passes(p, g)
      BY <1>2, <1>4, ObservationFields, PassedAll
  <2>2. FAILURE_KINDS \cap Kinds(p) = {}
      BY <2>1, GatedKinds DEF Passes
  <2>3. ~at[p].sensed.moves
      BY <2>2, MotionIsFailure DEF Kinds
  <2>4. Active(p) /\ at[p].step # "read" /\ Len(results[p]) \in Nat
        /\ at[p].seen \in Nat /\ at[p].todo # <<>>
      BY <1>4, Shape, PassFields DEF Reporting, Active, WalkInv
  <2>5. \A k \in 1..at[p].seen :
           ~(stock'[k].source = "probe" /\ stock'[k].span = Subject(p))
    <3> SUFFICES ASSUME NEW k \in 1..at[p].seen,
                        stock'[k].source = "probe" /\ stock'[k].span = Subject(p)
                 PROVE  FALSE
        OBVIOUS
    <3>1. k \in 1..Len(stock) /\ stock'[k] = stock[k]
        BY <1>1, <2>4 DEF ProbeInv
    <3>2. k \in at[p].probe
        BY <2>4, <3>1 DEF ProbeInv
    <3>3. stock[k].kind \in FAILURE_KINDS /\ stock[k].kind \in Kinds(p)
        BY <3>1, <3>2 DEF ProbeKinds, Kinds
    <3> QED
        BY <2>2, <3>3
  <2>6. ASSUME NEW k \in 1..Len(stock'), MovedIn(stock'[k], Observation(p)) PROVE FALSE
    <3>1. /\ stock'[k].kind = "motion-violation" /\ stock'[k].source = "harness"
          /\ stock'[k].run = at[p].run /\ stock'[k].page = Subject(p)
        BY <2>6, ObservationFields DEF MovedIn
    <3>2. CASE k <= Len(stock)
      <4>1. k \in 1..Len(stock) /\ stock'[k] = stock[k]
          BY <1>1, <3>2
      <4>2. PICK j \in 1..Len(results[p]) : stock[k].page = Candidates[j]
          BY <2>4, <3>1, <4>1 DEF MotionInv
      <4>3. /\ Subject(p) = Candidates[Len(results[p]) + 1]
            /\ Len(results[p]) + 1 \in 1..Len(Candidates)
          BY <2>4, SubjectIs
      <4>4. j \in 1..Len(Candidates) /\ j # Len(results[p]) + 1
          BY <2>4, <4>3, CandidatesType
      <4> QED
          BY <3>1, <4>1, <4>2, <4>3, <4>4, CandidatesType
    <3>3. CASE k > Len(stock)
        BY <1>1, <2>3, <3>1, <3>3 DEF Adds, Extended, NewSignal
    <3> QED
        BY <1>1, <3>2, <3>3
  <2> QED
      BY <1>4, <2>5, <2>6, ObservationFields
<1> QED
    BY <1>3, <1>4, ResultsStep

-----------------------------------------------------------------------------
(* Directories and what lies in them                                       *)

(* Nothing is written over: the pictures go to a directory that is empty.  *)
LEMMA CaptureWrites ==
    ASSUME TypeOK, NEW p \in Process, WalkInv(p), DirInv(p), Capture(p)
    PROVE  /\ DiskKept
           /\ \A f \in DOMAIN disk' : f \in DOMAIN disk \/ f[1] = at[p].dir
           /\ FullPage(p)' \in DOMAIN disk'
           /\ disk'[FullPage(p)'] = [of |-> "full-page", run |-> at[p].run]
           /\ \A s \in at'[p].sensed.shots :
                 /\ FileOf(p, s)' \in DOMAIN disk'
                 /\ disk'[FileOf(p, s)'].run = at[p].run
                 /\ DistinctNames => disk'[FileOf(p, s)'].of = s
           /\ DOMAIN disk' \subseteq Path
           /\ \A f \in DOMAIN disk' : disk'[f] \in [of : Span \cup {"full-page"}, run : Nat]
<1> DEFINE shots == at'[p].sensed.shots
           new == Written(p, shots)
<1>1. /\ at[p].step = "capture" /\ Active(p) /\ at[p].todo # <<>>
      /\ at[p].dir \in dirs /\ at[p].dir \in Dir /\ at[p].run \in Nat
      /\ \A f \in DOMAIN disk : f[1] # at[p].dir
    BY Shape, PassFields DEF Capture, Active, WalkInv, DirInv
<1>2. Subject(p) \in Variant
    BY <1>1, SubjectIs
<1>3. /\ at'[p].dir = at[p].dir /\ shots \subseteq SpansOf(Subject(p))
      /\ disk' = [f \in DOMAIN disk \cup new |->
                    IF f \in new THEN [of |-> ShownOn(p, shots, f), run |-> at[p].run]
                    ELSE disk[f]]
    BY <1>1, <1>2, CaptureEffect
<1>4. shots \subseteq Span
    BY <1>2, <1>3, Names
<1>5. /\ FullPage(p)' = FullPage(p) /\ FullPage(p) \in Path
      /\ \A s \in shots : /\ FileOf(p, s)' = FileOf(p, s) /\ FileOf(p, s) \in Path
                          /\ FileOf(p, s) # FullPage(p)
  <2>1. FullPage(p)' = FullPage(p) /\ \A s \in shots : FileOf(p, s)' = FileOf(p, s)
      BY <1>3 DEF FullPage, FileOf
  <2> QED
      BY <1>1, <1>4, <2>1, FileType
<1>6. /\ new \subseteq Path /\ FullPage(p) \in new
      /\ \A s \in shots : FileOf(p, s) \in new
      /\ \A f \in new : f = FullPage(p) \/ \E s \in shots : f = FileOf(p, s)
    BY <1>5 DEF Written
<1>7. \A f \in new : f[1] = at[p].dir
    BY <1>6 DEF FullPage, FileOf
<1>8. ShownOn(p, shots, FullPage(p)) = "full-page"
    BY DEF ShownOn
<1>9. \A s \in shots :
         /\ ShownOn(p, shots, FileOf(p, s)) \in shots
         /\ FileOf(p, ShownOn(p, shots, FileOf(p, s))) = FileOf(p, s)
  <2> TAKE s \in shots
  <2> DEFINE chosen == CHOOSE t \in shots : FileOf(p, t) = FileOf(p, s)
  <2>1. chosen \in shots /\ FileOf(p, chosen) = FileOf(p, s)
      OBVIOUS
  <2>2. ShownOn(p, shots, FileOf(p, s)) = chosen
      BY <1>5 DEF ShownOn
  <2> QED
      BY <2>1, <2>2
<1>10. \A s \in shots : DistinctNames => ShownOn(p, shots, FileOf(p, s)) = s
  <2> TAKE s \in shots
  <2> DEFINE t == ShownOn(p, shots, FileOf(p, s))
  <2>1. t \in shots /\ SafeName[t] = SafeName[s]
      BY <1>9 DEF FileOf
  <2> HIDE DEF t
  <2> QED
      BY <1>2, <1>3, <2>1 DEF DistinctNames, t
<1> HIDE DEF new, shots
<1>11. DOMAIN disk' = DOMAIN disk \cup new
    BY <1>3
<1>12. \A f \in new : disk'[f] = [of |-> ShownOn(p, shots, f), run |-> at[p].run]
    BY <1>3
<1>13. \A f \in DOMAIN disk : f \notin new /\ f \in DOMAIN disk' /\ disk'[f] = disk[f]
    BY <1>1, <1>3, <1>7
<1>14. disk'[FullPage(p)] = [of |-> "full-page", run |-> at[p].run]
    BY <1>6, <1>8, <1>12
<1>15. \A s \in shots : disk'[FileOf(p, s)] =
                          [of |-> ShownOn(p, shots, FileOf(p, s)), run |-> at[p].run]
    BY <1>6, <1>12
<1>16. \A f \in DOMAIN disk' : disk'[f] \in [of : Span \cup {"full-page"}, run : Nat]
  <2> TAKE f \in DOMAIN disk'
  <2>1. CASE f \in DOMAIN disk
      BY <1>13, <2>1 DEF TypeOK
  <2>2. CASE f = FullPage(p)
      BY <1>1, <1>14, <2>2
  <2>3. CASE \E s \in shots : f = FileOf(p, s)
    <3>1. PICK s \in shots : f = FileOf(p, s)
        BY <2>3
    <3>2. ShownOn(p, shots, FileOf(p, s)) \in Span
        BY <1>4, <1>9
    <3>3. \A of \in Span, run \in Nat :
             [of |-> of, run |-> run] \in [of : Span \cup {"full-page"}, run : Nat]
        OBVIOUS
    <3>4. disk'[f] = [of |-> ShownOn(p, shots, FileOf(p, s)), run |-> at[p].run]
        BY <1>15, <3>1
    <3> QED
        BY <1>1, <3>2, <3>3, <3>4
  <2> QED
      BY <1>6, <1>11, <2>1, <2>2, <2>3
<1>17. \A s \in shots : disk'[FileOf(p, s)].run = at[p].run
                        /\ (DistinctNames => disk'[FileOf(p, s)].of = s)
  <2> TAKE s \in shots
  <2> DEFINE of == ShownOn(p, shots, FileOf(p, s))
  <2>1. disk'[FileOf(p, s)] = [of |-> of, run |-> at[p].run] /\ (DistinctNames => of = s)
      BY <1>10, <1>15
  <2> HIDE DEF of
  <2> QED
      BY <2>1
<1>18. DOMAIN disk' \subseteq Path
    BY <1>6, <1>11, Shape
<1> QED
    BY <1>5, <1>6, <1>7, <1>11, <1>13, <1>14, <1>16, <1>17, <1>18 DEF DiskKept, shots

(* The part of DirInv about one process that no step of another can break  *)
(* while nothing is written over.                                          *)
Kept(p) ==
    Pictured(p) =>
        /\ at[p].dir \in dirs
        /\ at[p].sensed.shots \subseteq SpansOf(Subject(p))
        /\ FullPage(p) \in DOMAIN disk
        /\ disk[FullPage(p)] = [of |-> "full-page", run |-> at[p].run]
        /\ \A s \in at[p].sensed.shots :
              /\ FileOf(p, s) \in DOMAIN disk
              /\ disk[FileOf(p, s)].run = at[p].run
              /\ DistinctNames => disk[FileOf(p, s)].of = s

Empty(p) ==
    at[p].step = "capture" =>
        /\ at[p].dir \in dirs
        /\ \A f \in DOMAIN disk : f[1] # at[p].dir
        /\ \A q \in Process \ {p} : at[q].step = "capture" => at[q].dir # at[p].dir

LEMMA DirParts ==
    ASSUME NEW p \in Process
    PROVE  /\ DirInv(p) <=> Kept(p) /\ Empty(p)
           /\ DirInv(p)' <=> Kept(p)' /\ Empty(p)'
BY DEF DirInv, Kept, Empty

LEMMA KeptStill ==
    ASSUME NEW q \in Process, Kept(q), DiskKept, dirs \subseteq dirs',
           Pictured(q)' => Pictured(q), at'[q].dir = at[q].dir, at'[q].run = at[q].run,
           at'[q].todo = at[q].todo, at'[q].sensed.shots = at[q].sensed.shots
    PROVE  Kept(q)'
<1>1. /\ Subject(q)' = Subject(q) /\ FullPage(q)' = FullPage(q)
      /\ \A s : FileOf(q, s)' = FileOf(q, s)
    BY DEF Subject, FullPage, FileOf
<1>2. DistinctNames' = DistinctNames /\ SpansOf(Subject(q))' = SpansOf(Subject(q))
    BY <1>1 DEF DistinctNames, SpansOf, BodySpan
<1> QED
    BY <1>1, <1>2 DEF Kept, DiskKept

DirsInv == DiskInv /\ \A q \in Process : DirInv(q)

LEMMA DirUnchanged ==
    ASSUME NEW q \in Process, DirInv(q), at' = at, disk' = disk, dirs' = dirs
    PROVE  DirInv(q)'
<1>1. Kept(q) /\ Empty(q)
    BY DirParts
<1>2. Kept(q)'
    BY <1>1, KeptStill DEF DiskKept, Pictured
<1>3. Empty(q)'
    BY <1>1 DEF Empty
<1> QED
    BY <1>2, <1>3, DirParts

(* A step that neither makes a directory nor pictures in it.               *)
LEMMA PlainDirs ==
    ASSUME NEW p \in Process, DirsInv, Others(p), disk' = disk, dirs' = dirs,
           at'[p].step # "capture", ~Pictured(p)'
    PROVE  DirsInv' /\ DiskKept
<1>1. DiskKept /\ DiskInv'
    BY DEF DiskKept, DirsInv, DiskInv
<1>2. ASSUME NEW q \in Process PROVE Kept(q)' /\ Empty(q)'
  <2>1. Kept(q) /\ Empty(q)
      BY DirParts DEF DirsInv
  <2>2. CASE q = p
      BY <2>2 DEF Kept, Empty
  <2>3. CASE q # p
    <3>1. at'[q] = at[q]
        BY <2>3 DEF Others
    <3>2. Kept(q)'
        BY <1>1, <2>1, <3>1, KeptStill DEF Pictured
    <3>3. Empty(q)'
        BY <2>1, <3>1 DEF Empty, Others
    <3> QED
        BY <3>2, <3>3
  <2> QED
      BY <2>2, <2>3
<1> QED
    BY <1>1, <1>2, DirParts DEF DirsInv

LEMMA MakeDirDirs ==
    ASSUME TypeOK, NEW p \in Process, WalkInv(p), DirsInv, MakeDir(p)
    PROVE  DirsInv' /\ DiskKept
<1>1. at[p].todo # <<>> /\ Subject(p) \in Variant
  <2>1. Active(p) /\ at[p].todo # <<>>
      BY DEF MakeDir, Active, WalkInv
  <2> QED
      BY <2>1, SubjectIs
<1>2. /\ Others(p) /\ at'[p].step = "capture" /\ at'[p].dir \notin dirs
      /\ dirs' = dirs \cup {at'[p].dir} /\ disk' = disk
    BY <1>1, MakeDirEffect
<1>3. DiskKept /\ DiskInv'
    BY <1>2 DEF DiskKept, DirsInv, DiskInv
<1>4. ASSUME NEW q \in Process PROVE Kept(q)' /\ Empty(q)'
  <2>1. \A r \in Process : Kept(r) /\ Empty(r)
      BY DirParts DEF DirsInv
  <2>2. CASE q = p
    <3>1. Kept(q)'
        BY <1>2, <2>2 DEF Kept, Pictured
    <3>2. \A f \in DOMAIN disk' : f[1] # at'[p].dir
        BY <1>2 DEF DirsInv, DiskInv
    <3>3. \A r \in Process \ {p} : at'[r].step = "capture" => at'[r].dir # at'[p].dir
        BY <1>2, <2>1 DEF Empty, Others
    <3> QED
        BY <1>2, <2>2, <3>1, <3>2, <3>3 DEF Empty
  <2>3. CASE q # p
    <3>1. at'[q] = at[q]
        BY <1>2, <2>3 DEF Others
    <3>2. Kept(q)'
        BY <1>2, <1>3, <2>1, <3>1, KeptStill DEF Pictured
    <3>3. Empty(q)'
        BY <1>2, <2>1, <3>1 DEF Empty, Others
    <3> QED
        BY <3>2, <3>3
  <2> QED
      BY <2>2, <2>3
<1> QED
    BY <1>3, <1>4, DirParts DEF DirsInv

LEMMA CaptureDirs ==
    ASSUME TypeOK, NEW p \in Process, WalkInv(p), DirsInv, Capture(p)
    PROVE  DirsInv' /\ DiskKept
<1>1. /\ at[p].todo # <<>> /\ Subject(p) \in Variant /\ DirInv(p)
      /\ at[p].step = "capture" /\ at[p].dir \in dirs
  <2>1. at[p].step = "capture" /\ Active(p) /\ at[p].todo # <<>> /\ DirInv(p)
      BY DEF Capture, Active, WalkInv, DirsInv
  <2> QED
      BY <2>1, SubjectIs DEF DirInv
<1>2. /\ Others(p) /\ at'[p].step = "audit" /\ at'[p].dir = at[p].dir /\ dirs' = dirs
      /\ at'[p].sensed.shots \subseteq SpansOf(Subject(p))
      /\ at'[p].run = at[p].run /\ at'[p].todo = at[p].todo
    BY <1>1, CaptureEffect DEF Renders, Stays
<1>3. /\ DiskKept
      /\ \A f \in DOMAIN disk' : f \in DOMAIN disk \/ f[1] = at[p].dir
      /\ FullPage(p)' \in DOMAIN disk'
      /\ disk'[FullPage(p)'] = [of |-> "full-page", run |-> at[p].run]
      /\ \A s \in at'[p].sensed.shots :
            /\ FileOf(p, s)' \in DOMAIN disk'
            /\ disk'[FileOf(p, s)'].run = at[p].run
            /\ DistinctNames => disk'[FileOf(p, s)'].of = s
    BY <1>1, CaptureWrites
<1>4. DiskInv'
    BY <1>1, <1>2, <1>3 DEF DirsInv, DiskInv
<1>5. ASSUME NEW q \in Process PROVE Kept(q)' /\ Empty(q)'
  <2>1. Kept(q) /\ Empty(q)
      BY DirParts DEF DirsInv
  <2>2. CASE q = p
    <3>1. Empty(q)'
        BY <1>2, <2>2 DEF Empty
    <3>2. DistinctNames' = DistinctNames /\ Subject(p)' = Subject(p)
          /\ SpansOf(Subject(p))' = SpansOf(Subject(p))
        BY <1>2 DEF DistinctNames, Subject, SpansOf, BodySpan
    <3>3. Kept(p)'
        BY <1>1, <1>2, <1>3, <3>2 DEF Kept
    <3> QED
        BY <2>2, <3>1, <3>3
  <2>3. CASE q # p
    <3>1. at'[q] = at[q]
        BY <1>2, <2>3 DEF Others
    <3>2. Kept(q)'
        BY <1>2, <1>3, <2>1, <3>1, KeptStill DEF Pictured
    <3>3. Empty(q)'
        BY <1>1, <1>2, <1>3, <2>1, <2>3, <3>1 DEF Empty, Others
    <3> QED
        BY <3>2, <3>3
  <2> QED
      BY <2>2, <2>3
<1> QED
    BY <1>4, <1>3, <1>5, DirParts DEF DirsInv

LEMMA AuditDirs ==
    ASSUME TypeOK, NEW p \in Process, WalkInv(p), DirsInv, Audit(p)
    PROVE  DirsInv' /\ DiskKept
<1>1. at[p].todo # <<>>
    BY DEF Audit, Active, WalkInv
<1>2. /\ Others(p) /\ at[p].step = "audit" /\ at'[p].step = "report"
      /\ at'[p].dir = at[p].dir /\ at'[p].sensed.shots = at[p].sensed.shots
      /\ at'[p].run = at[p].run /\ at'[p].todo = at[p].todo
      /\ disk' = disk /\ dirs' = dirs
    BY <1>1, AuditEffect DEF Renders, Stays
<1>3. DiskKept /\ DiskInv'
    BY <1>2 DEF DiskKept, DirsInv, DiskInv
<1>4. ASSUME NEW q \in Process PROVE Kept(q)' /\ Empty(q)'
  <2>1. Kept(q) /\ Empty(q)
      BY DirParts DEF DirsInv
  <2>2. CASE q = p
    <3>1. Pictured(p)
        BY <1>2 DEF Pictured
    <3>2. Kept(p)'
        BY <1>2, <1>3, <2>1, <2>2, <3>1, KeptStill
    <3> QED
        BY <1>2, <2>2, <3>2 DEF Empty
  <2>3. CASE q # p
    <3>1. at'[q] = at[q]
        BY <1>2, <2>3 DEF Others
    <3>2. Kept(q)'
        BY <1>2, <1>3, <2>1, <3>1, KeptStill DEF Pictured
    <3>3. Empty(q)'
        BY <1>2, <2>1, <3>1 DEF Empty, Others
    <3> QED
        BY <3>2, <3>3
  <2> QED
      BY <2>2, <2>3
<1> QED
    BY <1>3, <1>4, DirParts DEF DirsInv

-----------------------------------------------------------------------------
(* Every step preserves the invariant                                      *)

LEMMA Parts ==
    LoopInv <=> /\ DirsInv
                /\ \A q \in Process : /\ WalkInv(q) /\ RunInv(q) /\ MotionInv(q)
                                      /\ ProbeInv(q) /\ RefusedInv(q)
                /\ StockRuns /\ ResultsSeen
                /\ StockPictures /\ PanelPictures /\ WitnessInv /\ CleanInv
BY DEF LoopInv, PassInv, DirsInv

(* What follows for the rest, once the move of the pass and its            *)
(* directories are settled.                                                *)
LEMMA MoveStep ==
    ASSUME TypeOK, LoopInv, NEW p \in Process, Others(p), Moves(p), Adds(p),
           DirsInv', DiskKept, ProbeInv(p)', RefusedInv(p)'
    PROVE  LoopInv'
<1>1. \A q \in Process : /\ WalkInv(q) /\ RunInv(q) /\ MotionInv(q)
                         /\ ProbeInv(q) /\ RefusedInv(q)
    BY Parts
<1>2. ASSUME NEW q \in Process
      PROVE  WalkInv(q)' /\ ProbeInv(q)' /\ RefusedInv(q)'
  <2>1. CASE q = p
      BY <1>1, <2>1, WalkStep
  <2>2. CASE q # p
    <3>1. at'[q] = at[q] /\ results'[q] = results[q]
        BY <2>2 DEF Others
    <3>2. WalkInv(q)' /\ RefusedInv(q)'
        BY <1>1, <3>1 DEF WalkInv, RefusedInv, Active, Rendering
    <3>3. ProbeInv(q)'
        BY <1>1, <3>1, HoldsStill DEF Active
    <3> QED
        BY <3>2, <3>3
  <2> QED
      BY <2>1, <2>2
<1>3. (\A q \in Process : RunInv(q)') /\ (\A q \in Process : MotionInv(q)')
    BY <1>1, RunStep, MotionStep, Parts
<1>4. StockRuns' /\ ResultsSeen' /\ StockPictures' /\ PanelPictures' /\ WitnessInv'
    BY <1>1, Parts, StockRunsStep, ResultsSeenStep, StockPicturesStep, PanelPicturesStep,
       WitnessStep
<1>5. CleanInv'
    BY <1>1, Parts, CleanStep, ProbeKindsAlways
<1> QED
    BY <1>2, <1>3, <1>4, <1>5 DEF LoopInv, PassInv, DirsInv

LEMMA TypeStep ==
    ASSUME TypeOK, stock' \in Seq(Signal), DOMAIN disk' \subseteq Path,
           \A f \in DOMAIN disk' : disk'[f] \in [of : Span \cup {"full-page"}, run : Nat],
           dirs' \subseteq Dir, at' \in [Process -> Pass],
           results' \in [Process -> Seq(Result)],
           passes' \in 0..MaxPasses, beacons' \in 0..MaxBeacons
    PROVE  TypeOK'
BY DEF TypeOK

LEMMA BeginKeeps ==
    ASSUME IInv, NEW p \in Process, Begin(p)
    PROVE  IInv'
<1> USE DEF IInv
<1>1. Others(p) /\ Begins(p) /\ at'[p].step = "read"
    BY BeginEffect DEF Begins
<1>2. Adds(p) /\ ProbeInv(p)'
    BY <1>1, NothingAdded, ForgottenProbe DEF Begins
<1>3. DirsInv' /\ DiskKept
  <2>1. ~Pictured(p)'
      BY <1>1 DEF Pictured
  <2> QED
      BY <1>1, <2>1, PlainDirs, Parts DEF Begins
<1>4. RefusedInv(p)'
    BY <1>1 DEF RefusedInv, Rendering
<1>5. LoopInv'
    BY <1>1, <1>2, <1>3, <1>4, MoveStep DEF Moves
<1>6. TypeOK'
  <2>1. passes' \in 0..MaxPasses
    <3>1. passes \in 0..MaxPasses /\ MaxPasses \in Nat
        BY BoundsAssumption DEF TypeOK
    <3>2. passes < MaxPasses /\ passes' = passes + 1
        BY DEF Begin
    <3> QED
        BY <3>1, <3>2
  <2>2. disk' = disk /\ dirs' = dirs /\ stock' = stock /\ beacons' = beacons
      BY <1>1, BeginEffect DEF Begins
  <2> QED
      BY <2>1, <2>2, BeginEffect DEF TypeOK
<1> QED
    BY <1>5, <1>6

LEMMA RegulateKeeps ==
    ASSUME IInv, NEW p \in Process, Regulate(p)
    PROVE  IInv'
<1> USE DEF IInv
<1>1. /\ Others(p) /\ Stays(p) /\ at'[p].step \in {"dir", "report"}
      /\ at'[p].step = "dir" <=> ~at'[p].refused
      /\ at'[p].seen \in Nat /\ at'[p].seen <= Len(stock)
      /\ at'[p].probe = {i \in 1..at'[p].seen : /\ stock[i].source = "probe"
                                                /\ stock[i].span = Subject(p)}
      /\ UNCHANGED <<stock, disk, dirs, results, passes, beacons>>
    BY RegulateEffect
<1>2. Adds(p)
    BY <1>1, NothingAdded
<1>3. ProbeInv(p)'
  <2>1. Subject(p)' = Subject(p)
      BY <1>1 DEF Stays, Subject
  <2> QED
      BY <1>1, <2>1 DEF ProbeInv
<1>4. DirsInv' /\ DiskKept
  <2>1. ~Pictured(p)' /\ at'[p].step # "capture"
      BY <1>1 DEF Pictured
  <2> QED
      BY <1>1, <2>1, PlainDirs, Parts
<1>5. RefusedInv(p)'
    BY <1>1 DEF RefusedInv, Rendering
<1>6. LoopInv'
    BY <1>1, <1>2, <1>3, <1>4, <1>5, MoveStep DEF Moves
<1>7. TypeOK'
    BY <1>1, RegulateEffect DEF TypeOK
<1> QED
    BY <1>6, <1>7

(* The three steps of a render.                                            *)
LEMMA RenderKeeps ==
    ASSUME IInv, NEW p \in Process, MakeDir(p) \/ Capture(p) \/ Audit(p)
    PROVE  IInv'
<1> USE DEF IInv
<1>1. /\ WalkInv(p) /\ DirInv(p) /\ DirsInv /\ ProbeInv(p) /\ RefusedInv(p)
      /\ at[p].todo # <<>> /\ Subject(p) \in Variant
  <2>1. WalkInv(p) /\ DirInv(p) /\ DirsInv /\ ProbeInv(p) /\ RefusedInv(p)
      BY Parts DEF DirsInv
  <2>2. Active(p) /\ at[p].step # "read"
      BY DEF MakeDir, Capture, Audit, Active
  <2> QED
      BY <2>1, <2>2, SubjectIs DEF WalkInv
<1>2. Others(p) /\ Renders(p)
    BY <1>1, MakeDirEffect, CaptureEffect, AuditEffect
<1>3. Adds(p)
    BY <1>2, NothingAdded DEF Renders
<1>4. ProbeInv(p)'
    BY <1>1, <1>2, <1>3, HoldsStill DEF Renders, Stays, Rendering, Active
<1>5. DirsInv' /\ DiskKept
    BY <1>1, MakeDirDirs, CaptureDirs, AuditDirs
<1>6. RefusedInv(p)'
    BY <1>1, <1>2 DEF RefusedInv, Renders, Rendering
<1>7. LoopInv'
    BY <1>2, <1>3, <1>4, <1>5, <1>6, MoveStep DEF Moves, Renders
<1>8. TypeOK'
  <2>1. CASE MakeDir(p)
      BY <1>1, <2>1, MakeDirEffect DEF TypeOK
  <2>2. CASE Capture(p)
    <3>1. /\ UNCHANGED <<stock, dirs, results, passes, beacons>>
          /\ at' \in [Process -> Pass]
        BY <1>1, <2>2, CaptureEffect
    <3>2. /\ DOMAIN disk' \subseteq Path
          /\ \A f \in DOMAIN disk' : disk'[f] \in [of : Span \cup {"full-page"}, run : Nat]
        BY <1>1, <2>2, CaptureWrites
    <3> QED
        BY <3>1, <3>2 DEF TypeOK
  <2>3. CASE Audit(p)
      BY <1>1, <2>3, AuditEffect DEF TypeOK
  <2> QED
      BY <2>1, <2>2, <2>3
<1> QED
    BY <1>7, <1>8

LEMMA EndKeeps ==
    ASSUME IInv, NEW p \in Process, Raise(p) \/ Crash(p) \/ Return(p)
    PROVE  IInv'
<1> USE DEF IInv
<1>1. Others(p) /\ Ends(p) /\ stock' = stock
    BY EndEffect
<1>2. at'[p].step = "idle" /\ at'[p].seen = 0 /\ at'[p].probe = {}
    BY <1>1, IdleType DEF Ends
<1>3. Adds(p) /\ ProbeInv(p)'
    BY <1>1, <1>2, NothingAdded, ForgottenProbe
<1>4. DirsInv' /\ DiskKept
  <2>1. ~Pictured(p)'
      BY <1>2 DEF Pictured
  <2> QED
      BY <1>1, <1>2, <2>1, PlainDirs, Parts DEF Ends
<1>5. RefusedInv(p)'
    BY <1>2 DEF RefusedInv, Rendering
<1>6. LoopInv'
    BY <1>1, <1>3, <1>4, <1>5, MoveStep DEF Moves
<1>7. TypeOK'
    BY <1>1, EndEffect DEF TypeOK, Ends
<1> QED
    BY <1>6, <1>7

LEMMA ConcludeKeeps ==
    ASSUME IInv, NEW p \in Process, Conclude(p)
    PROVE  IInv'
<1> USE DEF IInv
<1>1. WalkInv(p) /\ DirInv(p) /\ DirsInv
    BY Parts DEF DirsInv
<1>2. Reporting(p) /\ Others(p) /\ Extended(p) /\ (Accepts(p) \/ Ends(p))
    BY <1>1, ConcludeEffect
<1>3. /\ at'[p].step \in {"idle", "read"} /\ at'[p].seen = 0 /\ at'[p].probe = {}
      /\ disk' = disk /\ dirs' = dirs /\ passes' = passes
    BY <1>2, IdleType, AcceptFields DEF Ends, Accepts
<1>4. Adds(p) /\ ProbeInv(p)'
  <2>1. Active(p) /\ ~Stays(p)
      BY <1>2, <1>3 DEF Reporting, Active, Stays
  <2> QED
      BY <1>2, <1>3, <2>1, ForgottenProbe DEF Adds
<1>5. DirsInv' /\ DiskKept
  <2>1. ~Pictured(p)' /\ at'[p].step # "capture"
      BY <1>3 DEF Pictured
  <2> QED
      BY <1>1, <1>2, <1>3, <2>1, PlainDirs
<1>6. RefusedInv(p)'
    BY <1>3 DEF RefusedInv, Rendering
<1>7. LoopInv'
    BY <1>2, <1>4, <1>5, <1>6, MoveStep DEF Moves
<1>8. TypeOK'
    BY <1>1, <1>2, <1>3, ConcludeEffect DEF TypeOK, Extended
<1> QED
    BY <1>7, <1>8

(* The probe's own signals move nothing.                                   *)
LEMMA BeaconKeeps ==
    ASSUME IInv, Beacon
    PROVE  IInv'
<1>1. TypeOK /\ LoopInv /\ Len(stock) \in Nat
    BY Shape DEF IInv
<1>2. /\ stock' \in Seq(Signal) /\ Len(stock') = Len(stock) + 1
      /\ \A i \in 1..Len(stock) : stock'[i] = stock[i]
      /\ stock'[Len(stock) + 1].source = "probe"
      /\ stock'[Len(stock) + 1].kind \in FAILURE_KINDS
      /\ disk' = disk /\ dirs' = dirs /\ at' = at /\ results' = results /\ passes' = passes
      /\ beacons' \in 0..MaxBeacons
    BY <1>1, BeaconEffect
<1>3. \A i \in 1..Len(stock') :
         \/ i \in 1..Len(stock) /\ stock'[i] = stock[i]
         \/ stock'[i].source = "probe" /\ stock'[i].kind \in FAILURE_KINDS
    BY <1>1, <1>2
<1>4. "screenshot" \notin FAILURE_KINDS
    BY DEF FAILURE_KINDS, KindOf
<1>5. ASSUME NEW q \in Process
      PROVE  WalkInv(q)' /\ RunInv(q)' /\ RefusedInv(q)' /\ DirInv(q)'
  <2>1. WalkInv(q) /\ RunInv(q) /\ RefusedInv(q) /\ DirInv(q)
      BY <1>1 DEF LoopInv, PassInv
  <2>2. WalkInv(q)' /\ RefusedInv(q)'
      BY <1>2, <2>1 DEF WalkInv, RefusedInv, Active, Rendering
  <2>3. RunInv(q)'
      BY <1>2, <2>1 DEF RunInv, Active
  <2>4. DirInv(q)'
      BY <1>2, <2>1, DirUnchanged
  <2> QED
      BY <2>2, <2>3, <2>4
<1>6. ASSUME NEW q \in Process
      PROVE  MotionInv(q)'
    BY <1>1, <1>2, <1>3 DEF LoopInv, PassInv, MotionInv, Active
<1>7. ASSUME NEW q \in Process
      PROVE  ProbeInv(q)'
  <2>1. ProbeInv(q) /\ at[q].seen \in Nat
      BY <1>1, Shape, PassFields DEF LoopInv, PassInv
  <2>2. \A i \in 1..at[q].seen : i \in 1..Len(stock)
      BY <1>1, <2>1 DEF ProbeInv
  <2> QED
      BY <1>1, <1>2, <2>1, <2>2 DEF ProbeInv, Active, Subject
<1>8. StockRuns' /\ DiskInv' /\ PanelPictures'
    BY <1>1, <1>2, <1>3 DEF LoopInv, StockRuns, DiskInv, PanelPictures, Made
<1>9. ResultsSeen'
  <2>1. ASSUME NEW q \in Process, NEW i \in 1..Len(results[q])
        PROVE  results[q][i].seen <= Len(stock')
    <3>1. results[q][i] \in Result
        BY <1>1, Shape
    <3> QED
        BY <1>1, <1>2, <3>1 DEF LoopInv, ResultsSeen, Result
  <2> QED
      BY <1>2, <2>1 DEF ResultsSeen
<1>10. StockPictures'
  <2>1. DistinctNames' = DistinctNames
      BY DEF DistinctNames
  <2> QED
      BY <1>1, <1>2, <1>3, <1>4, <2>1 DEF LoopInv, StockPictures
<1>11. WitnessInv'
  <2>1. \A k \in 1..Len(stock) : k \in 1..Len(stock')
      BY <1>1, <1>2
  <2> QED
      BY <1>1, <1>2, <2>1 DEF LoopInv, WitnessInv, Witnesses
<1>12. CleanInv'
  <2>1. ASSUME NEW q \in Process, NEW i \in 1..Len(results[q])
        PROVE  \A k \in 1..results[q][i].seen : k \in 1..Len(stock)
    <3>1. results[q][i] \in Result
        BY <1>1, Shape
    <3>2. results[q][i].seen \in Nat /\ results[q][i].seen <= Len(stock)
        BY <1>1, <3>1 DEF LoopInv, ResultsSeen, Result
    <3> QED
        BY <1>1, <3>2
  <2>2. ASSUME NEW q \in Process, NEW i \in 1..Len(results[q]), results[q][i].passed
        PROVE  /\ \A k \in 1..results[q][i].seen :
                     ~(stock'[k].source = "probe" /\ stock'[k].span = results[q][i].variant)
               /\ \A k \in 1..Len(stock') : ~MovedIn(stock'[k], results[q][i])
    <3>1. CleanInv
        BY <1>1 DEF LoopInv
    <3>2. /\ \A k \in 1..results[q][i].seen :
                ~(stock[k].source = "probe" /\ stock[k].span = results[q][i].variant)
          /\ \A k \in 1..Len(stock) : ~MovedIn(stock[k], results[q][i])
        BY <2>2, <3>1 DEF CleanInv
    <3>3. \A k \in 1..results[q][i].seen : stock'[k] = stock[k]
        BY <1>2, <2>1
    <3>4. \A k \in 1..Len(stock') : ~MovedIn(stock'[k], results[q][i])
        BY <1>3, <3>2 DEF MovedIn
    <3> QED
        BY <3>2, <3>3, <3>4
  <2> QED
      BY <1>2, <2>2 DEF CleanInv, MovedIn
<1>13. LoopInv'
    BY <1>5, <1>6, <1>7, <1>8, <1>9, <1>10, <1>11, <1>12 DEF LoopInv, PassInv
<1>14. TypeOK'
    BY <1>1, <1>2 DEF TypeOK
<1> QED
    BY <1>13, <1>14 DEF IInv

LEMMA StutterKeeps == IInv /\ UNCHANGED vars => IInv'
<1> SUFFICES ASSUME IInv, UNCHANGED vars PROVE IInv'
    OBVIOUS
<1>1. /\ stock' = stock /\ disk' = disk /\ dirs' = dirs /\ at' = at /\ results' = results
      /\ passes' = passes /\ beacons' = beacons
    BY DEF vars
<1>2. TypeOK /\ LoopInv
    BY DEF IInv
<1>3. ASSUME NEW q \in Process PROVE PassInv(q)'
  <2>1. PassInv(q)
      BY <1>2 DEF LoopInv
  <2>2. WalkInv(q)' /\ RefusedInv(q)' /\ RunInv(q)' /\ MotionInv(q)'
      BY <1>1, <2>1 DEF PassInv, WalkInv, RefusedInv, RunInv, MotionInv, Active, Rendering
  <2>3. ProbeInv(q)'
      BY <1>1, <2>1 DEF PassInv, ProbeInv, Active, Subject
  <2>4. DirInv(q)'
      BY <1>1, <2>1, DirUnchanged DEF PassInv
  <2> QED
      BY <2>2, <2>3, <2>4 DEF PassInv
<1>4. StockRuns' /\ DiskInv' /\ ResultsSeen' /\ PanelPictures' /\ StockPictures'
    BY <1>1, <1>2 DEF LoopInv, StockRuns, DiskInv, ResultsSeen, PanelPictures, StockPictures,
                      Made, DistinctNames
<1>5. WitnessInv' /\ CleanInv'
    BY <1>1, <1>2 DEF LoopInv, WitnessInv, CleanInv, Witnesses, MovedIn
<1>6. TypeOK'
    BY <1>1, <1>2 DEF TypeOK
<1> QED
    BY <1>3, <1>4, <1>5, <1>6 DEF IInv, LoopInv

LEMMA InitHolds == Init => IInv
<1> SUFFICES ASSUME Init PROVE IInv
    OBVIOUS
<1>1. /\ stock = <<>> /\ disk = <<>> /\ dirs = {} /\ passes = 0 /\ beacons = 0
      /\ at = [p \in Process |-> Idle] /\ results = [p \in Process |-> <<>>]
    BY DEF Init
<1>2. /\ Len(stock) = 0 /\ DOMAIN disk = {} /\ stock \in Seq(Signal)
      /\ \A p \in Process : Len(results[p]) = 0 /\ at[p] = Idle
    BY <1>1
<1>3. TypeOK
  <2>1. at \in [Process -> Pass] /\ results \in [Process -> Seq(Result)]
    <3> HIDE DEF Idle
    <3> QED
      BY <1>1, IdleType
  <2> QED
      BY <1>1, <1>2, <2>1, BoundsAssumption DEF TypeOK
<1>4. ASSUME NEW p \in Process PROVE PassInv(p)
  <2>1. at[p].step = "idle" /\ at[p].seen = 0 /\ at[p].probe = {}
      BY <1>2, IdleType
  <2> QED
      BY <1>2, <2>1 DEF PassInv, WalkInv, RunInv, MotionInv, ProbeInv, RefusedInv, DirInv,
                        Active, Rendering, Pictured
<1>5. /\ StockRuns /\ DiskInv /\ ResultsSeen /\ StockPictures /\ PanelPictures
      /\ WitnessInv /\ CleanInv
    BY <1>2 DEF StockRuns, DiskInv, ResultsSeen, StockPictures, PanelPictures, WitnessInv,
                CleanInv
<1> QED
    BY <1>3, <1>4, <1>5 DEF IInv, LoopInv

-----------------------------------------------------------------------------
(* The results                                                             *)

(* The invariant holds in every behaviour.                                 *)
THEOREM PassInvariant == Spec => []IInv
<1>1. IInv /\ [Next]_vars => IInv'
  <2> SUFFICES ASSUME IInv, [Next]_vars PROVE IInv'
      OBVIOUS
  <2>1. CASE Beacon
      BY <2>1, BeaconKeeps
  <2>2. CASE \E p \in Process : \/ Begin(p) \/ Regulate(p)
                                \/ MakeDir(p) \/ Capture(p) \/ Audit(p)
                                \/ Conclude(p) \/ Return(p) \/ Raise(p) \/ Crash(p)
      BY <2>2, BeginKeeps, RegulateKeeps, RenderKeeps, ConcludeKeeps, EndKeeps
  <2>3. CASE UNCHANGED vars
      BY <2>3, StutterKeeps
  <2> QED
      BY <2>1, <2>2, <2>3 DEF Next
<1> QED
    BY InitHolds, <1>1, PTL DEF Spec

(* Every variable keeps its type.                                          *)
THEOREM PassTypeCorrect == Spec => []TypeOK
<1>1. IInv => TypeOK
    BY DEF IInv
<1> QED
    BY <1>1, PassInvariant, PTL

(* What passed has all of its gates in the stock, each of them passed      *)
(* (servo.py, _persist before the observation is handed back).             *)
THEOREM PassesAreWitnessed == Spec => []PassIsWitnessed
<1>1. IInv => PassIsWitnessed
  <2> SUFFICES ASSUME IInv, NEW p \in Process, NEW r \in Range(results[p]), r.passed,
                      NEW g \in Range(REQUIRED_GATES)
               PROVE  \E s \in Range(stock) :
                         /\ s.kind = "gate" /\ s.span = r.variant /\ s.run = r.run
                         /\ s.gate = g /\ s.passed
      BY DEF PassIsWitnessed
  <2>1. results[p] \in Seq(Result) /\ stock \in Seq(Signal)
      BY Shape DEF IInv
  <2>2. PICK i \in 1..Len(results[p]) : r = results[p][i]
      BY <2>1, InRange
  <2>3. PICK k \in 1..Len(stock) : Witnesses(stock[k], r, g)
      BY <2>2 DEF IInv, LoopInv, WitnessInv
  <2>4. stock[k] \in Range(stock)
      BY <2>1, InRange
  <2> QED
      BY <2>3, <2>4 DEF Witnesses
<1> QED
    BY <1>1, PassInvariant, PTL

(* What passed had no failure of the probe under its span when the stock   *)
(* was read, and nothing moving in its render (regulator.py, _gates).      *)
THEOREM PassesAreClean == Spec => []PassMeansClean
<1>1. IInv => PassMeansClean
  <2> SUFFICES ASSUME IInv, NEW p \in Process, NEW r \in Range(results[p]), r.passed
               PROVE  /\ \A i \in 1..r.seen :
                            ~(stock[i].source = "probe" /\ stock[i].span = r.variant)
                      /\ \A s \in Range(stock) : ~MovedIn(s, r)
      BY DEF PassMeansClean, MovedIn
  <2>1. results[p] \in Seq(Result) /\ stock \in Seq(Signal)
      BY Shape DEF IInv
  <2>2. PICK i \in 1..Len(results[p]) : r = results[p][i]
      BY <2>1, InRange
  <2>3. ASSUME NEW s \in Range(stock) PROVE ~MovedIn(s, r)
    <3>1. PICK k \in 1..Len(stock) : s = stock[k]
        BY <2>1, InRange
    <3> QED
        BY <2>2, <3>1 DEF IInv, LoopInv, CleanInv
  <2> QED
      BY <2>2, <2>3 DEF IInv, LoopInv, CleanInv
<1> QED
    BY <1>1, PassInvariant, PTL

(* A screenshot the stock names shows the span it is filed under as that   *)
(* observation saw it, and the panel's is of that very render, whoever     *)
(* else runs (playwright_sensor.py, _observation_dir).                     *)
THEOREM PicturesStayTrue ==
    ASSUME DistinctNames
    PROVE  Spec => []PicturesAreTrue
<1>1. IInv => PicturesAreTrue
  <2> SUFFICES ASSUME IInv PROVE PicturesAreTrue
      OBVIOUS
  <2>0. /\ stock \in Seq(Signal) /\ TypeOK
        /\ \A p \in Process : results[p] \in Seq(Result)
      BY Shape DEF IInv
  <2>1. ASSUME NEW s \in Range(stock), s.kind = "screenshot"
        PROVE  disk[s.path] = [of |-> s.of, run |-> s.run]
    <3>1. PICK i \in 1..Len(stock) : s = stock[i]
        BY <2>0, InRange
    <3>2. /\ s.path \in DOMAIN disk
          /\ disk[s.path].run = s.run /\ disk[s.path].of = s.of
        BY <2>1, <3>1 DEF IInv, LoopInv, StockPictures
    <3>3. disk[s.path] \in [of : Span \cup {"full-page"}, run : Nat]
        BY <2>0, <3>2 DEF TypeOK
    <3> QED
        BY <3>2, <3>3
  <2>2. ASSUME NEW p \in Process, NEW r \in Range(results[p]), r.screenshot # <<>>
        PROVE  disk[r.screenshot].run = r.run
    <3>1. PICK i \in 1..Len(results[p]) : r = results[p][i]
        BY <2>0, InRange
    <3> QED
        BY <2>2, <3>1 DEF IInv, LoopInv, PanelPictures
  <2> QED
      BY <2>1, <2>2 DEF PicturesAreTrue
<1> QED
    BY <1>1, PassInvariant, PTL

(* Whatever the names, a picture is of the run that filed it.              *)
PicturesOfTheirRun ==
    /\ \A s \in Range(stock) : s.kind = "screenshot" => disk[s.path].run = s.run
    /\ \A p \in Process : \A r \in Range(results[p]) : r.screenshot # <<>> =>
          disk[r.screenshot].run = r.run

(* mkdir gives a directory to one observation only, so that no two of them *)
(* share a file even where two spans share a name (_observation_dir).      *)
THEOREM RunsShareNoPicture == Spec => []PicturesOfTheirRun
<1>1. IInv => PicturesOfTheirRun
  <2> SUFFICES ASSUME IInv PROVE PicturesOfTheirRun
      OBVIOUS
  <2>1. /\ stock \in Seq(Signal)
        /\ \A p \in Process : results[p] \in Seq(Result)
      BY Shape DEF IInv
  <2>2. ASSUME NEW s \in Range(stock), s.kind = "screenshot"
        PROVE  disk[s.path].run = s.run
    <3>1. PICK i \in 1..Len(stock) : s = stock[i]
        BY <2>1, InRange
    <3> QED
        BY <2>2, <3>1 DEF IInv, LoopInv, StockPictures
  <2>3. ASSUME NEW p \in Process, NEW r \in Range(results[p]), r.screenshot # <<>>
        PROVE  disk[r.screenshot].run = r.run
    <3>1. PICK i \in 1..Len(results[p]) : r = results[p][i]
        BY <2>1, InRange
    <3> QED
        BY <2>3, <3>1 DEF IInv, LoopInv, PanelPictures
  <2> QED
      BY <2>2, <2>3 DEF PicturesOfTheirRun
<1> QED
    BY <1>1, PassInvariant, PTL
=============================================================================
