------------------------------- MODULE FastLoop -------------------------------
(***************************************************************************)
(* The gate pass of a round: _fast_loop (ui_servo/control/servo.py), the   *)
(* Regulator it drives (ui_servo/control/regulator.py) and the shadow      *)
(* browser that looks for it (ui_servo/adapters/playwright_sensor.py),     *)
(* with the in-page probe reporting from preview pages meanwhile.          *)
(*                                                                         *)
(* Several processes run the gate pass of one turn into one output root,   *)
(* each with its own browser and one worker.  What a render looks like and *)
(* what the audit finds are free choices.  A signal carries what gates and *)
(* readers tell apart; `run' stands for its instant and `page' for the     *)
(* page it was reported from, which no field of a real signal holds and    *)
(* only properties look at.  Baselines and interaction scripts, which the  *)
(* round never passes, and the style vector, which no gate reads, are left *)
(* out.                                                                    *)
(***************************************************************************)
EXTENDS Naturals, Sequences, FiniteSets, SequencesExt

CONSTANTS Process,       \* the rounds' processes
          Variant,       \* a variant's id is also its span_id
          Candidates,    \* the variants of the turn, in order
          RootSpan,      \* RootSpan[v]: the data-span-id the fragment of v carries
          SafeName,      \* SafeName[s]: span s as a path segment
          MaxObs,        \* observations of a span in a turn, 9999 in the code
          TornLengths,   \* bound: the prefixes that a failed append may leave
          MaxPasses,     \* bound: gate passes begun
          MaxBeacons     \* bound: signals from the probe

ASSUME CandidatesAssumption ==
    Candidates \in Seq(Variant) /\ IsInjective(Candidates)
ASSUME NamesAssumption ==
    DOMAIN RootSpan = Variant /\ Variant \cup Range(RootSpan) \subseteq DOMAIN SafeName
ASSUME BoundsAssumption == {MaxObs, MaxPasses, MaxBeacons} \cup TornLengths \subseteq Nat

(* The gates in the order of REQUIRED_GATES, and those of them that have   *)
(* nothing to say about a fragment that was never rendered.                *)
REQUIRED_GATES == <<"sanitizer-accepted", "no-runtime-errors", "no-unknown-class",
                    "no-overflow", "no-motion-violation", "axe-clean",
                    "reduced-motion-honoured">>
RENDER_DEPENDENT_GATES == {"no-runtime-errors", "no-overflow", "no-motion-violation",
                           "axe-clean", "reduced-motion-honoured"}

(* The kind of signal each gate over kinds fails on; js-error stands for   *)
(* all of RUNTIME_ERROR_KINDS.                                             *)
KindOf == [g \in {"no-runtime-errors", "no-unknown-class", "no-overflow",
                  "no-motion-violation"} |->
             CASE g = "no-runtime-errors" -> "js-error"
               [] g = "no-unknown-class" -> "unknown-class"
               [] g = "no-overflow" -> "overflow"
               [] g = "no-motion-violation" -> "motion-violation"]
FAILURE_KINDS == {KindOf[g] : g \in DOMAIN KindOf}

VARIABLES
    stock,      \* the evidence store: signals in admission order
    disk,       \* disk[<<dir, file>>]: what was photographed, and by whom
    dirs,       \* observation directories: <<span, number>>
    at,         \* at[p]: how far process p is
    results,    \* results[p]: the observations p's pass has made
    passes,     \* gate passes begun
    beacons     \* probe signals that arrived

vars == <<stock, disk, dirs, at, results, passes, beacons>>

(* A SensorReport: the spans with a picture of their own, whether axe was  *)
(* content, and whether anything still moved.                              *)
NoReport == [shots |-> {}, axe |-> TRUE, moves |-> FALSE]

Idle == [step |-> "idle", run |-> 0, todo |-> <<>>, probe |-> {}, seen |-> 0,
         refused |-> FALSE, unknown |-> FALSE, dir |-> <<>>, sensed |-> NoReport]

Init ==
    /\ stock = <<>>
    /\ disk = <<>>
    /\ dirs = {}
    /\ at = [p \in Process |-> Idle]
    /\ results = [p \in Process |-> <<>>]
    /\ passes = 0
    /\ beacons = 0

-----------------------------------------------------------------------------
(* The probe in the preview page of a variant.  The body carries the       *)
(* variant's name and the fragment its own span.  What belongs to an       *)
(* element is filed under the span nearest to it; errors, rejections and   *)
(* CSP violations that the window catches go under the span "probe".       *)

(* The candidate route names the page's body after the file.               *)
BodySpan(v) == v

SpansOf(v) == {BodySpan(v), RootSpan[v]}

FiledUnder(kind, v) == SpansOf(v) \cup (IF kind = "js-error" THEN {"probe"} ELSE {})

Beacon ==
    /\ beacons < MaxBeacons
    /\ beacons' = beacons + 1
    /\ \E v \in Range(Candidates), kind \in FAILURE_KINDS :
          \E span \in FiledUnder(kind, v) :
             stock' = Append(stock, [source |-> "probe", kind |-> kind,
                                     span |-> span, page |-> v])
    /\ UNCHANGED <<disk, dirs, at, results, passes>>

-----------------------------------------------------------------------------
(* A pass: its browser starts before its first variant.                    *)

Begin(p) ==
    /\ at[p].step = "idle"
    /\ passes < MaxPasses
    /\ passes' = passes + 1
    /\ at' = [at EXCEPT ![p] = [Idle EXCEPT !.step = "read", !.run = passes + 1,
                                           !.todo = Candidates]]
    /\ results' = [results EXCEPT ![p] = <<>>]
    /\ UNCHANGED <<stock, disk, dirs, beacons>>

Subject(p) == Head(at[p].todo)

(* _probe_signals, what the probe said of this span in any turn, with a    *)
(* stock that cannot be read counting as an empty one; and regulate up to  *)
(* its one branch: only what the sanitizer accepts is rendered.            *)
Regulate(p) ==
    /\ at[p].step = "read"
    /\ at[p].todo # <<>>
    /\ \E seen \in {0, Len(stock)}, refused, unknown \in BOOLEAN :
          /\ unknown => refused
          /\ at' = [at EXCEPT
                ![p].step = IF refused THEN "report" ELSE "dir",
                ![p].seen = seen,
                ![p].probe = {i \in 1..seen : /\ stock[i].source = "probe"
                                              /\ stock[i].span = Subject(p)},
                ![p].refused = refused,
                ![p].unknown = unknown]
    /\ UNCHANGED <<stock, disk, dirs, results, passes, beacons>>

-----------------------------------------------------------------------------
(* PlaywrightSensor.observe                                                *)

Taken(span) == {d[2] : d \in {e \in dirs : e[1] = SafeName[span]}}

(* Mutated: the first name will do, taken or not.                          *)
MakeDirShared(p) ==
    /\ at[p].step = "dir"
    /\ dirs' = dirs \cup {<<SafeName[Subject(p)], 1>>}
    /\ at' = [at EXCEPT ![p].step = "capture", ![p].dir = <<SafeName[Subject(p)], 1>>]
    /\ UNCHANGED <<stock, disk, results, passes, beacons>>

(* _observation_dir: the lowest number whose mkdir does not find a         *)
(* directory there; nothing removes one.                                   *)
MakeDir(p) ==
    /\ at[p].step = "dir"
    /\ \E n \in (1..MaxObs) \ Taken(Subject(p)) :
          /\ 1..(n - 1) \subseteq Taken(Subject(p))
          /\ dirs' = dirs \cup {<<SafeName[Subject(p)], n>>}
          /\ at' = [at EXCEPT ![p].step = "capture", ![p].dir = <<SafeName[Subject(p)], n>>]
    /\ UNCHANGED <<stock, disk, results, passes, beacons>>

(* The whole page lies beside the directory of the elements' pictures.     *)
FileOf(p, span) == <<at[p].dir, "elements", SafeName[span]>>
FullPage(p) == <<at[p].dir, "page", "full-page">>

Written(p, seen) == {FullPage(p)} \cup {FileOf(p, s) : s \in seen}
ShownOn(p, seen, f) ==
    IF f = FullPage(p) THEN "full-page" ELSE CHOOSE s \in seen : FileOf(p, s) = f

(* _capture: the page, and those of its spans that can be photographed.    *)
Capture(p) ==
    /\ at[p].step = "capture"
    /\ \E seen \in SUBSET SpansOf(Subject(p)) :
          /\ disk' = [f \in DOMAIN disk \cup Written(p, seen) |->
                         IF f \in Written(p, seen)
                         THEN [of |-> ShownOn(p, seen, f), run |-> at[p].run]
                         ELSE disk[f]]
          /\ at' = [at EXCEPT ![p].step = "audit", ![p].sensed.shots = seen]
    /\ UNCHANGED <<stock, dirs, results, passes, beacons>>

(* _run_axe on the page at rest, and _reduced_motion in a second context:  *)
(* whether anything in the fragment still moves.                           *)
Audit(p) ==
    /\ at[p].step = "audit"
    /\ \E clean, moves \in BOOLEAN :
          at' = [at EXCEPT ![p].step = "report", ![p].sensed.axe = clean,
                          ![p].sensed.moves = moves]
    /\ UNCHANGED <<stock, disk, dirs, results, passes, beacons>>

(* SensorError, or an OSError the sensor lets through: the context and the *)
(* browser are closed on the way out, and the pass returns nothing.        *)
Raise(p) ==
    /\ at[p].step \in {"dir", "capture", "audit"}
    /\ at' = [at EXCEPT ![p] = Idle]
    /\ results' = [results EXCEPT ![p] = <<>>]
    /\ UNCHANGED <<stock, disk, dirs, passes, beacons>>

(* The process is killed; its browser goes with it.                        *)
Crash(p) ==
    /\ at[p].step # "idle"
    /\ at' = [at EXCEPT ![p] = Idle]
    /\ results' = [results EXCEPT ![p] = <<>>]
    /\ UNCHANGED <<stock, disk, dirs, passes, beacons>>

-----------------------------------------------------------------------------
(* The gates                                                               *)

Kinds(p) == {stock[i].kind : i \in at[p].probe}
            \cup (IF at[p].sensed.moves THEN {"motion-violation"} ELSE {})

(* Mutated: a gate over kinds looks only at what the harness saw.          *)
PassesUnprobed(p, g) ==
    /\ g \in RENDER_DEPENDENT_GATES => ~at[p].refused
    /\ g = "no-motion-violation" => ~at[p].sensed.moves
    /\ g = "sanitizer-accepted" => ~at[p].refused
    /\ g = "no-unknown-class" => ~at[p].unknown
    /\ g = "axe-clean" => at[p].sensed.axe
    /\ g = "reduced-motion-honoured" => ~at[p].sensed.moves

Evaluated(p, g) == g \in RENDER_DEPENDENT_GATES => ~at[p].refused

(* A gate that depends on a render fails closed without one.               *)
Passes(p, g) ==
    /\ Evaluated(p, g)
    /\ g \in DOMAIN KindOf => KindOf[g] \notin Kinds(p)
    /\ g = "sanitizer-accepted" => ~at[p].refused
    /\ g = "no-unknown-class" => ~at[p].unknown
    /\ g = "axe-clean" => at[p].sensed.axe
    /\ g = "reduced-motion-honoured" => ~at[p].sensed.moves

GateResult(p, g) == [gate |-> g, passed |-> Passes(p, g), evaluated |-> Evaluated(p, g)]

(* RegulatorReport: every gate of the bar, once and in order.              *)
Report(p) == [i \in DOMAIN REQUIRED_GATES |-> GateResult(p, REQUIRED_GATES[i])]

Passed(p) == \A result \in Range(Report(p)) : result.passed

-----------------------------------------------------------------------------
(* The evidence of an observation, and the end of it                       *)

Picture(p, span, path, of) ==
    [source |-> "harness", kind |-> "screenshot", span |-> span, run |-> at[p].run,
     path |-> path, of |-> of]

(* PlaywrightSensor._signals: a finding goes to the span that owns it.     *)
Harness(p) ==
    IF at[p].refused THEN <<>>
    ELSE <<Picture(p, Subject(p), FullPage(p), "full-page")>>
         \o SetToSeq({Picture(p, s, FileOf(p, s), s) : s \in at[p].sensed.shots})
         \o IF ~at[p].sensed.moves THEN <<>>
            ELSE <<[source |-> "harness", kind |-> "motion-violation",
                    span |-> RootSpan[Subject(p)], run |-> at[p].run,
                    page |-> Subject(p)]>>

Emitted(p) ==
    <<[source |-> "gate", kind |-> "sanitize", span |-> Subject(p),
       run |-> at[p].run, accepted |-> ~at[p].refused]>>
    \o [i \in DOMAIN REQUIRED_GATES |->
          LET result == GateResult(p, REQUIRED_GATES[i])
          IN  [source |-> "gate", kind |-> "gate", span |-> Subject(p), run |-> at[p].run,
               gate |-> result.gate, passed |-> result.passed,
               evaluated |-> result.evaluated]]

(* _persist: all of the report's evidence but what the store handed over.  *)
Fresh(p) == Harness(p) \o Emitted(p)

(* _screenshot_of: the variant's own span, its declared one, the page.     *)
ScreenshotOf(p) ==
    LET v == Subject(p)
    IN  CASE at[p].refused -> <<>>
          [] ~at[p].refused /\ v \in at[p].sensed.shots -> FileOf(p, v)
          [] ~at[p].refused /\ v \notin at[p].sensed.shots /\ RootSpan[v] \in at[p].sensed.shots
               -> FileOf(p, RootSpan[v])
          [] OTHER -> FullPage(p)

Observation(p) == [variant |-> Subject(p), run |-> at[p].run, passed |-> Passed(p),
                   seen |-> at[p].seen, screenshot |-> ScreenshotOf(p)]

NextVariant(p) == [Idle EXCEPT !.step = "read", !.run = at[p].run,
                               !.todo = Tail(at[p].todo)]

(* Mutated: an observation whose evidence was not written is returned.     *)
ConcludeAnyway(p) ==
    /\ at[p].step = "report"
    /\ \E n \in (TornLengths \cap 0..Len(Fresh(p))) \cup {Len(Fresh(p))} :
          stock' = stock \o SubSeq(Fresh(p), 1, n)
    /\ results' = [results EXCEPT ![p] = Append(@, Observation(p))]
    /\ at' = [at EXCEPT ![p] = NextVariant(p)]
    /\ UNCHANGED <<disk, dirs, passes, beacons>>

(* The evidence is appended in one call; when that raises, a prefix of it  *)
(* may be in the stock, and the pass ends there.                           *)
Conclude(p) ==
    /\ at[p].step = "report"
    /\ \/ /\ stock' = stock \o Fresh(p)
          /\ results' = [results EXCEPT ![p] = Append(@, Observation(p))]
          /\ at' = [at EXCEPT ![p] = NextVariant(p)]
       \/ /\ \E n \in TornLengths \cap 0..(Len(Fresh(p)) - 1) :
                stock' = stock \o SubSeq(Fresh(p), 1, n)
          /\ results' = [results EXCEPT ![p] = <<>>]
          /\ at' = [at EXCEPT ![p] = Idle]
    /\ UNCHANGED <<disk, dirs, passes, beacons>>

(* The round has its observations; they are kept for the properties.       *)
Return(p) ==
    /\ at[p].step = "read"
    /\ at[p].todo = <<>>
    /\ at' = [at EXCEPT ![p] = Idle]
    /\ UNCHANGED <<stock, disk, dirs, results, passes, beacons>>

-----------------------------------------------------------------------------
Next ==
    \/ Beacon
    \/ \E p \in Process :
          \/ Begin(p) \/ Regulate(p)
          \/ MakeDir(p) \/ Capture(p) \/ Audit(p)
          \/ Conclude(p) \/ Return(p) \/ Raise(p) \/ Crash(p)

Spec == Init /\ [][Next]_vars

-----------------------------------------------------------------------------
(* Properties                                                              *)

Span == Variant \cup Range(RootSpan)
Dir == Range(SafeName) \X Nat
Path == Dir \X {"page", "elements"} \X (Range(SafeName) \cup {"full-page"})

Sensed == [shots : SUBSET Span, axe : BOOLEAN, moves : BOOLEAN]

Pass == [step : {"idle", "read", "dir", "capture", "audit", "report"},
         run : Nat, todo : Seq(Variant), probe : SUBSET Nat, seen : Nat,
         refused : BOOLEAN, unknown : BOOLEAN, dir : Dir \cup {<<>>}, sensed : Sensed]

ProbeSignal == [source : {"probe"}, kind : FAILURE_KINDS, span : Span \cup {"probe"},
                page : Variant]
PictureSignal == [source : {"harness"}, kind : {"screenshot"}, span : Span, run : Nat,
                  path : Path, of : Span \cup {"full-page"}]
MotionSignal == [source : {"harness"}, kind : {"motion-violation"}, span : Span,
                 run : Nat, page : Variant]
SanitizeSignal == [source : {"gate"}, kind : {"sanitize"}, span : Span, run : Nat,
                   accepted : BOOLEAN]
GateSignal == [source : {"gate"}, kind : {"gate"}, span : Span, run : Nat,
               gate : Range(REQUIRED_GATES), passed : BOOLEAN, evaluated : BOOLEAN]
Signal == ProbeSignal \cup PictureSignal \cup MotionSignal \cup SanitizeSignal
          \cup GateSignal

Result == [variant : Variant, run : Nat, passed : BOOLEAN, seen : Nat,
           screenshot : Path \cup {<<>>}]

(* Every variable keeps its type.                                          *)
TypeOK ==
    /\ stock \in Seq(Signal)
    /\ DOMAIN disk \subseteq Path
    /\ \A f \in DOMAIN disk : disk[f] \in [of : Span \cup {"full-page"}, run : Nat]
    /\ dirs \subseteq Dir
    /\ at \in [Process -> Pass]
    /\ results \in [Process -> Seq(Result)]
    /\ passes \in 0..MaxPasses
    /\ beacons \in 0..MaxBeacons

(* An observation that says its variant passed has all of its gates in the *)
(* stock, each of them passed: what goes on to the panel can be audited    *)
(* whatever raised, and whoever else was writing (servo.py, _persist).     *)
PassIsWitnessed ==
    \A p \in Process : \A r \in Range(results[p]) : r.passed =>
        \A g \in Range(REQUIRED_GATES) : \E s \in Range(stock) :
            /\ s.kind = "gate"
            /\ s.span = r.variant
            /\ s.run = r.run
            /\ s.gate = g
            /\ s.passed

(* A variant passes only if nothing the probe had filed under its span     *)
(* when the stock was read is a failure, and the harness found nothing     *)
(* moving in that render (regulator.py, _gates).                           *)
PassMeansClean ==
    \A p \in Process : \A r \in Range(results[p]) : r.passed =>
        /\ \A i \in 1..r.seen :
              ~(stock[i].source = "probe" /\ stock[i].span = r.variant)
        /\ \A s \in Range(stock) :
              ~(s.kind = "motion-violation" /\ s.source = "harness" /\ s.run = r.run
                /\ s.page = r.variant)

(* A screenshot the stock names shows the span it is filed under as that   *)
(* observation saw it, and the one the panel gets is of this very render:  *)
(* no other process, pass or variant ever writes over it.                  *)
PicturesAreTrue ==
    /\ \A s \in Range(stock) : s.kind = "screenshot" =>
          disk[s.path] = [of |-> s.of, run |-> s.run]
    /\ \A p \in Process : \A r \in Range(results[p]) : r.screenshot # <<>> =>
          disk[r.screenshot].run = r.run

(* servo.py:781-785 says that the round hands the regulator "what the      *)
(* in-page probe already reported about earlier renderings" of a variant.  *)
(* A failure that the probe reported from the variant's own page, and that *)
(* was in the stock when it was read, keeps the variant from passing.      *)
FailureReachesGate ==
    \A p \in Process : \A r \in Range(results[p]) : r.passed =>
        \A i \in 1..r.seen :
            ~(stock[i].source = "probe" /\ stock[i].page = r.variant)
=============================================================================
