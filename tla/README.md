# ui-servo: specifications, model checking and proofs

TLA+ modules for ui-servo, a loop that has page fragments built, measured in a
browser, gated, argued about by a blind panel of judges, ranked and archived,
and a site that carries the instruments the loop reads.  Every definition is
translated from the code; `PROJECT.json` ("map") names the lines it stands for.

    tlc -config MCEvidenceStore.cfg MCEvidenceStore      # a run
    tlapm EvidenceStoreProofs.tla                        # proofs

## 1. Inventory

The loop, in the order in which evidence flows:

    preview page --probe.js--> sendBeacon --> beacon ingest --append_many--> evidence store
                                                                               ^      |
    variants --> sanitizer --> browser (sensor) --> gates ---------- signals --'      | probe signals
                    '-------------- fast loop ------------- reads <-------------------'
    survivors --> blind panel --> standings --> archive of elites --> round record
    elite --> exemplar store;  elite --> promotion --> site --> release --> visitors

| Component | State it keeps | Operations | What is hard | What makes it correct |
|---|---|---|---|---|
| Evidence store, `adapters/jsonl_store.py` | one JSONL file per turn, `.seq`, `.lock`, `.torn` copies | `append`, `append_many`, `signals_for_turn`, `signals_for_span` | several processes, short writes, crashes at any byte, a lost counter | unique admission numbers, readable turns, append-only files, truthful answers, reads that are prefixes |
| Exemplar store, same file | `<name>/`, `.staging-*`, `.trash-*` directories | `save_exemplar`, `list_exemplars`, the sweep of the constructor | crashes between renames, removals by path | the pick in place is whole, and the last one saved is never lost |
| Probe, `probe/probe.js` | event queue, `lost` | `emit`, `trim`, `flush` | a full queue, refused beacons, put-backs | stored at most once, drops never silent |
| Beacon ingest, `adapters/beacon_ingest/` | health counters, evidence | `decode_batch`, `ingest`, `/beacon`, `/health` | absurd clocks, lost and reordered batches, a replaced worker | placement within the batch's span, health that does not lie |
| Fast loop, `control/regulator.py`, `control/servo.py` | the turn's evidence, observations of a pass | `_fast_loop`, `regulate`, `_persist` | several rounds in one root, failing observations, torn appends, stale reads | what passes is witnessed and clean |
| Shadow browser, `adapters/playwright_sensor.py` | observation directories, pictures | `observe` | shared artefact root, a render that dies half way | pictures never overwritten |
| Critique panel, `control/critique.py`, `domain/policy.py` | rotation memory, votes, evidence trail | `run_round`, `_ask`, `rotate`, `flip_for`, `panel_outcome`, `enforce_blindness` | A/B flips undone once on each attempt, re-asks, families that return | the winner is the majority's, no judge of its own work, no second look |
| CLI judges, `adapters/cli_judges.py` | the attempts of one call | `judge`, `_invoke`, `_via_bridge`, `_via_cli` | timeouts, two layers of re-asks, a fallback, transcripts that repeat the prompt | the vote counted is the last thing the model said; a timeout is not paid for twice |
| Servo round, `control/servo.py` | field, comparisons, standings, picks | `load_candidates`, `run_round` | a field that is too large, cycles, escalations, a round that ends half way | a place in the field is earned, standings follow the panel |
| Archive, `domain/variant.py`, `control/explore.py` | elites by cell | `place`, `fitness_of`, `_admit_all`, `seed_cells`, `record_pick` | a bonus near its cap, picks of an older report, a nearly full grid | the bonus never overturns a preference, a pick is only outdone, briefs are spread |
| Sanitizer, `adapters/nh3_sanitizer.py` | the walk's open elements, sibling counts, faults | `check` | implied ends, ends too early, alignment with what nh3 left | accepts exactly the sound fragments that nh3 reads alike, blames the offender |
| Promotion, `control/promote.py`, `fragments/promoted.rs` | the promoted file, commits | `promote`, `load` | a write that is not atomic | what is built passed the gate |
| Deployment, `deploy.yml`, `ui-servo-activate` | `incoming`, `releases/`, `current`, `current.tmp` | upload, activate, roll back, prune | uploads cut short, rollbacks, pruning by time | the live release is complete |
| Server harness, `adapters/granian_server.py` | attempts, server threads, failures | `serve`, `_await_startup` | the race for a port, deadlines, a server that ends when it likes | returns leave nothing behind, failures are told, the call ends |
| Island loader, `site/assets/islands/loader.js` | the shared load, boxes, handles, scenes | connect, disconnect, reactions, mounts | promise jobs, page code inside a mount, moves at any point | no leaked handle, no stuck label |

The rest (direction contract, blind staging, site rendering and export, the wasm
interpreter, service worker, page script, generators) are sequential functions
or browser I/O; `PROJECT.json` lists each with the reason it is not modelled.
Under "hazards" it lists what tests hardly reach, at its line, with the property
that covers it or the reason why none does.

## 2. Modules and how they correspond to the code

**EvidenceLog**, **EvidenceStore**, **EvidenceStoreProofs**.  `EvidenceLog` is
what `ports/store.py` promises: signals are admitted in order, a read returns a
prefix.  `EvidenceStore` is the files.  A file is its set of complete lines
(`file`), an unterminated tail (`torn`) and the fragments copied aside
(`aside`); `counter` is `.seq`; `locks` is the flock.  A process walks
`append_many` in the steps another process, a crash or an error can fall
between: lock, recover the sequence, reserve, encode, open, copy the torn tail
aside, cut it, write in pieces, close; a read takes the shared lock and walks
the files.  `Crash` is a process's death at any step; the lock goes with its
descriptor and files survive.  Line order in a file is not kept, because every
reader sorts by the stamped number.

**ExemplarSlot**, **ExemplarStore**, **ExemplarStoreProofs**.  One exemplar name.  A directory is known
by the save that made it (`place`, `content`), because paths change under it and
`rmtree` follows the directory.  Actions are the file-system calls of
`save_exemplar`, `_sweep` and `list_exemplars`.  `ExemplarSlot` replaces the pick
in one instant.

**Probe**, **BeaconIngest**, **BeaconPipeline**, **PreviewProofs**.  `Probe` has one action for each
of `emit` (ordinary and urgent) and `flush`, since JavaScript runs them to
completion; `BeaconIngest` has one for a decoded and stored body, one for a
failing append, one for a refused body and one for a replaced worker.
`BeaconPipeline` composes them with a network that delivers an accepted batch
once, in any order, or never.

**FastLoop**, **FastLoopProofs**.  `Regulate` is `_probe_signals` and `regulate` up to its branch;
`MakeDir`, `Capture` and `Audit` are `observe`; `Conclude` is the gates,
`_persist` and the observation handed back; `Raise` is `SensorError` or a raw
`OSError`; `Crash` a killed process; `Beacon` the probe of a variant's preview
page, which files a signal under the span that `probe.js` resolves.  The fields
`run` and `page` of a signal stand for its instant and its origin and are read
by properties only.

**CritiquePanel**, **CliJudges**, **CliJudgesProofs**.  `BeginRound` is eligibility,
rotation, memory and flips (`Among` is the comprehension that keeps some of the
judges in their order); `Cast`, `Reask` and `Reject` are `_ask` on a first and second reply;
`RefusePrompt` is the blindness scan finding a family's name in a prompt;
`Conclude` is the tally.  The exceptions that leave a round are states.
`CritiquePanel` has no next-state relation of its own: its actions take the
reply as a parameter, and `CliJudges` composes them with the adapter that
produces it.  There `CallJudge` checks the screenshots, one action per transport
is an attempt (the command of claude and of codex, the bridge of gemini and its
fallback), `ParseAttempt` is the adapter's re-ask and `Answer` hands the reply
over.  A text is a choice, an object that breaks the rubric, prose, or the
schema that a transcript echoes.  `word` is what the model last said and
`overdue` that a call of this turn ran out of time; only properties read them.

**Briefs**, **ServoRound**, **ServoRoundProofs**.  `Briefs` is `seed_cells`: `BeginAim` picks the first
cell, `TakeFurthest` is `_farthest_first` and `Exchange` one swap of `_improved`,
with the order of Python's tuples where the code sorts.  `ServoRound` has one
action for each stage of `run_round`: `load_candidates` with its collisions,
`Regulate` per variant, `Compare` per pair, offering and admission per ranked
entry, the record, the end by an exception, and a human's pick.  Gate verdicts and panel
outcomes are free choices here: `FastLoop` and `CritiquePanel` say which are
possible.  Fitness is counted in `Unit`-ths, exactly.

**FragmentGate**, **Publication**, **PublicationProofs**.  `FragmentGate` is `Nh3Sanitizer.check`: one
action for each of the walker's handlers, `Close`, and `Check`, which gathers the
violations of the six families; `Stripped` aligns the elements with what nh3
left, as `_stripped_violations` does: `Untouched` is the comparison of the two token
streams, `InStep` the walk of both documents in step, and a difference that no
element shows is put to the first root.  nh3 is external.  It removes what is
outside the policy, and being an HTML5 parser it may nest or join tokens otherwise
than `html.parser` does; whether it did is the variable `moved`, a free choice of
`Check` that is forced where HTML forces it (`Repaired`: a self-closed tag that is
not void takes in what follows, two texts come back as one).  When it did, which
elements meet a survivor and which of those differ from it is free too (`Aligned`).
`Publication` composes the gate with what follows it:
`DecidePromotion` and `WriteFile` are `promote` (the file is torn between opening
and the end of `write_text`), `Commit` is git, `Build` is the deploy job's export,
which loads the promoted file and compares its digest, `BeginUpload`, `EndUpload`
and `CutUpload` are its rsync, and each command of `ui-servo-activate` is an
action, for the job and for an administrator who rolls back.

**Harness**, **PreviewProofs**.  `serve` as the calling thread walks it, `Spawn`, `Poll`,
`CheckAlive`, `CheckAccepting`, the joins, `RetryOrRaise`, and the judgement of
the `finally` clause, while the server thread of each attempt binds, fails,
stops and exits in its own time, strangers take and leave ports, and a
deadline passes.

**Islands**, **IslandsProofs**.  Custom-element callbacks, promise reactions as a queue of jobs,
and the single place where page code runs inside one of them (`mounting`).

The `MC*` modules give constants their values and change nothing.

## 3. Runs

| Run | Instance | Shows |
|---|---|---|
| `evidence_store` | two processes, two turns, two calls of three records, one torn write or crash anywhere | `UniqueSeq`, `Readable`, `OutcomeTruthful`, `AppendOnly`, `FragmentKept`, and the refinement `ImplementsLog` |
| `exemplar_store` | three saves of one or two files, one saver that may die anywhere, one reader | `Whole`, `PickKept`, `SweepRestores`, `ReadsAdvance`, and the refinement `ImplementsSlot` |
| `beacon` | four ticks of a page with a queue of three and beacons of two, two bodies | `StoredOnce`, `DropNeverSilent`, `OkMeansKept`, `Placement` |
| `fast_loop` | two processes, two passes over one variant, one probe signal of every kind and span | `PassIsWitnessed`, `PassMeansClean`, `PicturesAreTrue` |
| `panel` | four judges of three families and three transports, four pairs, two rounds | `VoteIsLastWord`, `TimeoutIsFinal`, `WinnerIsMajority`, `NoSelfPreference`, `FreshEyes` |
| `servo` | two rounds over up to four variants, a field of three, one pick, any number of briefs in a grid of eight cells | `FieldIsEarned`, `StandingsFollowPanel`, `RankNotOverturned`, `BriefsSpread`, `PickIsOutdoneOnly` |
| `islands` | two sandboxes, two constellations, five moves, two preference changes | `NoLeakedHandle`, `SandboxLabelHonest`, `SceneFollowsPage`, and `SandboxSettles` under fairness |
| `publication` | every fragment of up to four tokens and some longer ones, two picks, three commits, four deploys, one rollback, two releases kept | `GateIsExact`, `OffenderIsBlamed`, `ServedWasGated`, `LiveIsComplete` |
| `harness` | two ports, two retries, a caller's port or none | `ReturnLeavesNothing`, `CrashIsTold`, `RetriedExactlyOnConflict`, and `ServeEnds` under fairness |

The type invariant of each module (`TypeOK`, `JTypeOK`, `GateTypeOK`, `SiteTypeOK`,
`BeaconTypeOK`) is stated with its properties; each is a theorem of its proof module
(section 6), and `PROJECT.json` lists the theorems that say more than a type.

Three runs exhibit a disagreement between the code and what the repository says
of it; each is a finding in `PROJECT.json` with the lines on both sides.

| Run | What it exhibits |
|---|---|
| `fast_loop_spans` | The gates ask the stock for signals under the variant's id, but the probe files most failures of a candidate's page under the fragment's own span, or under "probe": they never reach a gate. |
| `islands_stuck` | A constellation that is out of the document when the module arrives says "loading" for ever once it is back. |
| `release_rollback` | A rollback while something is staged in `incoming` deletes the release it was asked for, puts the upload in its place and makes it live. |

Smaller ones met on the way are recorded here only.

* Probe and ingest.  A `probe-drop` put back after a refused beacon can itself
  be trimmed, and its count is lost (`probe.js:71`, against `probe/README.md:82-83`).
  In a batch of two the upper median is the absurd offset itself, so its
  neighbour is moved (`router.py:404`, against `router.py:32-33`).
* Panel.  `_ask` scans the retry prompt without the output root masked
  (`critique.py:465`, against `critique.py:312-314`), so a root whose path holds
  a family's name ends the round on a judge's first invalid reply.
* Judges.  An HTTP status of 400 or more falls back to the command
  (`cli_judges.py:646-648`), where the class docstring allows that for failures to
  reach the bridge only.
* Harness.  On a startup timeout the server is never asked to stop (the docstring
  of `serve` says "stopped and joined on the way out, including when the body
  raises"); and a worker that fails after a join that ran out of time has its
  failure passed over, since the failure is looked at first and the thread second
  (hence "unless" in `CrashIsTold`).
* Briefs.  With cells to avoid, the result need not be "spread as far apart as
  the grid allows" (`seed_cells`): resolution 3, three briefs, avoiding (0,0,2),
  (2,0,0), (2,2,0), (2,2,1) gives squared distances 6, 6, 8 where 8, 8, 8 exists.
  What does hold is `Spread`: no single exchange helps, so it is within a factor
  of two.
* Sanitizer.  An element that survives can be blamed for one of the same tag that
  went with a removed `<template>` before it (`nh3_sanitizer.py:844`); the
  fragment is rejected either way.  "nh3 only ever deletes, so its output is a
  subsequence of the input" (`nh3_sanitizer.py:828-829`) does not hold: in
  `<div><span/><div></div></div>` the inner `div` comes back inside the `span`, and a
  text with a bare `<` comes back as one where the walker read several.  A fragment
  with either is rejected however well it nests, and when no element shows a
  difference the first root is blamed (`nh3_sanitizer.py:854-860`).
* Promotion.  A text that quotes ` data-span-id=` is refused (`strip_span_ids`
  promises to touch tags only, the check after it looks everywhere).  `write_text`
  is not atomic; a torn file makes the next build refuse.
* Activation.  Activating the live commit again takes its directory out for a
  moment, and a kill there leaves nothing live (hence the exception in
  `LiveIsComplete`).  An administrator's activation beside the job's shares
  `current.tmp`.
* Pictures.  Two spans of one page whose names differ only in characters that
  `_safe` replaces share a picture file, and the later overwrites the earlier
  (`playwright_sensor.py:654`, 1083-1086); `DistinctNames` in section 6 is the
  absence of such a pair.
* Picks.  `exemplar_name` is not injective, and a variant id that comes back in a
  later round replaces the earlier pick.  A round that raises between admission
  and its report leaves an archive that the last report does not show.
* Stores and gates.  `turns_written` of a `StoreWriteError` omits a turn whose
  blob failed in the middle, though complete records of it may be in the stock
  (`jsonl_store.py:272`, `ports/store.py:40-43`).  `list_exemplars` opens
  `meta.json` and then lists the directory, both by path, so a save in between
  gives the meta of one pick with the files of the next (`jsonl_store.py:494`,
  against the class docstring).  In `regulate` the comment says that the sensor's
  style sample is authoritative while the code prefers the argument
  (`regulator.py:343-350`); no gate depends on it.

Every property of a passing run has a mutant in `PROJECT.json`: a plausible slip
in the code (a dropped guard, a missing reset, a swapped order) under which TLC
finds the property violated, so that none of them holds for want of trying.

## 4. Bounds

Two processes suffice for the races of the store, whose lock admits one writer
and whose readers do not affect each other; two calls let one writer meet what
the other left, and the batch interleaves two turns so that one blob holds two
records.  Three saves let a crash meet a leftover of an earlier crash while a
pick is in place.  A queue of three with beacons of two makes a flush need two
chunks, one of which may fail, with the cap reached.  Two passes of two
processes cover a concurrent pass, a rerun after a failure and a rerun after a
success; one variant is enough for them, since a pass treats its variants one
after the other and drops all results when one raises; the violated run has two
variants.  `TornLengths` limits a failed append in `FastLoop` to nothing or the
first four signals, which includes a picture without its gates (the byte-level
cases are `EvidenceStore`'s).  Three families with one repeated give a panel
with a majority, a tie and a missing voice, each by another transport; two rounds
are what rotation memory needs, and the second order of one pair what it must
not be fooled by; the fourth candidate's markup names a family.  Four variants with three
places leave somebody out, and two rounds let an elite be replaced and a pick be
outdone; the grid of eight cells is small enough for every number of briefs and
every set of occupied cells that rounds leave.  Four tokens over six tags (one
void, one with an optional end, one removed with its content, one outside the
policy) hold every way in which two elements can meet; the longer fragments put
elements around and inside a removed template, where the alignment can slip, and
the attributed ones pair every kind of refusal with every other.  Self-closed tags
with something behind them and neighbouring texts are among the short fragments,
so that nh3 has to repair some of them; of any other it may.  Three commits
and two kept releases make pruning remove one, with a rollback to an older one.
`Calm` keeps the administrator and the job apart in the passing run; the violated
run lets them meet.  Two ports and two retries lose a port to a stranger twice
and succeed, or run out.  Five moves are two
trips of one element during the other's mount and a second load.  Every bound is a
constant in a guard and named "bound" where it is declared.

## 5. Fairness

`Islands` and `Harness` have liveness properties.  `FairSpec` of `Islands`
assumes weak fairness of the jobs (the event loop runs a microtask queue until it
is empty), of a mount's return (it is a synchronous call) and of the settling of a
load (an import either arrives or fails).  Nothing is assumed of the page, which
may move elements for ever, or of the visitor.  `Spec` of `Harness` assumes weak
fairness of the calling thread's own steps and of the passing of its startup
deadline (a monotonic clock); nothing of the body, of the server threads, which may
hang in any state, or of strangers.  No liveness is claimed for the evidence store:
flock is not fair, and a writer that is never scheduled waits.

## 6. What is proved

Each module of proofs shows an inductive invariant, with one lemma for each action
or each conjunct that the actions disturb, and derives the properties of the runs
from it.  "For every value of the constants" below is under the assumptions that the
modules state on them by name; they are types, unless a line below says more.

### The evidence store: `EvidenceStoreProofs`

For every set of processes and turns, every set of batches and queries, and every
number of calls:

| Theorem | Statement |
|---|---|
| `StoreInvariant`, `TypeCorrect` | `Spec => []IInv`, `Spec => []TypeOK` |
| `MutualExclusion` | a process inside the locked block is alone, readers included |
| `AdmissionNumbersUnique` | `Spec => []UniqueSeq` |
| `TurnsStayReadable` | `Spec => []Readable` |
| `StoreIsAppendOnly` | `Spec => AppendOnly` |
| `FragmentsAreKept` | `Spec => FragmentKept` |
| `AnswersAreTrue` | `Spec => []OutcomeTruthful` |
| `ReadsArePrefixes` | `Spec => []ReadIsPrefix` |
| `StoreImplementsLog` | `Spec => ImplementsLog` |

None of the properties is inductive.  Two writers that both held the lock would
stamp the same numbers, so `LockInv` is needed first: the lock table and the
program counters agree, and an exclusive lock excludes.  With it, the numbers a
writer has still to use lie above every number on disk, and the counter, where
there is one, is above both (`SeqInv`); this is what survives a crash between
reserving and writing and the loss of `.seq`.  The only unterminated bytes in the
file being written are the writer's own, and before a cut they have been copied
aside and `keep` is the whole file (`TailInv`), so that a cut removes no line and
a record is never glued to a fragment (`FileInv`).  A reader holds exactly the
records of the files it has read, because nobody writes meanwhile (`ReadInv`).
The answer of an append is true because a writer knows which of its turns are
whole in their files at each of its steps.  The refinement maps a completed
record to an admission and the end of a read to a read; every other step stutters.

### The exemplar store: `ExemplarStoreProofs`

For every set of file names and readers, and every number of saves:

| Theorem | Statement |
|---|---|
| `SlotInvariant`, `SlotTypeCorrect` | `OneSaver`: `Spec => []IInv`, `Spec => []TypeOK` |
| `ExemplarsAreWhole` | `OneSaver`: `Spec => []Whole` |
| `AcknowledgedPicksAreKept` | `OneSaver`: `Spec => []PickKept` |
| `SweepsRestore` | `OneSaver`: `Spec => SweepRestores` |
| `ReadersAdvance` | `OneSaver`: `Spec => ReadsAdvance` |
| `StoreImplementsSlot` | `OneSaver`: `Spec => ImplementsSlot` |

`OneSaver` (no two processes save) is a hypothesis of the theorems and not an
assumption of the model: without it they are false (section 8).  A directory is
where the saver's step says it is, so at most one directory of each kind is left
over by a crash (`SaverInv`, `Placed`); directories under the name are complete and
hold what their save wanted (`Filled`); and the last acknowledged pick, or a later
one, is in place or in the trash that the next sweep restores (`KeptInv`).  That a
listing never shows an older pick than an earlier one did needs `ReaderInv`: what a
reader saw is not newer than what is in place or about to be restored.

### The fast loop: `FastLoopProofs`

For every set of processes, every list of candidates, and every number of passes and
beacons:

| Theorem | Statement |
|---|---|
| `PassInvariant`, `PassTypeCorrect` | `Spec => []IInv`, `Spec => []TypeOK` |
| `PassesAreWitnessed` | `Spec => []PassIsWitnessed` |
| `PassesAreClean` | `Spec => []PassMeansClean` |
| `PicturesStayTrue` | `DistinctNames`: `Spec => []PicturesAreTrue` |
| `RunsShareNoPicture` | a file named by a picture signal was written by that signal's run |

An observation belongs to one run, its directory to one observation, and what a
process holds is on disk and in the stock exactly as far as its step says; results
carry the run that made them, whose records are in the stock (`WitnessInv`) and
agree with what the pass had seen (`CleanInv`).  `PassMeansClean` names the page of
a variant, since two variants of a round may carry the same root span and file
signals under it.  `DistinctNames`, that `_safe` keeps the spans of one page apart,
is needed where a picture must show its own span (section 3, "Pictures"), and
nowhere else.

### The panel and its judges: `CliJudgesProofs`

For every roster, family, transport and set of pairs, and every number of rounds:

| Theorem | Statement |
|---|---|
| `CallInvariant` | `JSpec => []IInv` |
| `VotesAreLastWords` | `JSpec => []VoteIsLastWord` |
| `TimeoutsAreFinal` | `JSpec => []TimeoutIsFinal` |
| `PanelInvariant`, `PanelTypeCorrect` | `JSpec => []PanelInv`, `JSpec => []JTypeOK` |
| `NobodyGradesItsOwn` | `JSpec => []NoSelfPreference` |
| `EyesStayFresh` | `JSpec => []FreshEyes` |
| `WinnersHaveMajorities` | `JSpec => []WinnerIsMajority` |

The last attempt holds what the model said last, or an echo where it said no
object (`RawInv`); a call that has run out of time ends in an attempt that failed,
which the adapter does not ask again, and which the panel takes for no reply, so
that it does not either (`TimeInv`).  Who is still to be asked built neither
candidate and is not remembered for the pair (`FairInv`, `FreshInv`); the lemmas
about `Among` and `Rotated` carry that through eligibility, rotation, memory and the cut to the
panel's size.  The votes that count correspond family by family to the first valid
verdicts, with the flip undone (`CountInv`), and two strict majorities of one set
meet, so the tally has one winner.

### The rounds: `ServoRoundProofs`

For every set of directories, every order, measurement, weight, unit and grid, and
every number of rounds and picks:

| Theorem | Statement |
|---|---|
| `RoundInvariant`, `AimInvariant`, `RoundTypeCorrect` | `Spec => []RoundInv`, `[]AimInv`, `[]TypeOK` |
| `PlacesAreEarned` | `Spec => []FieldIsEarned` |
| `StandingsAreThePanels` | `Spec => []StandingsFollowPanel` |
| `BonusNeverOverturns` | `Spec => []RankNotOverturned` |
| `PicksAreOutdoneOnly` | `Spec => []PickIsOutdoneOnly` |
| `BriefsAreSpread` | `Spec => []BriefsSpread` |

The assumptions: file names and ids tell variants apart, a distance is at most
`Unit`, and `Unit` is a multiple of every number of steps between ranks, so that
fractions are exact.  The bonus is capped at the step between two ranks, so a cell
offered to holds at least what the rank alone earns (`OfferedInv`), whatever is
offered later.  Points count wins and certain ones (`Points` is |Wins| + |Safe|), and a
variant that beats all others has more of them than any other; this and the
existence of greatest members of finite sets give the standings.  For the briefs,
the exchange argument is carried out: when no swap is left, moving one of a closest
pair to a cell further from all the others would lower the number of pairs at the
closest length, which would have been an admissible swap.

### The gate and publication: `PublicationProofs`

For every policy, every set of fragments offered, and every number of commits,
deploys, rollbacks and releases kept:

| Theorem | Statement |
|---|---|
| `SiteInvariant`, `SiteTypeCorrect` | `Spec => []IInv`, `Spec => []SiteTypeOK` |
| `ServedPicksWereGated` | `Spec => []ServedWasGated` |
| `CalmInvariant` | `Calm`: `Spec => []CalmInv` |
| `LiveReleaseIsComplete` | `Calm`: `Spec => []LiveIsComplete` |
| `ReleasesAreTheirCommits` | `Calm`: a release is the export of the commit it is named for |
| `GateInvariant`, `PublicationTypeCorrect` | `Spec => []GateInv`, `Spec => []TypeOK` |
| `OffendersAreBlamed` | `Spec => []OffenderIsBlamed` |
| `ExactInvariant`, `GateVerdictsAreExact` | `Spec => []ExactInv`, `Spec => []GateIsExact` |

`ServedPicksWereGated` needs no condition: a torn or edited file does not load, so
no commit that holds one is ever built (`GatedInv`).  `Calm` is the constant that
keeps an administrator's activation and the job's upload apart; the last two
theorems have it as a hypothesis, and `ReleasesAreTheirCommits` states the very
sentence that the run `release_rollback` refutes without it.  Under it, staged and
released directories are their commits' as far as the script that makes them has
got, and pruning passes over what is live.  For the gate, the last part of a locator
is a sibling count that is past every child counted before, so two elements never
share one (`CountedInv`); what `check` blames is what is outside the policy, and nothing
else as long as nh3 removed no element with its content and moved nothing
(`BlameInv`).  The latter needs that walking in step matches every survivor with
itself, which is shown for the first element it would not (`SurvivorsMeet`).

`GateVerdictsAreExact` compares the walk, which keeps a stack, with a reference that
has none: a pairing of the start tags with the end tags in which each pair is of one
tag and no two cross (`Matches`).  Two invariants carry it.  `NestInv`: while nothing
is stray, mismatched or unclosed, the open elements that need an end tag are start
tags in the order they came, and every start tag that is not open has an end tag that
crosses no other pair; an end tag extends the pairing by the top of the stack, because
whatever lies above it may be left open.  `SoundInv`: for any sound pairing, the open
elements are the start tags whose end tags are still to be fed, so the next end tag
finds its own start tag on top and no fault is recorded.  When the walk is over the
first gives a pairing of everything, the second an empty list of faults; that a
fragment has a root follows from its shortest locator (`SomeRoot`).  The first half
holds of every fragment; the second is stated for those that leave no end tag out
(`NoneOptional`), as the property does.  Both are about fragments that nh3 reads as
the walker does: an accepted fragment is not `Repaired`, because where nh3 moved
anything the token streams differ and `Stripped` is never empty, and a sound
fragment is accepted exactly if nothing was moved.  What else than `Repaired` makes
nh3 move something (an inserted `tbody`, the adoption agency) is not spelt out.

### The islands: `IslandsProofs`

For every set of sandboxes, every finite set of constellations, and every number of
moves and toggles:

| Theorem | Statement |
|---|---|
| `IslandInvariant`, `IslandTypeCorrect` | `Spec => []IInv`, `Spec => []TypeOK` |
| `HandlesDoNotLeak` | `Spec => []NoLeakedHandle` |
| `LabelsAreHonest` | `Spec => []SandboxLabelHonest` |
| `ScenesFollowThePage` | `Spec => []SceneFollowsPage` |

A sandbox that enters the document hands its reaction a box.  A box that has not
settled is the one its sandbox refers to and has its reaction to come, and it holds
that sandbox only while it is in the document (`BoxInv`, `HoldInv`); reactions
are told of a load that is up only while it is (`LoadType`), and handles exist only
then.  `NoLeakedHandle`, the labels and the scenes follow from that at every point,
the middle of a mount included, where page code may move the element again.

### The preview's server: `PreviewProofs`

For every set of ports, every argument of the caller and every number of retries:

| Theorem | Statement |
|---|---|
| `ServeInvariant`, `ServeTypeCorrect` | `Spec => []IInv`, `Spec => []TypeOK` |
| `NothingLeftBehind` | `Spec => []ReturnLeavesNothing` |
| `FailuresAreTold` | `Spec => []CrashIsTold` |
| `RetriesForLostPorts` | `Spec => []RetriedExactlyOnConflict` |

The calling thread looks at a failure list and at a thread that go on moving, so
each property needs that what it saw cannot be undone: a thread that has failed
or ended stays so and keeps its failure (`FailInv`, `EndInv`).  An earlier
attempt lost its port and so never listens again (`PastInv`), and a port held by
an attempt is the one that attempt was sent for (`HoldInv`); together they free
every port once the last thread is over.

### Probe, network and ingest: `PreviewProofs`

For every cap of queue, beacon and body, every span, every number of ticks and
whatever other senders post (`BodiesAssumption`: anything but events of this page):

| Theorem | Statement |
|---|---|
| `PipelineInvariant`, `BeaconTypeCorrect` | `BeaconSpec => []PipelineInv`, `BeaconSpec => []BeaconTypeOK` |
| `EventsAreStoredOnce` | `BeaconSpec => []StoredOnce` |
| `DropsAreTold` | `BeaconSpec => []DropNeverSilent` |
| `OkIsHonest` | `BeaconSpec => []OkMeansKept` |
| `RecordsArePlaced` | `BeaconSpec => []Placement` |

`flush` cuts a queue into parts, ships some and puts the rest back.  The lemmas
about `Only` (`OnlyLists`, `OnlyOf`, `ChunksAre`, `ShippedAre`) say that each
event lands in one part, once, and that no part exceeds its cap; so an event that
was seen waits, was dropped or is in one batch, and a report of what was dropped
is owed, waits or was sent (`Sound`, kept by `TrimKeeps`, `PendingKeeps`,
`EmitKeeps` and `ShipKeeps`).  A batch the worker decoded has left the wire, which
is why its events are new when it arrives (`GotInv`), and a record stands for one
event of one body (`DiskInv`).

Placement is arithmetic on offsets.  A least number with more than half of the
offsets at or below it exists, so the median is one of them (`MedianIs`), and the
anchor is the newest plausible one (`AnchorIs`).  A group of more than half reaches
across the median, so the median, and with it the anchor, is one of the group
(`MajorityAnchors`), whatever the rest of the batch claims.

## 7. What is only model-checked

* `SandboxSettles` and `ServeEnds`: liveness under fairness.
* The three runs that exhibit a disagreement are counterexamples and need no proof.

The provers do not compute `SelectSeq` (it is a recursive definition of the library),
which is why `Among` counts places instead.

## 8. Abstractions, and what is not modelled

* Events and signals have one size; ISO instants, payloads and wording are left
  out.  Digests and model replies are free choices.
* An error that `rmtree` ignores is taken only as a crash.  `ExemplarStore` is
  written for several savers; with two, `Whole` fails (a sweep can remove a live
  staging directory), and no line of the repository promises otherwise, so the
  run has one.
* Reports of the island loader never throw, and `free()` and `stop()` succeed.  A
  scene that panicked is given up without `free()` (`loader.js:405-408`): what it held
  in the trapped module is lost to it, and `alive` no longer counts it.
* nh3's rules for repairing HTML are a free choice, bounded from below by `Repaired`.
  `EndedBy` says which start tags end an open element for HTML; the runs give the
  paragraph's.
* The trail of `CritiquePanel` is that of the current round.
* A transcript is searched by what the search returns, not character by
  character; the subprocess's environment and directory are left out, and so is
  the judges' recorder, which the command line does not pass.
* `FastLoop` gives a process one worker (the default, and what the command line
  asks for with this sensor), passes no baseline and no interaction script (as
  `run_round` does).  Contexts and browser are released on every exit and are not state.
* Floating point is exact arithmetic in `Unit`-ths.  With a field of six, rank 4
  with a full bonus comes to 0.6000000000000001 against 0.6; that excess of one
  unit in the last place is below the model's data.
* Class names, URLs and `hx-` values are well formed or not; their grammars are
  sequential string functions that the repository's tests enumerate.
* The walk of the gate is not interleaved with the steps of a deploy: it touches
  nothing that is shared.  Two jobs never overlap (the workflow's concurrency group
  queues them).
* The ssh gate's verbs, the sync of the ingest worker and the evidence pruner are
  not modelled; the pruner works on file ages, for which the models have no clock.
* Not modelled at all: the direction contract (parsing into immutable values),
  blind staging (one sequential pass), the wasm interpreter behind the sandbox,
  site rendering and export, the service worker, the portfolio page's script, the
  command lines and the generators.

## 9. What could follow

1. The service worker's caches of two versions beside a release that changes.
2. The evidence pruner beside a writer, with a clock of file ages.
