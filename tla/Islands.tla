------------------------------- MODULE Islands -------------------------------
(***************************************************************************)
(* The JS half of the WASM islands (site/assets/islands/loader.js): two    *)
(* custom elements that share one lazily loaded module.  htmx and other    *)
(* page scripts connect and disconnect the elements; promise reactions run *)
(* as jobs once the script that is running has ended.  Other code runs     *)
(* inside one of our jobs in one place only, while a sandbox mounts.       *)
(*                                                                         *)
(* Reports are left out: reporting never throws and changes no state here. *)
(* free() and stop() are taken to succeed.                                 *)
(***************************************************************************)
EXTENDS Naturals, Sequences, FiniteSets, SequencesExt

CONSTANTS Sandbox,         \* <resume-sandbox> elements
          Constellation,   \* <ui-constellation> elements
          Panicking,       \* those of them that carry the panic test hook
          Nobody,          \* null
          MaxMoves,        \* bound: connects and disconnects
          MaxToggles       \* bound: changes of prefers-reduced-motion

ASSUME ElementAssumption ==
    /\ Sandbox \cap Constellation = {}
    /\ Panicking \subseteq Constellation
    /\ Nobody \notin Sandbox \cup Constellation
    /\ IsFiniteSet(Constellation)
ASSUME BoundAssumption == {MaxMoves, MaxToggles} \subseteq Nat

Element == Sandbox \cup Constellation

(* What a reaction closes over: a box, or a constellation and whether it   *)
(* reports a failed load.                                                  *)
Reaction == [box : Nat, of : Constellation \cup {Nobody}, reports : BOOLEAN]

(* A reaction whose promise was fulfilled or rejected.                     *)
Job == [on : Reaction, ok : BOOLEAN]

(* The object that #slot and a reaction share.                             *)
Box == [by : Sandbox, holds : Sandbox \cup {Nobody}, settled : BOOLEAN]

VARIABLES
    here,      \* here[e]: isConnected
    label,     \* label[e]: data-island
    wasm,      \* wasmPromise: "none", "pending" or "up"
    waiting,   \* reactions registered on a promise that has not settled
    jobs,      \* reactions whose promise has settled, in order
    draining,  \* the script has ended: no other runs before all jobs have
    mounting,  \* the sandbox inside mount_resume_sandbox, or Nobody
    boxes,     \* the boxes made so far: who made it, whom it holds, settled
    slot,      \* slot[s]: the box #slot refers to, or 0
    island,    \* island[s]: #island is a handle
    live,      \* live[s]: handles made for s and not freed (history)
    canvas,    \* canvas[k]: #canvas is there
    scene,     \* scene[k]: #scene: "none", "still" or "running"
    alive,     \* alive[k]: scenes made for k, neither freed nor panicked (history)
    drawnFor,  \* drawnFor[k]: #reduced
    hears,     \* hears[k]: the observer and the preference listener are there
    reduce,    \* the visitor prefers reduced motion
    moves, toggles

page == <<here, label, moves, toggles, reduce>>
loading == <<wasm, waiting, jobs>>
stack == <<draining, mounting>>
sandbox == <<boxes, slot, island, live>>
constellation == <<canvas, scene, alive, drawnFor, hears>>
vars == <<page, loading, stack, sandbox, constellation>>

Init ==
    /\ here = [e \in Element |-> FALSE]
    /\ label = [e \in Element |-> "none"]
    /\ wasm = "none"
    /\ waiting = <<>>
    /\ jobs = <<>>
    /\ draining = FALSE
    /\ mounting = Nobody
    /\ boxes = <<>>
    /\ slot = [s \in Sandbox |-> 0]
    /\ island = [s \in Sandbox |-> FALSE]
    /\ live = [s \in Sandbox |-> 0]
    /\ canvas = [k \in Constellation |-> FALSE]
    /\ scene = [k \in Constellation |-> "none"]
    /\ alive = [k \in Constellation |-> 0]
    /\ drawnFor = [k \in Constellation |-> FALSE]
    /\ hears = [k \in Constellation |-> FALSE]
    /\ reduce \in BOOLEAN
    /\ moves = 0
    /\ toggles = 0

Relabel(e, text) == label' = [label EXCEPT ![e] = text]

-----------------------------------------------------------------------------
(* Promises                                                                *)

Boxed(b) == [box |-> b, of |-> Nobody, reports |-> TRUE]
Bound(k, reports) == [box |-> 0, of |-> k, reports |-> reports]

(* wasmPromise.then(reaction), for each of the reactions in turn.          *)
Register(reactions) ==
    IF wasm = "up"
    THEN jobs' = jobs \o [i \in DOMAIN reactions |-> [on |-> reactions[i], ok |-> TRUE]]
         /\ UNCHANGED <<wasm, waiting>>
    ELSE wasm' = "pending" /\ waiting' = waiting \o reactions /\ UNCHANGED jobs

(* The import resolves, or fails and clears wasmPromise (loadWasm).        *)
Settle(ok) ==
    /\ wasm = "pending" /\ jobs = <<>> /\ mounting = Nobody /\ ~draining
    /\ wasm' = IF ok THEN "up" ELSE "none"
    /\ jobs' = [i \in DOMAIN waiting |-> [on |-> waiting[i], ok |-> ok]]
    /\ waiting' = <<>>
    /\ draining' = (waiting # <<>>)
    /\ UNCHANGED <<page, mounting, sandbox, constellation>>

(* The script ends and the next job is taken.                              *)
TakeJob ==
    /\ jobs # <<>> /\ mounting = Nobody
    /\ jobs' = Tail(jobs)
    /\ draining' = (jobs' # <<>> \/ mounting' # Nobody)
    /\ UNCHANGED <<wasm, waiting>>

(* A script moves element e: a task of its own, or code that a mount runs. *)
Move(e, to) ==
    /\ ~draining \/ mounting # Nobody
    /\ moves < MaxMoves
    /\ moves' = moves + 1
    /\ here[e] # to
    /\ here' = [here EXCEPT ![e] = to]
    /\ UNCHANGED <<stack, reduce, toggles>>

-----------------------------------------------------------------------------
(* <resume-sandbox>                                                        *)

(* Mutated: a box whose load has settled counts as well.                   *)
InFlightPhantom(s) == slot[s] # 0

(* A load is in flight for s, or its reaction is still to run.             *)
InFlight(s) == slot[s] # 0 /\ ~boxes[slot[s]].settled

NewBox(s) ==
    /\ boxes' = Append(boxes, [by |-> s, holds |-> s, settled |-> FALSE])
    /\ slot' = [slot EXCEPT ![s] = Len(boxes')]
    /\ Register(<<Boxed(Len(boxes'))>>)

(* Mutated: a connect returns as soon as there is a slot.                  *)
ConnectSandboxSilent(s) ==
    /\ Move(s, TRUE)
    /\ IF island[s]
         THEN UNCHANGED <<label, boxes, slot, loading>>
         ELSE /\ Relabel(s, "loading")
              /\ IF InFlight(s) THEN UNCHANGED <<boxes, slot, loading>> ELSE NewBox(s)
    /\ UNCHANGED <<island, live, constellation>>

(* connectedCallback                                                       *)
ConnectSandbox(s) ==
    /\ Move(s, TRUE)
    /\ IF island[s]
         THEN UNCHANGED <<label, boxes, slot, loading>>
         ELSE /\ Relabel(s, "loading")
              /\ IF InFlight(s)
                   THEN boxes' = [boxes EXCEPT ![slot[s]].holds = s] /\ UNCHANGED <<slot, loading>>
                   ELSE NewBox(s)
    /\ UNCHANGED <<island, live, constellation>>

(* disconnectedCallback                                                    *)
DisconnectSandbox(s) ==
    /\ Move(s, FALSE)
    /\ boxes' = IF slot[s] = 0 THEN boxes ELSE [boxes EXCEPT ![slot[s]].holds = Nobody]
    /\ island' = [island EXCEPT ![s] = FALSE]
    /\ live' = [live EXCEPT ![s] = IF island[s] THEN @ - 1 ELSE @]
    /\ Relabel(s, "detached")
    /\ UNCHANGED <<slot, loading, constellation>>

(* The reaction: settle the box, and start to mount whom it held.          *)
React ==
    LET job == Head(jobs)
        b == job.on.box
        s == boxes[b].holds
        boot == s # Nobody /\ job.ok /\ here[s] /\ ~island[s]
    IN  /\ jobs # <<>> /\ b # 0
        /\ mounting' = IF boot THEN s ELSE Nobody
        /\ TakeJob
        /\ boxes' = [boxes EXCEPT ![b].settled = TRUE, ![b].holds = Nobody]
        /\ slot' = IF s = Nobody THEN slot ELSE [slot EXCEPT ![s] = 0]
        /\ label' = IF s # Nobody /\ ~job.ok /\ here[s] THEN [label EXCEPT ![s] = "error"] ELSE label
        /\ UNCHANGED <<here, moves, toggles, reduce, island, live, constellation>>

(* Mutated: isConnected is not asked again on the far side of the mount.   *)
MountReturnsUnchecked ==
    /\ mounting # Nobody
    /\ live' = [live EXCEPT ![mounting] = @ + 1]
    /\ island' = [island EXCEPT ![mounting] = TRUE]
    /\ Relabel(mounting, "ready")
    /\ mounting' = Nobody
    /\ draining' = (jobs # <<>>)
    /\ UNCHANGED <<here, moves, toggles, reduce, loading, boxes, slot, constellation>>

(* #boot after the mount: a host that was removed meanwhile frees at once. *)
MountReturns ==
    /\ mounting # Nobody
    /\ live' = [live EXCEPT ![mounting] = IF here[mounting] THEN @ + 1 ELSE @]
    /\ island' = [island EXCEPT ![mounting] = here[mounting]]
    /\ Relabel(mounting, IF here[mounting] THEN "ready" ELSE "detached")
    /\ mounting' = Nobody
    /\ draining' = (jobs # <<>>)
    /\ UNCHANGED <<here, moves, toggles, reduce, loading, boxes, slot, constellation>>

MountThrows ==
    /\ mounting # Nobody
    /\ Relabel(mounting, "error")
    /\ mounting' = Nobody
    /\ draining' = (jobs # <<>>)
    /\ UNCHANGED <<here, moves, toggles, reduce, loading, sandbox, constellation>>

-----------------------------------------------------------------------------
(* <ui-constellation>                                                      *)

(* #dropScene for every constellation of K.                                *)
Drop(K) ==
    /\ scene' = [k \in Constellation |-> IF k \in K THEN "none" ELSE scene[k]]
    /\ alive' = [k \in Constellation |->
                    IF k \in K /\ scene[k] # "none" THEN alive[k] - 1 ELSE alive[k]]

(* #rebuildScene for every constellation of K, all of them connected.      *)
Rebuild(K) ==
    /\ Drop(K)
    /\ IF wasm = "none"
         THEN UNCHANGED loading
         ELSE Register(SetToSeq({Bound(k, FALSE) : k \in K}))

(* Mutated: a scene that is there is started as it is.                     *)
ConnectConstellationAsIs(k) ==
    /\ Move(k, TRUE)
    /\ hears' = [hears EXCEPT ![k] = TRUE]
    /\ IF scene[k] # "none"
         THEN /\ scene' = [scene EXCEPT ![k] = "running"]
              /\ Relabel(k, "ready")
              /\ UNCHANGED <<canvas, alive, loading>>
         ELSE IF canvas[k] THEN UNCHANGED <<label, canvas, scene, alive, loading>>
         ELSE /\ canvas' = [canvas EXCEPT ![k] = TRUE]
              /\ Relabel(k, "loading")
              /\ Register(<<Bound(k, TRUE)>>)
              /\ UNCHANGED <<scene, alive>>
    /\ UNCHANGED <<drawnFor, sandbox>>

(* #mount                                                                  *)
ConnectConstellation(k) ==
    /\ Move(k, TRUE)
    /\ hears' = [hears EXCEPT ![k] = TRUE]
    /\ CASE scene[k] # "none" /\ drawnFor[k] # reduce ->
               Rebuild({k}) /\ UNCHANGED <<label, canvas>>
         [] scene[k] # "none" /\ drawnFor[k] = reduce ->
               /\ scene' = [scene EXCEPT ![k] = "running"]
               /\ Relabel(k, "ready")
               /\ UNCHANGED <<canvas, alive, loading>>
         [] scene[k] = "none" /\ canvas[k] ->
               UNCHANGED <<label, canvas, scene, alive, loading>>
         [] OTHER ->
               /\ canvas' = [canvas EXCEPT ![k] = TRUE]
               /\ Relabel(k, "loading")
               /\ Register(<<Bound(k, TRUE)>>)
               /\ UNCHANGED <<scene, alive>>
    /\ UNCHANGED <<drawnFor, sandbox>>

(* #teardown                                                               *)
DisconnectConstellation(k) ==
    /\ Move(k, FALSE)
    /\ hears' = [hears EXCEPT ![k] = FALSE]
    /\ scene' = [scene EXCEPT ![k] = IF @ = "none" THEN "none" ELSE "still"]
    /\ UNCHANGED <<label, canvas, alive, drawnFor, loading, sandbox>>

(* The preference changes: a task of its own.                              *)
Toggle ==
    /\ jobs = <<>> /\ mounting = Nobody /\ ~draining
    /\ toggles < MaxToggles
    /\ toggles' = toggles + 1
    /\ reduce' = ~reduce
    /\ Rebuild({k \in Constellation : hears[k]})
    /\ UNCHANGED <<here, label, moves, stack, sandbox, canvas, drawnFor, hears>>

(* A scene for k in place of the one it has, and what becomes of it: one   *)
(* that panicked was never started, and is given up without being freed.   *)
Draw(k) ==
    /\ drawnFor' = [drawnFor EXCEPT ![k] = reduce]
    /\ \E result \in IF k \in Panicking THEN {"panicked"} ELSE {"ready", "stuck"} :
          /\ scene' = [scene EXCEPT ![k] = CASE result = "ready" -> "running"
                                             [] result = "stuck" -> "still"
                                             [] OTHER -> "none"]
          /\ alive' = [alive EXCEPT ![k] = (IF scene[k] = "none" THEN @ ELSE @ - 1)
                                            + (IF result = "panicked" THEN 0 ELSE 1)]
          /\ Relabel(k, IF result = "stuck" THEN "error" ELSE result)

(* #boot: the element is gone, the scene is drawn, or `new` throws.        *)
Boot ==
    LET k == Head(jobs).on.of
    IN  /\ UNCHANGED mounting
        /\ TakeJob
        /\ k # Nobody /\ Head(jobs).ok
        /\ IF here[k] /\ canvas[k]
             THEN \/ Draw(k)
                  \/ Drop({k}) /\ Relabel(k, "error") /\ UNCHANGED drawnFor
             ELSE UNCHANGED <<label, scene, alive, drawnFor>>
        /\ UNCHANGED <<here, moves, toggles, reduce, sandbox, canvas, hears>>

(* The load failed; #rebuildScene's reaction says nothing.                 *)
BootFails ==
    LET r == Head(jobs).on
    IN  /\ UNCHANGED mounting
        /\ TakeJob
        /\ r.of # Nobody /\ ~Head(jobs).ok
        /\ label' = IF r.reports THEN [label EXCEPT ![r.of] = "error"] ELSE label
        /\ UNCHANGED <<here, moves, toggles, reduce, sandbox, constellation>>

-----------------------------------------------------------------------------
(* What the engine runs without being asked.                               *)
Proceed == React \/ MountReturns \/ MountThrows \/ Boot \/ BootFails

Next ==
    \/ Proceed
    \/ \E ok \in BOOLEAN : Settle(ok)
    \/ \E s \in Sandbox : ConnectSandbox(s) \/ DisconnectSandbox(s)
    \/ \E k \in Constellation : ConnectConstellation(k) \/ DisconnectConstellation(k)
    \/ Toggle

Spec == Init /\ [][Next]_vars

(* Jobs run, mounts return, and a load does not stay in flight forever.    *)
FairSpec == Spec /\ WF_vars(Proceed) /\ WF_vars(\E ok \in BOOLEAN : Settle(ok))

-----------------------------------------------------------------------------
(* Properties                                                              *)

Labels == {"none", "loading", "ready", "error", "detached", "panicked"}

(* Every variable has the shape the code gives it, and jobs wait only for  *)
(* a promise that has settled.                                             *)
TypeOK ==
    /\ here \in [Element -> BOOLEAN]
    /\ label \in [Element -> Labels]
    /\ wasm \in {"none", "pending", "up"}
    /\ waiting \in Seq(Reaction) /\ (waiting # <<>> => wasm = "pending")
    /\ jobs \in Seq(Job) /\ \A i \in DOMAIN jobs : jobs[i].ok => wasm = "up"
    /\ draining \in BOOLEAN
    /\ mounting \in Sandbox \cup {Nobody}
    /\ boxes \in Seq(Box)
    /\ slot \in [Sandbox -> 0..Len(boxes)]
    /\ island \in [Sandbox -> BOOLEAN]
    /\ live \in [Sandbox -> Nat]
    /\ canvas \in [Constellation -> BOOLEAN]
    /\ scene \in [Constellation -> {"none", "still", "running"}]
    /\ alive \in [Constellation -> Nat]
    /\ drawnFor \in [Constellation -> BOOLEAN]
    /\ hears \in [Constellation -> BOOLEAN]
    /\ reduce \in BOOLEAN
    /\ moves \in 0..MaxMoves /\ toggles \in 0..MaxToggles

(* However long the load stalls and however often the element is moved, it *)
(* has one reaction, and no reaction holds an element that was removed.    *)
StalledLoadHoldsNothing ==
    /\ \A s \in Sandbox : Cardinality({b \in DOMAIN boxes : boxes[b].by = s /\ ~boxes[b].settled}) <= 1
    /\ \A b \in DOMAIN boxes : boxes[b].holds # Nobody => here[boxes[b].holds]

(* A sandbox holds the only live handle made for it, and only while it is  *)
(* in the document: no order of moves, loads and mounts leaks a handle, or *)
(* an element to a load that stalls (disconnectedCallback, #boot).         *)
NoLeakedHandle ==
    /\ \A s \in Sandbox : /\ live[s] = IF island[s] THEN 1 ELSE 0
                          /\ island[s] => here[s]
    /\ StalledLoadHoldsNothing

(* The reactions that will still run.                                      *)
Left == ToSet(waiting) \cup {jobs[i].on : i \in DOMAIN jobs}

(* One of them runs for element e.                                         *)
Awaited(e) ==
    \/ e = mounting
    \/ \E r \in Left : r.of = e \/ (r.box # 0 /\ boxes[r.box].holds = e)

(* What data-island says of a sandbox is so: ready with a handle, loading  *)
(* with a reaction to come, and never detached while in the document.      *)
SandboxLabelHonest ==
    \A s \in Sandbox :
       /\ island[s] => label[s] \in {"ready", "loading"}
       /\ label[s] = "ready" => island[s]
       /\ here[s] /\ label[s] = "loading" => Awaited(s)
       /\ here[s] /\ mounting # s => label[s] # "detached"

(* A constellation has one scene at most, which draws only while it is in  *)
(* the document, and for the preference the visitor has now (#rebuildScene,*)
(* #teardown).                                                             *)
SceneFollowsPage ==
    \A k \in Constellation :
       /\ alive[k] = IF scene[k] = "none" THEN 0 ELSE 1
       /\ scene[k] = "running" => here[k] /\ drawnFor[k] = reduce

(* A sandbox that stays in the document does not stay loading.             *)
SandboxSettles ==
    \A s \in Sandbox : here[s] /\ label[s] = "loading" ~> ~here[s] \/ label[s] # "loading"

(* "the pending #boot picks it up": a constellation in the document that   *)
(* says it is loading, or ready, has its scene or a reaction to come       *)
(* (#mount).                                                               *)
PendingBootPicksUp ==
    \A k \in Constellation :
       here[k] /\ label[k] \in {"loading", "ready"} => scene[k] # "none" \/ Awaited(k)
=============================================================================
