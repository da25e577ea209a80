--------------------------- MODULE ExemplarStore ---------------------------
(***************************************************************************)
(* JsonlExemplarStore (ui_servo/adapters/jsonl_store.py) for one exemplar  *)
(* name: each save stages a directory, moves the old one to trash and      *)
(* renames the staged one into place; a sweep on construction and before   *)
(* each save finishes or undoes what a crash interrupted.                  *)
(*                                                                         *)
(* A directory is known by the save that made it: paths change under it,   *)
(* and shutil.rmtree, which unlinks through a descriptor, follows it.  A   *)
(* removal ends early only when its process dies (the code ignores the     *)
(* other errors of a removal).                                             *)
(***************************************************************************)
EXTENDS Naturals, FiniteSets

CONSTANTS Saver,      \* processes that save
          Reader,     \* threads that list
          File,       \* names a caller may pass
          Meta,       \* META_FILENAME
          MaxSaves    \* bound: saves in a behaviour

ASSUME FileAssumption == Meta \notin File
ASSUME RolesAssumption == Saver \cap Reader = {}
ASSUME SavesAssumption == MaxSaves \in Nat

VARIABLES
    place,     \* place[n]: the path of the directory that save n made
    content,   \* content[n]: the files in it
    wanted,    \* wanted[n]: the `files` argument of save n
    saves,     \* saves called so far
    saved,     \* the latest save that returned
    pc,        \* where a process is
    call,      \* call[p]: p's save
    todo,      \* todo[p]: leftovers its sweep has still to look at
    removing,  \* removing[p]: the rmtree p is inside, or the path it puts back
    then,      \* then[p]: where p goes on after it
    resume,    \* resume[p]: where p goes on after its sweep
    seen,      \* seen[r]: the directory whose meta.json r has read
    view       \* view[r]: what r's latest list_exemplars returned

disk == <<place, content>>
local == <<call, todo, removing, then, resume>>
reader == <<seen, view>>
vars == <<disk, wanted, saves, saved, pc, local, reader>>

Call == 1..MaxSaves

Path == [kind : {"gone", "target"}, by : {0}] \cup [kind : {"staging", "trash"}, by : Call]

Gone == [kind |-> "gone", by |-> 0]
Target == [kind |-> "target", by |-> 0]
Staging(n) == [kind |-> "staging", by |-> n]
Trash(n) == [kind |-> "trash", by |-> n]

At(path) == {n \in Call : place[n] = path}
Exists(path) == At(path) # {}

(* Files and meta, as save n was given them.                               *)
Complete(n) == content[n] = wanted[n] \cup {Meta}

NoRemoval == [dirs |-> {}, path |-> Gone]
NoView == [meta |-> 0, files |-> {}]

Init ==
    /\ place = [n \in Call |-> Gone]
    /\ content = [n \in Call |-> {}]
    /\ wanted = [n \in Call |-> {}]
    /\ saves = 0
    /\ saved = 0
    /\ pc = [p \in Saver \cup Reader |-> IF p \in Saver THEN "down" ELSE "idle"]
    /\ call = [p \in Saver |-> 0]
    /\ todo = [p \in Saver |-> {}]
    /\ removing = [p \in Saver |-> NoRemoval]
    /\ then = [p \in Saver |-> "ready"]
    /\ resume = [p \in Saver |-> "ready"]
    /\ seen = [r \in Reader |-> 0]
    /\ view = [r \in Reader |-> NoView]

GoTo(p, label) == pc' = [pc EXCEPT ![p] = label]

-----------------------------------------------------------------------------
(* File system                                                             *)

(* rename(2) of a directory replaces only an empty one.                    *)
Rename(from, to) ==
    /\ Exists(from)
    /\ \A n \in At(to) : content[n] = {}
    /\ place' = [n \in Call |-> IF place[n] = from THEN to
                                ELSE IF place[n] = to THEN Gone ELSE place[n]]

(* shutil.rmtree(path, ignore_errors=True), continuing at label.           *)
BeginRemove(p, path, label) ==
    /\ removing' = [removing EXCEPT ![p] = [dirs |-> At(path), path |-> path]]
    /\ then' = [then EXCEPT ![p] = label]
    /\ GoTo(p, "remove")

RemoveFile(p) ==
    /\ pc[p] = "remove"
    /\ \E n \in removing[p].dirs : \E f \in content[n] :
          content' = [content EXCEPT ![n] = @ \ {f}]
    /\ UNCHANGED <<place, wanted, saves, saved, pc, local, reader>>

RemoveDir(p) ==
    /\ pc[p] = "remove"
    /\ \A n \in removing[p].dirs : content[n] = {}
    /\ place' = [n \in Call |-> IF n \in removing[p].dirs /\ place[n] = removing[p].path
                                THEN Gone ELSE place[n]]
    /\ removing' = [removing EXCEPT ![p] = NoRemoval]
    /\ GoTo(p, then[p])
    /\ UNCHANGED <<content, wanted, saves, saved, call, todo, then, resume, reader>>

-----------------------------------------------------------------------------
(* _sweep                                                                  *)

Leftovers == {place[n] : n \in {m \in Call : place[m].kind \in {"staging", "trash"}}}

(* List the directory; when every leftover is dealt with, go on at label.  *)
BeginSweep(p, label) ==
    /\ todo' = [todo EXCEPT ![p] = Leftovers]
    /\ resume' = [resume EXCEPT ![p] = label]
    /\ GoTo(p, "sweep")

(* sorted(): every .staging-* comes before every .trash-*.                 *)
NextLeftover(p, path) ==
    /\ pc[p] = "sweep"
    /\ path \in todo[p]
    /\ path.kind = "trash" => \A other \in todo[p] : other.kind = "trash"
    /\ todo' = [todo EXCEPT ![p] = @ \ {path}]

(* Mutated: trash is discarded without asking whether the pick is there.   *)
SweepRemoveAll(p) ==
    \E path \in todo[p] :
       /\ NextLeftover(p, path)
       /\ BeginRemove(p, path, "sweep")
       /\ UNCHANGED <<disk, wanted, saves, saved, call, resume, reader>>

(* Staging is discarded, and trash whose exemplar is in place.             *)
SweepRemove(p) ==
    \E path \in todo[p] :
       /\ NextLeftover(p, path)
       /\ path.kind = "staging" \/ Exists(Target) \/ ~Exists(path)
       /\ BeginRemove(p, path, "sweep")
       /\ UNCHANGED <<disk, wanted, saves, saved, call, resume, reader>>

(* Mutated: trash always means the save is rolled back.                    *)
SweepRollBack(p) ==
    \E path \in todo[p] :
       /\ NextLeftover(p, path)
       /\ Exists(path)
       /\ place' = [n \in Call |-> IF place[n] = path THEN Target
                                   ELSE IF place[n] = Target THEN Gone ELSE place[n]]
       /\ UNCHANGED <<content, wanted, saves, saved, pc, call, removing, then, resume, reader>>

(* Trash whose exemplar is missing is to be put back.                      *)
SweepRestore(p) ==
    \E path \in todo[p] :
       /\ NextLeftover(p, path)
       /\ path.kind = "trash" /\ ~Exists(Target) /\ Exists(path)
       /\ removing' = [removing EXCEPT ![p] = [dirs |-> {}, path |-> path]]
       /\ GoTo(p, "putBack")
       /\ UNCHANGED <<disk, wanted, saves, saved, call, then, resume, reader>>

PutBack(p) ==
    /\ pc[p] = "putBack"
    /\ Rename(removing[p].path, Target)
    /\ removing' = [removing EXCEPT ![p] = NoRemoval]
    /\ GoTo(p, "sweep")
    /\ UNCHANGED <<content, wanted, saves, saved, call, todo, then, resume, reader>>

EndSweep(p) ==
    /\ pc[p] = "sweep"
    /\ todo[p] = {}
    /\ GoTo(p, resume[p])
    /\ UNCHANGED <<disk, wanted, saves, saved, local, reader>>

(* Mutated: the constructor does not sweep.                                *)
ConstructOnly(p) ==
    /\ pc[p] = "down"
    /\ GoTo(p, "sweep")
    /\ UNCHANGED <<disk, wanted, saves, saved, local, reader>>

(* __init__                                                                *)
Construct(p) ==
    /\ pc[p] = "down"
    /\ BeginSweep(p, "ready")
    /\ UNCHANGED <<disk, wanted, saves, saved, call, removing, then, reader>>

-----------------------------------------------------------------------------
(* save_exemplar                                                           *)

(* A call that passes validation, up to the listing of its sweep.          *)
CallSave(p) ==
    /\ pc[p] = "ready"
    /\ saves < MaxSaves
    /\ saves' = saves + 1
    /\ \E F \in (SUBSET File) \ {{}} : wanted' = [wanted EXCEPT ![saves'] = F]
    /\ call' = [call EXCEPT ![p] = saves']
    /\ BeginSweep(p, "mkdir")
    /\ UNCHANGED <<disk, saved, removing, then, reader>>

MakeStaging(p) ==
    /\ pc[p] = "mkdir"
    /\ place' = [place EXCEPT ![call[p]] = Staging(call[p])]
    /\ GoTo(p, "write")
    /\ UNCHANGED <<content, wanted, saves, saved, local, reader>>

(* Mutated: the loop over the files ends after the first.                  *)
WriteOneFile(p) ==
    LET n == call[p]
    IN  /\ pc[p] = "write"
        /\ Exists(Staging(n))
        /\ \E f \in wanted[n] : content' = [content EXCEPT ![n] = {f, Meta}]
        /\ GoTo(p, "check")
        /\ UNCHANGED <<place, wanted, saves, saved, local, reader>>

(* One write_bytes: the files, then meta.json.                             *)
WriteFile(p) ==
    LET n == call[p]
        left == wanted[n] \ content[n]
    IN  /\ pc[p] = "write"
        /\ Exists(Staging(n))
        /\ \E f \in IF left = {} THEN {Meta} ELSE left :
              content' = [content EXCEPT ![n] = @ \cup {f}]
        /\ GoTo(p, IF left = {} THEN "check" ELSE "write")
        /\ UNCHANGED <<place, wanted, saves, saved, local, reader>>

(* `if target.exists()`                                                    *)
CheckTarget(p) ==
    /\ pc[p] = "check"
    /\ GoTo(p, IF Exists(Target) THEN "toTrash" ELSE "swap")
    /\ UNCHANGED <<disk, wanted, saves, saved, local, reader>>

(* Mutated: the old exemplar is deleted where it should be set aside.      *)
DeleteOld(p) ==
    /\ pc[p] = "toTrash"
    /\ place' = [n \in Call |-> IF place[n] = Target THEN Gone ELSE place[n]]
    /\ GoTo(p, "swap")
    /\ UNCHANGED <<content, wanted, saves, saved, local, reader>>

MoveToTrash(p) ==
    /\ pc[p] = "toTrash"
    /\ Rename(Target, Trash(call[p]))
    /\ GoTo(p, "swap")
    /\ UNCHANGED <<content, wanted, saves, saved, local, reader>>

(* os.rename(staging, target), and on to shutil.rmtree(trash).             *)
Swap(p) ==
    /\ pc[p] = "swap"
    /\ Rename(Staging(call[p]), Target)
    /\ BeginRemove(p, Trash(call[p]), "return")
    /\ UNCHANGED <<content, wanted, saves, saved, call, todo, resume, reader>>

Return(p) ==
    /\ pc[p] = "return"
    /\ saved' = call[p]
    /\ GoTo(p, "ready")
    /\ UNCHANGED <<disk, wanted, saves, local, reader>>

(* An OSError inside the try: drop the staging, then look at the trash.    *)
Undo(p) ==
    /\ pc[p] \in {"mkdir", "write", "check", "toTrash", "swap"}
    /\ BeginRemove(p, Staging(call[p]), "restore")
    /\ UNCHANGED <<disk, wanted, saves, saved, call, todo, resume, reader>>

(* ... and if the old pick is in it and missing, put it back; then raise.  *)
Restore(p) ==
    /\ pc[p] = "restore"
    /\ IF Exists(Trash(call[p])) /\ ~Exists(Target)
         THEN Rename(Trash(call[p]), Target)
         ELSE UNCHANGED place
    /\ GoTo(p, "ready")
    /\ UNCHANGED <<content, wanted, saves, saved, local, reader>>

(* A rename that puts the pick back fails: the error leaves the call.      *)
RaiseOSError(p) ==
    /\ \/ pc[p] = "restore" /\ GoTo(p, "ready")
       \/ pc[p] = "putBack" /\ GoTo(p, IF resume[p] = "ready" THEN "down" ELSE "ready")
    /\ todo' = [todo EXCEPT ![p] = {}]
    /\ removing' = [removing EXCEPT ![p] = NoRemoval]
    /\ UNCHANGED <<disk, wanted, saves, saved, call, then, resume, reader>>

(* The process dies; the directories stay as they are.                     *)
Crash(p) ==
    /\ pc[p] # "down"
    /\ GoTo(p, "down")
    /\ call' = [call EXCEPT ![p] = 0]
    /\ todo' = [todo EXCEPT ![p] = {}]
    /\ removing' = [removing EXCEPT ![p] = NoRemoval]
    /\ then' = [then EXCEPT ![p] = "ready"]
    /\ resume' = [resume EXCEPT ![p] = "ready"]
    /\ UNCHANGED <<disk, wanted, saves, saved, reader>>

-----------------------------------------------------------------------------
(* list_exemplars                                                          *)

(* _exemplar_paths: the exemplar is listed if its meta.json is there.      *)
CallList(r) ==
    /\ pc[r] = "idle"
    /\ IF \E n \in At(Target) : Meta \in content[n]
         THEN GoTo(r, "meta") /\ UNCHANGED view
         ELSE view' = [view EXCEPT ![r] = NoView] /\ UNCHANGED pc
    /\ UNCHANGED <<disk, wanted, saves, saved, local, seen>>

(* _load: meta.json by its path ...                                        *)
ReadMeta(r) ==
    /\ pc[r] = "meta"
    /\ \E n \in At(Target) :
          /\ Meta \in content[n]
          /\ seen' = [seen EXCEPT ![r] = n]
    /\ GoTo(r, "files")
    /\ UNCHANGED <<disk, wanted, saves, saved, local, view>>

(* ... then the directory listing, by its path again.                      *)
ReadFiles(r) ==
    /\ pc[r] = "files"
    /\ \E n \in At(Target) :
          view' = [view EXCEPT ![r] = [meta |-> seen[r], files |-> content[n] \ {Meta}]]
    /\ seen' = [seen EXCEPT ![r] = 0]
    /\ GoTo(r, "idle")
    /\ UNCHANGED <<disk, wanted, saves, saved, local>>

(* The path is gone when it is opened: the listing raises.                 *)
RaiseList(r) ==
    /\ pc[r] \in {"meta", "files"}
    /\ ~Exists(Target)
    /\ seen' = [seen EXCEPT ![r] = 0]
    /\ GoTo(r, "idle")
    /\ UNCHANGED <<disk, wanted, saves, saved, local, view>>

-----------------------------------------------------------------------------
Save(p) ==
    \/ CallSave(p) \/ MakeStaging(p) \/ WriteFile(p) \/ CheckTarget(p)
    \/ MoveToTrash(p) \/ Swap(p) \/ Return(p)
    \/ Undo(p) \/ Restore(p) \/ RaiseOSError(p)

Sweep(p) ==
    \/ Construct(p) \/ SweepRemove(p) \/ SweepRestore(p) \/ PutBack(p) \/ EndSweep(p)
    \/ RemoveFile(p) \/ RemoveDir(p)

List(r) == CallList(r) \/ ReadMeta(r) \/ ReadFiles(r) \/ RaiseList(r)

Next ==
    \/ \E p \in Saver : Save(p) \/ Sweep(p) \/ Crash(p)
    \/ \E r \in Reader : List(r)

Spec == Init /\ [][Next]_vars

-----------------------------------------------------------------------------
(* Properties                                                              *)

Labels == {"down", "ready", "sweep", "remove", "putBack", "mkdir", "write", "check",
           "toTrash", "swap", "return", "restore", "idle", "meta", "files"}

(* Every variable has the shape the code gives it; in particular nothing   *)
(* from an earlier save survives in a directory (replacement, not merge).  *)
TypeOK ==
    /\ place \in [Call -> Path]
    /\ wanted \in [Call -> SUBSET File]
    /\ DOMAIN content = Call
    /\ \A n \in Call : content[n] \subseteq wanted[n] \cup {Meta}
    /\ saves \in 0..MaxSaves
    /\ saved \in 0..MaxSaves
    /\ pc \in [Saver \cup Reader -> Labels]
    /\ call \in [Saver -> 0..MaxSaves]
    /\ todo \in [Saver -> SUBSET Path]
    /\ removing \in [Saver -> [dirs : SUBSET Call, path : Path]]
    /\ then \in [Saver -> Labels]
    /\ resume \in [Saver -> Labels]
    /\ seen \in [Reader -> 0..MaxSaves]
    /\ view \in [Reader -> [meta : 0..MaxSaves, files : SUBSET File]]

(* Whatever crashed or failed, the exemplar's directory holds exactly the  *)
(* files and the meta of one save (save_exemplar's "exactly ... or         *)
(* untouched").                                                            *)
Whole == \A n \in At(Target) : Complete(n)

(* Where the pick is: in place, or in the trash waiting to be put back.    *)
Held == IF Exists(Target) THEN At(Target)
        ELSE {n \in Call : place[n].kind = "trash"}

(* A pick that save_exemplar acknowledged is never lost: it, or a later    *)
(* one, is in place or in the trash, complete (the promise of _sweep).     *)
PickKept == saved > 0 => \E n \in Held : n >= saved /\ Complete(n)

(* Once a sweep has ended, an acknowledged pick is in place again.         *)
SweepRestores ==
    [][\A p \in Saver : pc[p] = "sweep" /\ pc'[p] = resume[p] /\ saved > 0
          => \E n \in At(Target) : n >= saved]_vars

(* A reader that has seen a save never sees an earlier one afterwards: a   *)
(* save that readers have seen is not rolled back.                         *)
ReadsAdvance ==
    [][\A r \in Reader : view'[r] # NoView => view'[r].meta >= view[r].meta]_vars

(* The store implements the slot its port describes: one atomic change per *)
(* save, none for a save that fails.                                       *)
Slot == INSTANCE ExemplarSlot
    WITH pick <- {[save |-> n, files |-> content[n] \ {Meta}] : n \in Held}
ImplementsSlot == Slot!SlotSpec

=============================================================================
