------------------------ MODULE ExemplarStoreProofs ------------------------
(***************************************************************************)
(* The exemplar store for every number of saves and readers and every set  *)
(* of files, while one process saves (OneSaver; the code takes no lock     *)
(* here, and two savers can remove each other's directories).  The         *)
(* argument: between two sweeps at most one directory stands in the trash, *)
(* it is older than the exemplar, and it is only ever incomplete while the *)
(* exemplar is in place (DiskInv); that needs to know, at each step of a   *)
(* save or a sweep, which leftovers there can still be (SaverInv).         *)
(***************************************************************************)
EXTENDS ExemplarStore, TLAPS

OneSaver == \A p, q \in Saver : p = q

Leftover(n) == place[n].kind \in {"staging", "trash"}

(* No directory but those at these paths is left over.                     *)
Only(paths) == \A n \in Call : Leftover(n) => place[n] \in paths

(* A save's directory that is yet to be made.                              *)
Unmade(n) == place[n] = Gone /\ content[n] = {}

(* The saves called so far had files; the others have no directory.        *)
Numbered ==
    /\ \A n \in Call : n > saves => Unmade(n)
    /\ \A n \in Call : n <= saves => wanted[n] # {}

(* At most one directory is the exemplar, at most one, an older, is trash. *)
Placed ==
    /\ \A n \in Call : place[n].kind = "staging" => place[n].by = n
    /\ \A m, n \in Call : place[m] = Target /\ place[n] = Target => m = n
    /\ \A m, n \in Call : place[m].kind = "trash" /\ place[n].kind = "trash" => m = n
    /\ \A m, n \in Call : place[m].kind = "trash" /\ place[n] = Target => m < n

(* The exemplar is complete, and the trash while there is no exemplar.     *)
NoTarget == \A n \in Call : place[n] # Target

Filled ==
    /\ \A n \in Call : place[n] = Target => Complete(n)
    /\ \A n \in Call : place[n].kind = "trash" /\ NoTarget => Complete(n)

DiskInv == Numbered /\ Placed /\ Filled

(* The call is the latest, and its directory not yet made, or staged.      *)
Called(p) == call[p] \in Call /\ call[p] = saves
Staged(p) == Called(p) /\ place[call[p]] = Staging(call[p])

Sweeping(p) ==
    \/ pc[p] \in {"sweep", "putBack"}
    \/ pc[p] = "remove" /\ then[p] = "sweep"

SaverLabels == Labels \ {"idle", "meta", "files"}

SaverInv(p) ==
    /\ pc[p] \in SaverLabels
    /\ resume[p] \in {"ready", "mkdir"}
    /\ \A path \in todo[p] : path.kind \in {"staging", "trash"}
    /\ Sweeping(p) /\ resume[p] = "mkdir" => Called(p) /\ Unmade(call[p])
    /\ pc[p] = "sweep" => Only(todo[p])
    /\ pc[p] = "putBack" =>
          /\ Only(todo[p] \cup {removing[p].path})
          /\ removing[p].path.kind = "trash"
          /\ NoTarget
    /\ pc[p] = "remove" =>
          /\ removing[p].dirs = At(removing[p].path)
          /\ removing[p].path.kind \in {"staging", "trash"}
          /\ removing[p].path.kind = "trash" /\ removing[p].dirs # {} => ~NoTarget
          /\ then[p] \in {"sweep", "return", "restore"}
          /\ then[p] = "sweep" => Only(todo[p] \cup {removing[p].path})
          /\ then[p] = "return" =>
                /\ Called(p) /\ place[call[p]] = Target
                /\ removing[p].path = Trash(call[p])
                /\ Only({Trash(call[p])})
          /\ then[p] = "restore" =>
                /\ removing[p].path = Staging(call[p])
                /\ Only({Staging(call[p]), Trash(call[p])})
    /\ pc[p] = "mkdir" => Called(p) /\ Unmade(call[p]) /\ Only({})
    /\ pc[p] \in {"write", "check", "toTrash"} => Staged(p) /\ Only({Staging(call[p])})
    /\ pc[p] \in {"check", "toTrash", "swap"} => Complete(call[p])
    /\ pc[p] = "toTrash" => ~NoTarget
    /\ pc[p] = "swap" =>
          /\ Staged(p) /\ NoTarget
          /\ Only({Staging(call[p]), Trash(call[p])})
    /\ pc[p] = "restore" => Only({Trash(call[p])})
    /\ pc[p] = "return" => Called(p) /\ place[call[p]] = Target

(* The pick held is no older than any save acknowledged or read.           *)
Reaches(m) == m > 0 => \E n \in Held : n >= m

KeptInv == saved <= saves /\ Reaches(saved)

ReaderInv ==
    \A r \in Reader :
       /\ Reaches(seen[r]) /\ Reaches(view[r].meta)
       /\ pc[r] = "files" => seen[r] >= view[r].meta

StoreInv == DiskInv /\ (\A p \in Saver : SaverInv(p))

IInv == TypeOK /\ StoreInv /\ KeptInv /\ ReaderInv

-----------------------------------------------------------------------------
(* Types                                                                   *)

LEMMA PathType ==
    ASSUME NEW n \in Call
    PROVE  /\ Staging(n) \in Path /\ Trash(n) \in Path
           /\ Target \in Path /\ Gone \in Path
BY DEF Staging, Trash, Target, Gone, Path

(* What a rename does to the paths.                                        *)
LEMMA RenameType ==
    ASSUME TypeOK, NEW from, NEW to \in Path, Rename(from, to)
    PROVE  place' \in [Call -> Path]
BY DEF Rename, TypeOK, Gone, Path

LEMMA TypeInit == Init => TypeOK
BY SavesAssumption, RolesAssumption
   DEF Init, TypeOK, Labels, NoRemoval, NoView, Gone, Path, Call

LEMMA TypeNextSaver ==
    ASSUME TypeOK, DiskInv, NEW p \in Saver, SaverInv(p), Save(p) \/ Sweep(p) \/ Crash(p)
    PROVE  TypeOK'
<1> USE SavesAssumption, RolesAssumption
        DEF TypeOK, GoTo, disk, local, reader, Labels, BeginSweep, BeginRemove
<1>0. Leftovers \in SUBSET Path /\ Target \in Path /\ Gone \in Path
      /\ NoRemoval \in [dirs : SUBSET Call, path : Path]
    BY DEF Leftovers, Target, Gone, Path, NoRemoval
<1>1. CASE CallSave(p)
  <2>1. saves' = saves + 1 /\ saves' \in Call /\ saves' \in 0..MaxSaves
    BY <1>1 DEF CallSave, Call
  <2>2. wanted' \in [Call -> SUBSET File]
    BY <1>1, <2>1 DEF CallSave
  <2>3. content' = content /\ \A n \in Call : content[n] \subseteq wanted'[n] \cup {Meta}
    BY <1>1, <2>1 DEF CallSave, DiskInv, Numbered, Unmade, Call
  <2>4. todo' \in [Saver -> SUBSET Path]
    BY <1>0, <1>1 DEF CallSave
  <2>5. call' \in [Saver -> 0..MaxSaves]
    BY <1>1, <2>1 DEF CallSave
  <2> QED
    BY <1>1, <2>1, <2>2, <2>3, <2>4, <2>5 DEF CallSave
<1>2. CASE MakeStaging(p)
    BY <1>2, PathType DEF MakeStaging, SaverInv, Called
<1>3. CASE WriteFile(p)
    BY <1>3 DEF WriteFile
<1>4. CASE CheckTarget(p)
    BY <1>4 DEF CheckTarget
<1>5. CASE MoveToTrash(p)
  <2>1. Trash(call[p]) \in Path
    BY <1>5, PathType DEF MoveToTrash, SaverInv, Staged, Called
  <2>2. place' \in [Call -> Path]
    BY <1>5, <2>1, RenameType DEF MoveToTrash
  <2> QED
    BY <1>5, <2>2 DEF MoveToTrash
<1>6. CASE Swap(p)
  <2>1. Trash(call[p]) \in Path
    BY <1>6, PathType DEF Swap, SaverInv, Staged, Called
  <2>2. place' \in [Call -> Path]
    BY <1>0, <1>6, RenameType DEF Swap
  <2> QED
    BY <1>6, <2>1, <2>2 DEF Swap, At
<1>7. CASE Return(p)
    BY <1>7 DEF Return
<1>8. CASE Undo(p)
  <2>1. Staging(call[p]) \in Path
    BY <1>8, PathType DEF Undo, SaverInv, Staged, Called
  <2> QED
    BY <1>8, <2>1 DEF Undo, At
<1>9. CASE Restore(p)
  <2>1. place' \in [Call -> Path]
    BY <1>0, <1>9, RenameType DEF Restore
  <2> QED
    BY <1>9, <2>1 DEF Restore
<1>10. CASE RaiseOSError(p)
    BY <1>0, <1>10 DEF RaiseOSError
<1>11. CASE Construct(p)
    BY <1>0, <1>11 DEF Construct
<1>12. CASE SweepRemove(p)
    BY <1>12 DEF SweepRemove, NextLeftover, At
<1>13. CASE SweepRestore(p)
    BY <1>13 DEF SweepRestore, NextLeftover
<1>14. CASE PutBack(p)
  <2>1. place' \in [Call -> Path]
    BY <1>0, <1>14, RenameType DEF PutBack
  <2> QED
    BY <1>0, <1>14, <2>1 DEF PutBack
<1>15. CASE EndSweep(p)
    BY <1>15 DEF EndSweep
<1>16. CASE RemoveFile(p)
    BY <1>16 DEF RemoveFile
<1>17. CASE RemoveDir(p)
    BY <1>0, <1>17 DEF RemoveDir
<1>18. CASE Crash(p)
    BY <1>0, <1>18 DEF Crash
<1> QED
    BY <1>1, <1>2, <1>3, <1>4, <1>5, <1>6, <1>7, <1>8, <1>9, <1>10, <1>11, <1>12,
       <1>13, <1>14, <1>15, <1>16, <1>17, <1>18 DEF Save, Sweep

LEMMA TypeNextReader ==
    ASSUME TypeOK, NEW r \in Reader, List(r)
    PROVE  TypeOK'
<1> USE SavesAssumption DEF TypeOK, GoTo, disk, local, Labels
<1>1. CASE CallList(r)
  <2>1. NoView \in [meta : 0..MaxSaves, files : SUBSET File]
    BY DEF NoView
  <2>2. view' \in [Reader -> [meta : 0..MaxSaves, files : SUBSET File]]
    BY <1>1, <2>1 DEF CallList
  <2>3. pc' \in [Saver \cup Reader -> Labels]
    BY <1>1 DEF CallList
  <2> QED
    BY <1>1, <2>2, <2>3 DEF CallList
<1>2. CASE ReadMeta(r)
    BY <1>2 DEF ReadMeta, At, Call
<1>3. CASE ReadFiles(r)
  <2>1. PICK n \in Call :
            view' = [view EXCEPT ![r] = [meta |-> seen[r], files |-> content[n] \ {Meta}]]
    BY <1>3 DEF ReadFiles, At
  <2>2. content[n] \ {Meta} \in SUBSET File
    OBVIOUS
  <2> QED
    BY <1>3, <2>1, <2>2 DEF ReadFiles
<1>4. CASE RaiseList(r)
    BY <1>4 DEF RaiseList
<1> QED
    BY <1>1, <1>2, <1>3, <1>4 DEF List

-----------------------------------------------------------------------------
(* Steps of a saver that leave the directories as they are                 *)

LEMMA DiskUnchanged ==
    ASSUME DiskInv, UNCHANGED <<place, content, wanted, saves>>
    PROVE  DiskInv'
BY DEF DiskInv, Numbered, Placed, Filled, NoTarget, Unmade, Complete

LEMMA QuietSteps ==
    ASSUME TypeOK, DiskInv, NEW p \in Saver, SaverInv(p),
           \/ CheckTarget(p) \/ Return(p) \/ Undo(p) \/ RaiseOSError(p) \/ Construct(p)
           \/ SweepRemove(p) \/ SweepRestore(p) \/ EndSweep(p) \/ Crash(p)
    PROVE  DiskInv' /\ SaverInv(p)'
<1>0. UNCHANGED <<place, content, wanted, saves>> /\ DiskInv'
  <2>1. UNCHANGED <<place, content, wanted, saves>>
    BY DEF disk, CheckTarget, Return, Undo, RaiseOSError, Construct, SweepRemove,
           SweepRestore, EndSweep, Crash
  <2> QED  BY <2>1, DiskUnchanged
<1> USE DEF TypeOK, GoTo, disk, local, reader, SaverLabels, Labels, BeginSweep, BeginRemove,
        Sweeping, Only, Leftover, Unmade, Called, Staged, At, Exists, NoTarget, Complete
<1>1. CASE CheckTarget(p)
    BY <1>0, <1>1 DEF CheckTarget, SaverInv
<1>2. CASE Return(p)
    BY <1>0, <1>2 DEF Return, SaverInv
<1>3. CASE Undo(p)
    BY <1>0, <1>3 DEF Undo, SaverInv, Staging, Trash
<1>4. CASE RaiseOSError(p)
    BY <1>0, <1>4 DEF RaiseOSError, SaverInv
<1>5. CASE Construct(p)
    BY <1>0, <1>5 DEF Construct, SaverInv, Leftovers
<1>6. CASE SweepRemove(p)
    BY <1>0, <1>6 DEF SweepRemove, NextLeftover, SaverInv
<1>7. CASE SweepRestore(p)
    BY <1>0, <1>7 DEF SweepRestore, NextLeftover, SaverInv
<1>8. CASE EndSweep(p)
    BY <1>0, <1>8 DEF EndSweep, SaverInv
<1>9. CASE Crash(p)
    BY <1>0, <1>9 DEF Crash, SaverInv, NoRemoval
<1> QED
    BY <1>1, <1>2, <1>3, <1>4, <1>5, <1>6, <1>7, <1>8, <1>9

-----------------------------------------------------------------------------
(* Steps that change a directory                                           *)

LEMMA Kinds ==
    /\ Target.kind = "target" /\ Gone.kind = "gone"
    /\ \A n : Staging(n).kind = "staging" /\ Staging(n).by = n
    /\ \A n : Trash(n).kind = "trash" /\ Trash(n).by = n
BY DEF Target, Gone, Staging, Trash

LEMMA Shape ==
    ASSUME TypeOK
    PROVE  /\ saves \in Nat /\ Call \subseteq Nat
           /\ place \in [Call -> Path] /\ wanted \in [Call -> SUBSET File]
           /\ DOMAIN content = Call
           /\ pc \in [Saver \cup Reader -> Labels] /\ call \in [Saver -> 0..MaxSaves]
           /\ todo \in [Saver -> SUBSET Path]
           /\ removing \in [Saver -> [dirs : SUBSET Call, path : Path]]
           /\ then \in [Saver -> Labels] /\ resume \in [Saver -> Labels]
BY SavesAssumption DEF TypeOK, Call

LEMMA StrictlyLess ==
    ASSUME NEW m \in Nat, NEW n \in Nat, m <= n, m # n
    PROVE  m < n
OBVIOUS

(* What is complete stays so while no file of it is touched.               *)
LEMMA CompleteUnchanged ==
    ASSUME NEW n, content'[n] = content[n], wanted'[n] = wanted[n]
    PROVE  Complete(n)' <=> Complete(n)
BY DEF Complete

LEMMA CallSaveStep ==
    ASSUME TypeOK, DiskInv, NEW p \in Saver, SaverInv(p), CallSave(p)
    PROVE  DiskInv' /\ SaverInv(p)'
<1> USE Shape, Kinds DEF GoTo, disk, local, reader
<1>1. saves' = saves + 1 /\ saves' \in Call /\ call'[p] = saves'
    BY SavesAssumption DEF CallSave, TypeOK, Call
<1>2. Unmade(saves') /\ UNCHANGED <<place, content>>
    BY <1>1 DEF CallSave, DiskInv, Numbered
<1>3. PICK F \in (SUBSET File) \ {{}} : wanted' = [wanted EXCEPT ![saves'] = F]
    BY DEF CallSave
<1>4. wanted'[saves'] # {} /\ \A n \in Call : n # saves' => wanted'[n] = wanted[n]
  <2>1. F # {}
    BY <1>3
  <2>0. wanted'[saves'] = F
    BY <1>1, <1>3
  <2>2. \A n \in Call : n # saves' => wanted'[n] = wanted[n]
    BY <1>3
  <2> QED  BY <2>0, <2>1, <2>2
<1>5. \A n \in Call : n # saves' => (Complete(n)' <=> Complete(n))
    BY <1>2, <1>4, CompleteUnchanged
<1>6. Numbered'
  <2>1. \A n \in Call : n > saves' => Unmade(n)'
    BY <1>1, <1>2 DEF DiskInv, Numbered, Unmade
  <2>2. \A n \in Call : n <= saves' => wanted'[n] # {}
    BY <1>1, <1>4 DEF DiskInv, Numbered
  <2> QED  BY <2>1, <2>2 DEF Numbered
<1>7. Placed'
    BY <1>2 DEF DiskInv, Placed
<1>8. Filled'
    BY <1>2, <1>5 DEF DiskInv, Filled, NoTarget, Unmade
<1>9. SaverInv(p)'
    BY <1>1, <1>2 DEF CallSave, BeginSweep, SaverInv, SaverLabels, Labels, Sweeping, Only,
       Leftover, Leftovers, Called, Unmade
<1> QED  BY <1>6, <1>7, <1>8, <1>9 DEF DiskInv

LEMMA MakeStagingStep ==
    ASSUME TypeOK, DiskInv, NEW p \in Saver, SaverInv(p), MakeStaging(p)
    PROVE  DiskInv' /\ SaverInv(p)'
<1> USE Shape, Kinds DEF GoTo, disk, local, reader
<1> DEFINE n == call[p]
<1>1. n \in Call /\ n = saves /\ Unmade(n) /\ Only({})
    BY DEF MakeStaging, SaverInv, Called
<1>2. /\ \A m \in Call : place'[m] = IF m = n THEN Staging(n) ELSE place[m]
      /\ UNCHANGED <<content, wanted, saves, call>>
    BY DEF MakeStaging
<1>3. \A m \in Call : Complete(m)' <=> Complete(m)
    BY <1>2, CompleteUnchanged
<1>4. Numbered'
    BY <1>1, <1>2 DEF DiskInv, Numbered, Unmade
<1>5. Placed'
  <2>1. place'[n].kind = "staging" /\ place'[n].by = n
    BY <1>1, <1>2
  <2>2. \A m \in Call : m # n => place'[m] = place[m]
    BY <1>2
  <2>3. place'[n] # Target /\ place'[n].kind # "trash"
    BY <2>1
  <2>4. Placed
    BY DEF DiskInv
  <2>5. \A m \in Call : place'[m].kind = "staging" => place'[m].by = m
    BY <2>1, <2>2, <2>4 DEF Placed
  <2>6. \A m \in Call : place'[m] = Target \/ place'[m].kind = "trash" => place'[m] = place[m]
    BY <2>2, <2>3
  <2> QED  BY <2>4, <2>5, <2>6 DEF Placed
<1>6. Filled'
  <2>1. /\ \A m \in Call : place'[m] = Target => place[m] = Target /\ m # n
        /\ \A m \in Call : place'[m].kind = "trash" => place[m].kind = "trash" /\ m # n
    BY <1>2
  <2>2. NoTarget' => NoTarget
    BY <1>1, <1>2 DEF NoTarget, Unmade
  <2> QED  BY <1>3, <2>1, <2>2 DEF DiskInv, Filled
<1>7. SaverInv(p)'
    BY <1>1, <1>2 DEF MakeStaging, SaverInv, SaverLabels, Labels, Sweeping, Only, Leftover,
       Called, Staged
<1> QED  BY <1>4, <1>5, <1>6, <1>7 DEF DiskInv

LEMMA WriteFileStep ==
    ASSUME TypeOK, DiskInv, NEW p \in Saver, SaverInv(p), WriteFile(p)
    PROVE  DiskInv' /\ SaverInv(p)'
<1> USE Shape, Kinds DEF GoTo, disk, local, reader
<1> DEFINE n == call[p]
<1>1. n \in Call /\ n = saves /\ place[n] = Staging(n) /\ Only({Staging(n)})
    BY DEF WriteFile, SaverInv, Staged, Called
<1>2. /\ UNCHANGED <<place, wanted, saves, call>>
      /\ \A m \in Call : m # n => content'[m] = content[m]
    BY <1>1 DEF WriteFile
<1>3. \A m \in Call : m # n => (Complete(m)' <=> Complete(m))
    BY <1>2, CompleteUnchanged
<1>4. Numbered'
    BY <1>1, <1>2 DEF DiskInv, Numbered, Unmade
<1>5. Placed'
    BY <1>2 DEF DiskInv, Placed
<1>6. Filled'
    BY <1>1, <1>2, <1>3 DEF DiskInv, Filled, NoTarget
<1>7. pc'[p] = "check" => Complete(n)'
  <2>1. CASE wanted[n] \ content[n] = {}
    <3>1. content'[n] = content[n] \cup {Meta}
        BY <1>1, <2>1 DEF WriteFile
    <3>2. content[n] \subseteq wanted[n] \cup {Meta}
        BY <1>1 DEF TypeOK
    <3> QED
        BY <1>2, <2>1, <3>1, <3>2 DEF Complete
  <2>2. CASE wanted[n] \ content[n] # {}
    BY <2>2 DEF WriteFile
  <2> QED  BY <2>1, <2>2
<1>8. SaverInv(p)'
    BY <1>1, <1>2, <1>7 DEF WriteFile, SaverInv, SaverLabels, Labels, Sweeping, Only, Leftover,
       Called, Staged
<1> QED  BY <1>4, <1>5, <1>6, <1>8 DEF DiskInv

LEMMA MoveToTrashStep ==
    ASSUME TypeOK, DiskInv, NEW p \in Saver, SaverInv(p), MoveToTrash(p)
    PROVE  DiskInv' /\ SaverInv(p)'
<1> USE Shape, Kinds DEF GoTo, disk, local, reader
<1> DEFINE n == call[p]
<1>1. /\ n \in Call /\ n = saves /\ place[n] = Staging(n) /\ Only({Staging(n)})
      /\ Complete(n)
    BY DEF MoveToTrash, SaverInv, Staged, Called
<1>2. \A m \in Call : place[m].kind # "trash" /\ (place[m].kind = "staging" => m = n)
    BY <1>1 DEF Only, Leftover, DiskInv, Placed
<1>3. /\ \A m \in Call : place'[m] = IF place[m] = Target THEN Trash(n) ELSE place[m]
      /\ UNCHANGED <<content, wanted, saves, call>>
    BY <1>2 DEF MoveToTrash, Rename
<1>4. \A m \in Call : Complete(m)' <=> Complete(m)
    BY <1>3, CompleteUnchanged
<1>5. Numbered'
    BY <1>1, <1>3 DEF DiskInv, Numbered, Unmade
<1>6. NoTarget'
    BY <1>3 DEF NoTarget
<1>7. Placed'
  <2>1. \A m \in Call : place'[m].kind = "staging" => place'[m].by = m
    BY <1>2, <1>3 DEF DiskInv, Placed
  <2>2. \A m, o \in Call : place'[m].kind = "trash" /\ place'[o].kind = "trash" =>
                                place[m] = Target /\ place[o] = Target
    BY <1>2, <1>3
  <2> QED  BY <1>3, <1>6, <2>1, <2>2 DEF DiskInv, Placed, NoTarget
<1>8. Filled'
    BY <1>2, <1>3, <1>4, <1>6 DEF DiskInv, Filled, NoTarget
<1>9. Only({Staging(n), Trash(n)})' /\ Staged(p)'
    BY <1>1, <1>2, <1>3 DEF Only, Leftover, Staged, Called, Placed, DiskInv
<1>10. SaverInv(p)'
    BY <1>1, <1>3, <1>4, <1>6, <1>9 DEF MoveToTrash, SaverInv, SaverLabels, Labels, Sweeping
<1> QED  BY <1>5, <1>7, <1>8, <1>10 DEF DiskInv

LEMMA SwapStep ==
    ASSUME TypeOK, DiskInv, NEW p \in Saver, SaverInv(p), Swap(p)
    PROVE  DiskInv' /\ SaverInv(p)'
<1> USE Shape, Kinds DEF GoTo, disk, local, reader
<1> DEFINE n == call[p]
<1>1. /\ n \in Call /\ n = saves /\ place[n] = Staging(n) /\ Complete(n)
      /\ Only({Staging(n), Trash(n)}) /\ NoTarget
    BY DEF Swap, SaverInv, Staged, Called
<1>2. \A m \in Call : place[m] = Staging(n) => m = n
    BY DEF DiskInv, Placed
<1>3. /\ place'[n] = Target
      /\ \A m \in Call : m # n => place'[m] = place[m]
      /\ UNCHANGED <<content, wanted, saves, call>>
    BY <1>1, <1>2 DEF Swap, Rename, NoTarget
<1>4. \A m \in Call : Complete(m)' <=> Complete(m)
    BY <1>3, CompleteUnchanged
<1>5. Numbered'
    BY <1>1, <1>3 DEF DiskInv, Numbered, Unmade
<1>6. Placed'
  <2>1. \A m \in Call : place[m] # Gone => m <= n
    BY <1>1 DEF DiskInv, Numbered, Unmade
  <2>2. \A m \in Call : place'[m] = Target <=> m = n
    BY <1>1, <1>3 DEF NoTarget
  <2>3. \A m \in Call : place'[m].kind = "trash" => m # n /\ place'[m] = place[m] /\ m < n
    <3> SUFFICES ASSUME NEW m \in Call, place'[m].kind = "trash"
                 PROVE  m # n /\ place'[m] = place[m] /\ m < n
        OBVIOUS
    <3>1. m # n /\ place'[m] = place[m]
        BY <1>1, <1>3
    <3>2. m <= n
        BY <2>1, <3>1
    <3>3. m \in Nat /\ n \in Nat
        BY <1>1
    <3>4. m < n
        BY <3>1, <3>2, <3>3, StrictlyLess
    <3> QED  BY <3>1, <3>4
  <2>4. \A m \in Call : place'[m].kind = "staging" => place'[m].by = m
    BY <1>1, <1>3 DEF DiskInv, Placed
  <2> QED  BY <2>2, <2>3, <2>4 DEF DiskInv, Placed
<1>7. Filled'
    BY <1>1, <1>3, <1>4 DEF DiskInv, Filled, NoTarget
<1>8. At(Trash(n))' = At(Trash(n))
    BY <1>1, <1>3 DEF At
<1>9. /\ removing'[p] = [dirs |-> At(Trash(n)), path |-> Trash(n)]
      /\ then'[p] = "return" /\ pc'[p] = "remove"
    BY DEF Swap, BeginRemove
<1>10. Only({Trash(n)})' /\ ~NoTarget' /\ Called(p)'
  <2>1. \A m \in Call : place[m] = Staging(n) => m = n
    BY <1>2
  <2> QED
    BY <1>1, <1>3, <2>1 DEF Only, Leftover, NoTarget, Called
<1>11. SaverInv(p)'
    BY <1>1, <1>3, <1>8, <1>9, <1>10 DEF Swap, SaverInv, SaverLabels, Labels, Sweeping
<1> QED  BY <1>5, <1>6, <1>7, <1>11 DEF DiskInv

LEMMA RemoveFileStep ==
    ASSUME TypeOK, DiskInv, NEW p \in Saver, SaverInv(p), RemoveFile(p)
    PROVE  DiskInv' /\ SaverInv(p)'
<1> USE Shape, Kinds DEF GoTo, disk, local, reader
<1>1. PICK n \in removing[p].dirs : \E f \in content[n] :
          content' = [content EXCEPT ![n] = @ \ {f}]
    BY DEF RemoveFile
<1>2. /\ UNCHANGED <<place, wanted, saves, pc, call, todo, removing, then, resume>>
      /\ \A m \in Call : m # n => content'[m] = content[m]
    BY <1>1 DEF RemoveFile
<1>3. /\ n \in Call /\ place[n].kind \in {"staging", "trash"}
      /\ place[n].kind = "trash" => ~NoTarget
    BY <1>1 DEF RemoveFile, SaverInv, At
<1>4. \A m \in Call : m # n => (Complete(m)' <=> Complete(m))
    BY <1>2, CompleteUnchanged
<1>5. Numbered'
    BY <1>2, <1>3 DEF DiskInv, Numbered, Unmade
<1>6. Placed'
    BY <1>2 DEF DiskInv, Placed
<1>7. Filled'
  <2>1. NoTarget' <=> NoTarget
    BY <1>2 DEF NoTarget
  <2>2. \A m \in Call : place[m] = Target => m # n
    BY <1>3
  <2> QED
    BY <1>2, <1>3, <1>4, <2>1, <2>2 DEF DiskInv, Filled
<1>8. SaverInv(p)'
  <2>1. \A m \in Call : Unmade(m) => Unmade(m)'
    BY <1>2, <1>3 DEF Unmade
  <2> QED
    BY <1>2, <2>1 DEF RemoveFile, SaverInv, SaverLabels, Labels, Sweeping, Only, Leftover, Called,
       NoTarget, At
<1> QED  BY <1>5, <1>6, <1>7, <1>8 DEF DiskInv

LEMMA RemoveDirStep ==
    ASSUME TypeOK, DiskInv, NEW p \in Saver, SaverInv(p), RemoveDir(p)
    PROVE  DiskInv' /\ SaverInv(p)'
<1> USE Shape, Kinds DEF GoTo, disk, local, reader
<1> DEFINE path == removing[p].path
<1>1. /\ pc[p] = "remove" /\ path.kind \in {"staging", "trash"}
      /\ removing[p].dirs = At(path)
    BY DEF RemoveDir, SaverInv
<1>2. /\ \A m \in Call : place'[m] = IF place[m] = path THEN Gone ELSE place[m]
      /\ UNCHANGED <<content, wanted, saves, call, todo, then, resume>>
      /\ pc'[p] = then[p]
      /\ \A m \in Call : place[m] = path => content[m] = {}
    BY <1>1 DEF RemoveDir, At
<1>3. \A m \in Call : place'[m] = Target <=> place[m] = Target
    BY <1>1, <1>2
<1>4. NoTarget' <=> NoTarget
    BY <1>3 DEF NoTarget
<1>5. \A m \in Call : Complete(m)' <=> Complete(m)
    BY <1>2, CompleteUnchanged
<1>6. \A m \in Call : place'[m].kind \in {"staging", "trash"} =>
          place'[m] = place[m] /\ place[m] # path
    BY <1>2
<1>7. Numbered'
    BY <1>2 DEF DiskInv, Numbered, Unmade
<1>8. Placed'
    BY <1>3, <1>6 DEF DiskInv, Placed
<1>9. Filled'
    BY <1>3, <1>4, <1>5, <1>6 DEF DiskInv, Filled
<1>10. \A m \in Call : Unmade(m) => Unmade(m)'
    BY <1>2 DEF Unmade
<1>11. SaverInv(p)'
    BY <1>1, <1>2, <1>3, <1>6, <1>10
       DEF SaverInv, SaverLabels, Labels, Sweeping, Only, Leftover, Called, NoTarget
<1> QED  BY <1>7, <1>8, <1>9, <1>11 DEF DiskInv

(* A directory of the trash comes back only while there is no exemplar.    *)
LEMMA PutBackStep ==
    ASSUME TypeOK, DiskInv, NEW p \in Saver, SaverInv(p), PutBack(p) \/ Restore(p)
    PROVE  DiskInv' /\ SaverInv(p)'
<1> USE Shape, Kinds DEF GoTo, disk, local, reader
<1>1. UNCHANGED <<content, wanted, saves, call, todo, then, resume>>
    BY DEF PutBack, Restore
<1>2. CASE place' = place
  <2>1. DiskInv'
    BY <1>1, <1>2, DiskUnchanged
  <2>2. SaverInv(p)'
    <3>1. CASE PutBack(p)
        BY <1>1, <1>2, <3>1 DEF PutBack, Rename, SaverInv, SaverLabels, Labels, Sweeping, Only,
           Leftover, Called, Unmade, Exists, At, NoTarget
    <3>2. CASE Restore(p)
        BY <1>1, <1>2, <3>2 DEF Restore, SaverInv, SaverLabels, Labels, Sweeping
    <3> QED  BY <3>1, <3>2
  <2> QED  BY <2>1, <2>2
<1>3. CASE place' # place
  <2>1. PICK path \in Path :
            /\ path.kind = "trash" /\ NoTarget
            /\ \A m \in Call : place'[m] = IF place[m] = path THEN Target ELSE place[m]
            /\ pc[p] = "putBack" => path = removing[p].path
    <3>1. CASE PutBack(p)
      <4>1. /\ removing[p].path.kind = "trash" /\ NoTarget /\ pc[p] = "putBack"
            /\ removing[p].path \in Path
        BY <3>1 DEF PutBack, SaverInv
      <4>2. \A m \in Call :
                place'[m] = IF place[m] = removing[p].path THEN Target ELSE place[m]
        BY <3>1, <4>1 DEF PutBack, Rename, NoTarget
      <4> QED  BY <4>1, <4>2
    <3>2. CASE Restore(p)
      <4>1. Exists(Trash(call[p])) /\ NoTarget /\ pc[p] = "restore"
        BY <1>3, <3>2 DEF Restore, Exists, At, NoTarget
      <4>2. Trash(call[p]) \in Path
        BY <4>1 DEF Exists, At
      <4>3. \A m \in Call :
                place'[m] = IF place[m] = Trash(call[p]) THEN Target ELSE place[m]
        BY <1>3, <3>2, <4>1 DEF Restore, Rename, NoTarget
      <4> QED  BY <4>1, <4>2, <4>3
    <3> QED  BY <3>1, <3>2
  <2>2. \A m \in Call : Complete(m)' <=> Complete(m)
    BY <1>1, CompleteUnchanged
  <2>3. Numbered'
    BY <1>1, <2>1 DEF DiskInv, Numbered, Unmade
  <2>4. /\ \A m \in Call : place'[m] = Target => place[m].kind = "trash"
        /\ \A m \in Call : place'[m].kind \in {"staging", "trash"} =>
               place'[m] = place[m] /\ place[m] # path
    BY <2>1 DEF NoTarget
  <2>5. Placed'
    BY <2>1, <2>4 DEF DiskInv, Placed
  <2>6. Filled'
    BY <2>1, <2>2, <2>4 DEF DiskInv, Filled, NoTarget
  <2>7. \A m \in Call : Unmade(m) => Unmade(m)'
    BY <1>1, <2>1 DEF Unmade
  <2>8. SaverInv(p)'
    <3>1. CASE PutBack(p)
        BY <1>1, <2>1, <2>4, <2>7, <3>1 DEF PutBack, SaverInv, SaverLabels, Labels, Sweeping,
           Only, Leftover, Called
    <3>2. CASE Restore(p)
        BY <1>1, <3>2 DEF Restore, SaverInv, SaverLabels, Labels, Sweeping
    <3> QED  BY <3>1, <3>2
  <2> QED  BY <2>3, <2>5, <2>6, <2>8 DEF DiskInv
<1> QED  BY <1>2, <1>3

-----------------------------------------------------------------------------
(* What is held                                                            *)

InHeld(n) == n \in Call /\ IF NoTarget THEN place[n].kind = "trash" ELSE place[n] = Target

LEMMA HeldIs ==
    /\ \A n : n \in Held <=> InHeld(n)
    /\ \A n : n \in Held' <=> InHeld(n)'
<1>1. (\A n : n \in At(Target) <=> n \in Call /\ place[n] = Target) /\ (Exists(Target) <=> ~NoTarget)
    BY DEF Exists, At, NoTarget
<1>2. /\ \A n : n \in At(Target)' <=> n \in Call /\ place'[n] = Target
      /\ Exists(Target)' <=> ~NoTarget'
    BY DEF Exists, At, NoTarget
<1>3. \A n : n \in Held <=> InHeld(n)
  <2>1. CASE NoTarget
    BY <1>1, <2>1 DEF Held, InHeld, NoTarget
  <2>2. CASE ~NoTarget
    BY <1>1, <2>2 DEF Held, InHeld
  <2> QED  BY <2>1, <2>2
<1>4. \A n : n \in Held' <=> InHeld(n)'
  <2>1. CASE NoTarget'
    BY <1>2, <2>1 DEF Held, InHeld, NoTarget
  <2>2. CASE ~NoTarget'
    BY <1>2, <2>2 DEF Held, InHeld
  <2> QED  BY <2>1, <2>2
<1> QED  BY <1>3, <1>4

(* The pick is left alone, or replaced by a later one with its files.      *)
Untouched ==
    /\ Held' = Held
    /\ \A n \in Held : content'[n] = content[n]

Replaced ==
    \E m \in Call :
       /\ Held' = {m}
       /\ \A n \in Held : n < m
       /\ m <= saves /\ content[m] = wanted[m] \cup {Meta} /\ UNCHANGED content

LEMMA SwapReplaces ==
    ASSUME TypeOK, DiskInv, NEW p \in Saver, SaverInv(p), Swap(p)
    PROVE  Replaced
<1> USE Shape, Kinds
<1> DEFINE n == call[p]
<1>1. /\ n \in Call /\ n = saves /\ place[n] = Staging(n) /\ Complete(n)
      /\ NoTarget
    BY DEF Swap, SaverInv, Staged, Called
<1>2. \A m \in Call : place[m] = Staging(n) => m = n
    BY DEF DiskInv, Placed
<1>3. /\ place'[n] = Target
      /\ \A m \in Call : m # n => place'[m] = place[m]
      /\ UNCHANGED content
    BY <1>1, <1>2 DEF Swap, Rename, NoTarget
<1>4. \A m \in Call : place'[m] = Target <=> m = n
    BY <1>1, <1>3 DEF NoTarget
<1>5. \A m : InHeld(m)' <=> m = n
  <2>1. ~NoTarget'
    BY <1>1, <1>4 DEF NoTarget
  <2> QED  BY <1>1, <1>4, <2>1 DEF InHeld
<1>6. Held' = {n}
    BY <1>5, HeldIs
<1>7. ASSUME NEW m \in Held  PROVE m < n
  <2>1. m \in Call /\ m # n /\ place[m] # Gone
    BY <1>1, <1>7, HeldIs DEF InHeld
  <2>2. m <= n /\ m \in Nat /\ n \in Nat
    BY <1>1, <2>1 DEF DiskInv, Numbered, Unmade
  <2> QED  BY <2>1, <2>2, StrictlyLess
<1>8. n <= saves
    BY <1>1
<1> QED  BY <1>1, <1>3, <1>6, <1>7, <1>8 DEF Replaced, Complete

LEMMA OthersLeaveThePick ==
    ASSUME TypeOK, DiskInv, NEW p \in Saver, SaverInv(p),
           Save(p) \/ Sweep(p) \/ Crash(p), ~Swap(p)
    PROVE  Untouched
<1> USE Shape, Kinds, HeldIs DEF GoTo, disk, local, reader
<1>1. CASE place' = place /\ content' = content
    BY <1>1 DEF Untouched, InHeld, NoTarget
<1>2. CASE MakeStaging(p)
  <2>1. Unmade(call[p]) /\ call[p] \in Call
    BY <1>2 DEF MakeStaging, SaverInv, Called
  <2>2. \A m \in Call : place'[m] = IF m = call[p] THEN Staging(call[p]) ELSE place[m]
    BY <1>2 DEF MakeStaging
  <2>3. \A m \in Call : /\ place'[m] = Target <=> place[m] = Target
                        /\ place'[m].kind = "trash" <=> place[m].kind = "trash"
    BY <2>1, <2>2 DEF Unmade
  <2>4. \A m : InHeld(m)' <=> InHeld(m)
    BY <2>3 DEF InHeld, NoTarget
  <2> QED  BY <1>2, <2>4 DEF Untouched, MakeStaging
<1>3. CASE WriteFile(p)
  <2>1. place[call[p]] = Staging(call[p]) /\ place' = place
    BY <1>3 DEF WriteFile, SaverInv, Staged
  <2>2. \A m \in Call : m # call[p] => content'[m] = content[m]
    BY <1>3 DEF WriteFile
  <2>3. ~InHeld(call[p])
    BY <2>1 DEF InHeld
  <2>4. \A m : InHeld(m)' <=> InHeld(m)
    BY <2>1 DEF InHeld, NoTarget
  <2>5. \A m \in Held : m \in Call /\ m # call[p]
    BY <2>3 DEF InHeld
  <2> QED  BY <2>2, <2>4, <2>5 DEF Untouched
<1>4. CASE RemoveFile(p)
  <2>1. PICK n \in removing[p].dirs : \E f \in content[n] :
            content' = [content EXCEPT ![n] = @ \ {f}]
    BY <1>4 DEF RemoveFile
  <2>2. /\ n \in Call /\ place[n].kind \in {"staging", "trash"}
        /\ place[n].kind = "trash" => ~NoTarget
    BY <1>4, <2>1 DEF RemoveFile, SaverInv, At
  <2>3. ~InHeld(n)
    BY <2>2 DEF InHeld
  <2>4. place' = place /\ \A m \in Call : m # n => content'[m] = content[m]
    BY <1>4, <2>1 DEF RemoveFile
  <2>5. \A m : InHeld(m)' <=> InHeld(m)
    BY <2>4 DEF InHeld, NoTarget
  <2>6. \A m \in Held : m \in Call /\ m # n
    BY <2>3 DEF InHeld
  <2> QED  BY <2>4, <2>5, <2>6 DEF Untouched
<1>5. CASE RemoveDir(p)
  <2> DEFINE path == removing[p].path
  <2>1. /\ path.kind \in {"staging", "trash"} /\ removing[p].dirs = At(path)
        /\ \A m \in Call : place[m] = path /\ path.kind = "trash" => ~NoTarget
    BY <1>5 DEF RemoveDir, SaverInv, At
  <2>2. /\ \A m \in Call : place'[m] = IF place[m] = path THEN Gone ELSE place[m]
        /\ UNCHANGED content
    BY <1>5, <2>1 DEF RemoveDir, At
  <2>3. \A m \in Call : place'[m] = Target <=> place[m] = Target
    BY <2>1, <2>2
  <2>4. \A m \in Call : NoTarget =>
            (place'[m].kind = "trash" <=> place[m].kind = "trash")
    BY <2>1, <2>2
  <2>6. NoTarget' <=> NoTarget
    BY <2>3 DEF NoTarget
  <2>5. \A m : InHeld(m)' <=> InHeld(m)
    BY <2>3, <2>4, <2>6 DEF InHeld
  <2> QED  BY <2>2, <2>5 DEF Untouched
<1>6. CASE MoveToTrash(p)
  <2>1. /\ call[p] \in Call /\ Only({Staging(call[p])}) /\ ~NoTarget
    BY <1>6 DEF MoveToTrash, SaverInv, Staged, Called
  <2>2. \A m \in Call : place[m].kind # "trash"
    BY <2>1 DEF Only, Leftover
  <2>3. /\ \A m \in Call : place'[m] = IF place[m] = Target THEN Trash(call[p]) ELSE place[m]
        /\ UNCHANGED content
    BY <1>6, <2>2 DEF MoveToTrash, Rename
  <2>4. NoTarget'
    BY <2>3 DEF NoTarget
  <2>5. \A m \in Call : place'[m].kind = "trash" <=> place[m] = Target
    BY <2>2, <2>3
  <2>6. \A m : InHeld(m)' <=> m \in Call /\ place[m] = Target
    BY <2>4, <2>5 DEF InHeld, NoTarget
  <2>7. \A m : InHeld(m) <=> m \in Call /\ place[m] = Target
    BY <2>1 DEF InHeld
  <2> QED  BY <2>3, <2>7, <2>6 DEF Untouched
<1>7. CASE (PutBack(p) \/ Restore(p)) /\ place' # place
  <2>1. PICK path :
            /\ path.kind = "trash" /\ NoTarget
            /\ \E m \in Call : place[m] = path
            /\ \A m \in Call : place'[m] = IF place[m] = path THEN Target ELSE place[m]
    <3>1. CASE PutBack(p)
      <4>1. removing[p].path.kind = "trash" /\ NoTarget
        BY <3>1 DEF PutBack, SaverInv
      <4>2. /\ \E m \in Call : place[m] = removing[p].path
            /\ \A m \in Call :
                 place'[m] = IF place[m] = removing[p].path THEN Target ELSE place[m]
        BY <3>1, <4>1 DEF PutBack, Rename, NoTarget, Exists, At
      <4> QED  BY <4>1, <4>2
    <3>2. CASE Restore(p)
      <4>1. NoTarget /\ \E m \in Call : place[m] = Trash(call[p])
        BY <1>7, <3>2 DEF Restore, Exists, At, NoTarget
      <4>2. \A m \in Call :
                place'[m] = IF place[m] = Trash(call[p]) THEN Target ELSE place[m]
        BY <1>7, <3>2, <4>1 DEF Restore, Rename, NoTarget
      <4> QED  BY <4>1, <4>2
    <3> QED  BY <1>7, <3>1, <3>2
  <2>2. \A m \in Call : place[m].kind = "trash" <=> place[m] = path
    BY <2>1 DEF DiskInv, Placed
  <2>3. \A m \in Call : place'[m] = Target <=> place[m] = path
    BY <2>1 DEF NoTarget
  <2>4. ~NoTarget'
    BY <2>1, <2>3 DEF NoTarget
  <2>5. \A m : InHeld(m)' <=> m \in Call /\ place[m] = path
    BY <2>3, <2>4 DEF InHeld
  <2>6. \A m : InHeld(m) <=> m \in Call /\ place[m] = path
    BY <2>1, <2>2 DEF InHeld, NoTarget
  <2>7. UNCHANGED content
    BY <1>7 DEF PutBack, Restore
  <2>8. Held' = Held
    BY <2>5, <2>6
  <2> QED  BY <2>7, <2>8 DEF Untouched
<1>8. CASE (PutBack(p) \/ Restore(p)) /\ place' = place
    BY <1>1, <1>8 DEF PutBack, Restore
<1>9. CASE \/ CallSave(p) \/ CheckTarget(p) \/ Return(p) \/ Undo(p) \/ RaiseOSError(p)
           \/ Construct(p) \/ SweepRemove(p) \/ SweepRestore(p) \/ EndSweep(p) \/ Crash(p)
    BY <1>1, <1>9 DEF CallSave, CheckTarget, Return, Undo, RaiseOSError, Construct,
       SweepRemove, SweepRestore, EndSweep, Crash
<1> QED
    BY <1>2, <1>3, <1>4, <1>5, <1>6, <1>7, <1>8, <1>9 DEF Save, Sweep

LEMMA PickStep ==
    ASSUME TypeOK, DiskInv, NEW p \in Saver, SaverInv(p), Save(p) \/ Sweep(p) \/ Crash(p)
    PROVE  Untouched \/ Replaced
BY SwapReplaces, OthersLeaveThePick

-----------------------------------------------------------------------------
(* The invariant                                                           *)

LEMMA StoreInvNext ==
    ASSUME OneSaver, TypeOK, StoreInv, [Next]_vars
    PROVE  StoreInv'
<1> USE DEF StoreInv
<1>1. CASE UNCHANGED vars
  <2>1. DiskInv'
    BY <1>1, DiskUnchanged DEF vars, disk
  <2>2. ASSUME NEW p \in Saver  PROVE SaverInv(p)'
    BY <1>1, <2>2 DEF vars, disk, local, SaverInv, SaverLabels, Labels, Sweeping, Only,
       Leftover, Called, Staged, Unmade, Complete, At, NoTarget
  <2> QED  BY <2>1, <2>2
<1>2. ASSUME NEW p \in Saver, Save(p) \/ Sweep(p) \/ Crash(p)
      PROVE  StoreInv'
  <2>1. DiskInv /\ SaverInv(p)
    OBVIOUS
  <2>2. DiskInv' /\ SaverInv(p)'
    BY <1>2, <2>1, QuietSteps, CallSaveStep, MakeStagingStep, WriteFileStep,
       MoveToTrashStep, SwapStep, RemoveFileStep, RemoveDirStep, PutBackStep
       DEF Save, Sweep
  <2>3. \A q \in Saver : q = p
    BY DEF OneSaver
  <2> QED  BY <2>2, <2>3
<1>3. ASSUME NEW r \in Reader, List(r)
      PROVE  StoreInv'
  <2>1. /\ UNCHANGED <<place, content, wanted, saves, saved, call, todo, removing, then, resume>>
        /\ \A p \in Saver : pc'[p] = pc[p]
    BY <1>3, RolesAssumption DEF List, CallList, ReadMeta, ReadFiles, RaiseList, disk, local,
       GoTo, TypeOK
  <2>2. DiskInv'
    BY <2>1, DiskUnchanged
  <2>3. ASSUME NEW p \in Saver  PROVE SaverInv(p)'
    <3>1. SaverInv(p)
        OBVIOUS
    <3> QED
        BY <2>1, <3>1 DEF SaverInv, SaverLabels, Labels, Sweeping, Only,
           Leftover, Called, Staged, Unmade, Complete, At, NoTarget
  <2> QED  BY <2>2, <2>3
<1> QED  BY <1>1, <1>2, <1>3 DEF Next

(* What was reached stays reached.                                         *)
LEMMA ReachesStep ==
    ASSUME TypeOK, NEW m \in Nat, Reaches(m), Untouched \/ Replaced
    PROVE  Reaches(m)'
<1>0. \A n : n \in Held => n \in Call /\ n \in Nat
    BY Shape, HeldIs DEF InHeld
<1>1. CASE Untouched
    BY <1>1 DEF Untouched, Reaches
<1>2. CASE Replaced
  <2>1. SUFFICES ASSUME m > 0  PROVE \E n \in Held' : n >= m
    BY DEF Reaches
  <2>2. PICK n \in Held : n >= m
    BY <2>1 DEF Reaches
  <2>3. PICK k \in Call : Held' = {k} /\ n < k
    BY <1>2 DEF Replaced
  <2>4. k \in Nat /\ n \in Nat
    BY <1>0, Shape
  <2>5. k >= m
    BY <2>2, <2>3, <2>4
  <2> QED  BY <2>3, <2>5
<1> QED  BY <1>1, <1>2

LEMMA KeptInvNext ==
    ASSUME TypeOK, TypeOK', StoreInv, KeptInv, [Next]_vars
    PROVE  KeptInv'
<1> USE DEF KeptInv
<1>0. saved \in Nat /\ saves \in Nat
    BY SavesAssumption DEF TypeOK
<1>1. CASE UNCHANGED vars
    BY <1>1 DEF vars, disk, Reaches, Held, Exists, At
<1>2. ASSUME NEW r \in Reader, List(r)
      PROVE  KeptInv'
    BY <1>2 DEF List, CallList, ReadMeta, ReadFiles, RaiseList, disk, Reaches, Held, Exists, At
<1>3. ASSUME NEW p \in Saver, Save(p) \/ Sweep(p) \/ Crash(p)
      PROVE  KeptInv'
  <2>1. Untouched \/ Replaced
    BY <1>3, PickStep DEF StoreInv
  <2>2. CASE Return(p)
    <3>1. call[p] = saves /\ call[p] \in Call /\ place[call[p]] = Target
        BY <2>2 DEF Return, StoreInv, SaverInv, Called
    <3>2. saved' = saves /\ saves' = saves /\ UNCHANGED place
        BY <2>2, <3>1 DEF Return, disk
    <3>3. saves \in Held'
        BY <3>1, <3>2, HeldIs DEF InHeld, NoTarget
    <3> QED
        BY <1>0, <3>2, <3>3 DEF Reaches
  <2>3. CASE saved' = saved /\ (saves' = saves \/ saves' = saves + 1)
    <3>1. Reaches(saved)'
        BY <1>0, <2>1, <2>3, ReachesStep DEF Reaches
    <3> QED  BY <1>0, <2>3, <3>1
  <2>4. Return(p) \/ (saved' = saved /\ (saves' = saves \/ saves' = saves + 1))
    BY <1>3 DEF Save, Sweep, Crash, CallSave, MakeStaging, WriteFile, CheckTarget, MoveToTrash,
       Swap, Undo, Restore, RaiseOSError, Construct, SweepRemove, SweepRestore, PutBack,
       EndSweep, RemoveFile, RemoveDir
  <2> QED  BY <2>2, <2>3, <2>4
<1> QED  BY <1>1, <1>2, <1>3 DEF Next

LEMMA ReaderInvNext ==
    ASSUME TypeOK, StoreInv, ReaderInv, [Next]_vars
    PROVE  ReaderInv'
<1> USE DEF ReaderInv
<1>0. /\ \A r \in Reader : seen[r] \in Nat /\ view[r].meta \in Nat
      /\ pc \in [Saver \cup Reader -> Labels] /\ DOMAIN seen = Reader /\ DOMAIN view = Reader
    BY SavesAssumption DEF TypeOK
<1>1. CASE UNCHANGED vars
    BY <1>1 DEF vars, disk, reader, Reaches, Held, Exists, At
<1>2. ASSUME NEW p \in Saver, Save(p) \/ Sweep(p) \/ Crash(p)
      PROVE  ReaderInv'
  <2>1. Untouched \/ Replaced
    BY <1>2, PickStep DEF StoreInv
  <2>2. UNCHANGED <<seen, view>> /\ \A r \in Reader : pc'[r] = pc[r]
    BY <1>0, <1>2, RolesAssumption DEF Save, Sweep, Crash, CallSave, MakeStaging, WriteFile,
       CheckTarget, MoveToTrash, Swap, Return, Undo, Restore, RaiseOSError, Construct,
       SweepRemove, SweepRestore, PutBack, EndSweep, RemoveFile, RemoveDir, reader, local,
       GoTo, BeginSweep, BeginRemove
  <2>3. ASSUME NEW r \in Reader
        PROVE  Reaches(seen[r])' /\ Reaches(view[r].meta)'
    <3>1. \A m \in Nat : Reaches(m) => Reaches(m)'
        BY <2>1, ReachesStep
    <3> QED
        BY <1>0, <2>2, <3>1 DEF Reaches
  <2> QED  BY <2>2, <2>3
<1>3. ASSUME NEW r \in Reader, List(r)
      PROVE  ReaderInv'
  <2>1. UNCHANGED disk /\ Held' = Held
    BY <1>3 DEF List, CallList, ReadMeta, ReadFiles, RaiseList, disk, Held, Exists, At
  <2>2. CASE CallList(r)
    BY <1>0, <2>1, <2>2 DEF CallList, NoView, GoTo, Reaches
  <2>3. CASE ReadMeta(r)
    <3>1. PICK n \in At(Target) : seen' = [seen EXCEPT ![r] = n]
        BY <2>3 DEF ReadMeta
    <3>2. n \in Call /\ n \in Nat /\ place[n] = Target
        BY <3>1, Shape DEF At
    <3>3. n \in Held /\ \A m \in Held : m = n
        BY <3>2, HeldIs DEF InHeld, NoTarget, StoreInv, DiskInv, Placed
    <3>4. view[r].meta <= n
        BY <1>0, <3>2, <3>3 DEF Reaches
    <3>5. pc'[r] = "files" /\ \A q \in Reader : q # r => pc'[q] = pc[q] /\ seen'[q] = seen[q]
        BY <1>0, <2>3, <3>1 DEF ReadMeta, GoTo
    <3>6. seen'[r] = n /\ UNCHANGED view
        BY <1>0, <2>3, <3>1 DEF ReadMeta
    <3>7. \A m : Reaches(m) => Reaches(m)'
        BY <2>1 DEF Reaches
    <3>8. Reaches(n)'
        BY <2>1, <3>2, <3>3 DEF Reaches
    <3>9. ASSUME NEW q \in Reader
          PROVE  /\ Reaches(seen[q])' /\ Reaches(view[q].meta)'
                 /\ pc'[q] = "files" => seen'[q] >= view'[q].meta
      <4>1. CASE q = r
        BY <1>0, <3>2, <3>4, <3>6, <3>7, <3>8, <4>1 DEF Reaches
      <4>2. CASE q # r
        BY <3>5, <3>6, <3>7, <4>2 DEF Reaches
      <4> QED  BY <4>1, <4>2
    <3> QED  BY <3>9
  <2>4. CASE ReadFiles(r)
    BY <1>0, <2>1, <2>4 DEF ReadFiles, GoTo, Reaches
  <2>5. CASE RaiseList(r)
    BY <1>0, <2>1, <2>5 DEF RaiseList, GoTo, Reaches
  <2> QED  BY <1>3, <2>2, <2>3, <2>4, <2>5 DEF List
<1> QED  BY <1>1, <1>2, <1>3 DEF Next

LEMMA InvInit == Init => IInv
<1> SUFFICES ASSUME Init  PROVE IInv
    OBVIOUS
<1>1. TypeOK
    BY TypeInit
<1>2. DiskInv
    BY SavesAssumption, Kinds DEF Init, DiskInv, Numbered, Placed, Filled, Unmade, Call
<1>3. \A p \in Saver : SaverInv(p)
    BY DEF Init, SaverInv, SaverLabels, Labels, Sweeping
<1>4. KeptInv
    BY DEF Init, KeptInv, Reaches
<1>5. ReaderInv
    BY RolesAssumption DEF Init, ReaderInv, Reaches, NoView
<1> QED  BY <1>1, <1>2, <1>3, <1>4, <1>5 DEF IInv, StoreInv

LEMMA InvNext ==
    ASSUME OneSaver, IInv, [Next]_vars
    PROVE  IInv'
<1> USE DEF IInv
<1>1. TypeOK'
  <2>1. CASE UNCHANGED vars
    BY <2>1 DEF vars, disk, local, reader, TypeOK
  <2>2. CASE Next
    BY <2>2, TypeNextSaver, TypeNextReader DEF Next, StoreInv
  <2> QED  BY <2>1, <2>2
<1>2. StoreInv'
    BY StoreInvNext
<1>3. KeptInv'
    BY <1>1, KeptInvNext
<1>4. ReaderInv'
    BY ReaderInvNext
<1> QED  BY <1>1, <1>2, <1>3, <1>4

(* Every state of a store with one saver satisfies the invariant.          *)
THEOREM SlotInvariant ==
    ASSUME OneSaver
    PROVE  Spec => []IInv
<1>1. Init => IInv
    BY InvInit
<1>2. IInv /\ [Next]_vars => IInv'
    BY InvNext
<1> QED  BY <1>1, <1>2, PTL DEF Spec

(* Every variable has its shape; nothing of an earlier save survives in a  *)
(* directory.                                                              *)
THEOREM SlotTypeCorrect ==
    ASSUME OneSaver
    PROVE  Spec => []TypeOK
<1>1. IInv => TypeOK
    BY DEF IInv
<1> QED  BY <1>1, SlotInvariant, PTL

(* Whenever a process dies or a rename fails, the exemplar's directory     *)
(* holds all the files and the meta of one save (save_exemplar).           *)
THEOREM ExemplarsAreWhole ==
    ASSUME OneSaver
    PROVE  Spec => []Whole
<1>1. IInv => Whole
    BY DEF IInv, StoreInv, DiskInv, Filled, Whole, At
<1> QED  BY <1>1, SlotInvariant, PTL

LEMMA HeldComplete ==
    ASSUME DiskInv
    PROVE  \A n \in Held : Complete(n)
BY HeldIs DEF InHeld, DiskInv, Filled

(* A pick that save_exemplar acknowledged is in place or in the trash,     *)
(* complete, or a later one is (_sweep).                                   *)
THEOREM AcknowledgedPicksAreKept ==
    ASSUME OneSaver
    PROVE  Spec => []PickKept
<1>1. IInv => PickKept
    BY HeldComplete DEF IInv, StoreInv, KeptInv, Reaches, PickKept
<1> QED  BY <1>1, SlotInvariant, PTL

LEMMA SweepRestoresStep ==
    ASSUME IInv, Next, OneSaver, NEW p \in Saver, pc[p] = "sweep", pc'[p] = resume[p], saved > 0
    PROVE  \E n \in At(Target) : n >= saved
<1>1. SaverInv(p) /\ DiskInv /\ pc \in [Saver \cup Reader -> Labels]
    BY DEF IInv, StoreInv, TypeOK
<1>2. resume[p] \in {"ready", "mkdir"} /\ Only(todo[p])
    BY <1>1 DEF SaverInv
<1>3. EndSweep(p)
  <2>1. ASSUME NEW r \in Reader, List(r)  PROVE pc'[p] = "sweep"
    BY <1>1, <2>1, RolesAssumption DEF List, CallList, ReadMeta, ReadFiles, RaiseList, GoTo
  <2>2. \A q \in Saver : q = p
    BY DEF OneSaver
  <2>3. Save(p) \/ Sweep(p) \/ Crash(p)
    BY <1>2, <2>1, <2>2 DEF Next
  <2>4. ~Save(p)
    BY DEF Save, CallSave, MakeStaging, WriteFile, CheckTarget, MoveToTrash, Swap, Return,
       Undo, Restore, RaiseOSError
  <2>5. ~Crash(p)
    BY <1>1, <1>2 DEF Crash, GoTo
  <2>6. ~(Construct(p) \/ SweepRemove(p) \/ SweepRestore(p) \/ PutBack(p)
          \/ RemoveFile(p) \/ RemoveDir(p))
    BY <1>1, <1>2 DEF Construct, SweepRemove, SweepRestore, PutBack, RemoveFile, RemoveDir,
       GoTo, BeginRemove
  <2> QED  BY <2>3, <2>4, <2>5, <2>6 DEF Sweep
<1>4. \A n \in Call : place[n].kind # "trash"
    BY <1>2, <1>3 DEF EndSweep, Only, Leftover
<1>5. PICK n \in Held : n >= saved
    BY DEF IInv, KeptInv, Reaches
<1>6. n \in At(Target)
    BY <1>4, <1>5, HeldIs DEF InHeld, NoTarget, At
<1> QED  BY <1>5, <1>6

(* When a sweep ends, an acknowledged pick, or a later one, is in place.   *)
THEOREM SweepsRestore ==
    ASSUME OneSaver
    PROVE  Spec => SweepRestores
<1>1. IInv /\ [Next]_vars =>
          [\A p \in Saver : pc[p] = "sweep" /\ pc'[p] = resume[p] /\ saved > 0
              => \E n \in At(Target) : n >= saved]_vars
  <2> SUFFICES ASSUME IInv, Next, NEW p \in Saver, pc[p] = "sweep",
                      pc'[p] = resume[p], saved > 0
               PROVE  \E n \in At(Target) : n >= saved
    OBVIOUS
  <2> QED  BY SweepRestoresStep
<1> QED  BY <1>1, SlotInvariant, PTL DEF Spec, SweepRestores

(* A save that a listing has returned is never rolled back: no later       *)
(* listing of that reader returns an earlier one.                          *)
THEOREM ReadersAdvance ==
    ASSUME OneSaver
    PROVE  Spec => ReadsAdvance
<1>1. IInv /\ [Next]_vars =>
          [\A r \in Reader : view'[r] # NoView => view'[r].meta >= view[r].meta]_vars
  <2> SUFFICES ASSUME IInv, Next, NEW r \in Reader, view'[r] # NoView
               PROVE  view'[r].meta >= view[r].meta
    OBVIOUS
  <2>0. /\ \A q \in Reader : seen[q] \in Nat /\ view[q].meta \in Nat
        /\ DOMAIN view = Reader
    BY SavesAssumption DEF IInv, TypeOK
  <2>1. CASE view'[r] = view[r]
    BY <2>0, <2>1
  <2>2. CASE view'[r] # view[r]
    <3>1. PICK q \in Reader : List(q)
        BY <2>2 DEF Next, Save, Sweep, Crash, CallSave, MakeStaging, WriteFile, CheckTarget,
           MoveToTrash, Swap, Return, Undo, Restore, RaiseOSError, Construct, SweepRemove,
           SweepRestore, PutBack, EndSweep, RemoveFile, RemoveDir, reader
    <3>2. ReadFiles(q) /\ q = r
        BY <2>0, <2>2, <3>1 DEF List, CallList, ReadMeta, ReadFiles, RaiseList
    <3>3. pc[r] = "files" /\ view'[r].meta = seen[r]
        BY <2>0, <3>2 DEF ReadFiles
    <3> QED  BY <3>3 DEF IInv, ReaderInv
  <2> QED  BY <2>1, <2>2
<1> QED  BY <1>1, SlotInvariant, PTL DEF Spec, ReadsAdvance

-----------------------------------------------------------------------------
(* Refinement                                                              *)

Picked == {[save |-> n, files |-> content[n] \ {Meta}] : n \in Held}

LEMMA SlotInits == Init => Slot!SlotInit
<1> SUFFICES ASSUME Init  PROVE Picked = {}
    BY DEF Slot!SlotInit, Picked
<1>1. \A n : ~InHeld(n)
    BY Kinds DEF Init, InHeld, NoTarget
<1> QED  BY <1>1, HeldIs DEF Picked

LEMMA SlotSteps ==
    ASSUME IInv, IInv', [Next]_vars
    PROVE  Slot!Replace \/ UNCHANGED Picked
<1>1. CASE UNCHANGED vars
    BY <1>1 DEF vars, disk, Picked, Held, Exists, At
<1>2. CASE \E r \in Reader : List(r)
    BY <1>2 DEF List, CallList, ReadMeta, ReadFiles, RaiseList, disk, Picked, Held, Exists, At
<1>3. ASSUME NEW p \in Saver, Save(p) \/ Sweep(p) \/ Crash(p)
      PROVE  Slot!Replace \/ UNCHANGED Picked
  <2>1. Untouched \/ Replaced
    BY <1>3, PickStep DEF IInv, StoreInv
  <2>2. CASE Untouched
    BY <2>2 DEF Untouched, Picked
  <2>3. CASE Replaced
    <3>1. PICK m \in Call :
              /\ Held' = {m} /\ \A n \in Held : n < m
              /\ m <= saves /\ content[m] = wanted[m] \cup {Meta} /\ UNCHANGED content
        BY <2>3 DEF Replaced
    <3> DEFINE new == [save |-> m, files |-> content[m] \ {Meta}]
    <3>2. Picked' = {new}
        BY <3>1 DEF Picked
    <3>3. wanted[m] \in (SUBSET File) \ {{}}
        BY <3>1 DEF IInv, TypeOK, StoreInv, DiskInv, Numbered
    <3>4. content[m] \ {Meta} = wanted[m]
        BY <3>1, <3>3, FileAssumption
    <3>5. new.files \in (SUBSET File) \ {{}}
        BY <3>3, <3>4
    <3>6. \A old \in Picked : old.save < new.save
        BY <3>1 DEF Picked
    <3>7. new \in Picked' /\ Picked' = {new}
        BY <3>2
    <3> HIDE DEF new
    <3> QED  BY <3>5, <3>6, <3>7 DEF Slot!Replace, Picked
  <2> QED  BY <2>1, <2>2, <2>3
<1> QED  BY <1>1, <1>2, <1>3 DEF Next

(* The store is the slot its port promises: each step replaces the pick by *)
(* exactly what one later save was given, or leaves it alone.              *)
THEOREM StoreImplementsSlot ==
    ASSUME OneSaver
    PROVE  Spec => ImplementsSlot
<1>1. Init => Slot!SlotInit
    BY SlotInits
<1>2. IInv /\ IInv' /\ [Next]_vars => [Slot!Replace]_Picked
    BY SlotSteps
<1>3. Spec => []IInv
    BY SlotInvariant
<1> QED  BY <1>1, <1>2, <1>3, PTL DEF Spec, ImplementsSlot, Slot!SlotSpec, Picked

=============================================================================
