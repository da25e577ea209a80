--------------------------- MODULE EvidenceStore ---------------------------
(***************************************************************************)
(* JsonlEvidenceStore (ui_servo/adapters/jsonl_store.py): one JSONL file   *)
(* per turn under <root>/evidence, a sequence counter in evidence/.seq,    *)
(* and an flock on evidence/.lock shared by every process that holds a     *)
(* store.  Each member of Proc is one thread of control making calls.      *)
(*                                                                         *)
(* A file is its set of complete lines and, possibly, one unterminated     *)
(* tail.  Line order within a file is not kept: every reader sorts by the  *)
(* stamped number.  A crash is the death of a process (its descriptors     *)
(* close, so its lock goes with it); files survive.                        *)
(***************************************************************************)
EXTENDS Integers, Sequences, FiniteSets

CONSTANTS Proc,        \* threads of control
          Turn,        \* turn identifiers, one file each
          Inputs,      \* batches a caller may pass: sequences of turns
          Queries,     \* reads a caller may make: one turn, or every turn
          MaxCalls,    \* bound: append_many calls in a behaviour
          Fsync,       \* the constructor's fsync flag
          NoRec,       \* "no fragment"
          NoCounter    \* .seq is missing or does not parse

ASSUME InputsAssumption == Inputs \subseteq Seq(Turn)
ASSUME QueriesAssumption == Queries \subseteq {Turn} \cup {{t} : t \in Turn}
ASSUME BoundAssumption == MaxCalls \in Nat
ASSUME FsyncAssumption == Fsync \in BOOLEAN

Record == [seq : Nat, turn : Turn, call : Nat, whole : BOOLEAN]

ASSUME SentinelAssumption == NoRec \notin Record /\ NoCounter \notin Nat

VARIABLES
    file,      \* file[t]: complete lines of <t>.jsonl
    torn,      \* torn[t]: the record whose unterminated bytes end <t>.jsonl
    aside,     \* aside[t]: fragments kept in <t>.jsonl.torn
    counter,   \* contents of .seq
    locks,     \* locks[p]: how p holds evidence/.lock
    pc,        \* where p is inside a call
    calls,     \* append_many calls made so far
    id,        \* id[p]: which of them p made last
    batch,     \* the turns of p's records, grouped
    first,     \* first_seq of p's call
    done,      \* how many of the batch are complete lines on disk
    half,      \* p is inside a short write
    keep,      \* the complete lines p saw when it looked for a torn tail
    landed,    \* the list `landed` of p's call
    outcome,   \* what p's latest append_many call did
    toRead,    \* files p has still to read
    view,      \* what p's latest completed read returned
    got        \* what p has read so far

disk == <<file, torn, aside, counter>>
writer == <<calls, id, batch, first, done, half, keep, landed, outcome>>
reader == <<toRead, view, got>>
vars == <<disk, locks, pc, writer, reader>>

NoView == [turns |-> {}, recs |-> {}]

(* Where append_many holds the exclusive lock.                             *)
Writing == {"readSeq", "reserve", "encode", "open", "copy", "cut", "write", "close"}

(* Every complete line on disk.                                            *)
Stock == UNION {file[t] : t \in Turn}

Init ==
    /\ file = [t \in Turn |-> {}]
    /\ torn = [t \in Turn |-> NoRec]
    /\ aside = [t \in Turn |-> {}]
    /\ counter = NoCounter
    /\ locks = [p \in Proc |-> "none"]
    /\ pc = [p \in Proc |-> "idle"]
    /\ calls = 0
    /\ id = [p \in Proc |-> 0]
    /\ batch = [p \in Proc |-> <<>>]
    /\ first = [p \in Proc |-> 0]
    /\ done = [p \in Proc |-> 0]
    /\ half = [p \in Proc |-> FALSE]
    /\ keep = [p \in Proc |-> {}]
    /\ landed = [p \in Proc |-> {}]
    /\ outcome = [p \in Proc |-> "none"]
    /\ toRead = [p \in Proc |-> {}]
    /\ view = [p \in Proc |-> NoView]
    /\ got = [p \in Proc |-> NoView]

-----------------------------------------------------------------------------
(* The lock.                                                               *)

(* Mutated: a lock inside one process, which other processes do not see.   *)
CanLockAlways(p, mode) == TRUE

CanLock(p, mode) ==
    \A q \in Proc \ {p} : locks[q] = "none" \/ (mode = "sh" /\ locks[q] = "sh")

GoTo(p, label) == pc' = [pc EXCEPT ![p] = label]

Acquire(p, mode) ==
    /\ CanLock(p, mode)
    /\ locks' = [locks EXCEPT ![p] = mode]

(* The context manager's `finally`: every exit closes the descriptor.      *)
Leave(p) ==
    /\ locks' = [locks EXCEPT ![p] = "none"]
    /\ GoTo(p, "idle")

-----------------------------------------------------------------------------
(* append_many                                                             *)

FirstSeen(b, t) == CHOOSE i \in DOMAIN b : b[i] = t /\ \A j \in 1..(i-1) : b[j] # t

Count(b, t) == Cardinality({i \in DOMAIN b : b[i] = t})

(* g is b regrouped by `batched.setdefault(turn_id, []).append(signal)`.   *)
IsGrouped(b, g) ==
    /\ \A t \in Turn : Count(g, t) = Count(b, t)
    /\ \A i, j \in DOMAIN g : i < j => FirstSeen(b, g[i]) <= FirstSeen(b, g[j])

(* The call up to the lock: an empty batch returns 0 without taking it.    *)
Call(p) ==
    /\ pc[p] = "idle"
    /\ calls < MaxCalls
    /\ \E b \in Inputs : \E g \in [DOMAIN b -> Turn] :
          /\ IsGrouped(b, g)
          /\ batch' = [batch EXCEPT ![p] = g]
          /\ outcome' = [outcome EXCEPT ![p] = IF b = <<>> THEN "ok" ELSE "pending"]
          /\ GoTo(p, IF b = <<>> THEN "idle" ELSE "wantEx")
    /\ calls' = calls + 1
    /\ id' = [id EXCEPT ![p] = calls']
    /\ first' = [first EXCEPT ![p] = 0]
    /\ done' = [done EXCEPT ![p] = 0]
    /\ landed' = [landed EXCEPT ![p] = {}]
    /\ UNCHANGED <<disk, locks, half, keep, reader>>

LockExclusive(p) ==
    /\ pc[p] = "wantEx"
    /\ Acquire(p, "ex")
    /\ GoTo(p, "readSeq")
    /\ UNCHANGED <<disk, writer, reader>>

(* _recover_sequence: highest stamped number on a parseable line, plus 1.  *)
Recovered ==
    LET seqs == {r.seq : r \in {s \in Stock : s.whole}}
    IN  {n \in {0} \cup {m + 1 : m \in seqs} : \A m \in seqs : m < n}

ReadSequence(p) ==
    /\ pc[p] = "readSeq"
    /\ \E n \in IF counter = NoCounter THEN Recovered ELSE {counter} :
          first' = [first EXCEPT ![p] = n]
    /\ GoTo(p, "reserve")
    /\ UNCHANGED <<disk, locks, calls, id, batch, done, half, keep, landed, outcome, reader>>

(* Mutated: reserves a number per turn, not per record.                    *)
ReserveTurns(p) ==
    /\ pc[p] = "reserve"
    /\ counter' = first[p] + Cardinality({batch[p][i] : i \in DOMAIN batch[p]})
    /\ GoTo(p, "encode")
    /\ UNCHANGED <<file, torn, aside, locks, writer, reader>>

(* os.replace of .seq: atomic, so a crash leaves the old or the new value. *)
Reserve(p) ==
    /\ pc[p] = "reserve"
    /\ counter' = first[p] + Len(batch[p])
    /\ GoTo(p, "encode")
    /\ UNCHANGED <<file, torn, aside, locks, writer, reader>>

(* All blobs are encoded before the first byte is written.                 *)
Encode(p) ==
    /\ pc[p] = "encode"
    /\ GoTo(p, "open")
    /\ UNCHANGED <<disk, locks, writer, reader>>

-----------------------------------------------------------------------------
(* _append_blob, once per turn of the batch                                *)

NextTurn(p) == batch[p][done[p] + 1]

(* Mutated: every record of the call is stamped with first_seq.            *)
NextLineNoOffset(p, parses) == [seq |-> first[p], turn |-> NextTurn(p),
                                call |-> id[p], whole |-> parses]

(* p's next line, `parses` saying whether json reads it back.              *)
NextLine(p, parses) == [seq |-> first[p] + done[p], turn |-> NextTurn(p),
                        call |-> id[p], whole |-> parses]

NextRec(p) == NextLine(p, TRUE)

(* Mutated: appends without looking for a torn tail.                       *)
OpenBlind(p) ==
    /\ pc[p] = "open"
    /\ GoTo(p, "write")
    /\ UNCHANGED <<disk, locks, writer, reader>>

Open(p) ==
    /\ pc[p] = "open"
    /\ GoTo(p, IF torn[NextTurn(p)] = NoRec THEN "write" ELSE "copy")
    /\ UNCHANGED <<disk, locks, writer, reader>>

(* Mutated: the fragment is cut without being copied first.                *)
CopyTailDropped(p) ==
    /\ pc[p] = "copy"
    /\ keep' = [keep EXCEPT ![p] = file[NextTurn(p)]]
    /\ GoTo(p, "cut")
    /\ UNCHANGED <<disk, locks, calls, id, batch, first, done, half, landed, outcome, reader>>

(* _quarantine_torn_tail: the fragment is copied to <turn>.jsonl.torn ...  *)
CopyTail(p) ==
    /\ pc[p] = "copy"
    /\ aside' = [aside EXCEPT ![NextTurn(p)] = @ \cup {torn[NextTurn(p)]}]
    /\ keep' = [keep EXCEPT ![p] = file[NextTurn(p)]]
    /\ GoTo(p, "cut")
    /\ UNCHANGED <<file, torn, counter, locks, calls, id, batch, first, done, half, landed,
                   outcome, reader>>

(* ... and the file is truncated to the newline found when it was read.    *)
CutTail(p) ==
    /\ pc[p] = "cut"
    /\ file' = [file EXCEPT ![NextTurn(p)] = keep[p]]
    /\ torn' = [torn EXCEPT ![NextTurn(p)] = NoRec]
    /\ keep' = [keep EXCEPT ![p] = {}]
    /\ GoTo(p, "write")
    /\ UNCHANGED <<aside, counter, locks, calls, id, batch, first, done, half, landed,
                   outcome, reader>>

(* os.write returned in the middle of a record: its bytes end the file.    *)
(* Bytes after somebody else's fragment could never form a record.         *)
ShortWrite(p) ==
    LET t == NextTurn(p)
    IN  /\ pc[p] = "write"
        /\ ~half[p]
        /\ torn' = [torn EXCEPT ![t] = NextLine(p, torn[t] = NoRec)]
        /\ half' = [half EXCEPT ![p] = TRUE]
        /\ UNCHANGED <<file, aside, counter, locks, pc, calls, id, batch, first, done, keep,
                       landed, outcome, reader>>

(* The record's newline reaches the file.  The line parses if the bytes    *)
(* before it are exactly the ones this call left there.                    *)
WriteRecord(p) ==
    LET t == NextTurn(p)
        before == IF half[p] THEN NextRec(p) ELSE NoRec
        line == NextLine(p, torn[t] = before)
        more == done[p] + 1 < Len(batch[p]) /\ batch[p][done[p] + 2] = t
    IN  /\ pc[p] = "write"
        /\ file' = [file EXCEPT ![t] = @ \cup {line}]
        /\ torn' = [torn EXCEPT ![t] = NoRec]
        /\ half' = [half EXCEPT ![p] = FALSE]
        /\ done' = [done EXCEPT ![p] = @ + 1]
        /\ GoTo(p, IF more THEN "write" ELSE "close")
        /\ UNCHANGED <<aside, counter, locks, calls, id, batch, first, keep, landed, outcome, reader>>

(* Mutated: returns from inside the loop over turns.                       *)
CloseTurnEarly(p) ==
    /\ pc[p] = "close"
    /\ landed' = [landed EXCEPT ![p] = @ \cup {batch[p][done[p]]}]
    /\ Leave(p)
    /\ outcome' = [outcome EXCEPT ![p] = "ok"]
    /\ UNCHANGED <<disk, calls, id, batch, first, done, half, keep, reader>>

(* fsync if asked, close, `landed.append(turn_id)`, then the next turn.    *)
CloseTurn(p) ==
    /\ pc[p] = "close"
    /\ landed' = [landed EXCEPT ![p] = @ \cup {batch[p][done[p]]}]
    /\ IF done[p] < Len(batch[p])
         THEN GoTo(p, "open") /\ UNCHANGED <<locks, outcome>>
         ELSE Leave(p) /\ outcome' = [outcome EXCEPT ![p] = "ok"]
    /\ UNCHANGED <<disk, calls, id, batch, first, done, half, keep, reader>>

-----------------------------------------------------------------------------
(* Failure                                                                 *)

(* The call ends without returning; its locals are gone.                   *)
Fail(p, error) ==
    /\ Leave(p)
    /\ outcome' = [outcome EXCEPT ![p] = error]
    /\ half' = [half EXCEPT ![p] = FALSE]
    /\ keep' = [keep EXCEPT ![p] = {}]
    /\ UNCHANGED <<disk, calls, reader>>

Forget(p) ==
    /\ batch' = [batch EXCEPT ![p] = <<>>]
    /\ first' = [first EXCEPT ![p] = 0]
    /\ done' = [done EXCEPT ![p] = 0]
    /\ landed' = [landed EXCEPT ![p] = {}]

(* Anything that fails before the first byte: the lock file, an unreadable *)
(* stock, an unwritable .seq, a payload that does not encode.              *)
RaiseStoreError(p) ==
    /\ pc[p] \in {"wantEx", "readSeq", "reserve", "encode"}
    /\ Fail(p, "StoreError")
    /\ Forget(p)
    /\ UNCHANGED id

(* An OSError from _append_blob, re-raised with turns_written = landed.    *)
RaiseStoreWriteError(p) ==
    /\ pc[p] \in {"open", "copy", "cut", "write"} \/ (pc[p] = "close" /\ Fsync)
    /\ Fail(p, "StoreWriteError")
    /\ UNCHANGED <<id, batch, first, done, landed>>

(* The process dies inside append_many; nobody is left to be answered.     *)
Crash(p) ==
    /\ pc[p] \in Writing \cup {"wantEx"}
    /\ Fail(p, "none")
    /\ Forget(p)
    /\ id' = [id EXCEPT ![p] = 0]

(* .seq is deleted or emptied from outside.                                *)
LoseCounter ==
    /\ counter' = NoCounter
    /\ UNCHANGED <<file, torn, aside, locks, pc, writer, reader>>

-----------------------------------------------------------------------------
(* signals_for_turn and signals_for_span                                   *)

CallRead(p) ==
    /\ pc[p] = "idle"
    /\ \E T \in Queries :
          /\ toRead' = [toRead EXCEPT ![p] = T]
          /\ got' = [got EXCEPT ![p] = [turns |-> T, recs |-> {}]]
    /\ GoTo(p, "wantSh")
    /\ UNCHANGED <<disk, locks, writer, view>>

LockShared(p) ==
    /\ pc[p] = "wantSh"
    /\ Acquire(p, "sh")
    /\ GoTo(p, "read")
    /\ UNCHANGED <<disk, writer, reader>>

(* _read of one file: an unterminated tail is skipped, a line that does    *)
(* not parse raises.                                                       *)
ReadTurn(p) ==
    /\ pc[p] = "read"
    /\ \E t \in toRead[p] :
          /\ \A r \in file[t] : r.whole
          /\ toRead' = [toRead EXCEPT ![p] = @ \ {t}]
          /\ got' = [got EXCEPT ![p] = [turns |-> @.turns, recs |-> @.recs \cup file[t]]]
    /\ UNCHANGED <<disk, locks, pc, writer, view>>

ReturnRead(p) ==
    /\ pc[p] = "read"
    /\ toRead[p] = {}
    /\ view' = [view EXCEPT ![p] = got[p]]
    /\ got' = [got EXCEPT ![p] = NoView]
    /\ Leave(p)
    /\ UNCHANGED <<disk, writer, toRead>>

(* A read that raises, or whose process dies, returns nothing.             *)
AbandonRead(p) ==
    /\ pc[p] \in {"wantSh", "read"}
    /\ toRead' = [toRead EXCEPT ![p] = {}]
    /\ got' = [got EXCEPT ![p] = NoView]
    /\ Leave(p)
    /\ UNCHANGED <<disk, writer, view>>

-----------------------------------------------------------------------------

(* The steps a call takes while it holds the lock.                         *)
Proceed(p) ==
    \/ ReadSequence(p) \/ Reserve(p) \/ Encode(p)
    \/ Open(p) \/ CopyTail(p) \/ CutTail(p)
    \/ ShortWrite(p) \/ WriteRecord(p) \/ CloseTurn(p)
    \/ ReadTurn(p) \/ ReturnRead(p)

Step(p) ==
    \/ Call(p) \/ LockExclusive(p) \/ Proceed(p)
    \/ RaiseStoreError(p) \/ RaiseStoreWriteError(p) \/ Crash(p)
    \/ CallRead(p) \/ LockShared(p) \/ AbandonRead(p)

Next == (\E p \in Proc : Step(p)) \/ LoseCounter

Spec == Init /\ [][Next]_vars

-----------------------------------------------------------------------------
(* Properties                                                              *)

Labels == Writing \cup {"idle", "wantEx", "wantSh", "read"}

Views == [turns : SUBSET Turn, recs : SUBSET Record]

(* Every variable has the shape the code gives it.                         *)
TypeOK ==
    /\ file \in [Turn -> SUBSET Record]
    /\ torn \in [Turn -> Record \cup {NoRec}]
    /\ aside \in [Turn -> SUBSET (Record \cup {NoRec})]
    /\ counter \in Nat \cup {NoCounter}
    /\ locks \in [Proc -> {"none", "sh", "ex"}]
    /\ pc \in [Proc -> Labels]
    /\ calls \in Nat
    /\ id \in [Proc -> Nat]
    /\ batch \in [Proc -> Seq(Turn)]
    /\ first \in [Proc -> Nat]
    /\ done \in [Proc -> Nat]
    /\ half \in [Proc -> BOOLEAN]
    /\ keep \in [Proc -> SUBSET Record]
    /\ landed \in [Proc -> SUBSET Turn]
    /\ outcome \in [Proc -> {"none", "pending", "ok", "StoreError", "StoreWriteError"}]
    /\ toRead \in [Proc -> SUBSET Turn]
    /\ view \in [Proc -> Views]
    /\ got \in [Proc -> Views]

(* No two records on disk carry one admission number, whatever crashed,    *)
(* failed part-way or lost the counter (_allocate, _recover_sequence).     *)
UniqueSeq == \A r, s \in Stock : r.seq = s.seq => r = s

(* No record is ever glued to a torn tail, so every turn stays readable    *)
(* (_quarantine_torn_tail, _records).                                      *)
Readable == \A t \in Turn : \A r \in file[t] : r.whole

(* A complete line is never removed or rewritten: shortening a file in     *)
(* recovery cannot cut away what another writer committed.                 *)
AppendOnly == [][\A t \in Turn : file[t] \subseteq file'[t]]_vars

(* A torn fragment is never dropped: it becomes its own record or is first *)
(* copied to <turn>.jsonl.torn, even if recovery is interrupted.           *)
FragmentKept ==
    [][\A t \in Turn : torn[t] # NoRec /\ torn'[t] # torn[t]
                          => torn[t] \in file'[t] \cup aside'[t]]_vars

(* The record numbered i of p's latest call.                               *)
OwnRec(p, i) == [seq |-> first[p] + (i - 1), turn |-> batch[p][i],
                 call |-> id[p], whole |-> TRUE]

Own(p) == {r \in Stock : r.call = id[p]}

(* append_many's answer is true afterwards: a return means every record is *)
(* on disk, a StoreError that none is, and each turn a StoreWriteError     *)
(* names is there in full.                                                 *)
OutcomeTruthful ==
    \A p \in Proc :
       /\ outcome[p] = "ok" => \A i \in DOMAIN batch[p] : OwnRec(p, i) \in Stock
       /\ outcome[p] = "StoreError" => Own(p) = {}
       /\ outcome[p] = "StoreWriteError" =>
             \A i \in DOMAIN batch[p] : batch[p][i] \in landed[p] => OwnRec(p, i) \in Stock

(* What a read returned stays a prefix, in admission order, of what any    *)
(* later read of the same turns returns (the port's ordering contract).    *)
ReadIsPrefix ==
    \A p \in Proc :
       /\ view[p].recs \subseteq Stock
       /\ \A r \in Stock : r.turn \in view[p].turns /\ r \notin view[p].recs
                              => \A s \in view[p].recs : s.seq < r.seq

(* The store implements the log its port describes.                        *)
Log == INSTANCE EvidenceLog WITH stock <- Stock
ImplementsLog == Log!LogSpec

=============================================================================
