------------------------ MODULE EvidenceStoreProofs ------------------------
(***************************************************************************)
(* The evidence store for every number of processes, turns, calls and      *)
(* batches.  The argument: the lock excludes (LockInv), so the numbers a   *)
(* writer has still to use lie above every number on disk (SeqInv), the    *)
(* only unterminated bytes in the file it writes are its own (TailInv),    *)
(* and what a reader has gathered is still what those files hold           *)
(* (ReadInv).  No conjunct is inductive without LockInv.                   *)
(***************************************************************************)
EXTENDS EvidenceStore, FiniteSetTheorems, WellFoundedInduction, TLAPS

LockInv ==
    \A p \in Proc :
       /\ pc[p] \in Writing => locks[p] = "ex"
       /\ pc[p] = "read" => locks[p] = "sh"
       /\ pc[p] \notin Writing \cup {"read"} => locks[p] = "none"
       /\ \A q \in Proc \ {p} : locks[p] = "ex" => locks[q] = "none"

(* Where p has stamped its batch, and where it has records still to write. *)
Stamped == {"encode", "open", "copy", "cut", "write", "close"}
Placing == {"open", "copy", "cut", "write"}

SeqInv ==
    /\ \A r, s \in Stock : r.seq = s.seq => r = s
    /\ counter # NoCounter => \A r \in Stock : r.seq < counter
    /\ \A p \in Proc :
          /\ pc[p] = "reserve" => \A r \in Stock : r.seq < first[p]
          /\ pc[p] \in Stamped =>
                /\ \A r \in Stock : r.seq < first[p] + done[p]
                /\ counter # NoCounter => first[p] + Len(batch[p]) <= counter

DoneInv ==
    \A p \in Proc :
       /\ pc[p] \in {"wantEx", "readSeq", "reserve", "encode"} => done[p] = 0
       /\ pc[p] \in Writing \cup {"wantEx"} => Len(batch[p]) > 0
       /\ pc[p] \in Placing => done[p] < Len(batch[p])
       /\ pc[p] = "close" => done[p] \in 1..Len(batch[p])

TailInv ==
    \A p \in Proc :
       /\ half[p] => pc[p] = "write"
       /\ pc[p] = "write" =>
             torn[NextTurn(p)] = IF half[p] THEN NextRec(p) ELSE NoRec
       /\ pc[p] \in {"copy", "cut"} => torn[NextTurn(p)] # NoRec
       /\ pc[p] = "cut" =>
             /\ keep[p] = file[NextTurn(p)]
             /\ torn[NextTurn(p)] \in aside[NextTurn(p)]

FileInv == \A t \in Turn : \A r \in file[t] : r.turn = t /\ r.whole

ReadInv ==
    \A p \in Proc :
       /\ pc[p] = "wantSh" => got[p].recs = {} /\ toRead[p] = got[p].turns
       /\ pc[p] = "read" =>
             /\ toRead[p] \subseteq got[p].turns
             /\ got[p].recs = {r \in Stock : r.turn \in got[p].turns \ toRead[p]}

TypeInv == TypeOK /\ DoneInv

IInv == TypeInv /\ LockInv /\ SeqInv /\ TailInv /\ FileInv /\ ReadInv

-----------------------------------------------------------------------------
(* Types.  A record's turn is a turn only while done < Len(batch), so the  *)
(* types are inductive together with DoneInv.                              *)

LEMMA NextRecType ==
    ASSUME TypeInv, NEW p \in Proc, pc[p] \in Placing
    PROVE  NextTurn(p) \in Turn /\ \A w \in BOOLEAN : NextLine(p, w) \in Record
<1>1. done[p] + 1 \in 1..Len(batch[p]) /\ batch[p] \in Seq(Turn)
    BY DEF TypeInv, TypeOK, DoneInv, Placing
<1>2. NextTurn(p) \in Turn
    BY <1>1 DEF NextTurn
<1> QED
    BY <1>2 DEF TypeInv, TypeOK, NextLine, Record

LEMMA TypeInvInit == Init => TypeInv
BY DEF Init, TypeInv, TypeOK, DoneInv, Labels, Writing, Placing, NoView, Views

LEMMA TypeInvNext ==
    ASSUME TypeInv, [Next]_vars
    PROVE  TypeInv'
<1> USE DEF disk, writer, reader, GoTo, Labels, Writing
<1>1. CASE UNCHANGED vars
    BY <1>1 DEF vars, TypeInv, TypeOK, DoneInv
<1>2. CASE LoseCounter
    BY <1>2 DEF LoseCounter, TypeInv, TypeOK, DoneInv
<1>3. ASSUME NEW p \in Proc, Step(p)
      PROVE  TypeInv'
  <2> USE DEF TypeInv, TypeOK
  <2>1. CASE Call(p)
    <3>0. PICK b \in Inputs : \E g \in [DOMAIN b -> Turn] :
               /\ batch' = [batch EXCEPT ![p] = g]
               /\ outcome' = [outcome EXCEPT ![p] = IF b = <<>> THEN "ok" ELSE "pending"]
               /\ pc' = [pc EXCEPT ![p] = IF b = <<>> THEN "idle" ELSE "wantEx"]
        BY <2>1 DEF Call
    <3>1. PICK g \in [DOMAIN b -> Turn] :
               /\ batch' = [batch EXCEPT ![p] = g]
               /\ outcome' = [outcome EXCEPT ![p] = IF b = <<>> THEN "ok" ELSE "pending"]
               /\ pc' = [pc EXCEPT ![p] = IF b = <<>> THEN "idle" ELSE "wantEx"]
        BY <3>0
    <3>2. b \in Seq(Turn)
        BY InputsAssumption
    <3>3. g \in Seq(Turn) /\ Len(g) = Len(b)
        BY <3>2
    <3>4. TypeOK'
        BY <2>1, <3>1, <3>3 DEF Call
    <3>5. b # <<>> => Len(b) > 0
        BY <3>2
    <3>6. DoneInv'
        BY <2>1, <3>1, <3>3, <3>5 DEF Call, DoneInv, Placing
    <3> QED  BY <3>4, <3>6
  <2>2. CASE LockExclusive(p)
    BY <2>2 DEF LockExclusive, Acquire, DoneInv, Placing
  <2>3. CASE ReadSequence(p)
    <3>1. \A n \in Recovered : n \in Nat
        BY DEF Recovered, Stock, Record
    <3>2. PICK n \in Nat : first' = [first EXCEPT ![p] = n]
        BY <2>3, <3>1 DEF ReadSequence
    <3> QED
        BY <2>3, <3>2 DEF ReadSequence, DoneInv, Placing
  <2>4. CASE Reserve(p)
    <3>1. Len(batch[p]) \in Nat
        OBVIOUS
    <3> QED
        BY <2>4, <3>1 DEF Reserve, DoneInv, Placing
  <2>5. CASE Encode(p)
    BY <2>5 DEF Encode, DoneInv, Placing
  <2>6. CASE Open(p)
    BY <2>6 DEF Open, DoneInv, Placing
  <2>7. CASE CopyTail(p)
    <3>1. NextTurn(p) \in Turn
        BY <2>7, NextRecType DEF CopyTail, Placing
    <3>2. torn[NextTurn(p)] \in Record \cup {NoRec}
        BY <3>1
    <3> QED
        <4>1. TypeOK'
            BY <2>7, <3>1, <3>2 DEF CopyTail
        <4>2. DoneInv'
            BY <2>7 DEF CopyTail, DoneInv, Placing
        <4> QED  BY <4>1, <4>2
  <2>8. CASE CutTail(p)
    BY <2>8, NextRecType DEF CutTail, DoneInv, Placing
  <2>9. CASE ShortWrite(p)
    <3>1. NextTurn(p) \in Turn /\ NextLine(p, torn[NextTurn(p)] = NoRec) \in Record
        BY <2>9, NextRecType DEF ShortWrite, Placing
    <3> QED
        BY <2>9, <3>1 DEF ShortWrite, DoneInv, Placing
  <2>10. CASE WriteRecord(p)
    <3> DEFINE t == NextTurn(p)
               line == NextLine(p, torn[t] = IF half[p] THEN NextRec(p) ELSE NoRec)
    <3>1. t \in Turn /\ line \in Record
        BY <2>10, NextRecType DEF WriteRecord, Placing
    <3>2. done[p] < Len(batch[p]) /\ Len(batch[p]) \in Nat
        BY <2>10 DEF WriteRecord, DoneInv, Placing
    <3>3. TypeOK'
        BY <2>10, <3>1 DEF WriteRecord
    <3>4. DoneInv'
        BY <2>10, <3>2 DEF WriteRecord, DoneInv, Placing
    <3> QED  BY <3>3, <3>4
  <2>11. CASE CloseTurn(p)
    <3>1. done[p] \in 1..Len(batch[p]) /\ batch[p][done[p]] \in Turn
        BY <2>11 DEF CloseTurn, DoneInv
    <3>2. CASE done[p] < Len(batch[p])
        BY <2>11, <3>1, <3>2 DEF CloseTurn, DoneInv, Placing
    <3>3. CASE ~(done[p] < Len(batch[p]))
        <4>1. TypeOK'
            BY <2>11, <3>1, <3>3 DEF CloseTurn, Leave
        <4>2. DoneInv'
            BY <2>11, <3>3 DEF CloseTurn, Leave, DoneInv, Placing
        <4> QED  BY <4>1, <4>2
    <3> QED  BY <3>2, <3>3
  <2>12. CASE RaiseStoreError(p)
    BY <2>12 DEF RaiseStoreError, Fail, Leave, Forget, DoneInv, Placing
  <2>13. CASE RaiseStoreWriteError(p)
    BY <2>13 DEF RaiseStoreWriteError, Fail, Leave, DoneInv, Placing
  <2>14. CASE Crash(p)
    BY <2>14 DEF Crash, Fail, Leave, Forget, DoneInv, Placing
  <2>15. CASE CallRead(p)
    <3>0. ASSUME NEW T \in Queries
          PROVE  T \in SUBSET Turn
        <4>1. T = Turn \/ \E t \in Turn : T = {t}
            BY QueriesAssumption
        <4> QED  BY <4>1
    <3>1. PICK T \in SUBSET Turn :
               /\ toRead' = [toRead EXCEPT ![p] = T]
               /\ got' = [got EXCEPT ![p] = [turns |-> T, recs |-> {}]]
        BY <2>15, <3>0 DEF CallRead
    <3> QED
        BY <2>15, <3>1 DEF CallRead, DoneInv, Placing, Views
  <2>16. CASE LockShared(p)
    BY <2>16 DEF LockShared, Acquire, DoneInv, Placing
  <2>17. CASE ReadTurn(p)
    BY <2>17 DEF ReadTurn, DoneInv, Placing, Views
  <2>18. CASE ReturnRead(p)
    BY <2>18 DEF ReturnRead, Leave, DoneInv, Placing, Views, NoView
  <2>19. CASE AbandonRead(p)
    BY <2>19 DEF AbandonRead, Leave, DoneInv, Placing, Views, NoView
  <2> QED
    BY <1>3, <2>1, <2>2, <2>3, <2>4, <2>5, <2>6, <2>7, <2>8, <2>9, <2>10, <2>11, <2>12,
       <2>13, <2>14, <2>15, <2>16, <2>17, <2>18, <2>19 DEF Step, Proceed
<1> QED
    BY <1>1, <1>2, <1>3 DEF Next

-----------------------------------------------------------------------------
(* The lock.                                                               *)

LEMMA LockInvNext ==
    ASSUME TypeInv, LockInv, [Next]_vars
    PROVE  LockInv'
<1> USE DEF disk, writer, reader, GoTo, Labels, Writing, LockInv, TypeInv, TypeOK
<1>1. CASE UNCHANGED vars
    BY <1>1 DEF vars
<1>2. CASE LoseCounter
    BY <1>2 DEF LoseCounter
<1>3. ASSUME NEW p \in Proc, Step(p)
      PROVE  LockInv'
  (* Steps that keep the lock and stay on the same side of it.             *)
  <2>1. CASE Call(p)
    <3>1. \E l \in {"idle", "wantEx"} : pc' = [pc EXCEPT ![p] = l]
        BY <2>1 DEF Call
    <3>2. pc[p] = "idle" /\ locks' = locks
        BY <2>1 DEF Call
    <3> QED  BY <3>1, <3>2
  <2>2. CASE LockExclusive(p) \/ LockShared(p)
    <3>1. CASE LockExclusive(p)
        BY <3>1 DEF LockExclusive, Acquire, CanLock
    <3>2. CASE LockShared(p)
        BY <3>2 DEF LockShared, Acquire, CanLock
    <3> QED  BY <2>2, <3>1, <3>2
  <2>3. CASE \/ ReadSequence(p) \/ Reserve(p) \/ Encode(p) \/ Open(p) \/ CopyTail(p)
             \/ CutTail(p) \/ ShortWrite(p) \/ WriteRecord(p) \/ ReadTurn(p)
    <3>1. pc[p] \in Writing \cup {"read"} /\ locks' = locks
        BY <2>3 DEF ReadSequence, Reserve, Encode, Open, CopyTail, CutTail, ShortWrite,
                    WriteRecord, ReadTurn
    <3>2. CASE pc[p] \in Writing
      <4>1. \E l \in Writing : pc' = [pc EXCEPT ![p] = l]
        <5>1. CASE ReadSequence(p) \/ Reserve(p) \/ Encode(p) \/ Open(p)
            BY <5>1 DEF ReadSequence, Reserve, Encode, Open
        <5>2. CASE CopyTail(p) \/ CutTail(p) \/ ShortWrite(p)
            BY <5>2 DEF CopyTail, CutTail, ShortWrite
        <5>3. CASE WriteRecord(p)
            BY <5>3 DEF WriteRecord
        <5>4. CASE ReadTurn(p)
            BY <3>2, <5>4 DEF ReadTurn
        <5> QED  BY <2>3, <5>1, <5>2, <5>3, <5>4
      <4> QED  BY <3>1, <3>2, <4>1
    <3>3. CASE pc[p] = "read"
      <4>1. pc' = pc
          BY <2>3, <3>3 DEF ReadSequence, Reserve, Encode, Open, CopyTail, CutTail, ShortWrite,
                      WriteRecord, ReadTurn
      <4> QED  BY <3>1, <4>1
    <3> QED  BY <3>1, <3>2, <3>3
  <2>4. CASE CloseTurn(p)
    BY <2>4 DEF CloseTurn, Leave
  (* Steps that leave the block.                                           *)
  <2>5. CASE \/ RaiseStoreError(p) \/ RaiseStoreWriteError(p) \/ Crash(p)
             \/ ReturnRead(p) \/ AbandonRead(p)
    <3>1. Leave(p)
        BY <2>5 DEF RaiseStoreError, RaiseStoreWriteError, Crash, Fail, ReturnRead, AbandonRead
    <3> QED  BY <3>1 DEF Leave
  <2>6. CASE CallRead(p)
    BY <2>6 DEF CallRead
  <2> QED
    BY <1>3, <2>1, <2>2, <2>3, <2>4, <2>5, <2>6 DEF Step, Proceed
<1> QED
    BY <1>1, <1>2, <1>3 DEF Next

(* While p holds the lock for writing, no other process is in the block.   *)
LEMMA WriterAlone ==
    ASSUME TypeInv, LockInv, NEW p \in Proc, pc[p] \in Writing
    PROVE  \A q \in Proc \ {p} : pc[q] \notin Writing \cup {"read"}
BY DEF LockInv, TypeInv, TypeOK

-----------------------------------------------------------------------------
(* What a step does to the files.                                          *)

LEMMA WriteAdds ==
    ASSUME TypeInv, TailInv, NEW p \in Proc, WriteRecord(p)
    PROVE  /\ NextTurn(p) \in Turn
           /\ NextRec(p) \in Record
           /\ file' = [file EXCEPT ![NextTurn(p)] = @ \cup {NextRec(p)}]
           /\ Stock' = Stock \cup {NextRec(p)}
<1>1. NextTurn(p) \in Turn /\ NextRec(p) \in Record
    BY NextRecType DEF WriteRecord, Placing, NextRec
<1>2. torn[NextTurn(p)] = IF half[p] THEN NextRec(p) ELSE NoRec
    BY DEF TailInv, WriteRecord
<1>3. file' = [file EXCEPT ![NextTurn(p)] = @ \cup {NextRec(p)}]
    BY <1>2 DEF WriteRecord, NextRec
<1>4. Stock' = Stock \cup {NextRec(p)}
    BY <1>1, <1>3 DEF Stock, TypeInv, TypeOK
<1> QED
    BY <1>1, <1>3, <1>4

LEMMA OnlyWriteAdds ==
    ASSUME TypeInv, TailInv, NEW p \in Proc, Step(p), ~WriteRecord(p)
    PROVE  file' = file /\ Stock' = Stock
<1>1. CASE CutTail(p)
  <2>1. keep[p] = file[NextTurn(p)]
      BY <1>1 DEF TailInv, CutTail
  <2> QED
      BY <1>1, <2>1, NextRecType DEF CutTail, Stock, Placing, TypeInv, TypeOK
<1>2. CASE ~CutTail(p)
    BY <1>2 DEF Step, Proceed, Call, LockExclusive, ReadSequence, Reserve, Encode, Open, CopyTail,
                ShortWrite, CloseTurn, RaiseStoreError, RaiseStoreWriteError, Crash, Fail,
                CallRead, LockShared, ReadTurn, ReturnRead, AbandonRead, disk, Stock
<1> QED
    BY <1>1, <1>2

-----------------------------------------------------------------------------
(* Admission numbers.                                                      *)

LEMMA SeqInvNext ==
    ASSUME TypeInv, LockInv, SeqInv, TailInv, FileInv, [Next]_vars
    PROVE  SeqInv'
<1> USE DEF disk, writer, reader, GoTo, Stamped
<1>1. CASE UNCHANGED vars
    BY <1>1 DEF vars, SeqInv, Stock
<1>2. CASE LoseCounter
    BY <1>2 DEF LoseCounter, SeqInv, Stock
<1>3. ASSUME NEW p \in Proc, Step(p)
      PROVE  SeqInv'
  <2>1. CASE WriteRecord(p)
    <3>1. Stock' = Stock \cup {NextRec(p)}
        BY <2>1, WriteAdds
    <3>2. /\ NextRec(p).seq = first[p] + done[p]
          /\ \A r \in Stock : r.seq < first[p] + done[p]
          /\ counter # NoCounter => first[p] + Len(batch[p]) <= counter
        BY <2>1 DEF WriteRecord, SeqInv, NextRec, NextLine
    <3>3. done[p] < Len(batch[p])
        BY <2>1 DEF WriteRecord, TypeInv, DoneInv, Placing
    <3>4. /\ counter \in Nat \cup {NoCounter} /\ Len(batch[p]) \in Nat
          /\ first \in [Proc -> Nat] /\ done \in [Proc -> Nat]
          /\ Stock \subseteq Record /\ pc \in [Proc -> Labels]
        BY DEF TypeInv, TypeOK, Stock
    <3>5. /\ counter' = counter /\ first' = first /\ batch' = batch
          /\ done' = [done EXCEPT ![p] = @ + 1]
          /\ \E l \in {"write", "close"} : pc' = [pc EXCEPT ![p] = l]
          /\ pc[p] = "write"
        BY <2>1 DEF WriteRecord
    <3>6. \A q \in Proc \ {p} : pc[q] \notin Writing
        BY <2>1, WriterAlone DEF WriteRecord, Writing
    <3>7. \A r, s \in Stock' : r.seq = s.seq => r = s
        BY <3>1, <3>2, <3>4 DEF SeqInv, Record
    <3>8. counter' # NoCounter => \A r \in Stock' : r.seq < counter'
        BY <3>1, <3>2, <3>3, <3>4, <3>5 DEF SeqInv
    <3>9. \A r \in Stock' : r.seq < first'[p] + done'[p]
        BY <3>1, <3>2, <3>4, <3>5 DEF Record
    <3>10. ASSUME NEW q \in Proc
           PROVE  /\ pc'[q] # "reserve"
                  /\ pc'[q] \in Stamped => q = p
        BY <3>4, <3>5, <3>6 DEF Writing
    <3> QED
        BY <3>2, <3>5, <3>7, <3>8, <3>9, <3>10 DEF SeqInv
  <2>2. CASE ~WriteRecord(p)
    <3>1. Stock' = Stock
        BY <1>3, <2>2, OnlyWriteAdds
    <3>2. Stock \subseteq Record
        BY DEF TypeInv, TypeOK, Stock
    <3>3. CASE ReadSequence(p)
      <4>1. PICK n \in IF counter = NoCounter THEN Recovered ELSE {counter} :
                 first' = [first EXCEPT ![p] = n]
          BY <3>3 DEF ReadSequence
      <4>2. \A r \in Stock : r.whole
          BY DEF Stock, FileInv
      <4>3. \A r \in Stock : r.seq < n
          BY <4>1, <4>2 DEF Recovered, SeqInv
      <4> QED
          BY <3>1, <3>3, <4>1, <4>3 DEF ReadSequence, SeqInv, TypeInv, TypeOK
    <3>4. CASE Reserve(p)
      <4>1. /\ \A r \in Stock : r.seq < first[p]
            /\ first[p] \in Nat /\ Len(batch[p]) \in Nat /\ done[p] = 0
          BY <3>4 DEF Reserve, SeqInv, TypeInv, TypeOK, DoneInv
      <4>2. counter' = first[p] + Len(batch[p]) /\ counter' \in Nat
          BY <3>4, <4>1 DEF Reserve
      <4>3. \A r \in Stock : r.seq < counter'
          BY <3>2, <4>1, <4>2 DEF Record
      <4>4. \A q \in Proc \ {p} : pc[q] \notin Writing
          BY <3>4, WriterAlone DEF Reserve, Writing
      <4>5. ASSUME NEW q \in Proc
            PROVE  /\ pc'[q] # "reserve"
                   /\ pc'[q] \in Stamped => q = p
          BY <3>4, <4>4 DEF Reserve, Writing, TypeInv, TypeOK
      <4>6. first' = first /\ done' = done /\ batch' = batch
          BY <3>4 DEF Reserve
      <4> QED
          BY <3>1, <4>1, <4>2, <4>3, <4>5, <4>6 DEF SeqInv
    <3>5. CASE \/ Encode(p) \/ Open(p) \/ CopyTail(p) \/ CutTail(p)
               \/ ShortWrite(p) \/ CloseTurn(p)
      <4>1. /\ counter' = counter /\ first' = first /\ done' = done /\ batch' = batch
            /\ pc[p] \in Stamped
            /\ \E l \in Stamped \cup {"idle"} : pc' = [pc EXCEPT ![p] = l]
          BY <3>5 DEF Encode, Open, CopyTail, CutTail, ShortWrite, CloseTurn, Leave, TypeInv, TypeOK
      <4> QED
          BY <3>1, <4>1 DEF SeqInv, TypeInv, TypeOK
    <3>6. CASE \/ Call(p) \/ LockExclusive(p) \/ RaiseStoreError(p) \/ RaiseStoreWriteError(p)
               \/ Crash(p) \/ CallRead(p) \/ LockShared(p) \/ ReadTurn(p) \/ ReturnRead(p)
               \/ AbandonRead(p)
      <4>1. /\ counter' = counter
            /\ \E l \in {"idle", "wantEx", "readSeq", "wantSh", "read"} :
                  pc' = [pc EXCEPT ![p] = l]
          BY <3>6 DEF Call, LockExclusive, RaiseStoreError, RaiseStoreWriteError, Crash, Fail, Leave,
                      CallRead, LockShared, ReadTurn, ReturnRead, AbandonRead, TypeInv, TypeOK
      <4>2. \A q \in Proc \ {p} :
               first'[q] = first[q] /\ done'[q] = done[q] /\ batch'[q] = batch[q]
          BY <3>6 DEF Call, LockExclusive, RaiseStoreError, RaiseStoreWriteError, Crash, Fail, Forget,
                      CallRead, LockShared, ReadTurn, ReturnRead, AbandonRead, TypeInv, TypeOK
      <4> QED
          BY <3>1, <4>1, <4>2 DEF SeqInv, TypeInv, TypeOK
    <3> QED
        BY <1>3, <2>2, <3>3, <3>4, <3>5, <3>6 DEF Step, Proceed
  <2> QED  BY <2>1, <2>2
<1> QED
    BY <1>1, <1>2, <1>3 DEF Next

-----------------------------------------------------------------------------
(* Torn tails.                                                             *)

LEMMA TailInvNext ==
    ASSUME TypeInv, LockInv, TailInv, [Next]_vars
    PROVE  TailInv'
<1> USE DEF disk, writer, reader, GoTo
<1>1. CASE UNCHANGED vars
    BY <1>1 DEF vars, TailInv, NextTurn, NextRec, NextLine
<1>2. CASE LoseCounter
    BY <1>2 DEF LoseCounter, TailInv, NextTurn, NextRec, NextLine
<1>3. ASSUME NEW p \in Proc, Step(p)
      PROVE  TailInv'
  <2> DEFINE TailOf(q) ==
         /\ half[q] => pc[q] = "write"
         /\ pc[q] = "write" =>
               torn[NextTurn(q)] = IF half[q] THEN NextRec(q) ELSE NoRec
         /\ pc[q] \in {"copy", "cut"} => torn[NextTurn(q)] # NoRec
         /\ pc[q] = "cut" =>
               /\ keep[q] = file[NextTurn(q)]
               /\ torn[NextTurn(q)] \in aside[NextTurn(q)]
  <2>0. TailInv <=> \A q \in Proc : TailOf(q)
      BY DEF TailInv
  <2> SUFFICES ASSUME NEW q \in Proc
               PROVE  TailOf(q)'
      BY DEF TailInv
  <2>1. TailOf(q)
      BY <2>0
  <2> HIDE DEF TailOf
  <2>2. CASE q # p
    <3>1. /\ pc'[q] = pc[q] /\ half'[q] = half[q] /\ keep'[q] = keep[q] /\ batch'[q] = batch[q]
          /\ first'[q] = first[q] /\ done'[q] = done[q]
        BY <1>3, <2>2 DEF Step, Proceed, Call, LockExclusive, Acquire, ReadSequence, Reserve, Encode,
           Open, CopyTail, CutTail, ShortWrite, WriteRecord, CloseTurn, RaiseStoreError, Leave,
           RaiseStoreWriteError, Crash, Fail, Forget, CallRead, LockShared, ReadTurn, ReturnRead,
           AbandonRead, TypeInv, TypeOK
    <3>2. id'[q] = id[q]
        BY <1>3, <2>2 DEF Step, Proceed, Call, LockExclusive, Acquire, ReadSequence, Reserve, Encode,
           Open, CopyTail, CutTail, ShortWrite, WriteRecord, CloseTurn, RaiseStoreError, Leave,
           RaiseStoreWriteError, Crash, Fail, Forget, CallRead, LockShared, ReadTurn, ReturnRead,
           AbandonRead, TypeInv, TypeOK
    <3>3. CASE pc[p] \in Writing
      <4>1. pc[q] \notin Writing
          BY <2>2, <3>3, WriterAlone
      <4> QED
          BY <2>1, <3>1, <4>1 DEF TailOf, Writing
    <3>4. CASE pc[p] \notin Writing
      <4>1. torn' = torn /\ file' = file /\ aside' = aside
          BY <1>3, <3>4 DEF Step, Proceed, Call, LockExclusive, ReadSequence, Reserve, Encode,
             Open, CopyTail, CutTail, ShortWrite, WriteRecord, CloseTurn, RaiseStoreError,
             RaiseStoreWriteError, Crash, Fail, CallRead, LockShared, ReadTurn, ReturnRead,
             AbandonRead, Writing
      <4> QED
          BY <2>1, <3>1, <3>2, <4>1 DEF TailOf, NextTurn, NextRec, NextLine
    <3> QED  BY <3>3, <3>4
  <2>3. CASE q = p
    <3> USE DEF TypeInv, TypeOK
    <3>1. CASE Open(p)
      <4>1. /\ ~half'[p] /\ torn' = torn /\ NextTurn(p)' = NextTurn(p)
            /\ pc'[p] = IF torn[NextTurn(p)] = NoRec THEN "write" ELSE "copy"
          BY <2>1, <2>3, <3>1 DEF Open, TailOf, NextTurn
      <4> QED
          BY <2>3, <4>1 DEF TailOf
    <3>2. CASE CopyTail(p)
      <4>1. NextTurn(p) \in Turn
          BY <3>2, NextRecType DEF CopyTail, Placing
      <4>2. /\ pc'[p] = "cut" /\ half' = half /\ torn' = torn /\ file' = file
            /\ NextTurn(p)' = NextTurn(p)
            /\ keep'[p] = file[NextTurn(p)]
            /\ torn[NextTurn(p)] \in aside'[NextTurn(p)]
          BY <3>2, <4>1 DEF CopyTail, NextTurn
      <4> QED
          BY <2>1, <2>3, <3>2, <4>2 DEF TailOf, CopyTail
    <3>3. CASE CutTail(p)
      <4>1. NextTurn(p) \in Turn
          BY <3>3, NextRecType DEF CutTail, Placing
      <4>2. /\ pc'[p] = "write" /\ half' = half /\ NextTurn(p)' = NextTurn(p)
            /\ torn'[NextTurn(p)] = NoRec
          BY <3>3, <4>1 DEF CutTail, NextTurn
      <4> QED
          BY <2>1, <2>3, <3>3, <4>2 DEF TailOf, CutTail
    <3>4. CASE ShortWrite(p)
      <4>1. NextTurn(p) \in Turn
          BY <3>4, NextRecType DEF ShortWrite, Placing
      <4>2. torn[NextTurn(p)] = NoRec
          BY <2>1, <2>3, <3>4 DEF TailOf, ShortWrite
      <4>3. /\ pc' = pc /\ half'[p] /\ NextTurn(p)' = NextTurn(p) /\ NextRec(p)' = NextRec(p)
            /\ torn'[NextTurn(p)] = NextRec(p)
          BY <3>4, <4>1, <4>2 DEF ShortWrite, NextTurn, NextRec, NextLine
      <4> QED
          BY <2>3, <3>4, <4>3 DEF TailOf, ShortWrite
    <3>5. CASE WriteRecord(p)
      <4>1. NextTurn(p) \in Turn /\ done[p] \in Nat
          BY <3>5, NextRecType DEF WriteRecord, Placing
      <4>2. /\ ~half'[p] /\ batch' = batch /\ done'[p] = done[p] + 1
            /\ pc'[p] \in {"write", "close"}
            /\ pc'[p] = "write" => batch[p][done[p] + 2] = NextTurn(p)
            /\ torn'[NextTurn(p)] = NoRec
          BY <3>5, <4>1 DEF WriteRecord
      <4>3. pc'[p] = "write" => NextTurn(p)' = NextTurn(p)
          BY <4>1, <4>2 DEF NextTurn
      <4> QED
          BY <2>3, <4>2, <4>3 DEF TailOf
    <3>6. CASE ~(\/ Open(p) \/ CopyTail(p) \/ CutTail(p) \/ ShortWrite(p) \/ WriteRecord(p))
      <4>1. /\ ~half'[p]
            /\ \E l \in Labels \ {"copy", "cut", "write"} : pc'[p] = l
          BY <1>3, <2>1, <2>3, <3>6 DEF TailOf, Step, Proceed, Call, LockExclusive, ReadSequence,
             Reserve, Encode, CloseTurn, RaiseStoreError, Leave, RaiseStoreWriteError, Crash, Fail,
             CallRead, LockShared, ReadTurn, ReturnRead, AbandonRead, Labels, Writing
      <4> QED
          BY <2>3, <4>1 DEF TailOf, Labels, Writing
    <3> QED
        BY <3>1, <3>2, <3>3, <3>4, <3>5, <3>6
  <2> QED  BY <2>2, <2>3
<1> QED
    BY <1>1, <1>2, <1>3 DEF Next

LEMMA FileInvNext ==
    ASSUME TypeInv, TailInv, FileInv, [Next]_vars
    PROVE  FileInv'
<1>1. CASE UNCHANGED vars \/ LoseCounter
    BY <1>1 DEF vars, disk, LoseCounter, FileInv
<1>2. ASSUME NEW p \in Proc, Step(p)
      PROVE  FileInv'
  <2>1. CASE WriteRecord(p)
    <3>1. NextRec(p).turn = NextTurn(p) /\ NextRec(p).whole = TRUE
        BY DEF NextRec, NextLine
    <3>2. /\ NextTurn(p) \in Turn /\ file \in [Turn -> SUBSET Record]
          /\ file' = [file EXCEPT ![NextTurn(p)] = @ \cup {NextRec(p)}]
        BY <2>1, WriteAdds DEF TypeInv, TypeOK
    <3>3. ASSUME NEW t \in Turn, NEW r \in file'[t]
          PROVE  r.turn = t /\ r.whole
      <4>1. r \in file[t] \/ (t = NextTurn(p) /\ r = NextRec(p))
          BY <3>2, <3>3
      <4>2. CASE r \in file[t]
          BY <4>2 DEF FileInv
      <4>3. CASE t = NextTurn(p) /\ r = NextRec(p)
          BY <3>1, <4>3
      <4> QED  BY <4>1, <4>2, <4>3
    <3> QED
        BY <3>3 DEF FileInv
  <2>2. CASE ~WriteRecord(p)
    BY <1>2, <2>2, OnlyWriteAdds DEF FileInv
  <2> QED  BY <2>1, <2>2
<1> QED
    BY <1>1, <1>2 DEF Next

-----------------------------------------------------------------------------
(* Reads in progress.                                                      *)

LEMMA ReadInvNext ==
    ASSUME TypeInv, LockInv, TailInv, FileInv, ReadInv, [Next]_vars
    PROVE  ReadInv'
<1> USE DEF disk, writer, reader, GoTo
<1>1. CASE UNCHANGED vars \/ LoseCounter
    BY <1>1 DEF vars, LoseCounter, ReadInv, Stock
<1>2. ASSUME NEW p \in Proc, Step(p)
      PROVE  ReadInv'
  <2>1. CASE WriteRecord(p)
    <3>1. \A q \in Proc : pc'[q] # "read" /\ (pc'[q] = "wantSh" => pc[q] = "wantSh")
        BY <2>1, WriterAlone DEF WriteRecord, Writing, TypeInv, TypeOK
    <3> QED
        BY <2>1, <3>1 DEF WriteRecord, ReadInv
  <2>2. CASE ~WriteRecord(p)
    <3>1. file' = file /\ Stock' = Stock
        BY <1>2, <2>2, OnlyWriteAdds
    <3>2. CASE CallRead(p)
        BY <3>1, <3>2 DEF CallRead, ReadInv, TypeInv, TypeOK
    <3>3. CASE LockShared(p)
        BY <3>1, <3>3 DEF LockShared, ReadInv, TypeInv, TypeOK, Views
    <3>4. CASE ReadTurn(p)
      <4>1. PICK t \in toRead[p] :
                 /\ toRead' = [toRead EXCEPT ![p] = @ \ {t}]
                 /\ got' = [got EXCEPT ![p] = [turns |-> @.turns, recs |-> @.recs \cup file[t]]]
          BY <3>4 DEF ReadTurn
      <4>2. toRead \in [Proc -> SUBSET Turn] /\ t \in Turn /\ got \in [Proc -> Views]
          BY DEF TypeInv, TypeOK
      <4>3. file[t] = {r \in Stock : r.turn = t}
          BY <4>2 DEF FileInv, Stock
      <4>4. pc' = pc /\ pc[p] = "read"
          BY <3>4 DEF ReadTurn
      <4>5. got[p].recs = {r \in Stock : r.turn \in got[p].turns \ toRead[p]}
          BY <4>4 DEF ReadInv
      <4>6. t \in got[p].turns /\ toRead[p] \subseteq got[p].turns
          BY <4>4 DEF ReadInv
      <4>7. /\ got'[p].recs = {r \in Stock : r.turn \in got'[p].turns \ toRead'[p]}
            /\ toRead'[p] \subseteq got'[p].turns
          BY <4>1, <4>2, <4>3, <4>5, <4>6
      <4> QED
          BY <3>1, <4>1, <4>2, <4>4, <4>7 DEF ReadInv
    <3>5. CASE ~(CallRead(p) \/ LockShared(p) \/ ReadTurn(p))
      <4>1. /\ \A q \in Proc \ {p} : pc'[q] = pc[q] /\ toRead'[q] = toRead[q] /\ got'[q] = got[q]
            /\ pc'[p] \notin {"read", "wantSh"}
          BY <1>2, <2>2, <3>5 DEF Step, Proceed, Call, LockExclusive, ReadSequence, Reserve, Encode,
             Open, CopyTail, CutTail, ShortWrite, CloseTurn, RaiseStoreError, Leave,
             RaiseStoreWriteError, Crash, Fail, ReturnRead, AbandonRead, TypeInv, TypeOK
      <4> QED
          BY <3>1, <4>1 DEF ReadInv
    <3> QED
        BY <3>2, <3>3, <3>4, <3>5
  <2> QED  BY <2>1, <2>2
<1> QED
    BY <1>1, <1>2 DEF Next

-----------------------------------------------------------------------------
(* The invariant, and what follows from it.                                *)

(* The inductive invariant holds in every state of the store.              *)
THEOREM StoreInvariant == Spec => []IInv
<1>1. Init => IInv
  <2> SUFFICES ASSUME Init PROVE IInv
      OBVIOUS
  <2>1. TypeInv
      BY TypeInvInit
  <2>2. Stock = {}
      BY DEF Init, Stock
  <2>3. LockInv /\ TailInv /\ FileInv /\ ReadInv
      BY DEF Init, LockInv, TailInv, FileInv, ReadInv, Writing
  <2>4. SeqInv
      BY <2>2 DEF Init, SeqInv, Stamped
  <2> QED  BY <2>1, <2>3, <2>4 DEF IInv
<1>2. IInv /\ [Next]_vars => IInv'
  BY TypeInvNext, LockInvNext, SeqInvNext, TailInvNext, FileInvNext, ReadInvNext DEF IInv
<1> QED
  BY <1>1, <1>2, PTL DEF Spec

(* Every variable keeps its type.                                          *)
THEOREM TypeCorrect == Spec => []TypeOK
<1>1. IInv => TypeOK
    BY DEF IInv, TypeInv
<1> QED
    BY <1>1, StoreInvariant, PTL

(* Two processes are never in the locked block together unless both read.  *)
THEOREM MutualExclusion ==
    Spec => [](\A p, q \in Proc : p # q /\ pc[p] \in Writing => pc[q] \notin Writing \cup {"read"})
<1>1. IInv => \A p, q \in Proc : p # q /\ pc[p] \in Writing => pc[q] \notin Writing \cup {"read"}
    BY WriterAlone DEF IInv
<1> QED
    BY <1>1, StoreInvariant, PTL

(* No two records on disk ever share an admission number: not after a      *)
(* crash, a failed write, or a counter rebuilt from the files.             *)
THEOREM AdmissionNumbersUnique == Spec => []UniqueSeq
<1>1. IInv => UniqueSeq
    BY DEF IInv, SeqInv, UniqueSeq
<1> QED
    BY <1>1, StoreInvariant, PTL

(* No record is ever glued to the torn tail of another.                    *)
THEOREM TurnsStayReadable == Spec => []Readable
<1>1. IInv => Readable
    BY DEF IInv, FileInv, Readable
<1> QED
    BY <1>1, StoreInvariant, PTL

LEMMA FilesGrow ==
    ASSUME IInv, [Next]_vars
    PROVE  \A t \in Turn : file[t] \subseteq file'[t]
<1>1. CASE UNCHANGED vars \/ LoseCounter
    BY <1>1 DEF vars, disk, LoseCounter
<1>2. ASSUME NEW p \in Proc, Step(p)
      PROVE  \A t \in Turn : file[t] \subseteq file'[t]
  <2>1. CASE WriteRecord(p)
    <3>1. /\ file \in [Turn -> SUBSET Record]
          /\ file' = [file EXCEPT ![NextTurn(p)] = @ \cup {NextRec(p)}]
        BY <2>1, WriteAdds DEF IInv, TypeInv, TypeOK
    <3> QED  BY <3>1
  <2>2. CASE ~WriteRecord(p)
      BY <1>2, <2>2, OnlyWriteAdds DEF IInv
  <2> QED  BY <2>1, <2>2
<1> QED
    BY <1>1, <1>2 DEF Next

(* Recovery shortens files and still never removes a complete line.        *)
THEOREM StoreIsAppendOnly == Spec => AppendOnly
<1>1. IInv /\ [Next]_vars => [\A t \in Turn : file[t] \subseteq file'[t]]_vars
    BY FilesGrow
<1> QED
    BY <1>1, StoreInvariant, PTL DEF Spec, AppendOnly

-----------------------------------------------------------------------------
(* The log.                                                                *)

(* Every step of the store is a step of the log its port promises: it      *)
(* admits one record above all others, returns a snapshot, or stutters.    *)
THEOREM StoreImplementsLog == Spec => ImplementsLog
<1>1. Init => Log!LogInit
    BY DEF Init, Log!LogInit, Log!NoView, NoView, Stock
<1>2. IInv /\ [Next]_vars => [Log!LogNext]_(Log!logVars)
  <2> SUFFICES ASSUME IInv, [Next]_vars
               PROVE  Log!LogNext \/ (Stock' = Stock /\ view' = view)
      BY DEF Log!logVars
  <2>1. CASE UNCHANGED vars \/ LoseCounter
      BY <2>1 DEF vars, disk, reader, LoseCounter, Stock
  <2>2. ASSUME NEW p \in Proc, Step(p)
        PROVE  Log!LogNext \/ (Stock' = Stock /\ view' = view)
    <3>1. CASE WriteRecord(p)
      <4>1. Stock' = Stock \cup {NextRec(p)} /\ view' = view
          BY <3>1, WriteAdds DEF IInv, WriteRecord, reader
      <4>2. \A s \in Stock : s.seq < NextRec(p).seq
          BY <3>1 DEF IInv, SeqInv, Stamped, WriteRecord, NextRec, NextLine
      <4>3. Stock \subseteq Record
          BY DEF IInv, TypeInv, TypeOK, Stock
      <4>4. NextRec(p) \notin Stock
          BY <4>2, <4>3 DEF Record
      <4>5. Log!Admit
          BY <4>1, <4>2, <4>4 DEF Log!Admit
      <4> QED  BY <4>5 DEF Log!LogNext
    <3>2. CASE ReturnRead(p)
      <4>1. /\ got[p] \in Views /\ toRead[p] = {}
            /\ got[p].recs = {r \in Stock : r.turn \in got[p].turns \ toRead[p]}
          BY <3>2 DEF ReturnRead, IInv, ReadInv, TypeInv, TypeOK
      <4>2. got[p] = Log!Snapshot(got[p].turns) /\ got[p].turns \in SUBSET Turn
          BY <4>1 DEF Log!Snapshot, Views
      <4>3. view' = [view EXCEPT ![p] = Log!Snapshot(got[p].turns)] /\ Stock' = Stock
          BY <3>2, <4>2 DEF ReturnRead, disk, Stock
      <4>4. Log!Read(p)
          BY <4>2, <4>3 DEF Log!Read
      <4> QED  BY <4>4 DEF Log!LogNext
    <3>3. CASE ~WriteRecord(p) /\ ~ReturnRead(p)
      <4>1. Stock' = Stock
          BY <2>2, <3>3, OnlyWriteAdds DEF IInv
      <4>2. view' = view
          BY <2>2, <3>3 DEF Step, Proceed, Call, LockExclusive, ReadSequence, Reserve, Encode, Open,
             CopyTail, CutTail, ShortWrite, CloseTurn, RaiseStoreError, RaiseStoreWriteError, Crash,
             Fail, CallRead, LockShared, ReadTurn, AbandonRead, reader
      <4> QED  BY <4>1, <4>2
    <3> QED  BY <3>1, <3>2, <3>3
  <2> QED
      BY <2>1, <2>2 DEF Next
<1> QED
    BY <1>1, <1>2, StoreInvariant, PTL DEF Spec, ImplementsLog, Log!LogSpec

(* What a read returned stays a prefix, in admission order, of everything  *)
(* read from those turns later.                                            *)
THEOREM ReadsArePrefixes == Spec => []ReadIsPrefix
<1>1. Init => ReadIsPrefix
    BY DEF Init, ReadIsPrefix, NoView
<1>2. IInv /\ ReadIsPrefix /\ [Next]_vars => ReadIsPrefix'
  <2> SUFFICES ASSUME IInv, ReadIsPrefix, [Next]_vars
               PROVE  ReadIsPrefix'
      OBVIOUS
  <2>1. CASE UNCHANGED vars \/ LoseCounter
      BY <2>1 DEF vars, disk, reader, LoseCounter, Stock, ReadIsPrefix
  <2>2. ASSUME NEW p \in Proc, Step(p)
        PROVE  ReadIsPrefix'
    <3>1. CASE WriteRecord(p)
      <4>1. Stock' = Stock \cup {NextRec(p)} /\ view' = view
          BY <3>1, WriteAdds DEF IInv, WriteRecord, reader
      <4>2. \A s \in Stock : s.seq < NextRec(p).seq
          BY <3>1 DEF IInv, SeqInv, Stamped, WriteRecord, NextRec, NextLine
      <4> QED
          BY <4>1, <4>2 DEF ReadIsPrefix
    <3>2. CASE ReturnRead(p)
      <4>1. /\ toRead[p] = {} /\ view \in [Proc -> Views]
            /\ got[p].recs = {r \in Stock : r.turn \in got[p].turns \ toRead[p]}
          BY <3>2 DEF ReturnRead, IInv, ReadInv, TypeInv, TypeOK
      <4>2. view' = [view EXCEPT ![p] = got[p]] /\ Stock' = Stock
          BY <3>2 DEF ReturnRead, disk, Stock
      <4> QED
          BY <4>1, <4>2 DEF ReadIsPrefix
    <3>3. CASE ~WriteRecord(p) /\ ~ReturnRead(p)
      <4>1. Stock' = Stock
          BY <2>2, <3>3, OnlyWriteAdds DEF IInv
      <4>2. view' = view
          BY <2>2, <3>3 DEF Step, Proceed, Call, LockExclusive, ReadSequence, Reserve, Encode, Open,
             CopyTail, CutTail, ShortWrite, CloseTurn, RaiseStoreError, RaiseStoreWriteError, Crash,
             Fail, CallRead, LockShared, ReadTurn, AbandonRead, reader
      <4> QED  BY <4>1, <4>2 DEF ReadIsPrefix
    <3> QED  BY <3>1, <3>2, <3>3
  <2> QED
      BY <2>1, <2>2 DEF Next
<1> QED
    BY <1>1, <1>2, StoreInvariant, PTL DEF Spec

-----------------------------------------------------------------------------
(* Torn fragments.                                                         *)

LEMMA FragmentsStep ==
    ASSUME IInv, [Next]_vars, NEW t \in Turn, torn[t] # NoRec, torn'[t] # torn[t]
    PROVE  torn[t] \in file'[t] \cup aside'[t]
<1>1. PICK p \in Proc : CutTail(p) \/ ShortWrite(p) \/ WriteRecord(p)
    BY DEF Next, vars, disk, LoseCounter, Step, Proceed, Call, LockExclusive, ReadSequence, Reserve,
           Encode, Open, CopyTail, CloseTurn, RaiseStoreError, RaiseStoreWriteError, Crash, Fail,
           CallRead, LockShared, ReadTurn, ReturnRead, AbandonRead
<1>2. torn \in [Turn -> Record \cup {NoRec}] /\ pc[p] \in {"cut", "write"}
    BY <1>1 DEF IInv, TypeInv, TypeOK, CutTail, ShortWrite, WriteRecord
<1>3. t = NextTurn(p)
    BY <1>1, <1>2 DEF CutTail, ShortWrite, WriteRecord
<1>4. CASE CutTail(p)
    BY <1>3, <1>4 DEF CutTail, IInv, TailInv
<1>5. CASE ShortWrite(p)
    BY <1>3, <1>5 DEF ShortWrite, IInv, TailInv
<1>6. CASE WriteRecord(p)
  <2>1. torn[t] = NextRec(p)
    BY <1>3, <1>6 DEF WriteRecord, IInv, TailInv
  <2>2. file' = [file EXCEPT ![t] = @ \cup {NextRec(p)}] /\ file \in [Turn -> SUBSET Record]
    BY <1>3, <1>6, WriteAdds DEF IInv, TypeInv, TypeOK
  <2> QED  BY <2>1, <2>2
<1> QED  BY <1>1, <1>4, <1>5, <1>6

(* A torn fragment is never dropped: it becomes its own record, or stands  *)
(* in <turn>.jsonl.torn before the file is shortened.                      *)
THEOREM FragmentsAreKept == Spec => FragmentKept
<1>1. IInv /\ [Next]_vars =>
          [\A t \in Turn : torn[t] # NoRec /\ torn'[t] # torn[t]
                              => torn[t] \in file'[t] \cup aside'[t]]_vars
    BY FragmentsStep
<1> QED
    BY <1>1, StoreInvariant, PTL DEF Spec, FragmentKept

-----------------------------------------------------------------------------
(* Grouping: the records of one turn are next to each other.               *)

LEMMA Smallest ==
    ASSUME NEW S, S \subseteq Nat, S # {}
    PROVE  \E m \in S : \A n \in S : m <= n
<1>1. PICK m \in S : \A n \in S : ~(<<n, m>> \in OpToRel(<, Nat))
    BY WFMin, NatLessThanWellFounded, Zenon
<1>2. ASSUME NEW n \in S  PROVE m <= n
  <2>1. m \in Nat /\ n \in Nat /\ ~(n < m)
    BY <1>1 DEF OpToRel
  <2> QED  BY <2>1
<1> QED  BY <1>2

LEMMA FirstSeenIs ==
    ASSUME NEW b \in Seq(Turn), NEW t, \E i \in DOMAIN b : b[i] = t
    PROVE  FirstSeen(b, t) \in DOMAIN b /\ b[FirstSeen(b, t)] = t
<1> DEFINE S == {i \in DOMAIN b : b[i] = t}
<1>1. S \subseteq Nat /\ S # {} /\ DOMAIN b = 1..Len(b) /\ Len(b) \in Nat
    OBVIOUS
<1>2. PICK m \in S : \A n \in S : m <= n
    BY <1>1, Smallest
<1>3. \A j \in 1..(m-1) : b[j] # t
  <2> SUFFICES ASSUME NEW j \in 1..(m-1), b[j] = t  PROVE FALSE
    OBVIOUS
  <2>1. m \in 1..Len(b)
    BY <1>1, <1>2
  <2>2. j \in DOMAIN b /\ j < m
    BY <1>1, <2>1
  <2> QED  BY <1>2, <2>1, <2>2
<1>4. m \in DOMAIN b /\ b[m] = t /\ \A j \in 1..(m-1) : b[j] # t
    BY <1>2, <1>3
<1> QED  BY <1>4 DEF FirstSeen

LEMMA CountIsZero ==
    ASSUME NEW b \in Seq(Turn), NEW t
    PROVE  Count(b, t) = 0 <=> ~\E i \in DOMAIN b : b[i] = t
<1>1. IsFiniteSet(DOMAIN b)
    BY FS_Interval
<1>2. IsFiniteSet({i \in DOMAIN b : b[i] = t})
    BY <1>1, FS_Subset
<1> QED  BY <1>2, FS_EmptySet DEF Count

LEMMA GroupedIsContiguous ==
    ASSUME NEW b \in Seq(Turn), NEW g \in Seq(Turn), IsGrouped(b, g),
           NEW i \in DOMAIN g, NEW j \in DOMAIN g, NEW k \in DOMAIN g,
           i < j, j < k, g[i] = g[k]
    PROVE  g[j] = g[i]
<1>1. ASSUME NEW n \in DOMAIN g
      PROVE  FirstSeen(b, g[n]) \in DOMAIN b /\ b[FirstSeen(b, g[n])] = g[n]
  <2>1. g[n] \in Turn
    OBVIOUS
  <2>2. Count(g, g[n]) = Count(b, g[n])
    BY <2>1 DEF IsGrouped
  <2>3. \E m \in DOMAIN b : b[m] = g[n]
    BY <2>2, CountIsZero
  <2> QED  BY <2>3, FirstSeenIs
<1>2. /\ FirstSeen(b, g[i]) <= FirstSeen(b, g[j])
      /\ FirstSeen(b, g[j]) <= FirstSeen(b, g[i])
    BY DEF IsGrouped
<1>3. FirstSeen(b, g[i]) \in Nat /\ FirstSeen(b, g[j]) \in Nat
    BY <1>1
<1>4. FirstSeen(b, g[i]) = FirstSeen(b, g[j])
    BY <1>2, <1>3
<1> QED  BY <1>1, <1>4

-----------------------------------------------------------------------------
(* Answers.  What a call may say of its records rests on five facts: its   *)
(* id is its own (IdInv), it has written nothing before it opens a file    *)
(* (NothingYet), the records it counts as done are on disk (DoneOnDisk),   *)
(* the records of one turn are contiguous (Contiguous), and so a turn in   *)
(* landed has no record left to write (LandedInv).                         *)

Appending == Writing \cup {"wantEx"}
Before == {"wantEx", "readSeq", "reserve", "encode"}

IdInv ==
    /\ \A p \in Proc : id[p] <= calls /\ (pc[p] \in Appending => id[p] > 0)
    /\ \A p, q \in Proc : id[p] = id[q] /\ id[p] > 0 => p = q
    /\ \A r \in Stock : r.call > 0 /\ r.call <= calls

NothingYet ==
    \A p \in Proc : pc[p] \in Before \/ outcome[p] = "StoreError" =>
        \A r \in Stock : r.call # id[p]

DoneOnDisk == \A p \in Proc : \A i \in 1..done[p] : OwnRec(p, i) \in Stock

Grouped(b) ==
    \A i, j, k \in DOMAIN b : i < j /\ j < k /\ b[i] = b[k] => b[j] = b[i]

Contiguous == \A p \in Proc : Grouped(batch[p])

LandedInv ==
    \A p \in Proc :
       /\ \A i \in DOMAIN batch[p] : batch[p][i] \in landed[p] => i <= done[p]
       /\ pc[p] = "close" /\ done[p] < Len(batch[p]) =>
             batch[p][done[p] + 1] # batch[p][done[p]]

AnswerInv ==
    \A p \in Proc :
       /\ pc[p] \in Appending => outcome[p] = "pending"
       /\ outcome[p] = "ok" => done[p] >= Len(batch[p])

AInv == IdInv /\ NothingYet /\ DoneOnDisk /\ Contiguous /\ LandedInv /\ AnswerInv

(* What p's step leaves of another call.                                   *)
LEMMA OthersKept ==
    ASSUME TypeInv, NEW p \in Proc, Step(p), NEW q \in Proc, q # p
    PROVE  /\ pc'[q] = pc[q] /\ id'[q] = id[q] /\ batch'[q] = batch[q] /\ first'[q] = first[q]
           /\ done'[q] = done[q] /\ landed'[q] = landed[q] /\ outcome'[q] = outcome[q]
BY DEF Step, Proceed, Call, LockExclusive, Acquire, ReadSequence, Reserve, Encode, Open, CopyTail,
       CutTail, ShortWrite, WriteRecord, CloseTurn, RaiseStoreError, Leave, RaiseStoreWriteError,
       Crash, Fail, Forget, CallRead, LockShared, ReadTurn, ReturnRead, AbandonRead, GoTo, writer,
       TypeInv, TypeOK

LEMMA StockStep ==
    ASSUME TypeInv, TailInv, NEW p \in Proc, Step(p), NEW r \in Stock'
    PROVE  r \in Stock \/ (WriteRecord(p) /\ r.call = id[p])
<1>1. CASE WriteRecord(p)
  <2>1. NextRec(p).call = id[p]
    BY DEF NextRec, NextLine
  <2>2. r \in Stock \/ r = NextRec(p)
    BY <1>1, WriteAdds
  <2> QED  BY <1>1, <2>1, <2>2
<1>2. CASE ~WriteRecord(p)
    BY <1>2, OnlyWriteAdds
<1> QED  BY <1>1, <1>2

LEMMA StockGrows ==
    ASSUME TypeInv, TailInv, NEW p \in Proc, Step(p)
    PROVE  Stock \subseteq Stock'
BY WriteAdds, OnlyWriteAdds

(* Every step but these three keeps p's id, and appends on only if it did. *)
LEMMA IdKept ==
    ASSUME TypeInv, NEW p \in Proc, Step(p), ~Call(p), ~Crash(p)
    PROVE  /\ UNCHANGED <<id, calls>>
           /\ pc'[p] \in Appending => pc[p] \in Appending
BY DEF Step, Proceed, Call, LockExclusive, Acquire, ReadSequence, Reserve, Encode, Open, CopyTail,
       CutTail, ShortWrite, WriteRecord, CloseTurn, RaiseStoreError, Leave, RaiseStoreWriteError,
       Crash, Fail, Forget, CallRead, LockShared, ReadTurn, ReturnRead, AbandonRead, GoTo, writer,
       TypeInv, TypeOK, Appending, Writing

LEMMA IdInvNext ==
    ASSUME TypeInv, TailInv, IdInv, [Next]_vars
    PROVE  IdInv'
<1>0. /\ id \in [Proc -> Nat] /\ calls \in Nat /\ pc \in [Proc -> Labels]
      /\ \A r \in Stock : r.call \in Nat
    BY DEF TypeInv, TypeOK, Stock, Record
<1>1. CASE UNCHANGED vars \/ LoseCounter
    BY <1>1 DEF vars, disk, writer, LoseCounter, IdInv, Stock
<1>2. ASSUME NEW p \in Proc, Step(p)
      PROVE  IdInv'
  <2>1. CASE Call(p)
    <3>1. /\ calls' = calls + 1 /\ id' = [id EXCEPT ![p] = calls + 1] /\ Stock' = Stock
        BY <2>1 DEF Call, disk, Stock
    <3>2. \A q \in Proc : q # p => pc'[q] = pc[q] /\ id'[q] = id[q]
        BY <1>2, OthersKept
    <3>3. id'[p] = calls + 1
        BY <1>0, <3>1
    <3> QED
        BY <1>0, <3>1, <3>2, <3>3 DEF IdInv
  <2>2. CASE Crash(p)
    <3>1. calls' = calls /\ id' = [id EXCEPT ![p] = 0] /\ Stock' = Stock
        BY <2>2 DEF Crash, Fail, disk, Stock
    <3>2. \A q \in Proc : q # p => pc'[q] = pc[q] /\ id'[q] = id[q]
        BY <1>2, OthersKept
    <3>3. id'[p] = 0 /\ pc'[p] = "idle"
        BY <1>0, <2>2, <3>1 DEF Crash, Fail, Leave, GoTo
    <3> QED
        BY <1>0, <3>1, <3>2, <3>3 DEF IdInv, Appending, Writing
  <2>3. CASE ~Call(p) /\ ~Crash(p)
    <3>1. UNCHANGED <<id, calls>> /\ \A q \in Proc : pc'[q] \in Appending => pc[q] \in Appending
        BY <1>2, <2>3, IdKept, OthersKept
    <3>2. ASSUME NEW r \in Stock'
          PROVE  r.call > 0 /\ r.call <= calls
      <4>1. CASE r \in Stock
        BY <4>1 DEF IdInv
      <4>2. CASE WriteRecord(p) /\ r.call = id[p]
        BY <4>2 DEF IdInv, WriteRecord, Appending, Writing
      <4> QED  BY <1>2, <4>1, <4>2, StockStep
    <3> QED
        BY <3>1, <3>2 DEF IdInv
  <2> QED  BY <2>1, <2>2, <2>3
<1> QED  BY <1>1, <1>2 DEF Next

LEMMA NothingYetNext ==
    ASSUME TypeInv, TailInv, IdInv, NothingYet, AnswerInv, [Next]_vars
    PROVE  NothingYet'
<1>0. /\ id \in [Proc -> Nat] /\ calls \in Nat /\ pc \in [Proc -> Labels]
      /\ \A r \in Stock : r.call \in Nat
    BY DEF TypeInv, TypeOK, Stock, Record
<1>1. CASE UNCHANGED vars \/ LoseCounter
    BY <1>1 DEF vars, disk, writer, LoseCounter, NothingYet, Stock
<1>2. ASSUME NEW p \in Proc, Step(p), NEW q \in Proc,
             pc'[q] \in Before \/ outcome'[q] = "StoreError", NEW r \in Stock'
      PROVE  r.call # id'[q]
  <2>1. CASE q # p
    <3>1. pc'[q] = pc[q] /\ id'[q] = id[q] /\ outcome'[q] = outcome[q]
        BY <1>2, <2>1, OthersKept
    <3>2. CASE r \in Stock
        BY <1>2, <3>1, <3>2 DEF NothingYet
    <3>3. CASE WriteRecord(p) /\ r.call = id[p]
        BY <2>1, <3>1, <3>3 DEF IdInv, WriteRecord, Appending, Writing
    <3> QED  BY <1>2, <3>2, <3>3, StockStep
  <2>2. CASE q = p
    <3>1. CASE Call(p)
      <4>1. id'[p] = calls + 1 /\ Stock' = Stock
        BY <1>0, <3>1 DEF Call, disk, Stock
      <4> QED  BY <1>0, <1>2, <2>2, <4>1 DEF IdInv
    <3>2. CASE Crash(p)
      <4>1. pc'[p] = "idle" /\ outcome'[p] = "none"
        BY <3>2 DEF Crash, Fail, Leave, GoTo, TypeInv, TypeOK
      <4> QED  BY <1>2, <2>2, <4>1 DEF Before
    <3>3. CASE WriteRecord(p)
      <4>1. pc'[p] \in {"write", "close"} /\ outcome'[p] = "pending"
        BY <3>3 DEF WriteRecord, AnswerInv, Appending, Writing, GoTo, TypeInv, TypeOK
      <4> QED  BY <1>2, <2>2, <4>1 DEF Before
    <3>4. CASE ~Call(p) /\ ~Crash(p) /\ ~WriteRecord(p)
      <4>1. r \in Stock /\ id'[p] = id[p]
        BY <1>2, <3>4, OnlyWriteAdds, IdKept
      <4>2. pc[p] \in Before \/ outcome[p] = "StoreError"
        BY <1>2, <2>2, <3>4 DEF Step, Proceed, LockExclusive, Acquire, ReadSequence, Reserve,
           Encode, Open, CopyTail, CutTail, ShortWrite, CloseTurn, RaiseStoreError, Leave,
           RaiseStoreWriteError, Fail, Forget, CallRead, LockShared, ReadTurn, ReturnRead,
           AbandonRead, GoTo, writer, TypeInv, TypeOK, Before
      <4> QED  BY <2>2, <4>1, <4>2 DEF NothingYet
    <3> QED  BY <3>1, <3>2, <3>3, <3>4
  <2> QED  BY <2>1, <2>2
<1> QED  BY <1>1, <1>2 DEF Next, NothingYet

(* Steps between a call and its end keep the call's records as they are.   *)
LEMMA CallKept ==
    ASSUME TypeInv, NEW p \in Proc, Step(p),
           ~Call(p), ~RaiseStoreError(p), ~Crash(p)
    PROVE  /\ batch' = batch /\ id' = id
           /\ ~ReadSequence(p) => first' = first
           /\ ~WriteRecord(p) => done' = done
           /\ ~CloseTurn(p) => landed' = landed
BY DEF Step, Proceed, LockExclusive, ReadSequence, Reserve, Encode, Open, CopyTail, CutTail,
       ShortWrite, WriteRecord, CloseTurn, RaiseStoreWriteError, Fail, CallRead, LockShared,
       ReadTurn, ReturnRead, AbandonRead, writer

LEMMA Begun ==
    ASSUME TypeInv, NEW p \in Proc, Call(p) \/ RaiseStoreError(p) \/ Crash(p)
    PROVE  done'[p] = 0 /\ landed'[p] = {}
BY DEF Call, RaiseStoreError, Crash, Forget, TypeInv, TypeOK

LEMMA DoneOnDiskNext ==
    ASSUME TypeInv, TailInv, DoneOnDisk, [Next]_vars
    PROVE  DoneOnDisk'
<1>0. done \in [Proc -> Nat] /\ first \in [Proc -> Nat]
    BY DEF TypeInv, TypeOK
<1>1. CASE UNCHANGED vars \/ LoseCounter
    BY <1>1 DEF vars, disk, writer, LoseCounter, DoneOnDisk, OwnRec, Stock
<1>2. ASSUME NEW p \in Proc, Step(p), NEW q \in Proc, NEW i \in 1..done'[q]
      PROVE  OwnRec(q, i)' \in Stock'
  <2>1. CASE q # p
    <3>1. OwnRec(q, i)' = OwnRec(q, i) /\ done'[q] = done[q]
        BY <1>2, <2>1, OthersKept DEF OwnRec
    <3> QED  BY <1>2, <3>1, StockGrows DEF DoneOnDisk
  <2>2. CASE q = p
    <3>1. CASE Call(p) \/ RaiseStoreError(p) \/ Crash(p)
        BY <1>2, <2>2, <3>1, Begun
    <3>2. CASE ReadSequence(p)
      <4>1. done[p] = 0 /\ done' = done
        BY <3>2 DEF ReadSequence, TypeInv, DoneInv
      <4> QED  BY <1>2, <2>2, <4>1
    <3>3. CASE WriteRecord(p)
      <4>1. batch' = batch /\ id' = id /\ first' = first /\ done'[p] = done[p] + 1
        BY <1>0, <3>3 DEF WriteRecord
      <4>2. OwnRec(p, i)' = OwnRec(p, i)
        BY <4>1 DEF OwnRec
      <4>3. CASE i = done[p] + 1
        <5>1. OwnRec(p, i) = NextRec(p)
          <6>1. first[p] + (i - 1) = first[p] + done[p]
            BY <1>0, <4>3
          <6> QED  BY <4>3, <6>1 DEF OwnRec, NextRec, NextLine, NextTurn
        <5> QED  BY <2>2, <3>3, <4>2, <5>1, WriteAdds
      <4>4. CASE i # done[p] + 1
        <5>1. i \in 1..done[p]
            BY <1>0, <1>2, <2>2, <4>1, <4>4
        <5> QED  BY <1>2, <2>2, <4>2, <5>1, StockGrows DEF DoneOnDisk
      <4> QED  BY <4>3, <4>4
    <3>4. CASE ~(\/ Call(p) \/ RaiseStoreError(p) \/ Crash(p) \/ ReadSequence(p)
                 \/ WriteRecord(p))
      <4>1. batch' = batch /\ id' = id /\ first' = first /\ done' = done
        BY <1>2, <3>4, CallKept
      <4>2. OwnRec(p, i)' = OwnRec(p, i)
        BY <4>1 DEF OwnRec
      <4> QED  BY <1>2, <2>2, <4>1, <4>2, StockGrows DEF DoneOnDisk
    <3> QED  BY <3>1, <3>2, <3>3, <3>4
  <2> QED  BY <2>1, <2>2
<1> QED  BY <1>1, <1>2 DEF Next, DoneOnDisk

LEMMA ContiguousNext ==
    ASSUME TypeInv, Contiguous, [Next]_vars
    PROVE  Contiguous'
<1>1. CASE UNCHANGED vars \/ LoseCounter
    BY <1>1 DEF vars, writer, LoseCounter, Contiguous
<1>2. ASSUME NEW p \in Proc, Step(p), NEW q \in Proc
      PROVE  Grouped(batch'[q])
  <2>1. CASE batch'[q] = batch[q]
    BY <2>1 DEF Contiguous
  <2>2. CASE q = p /\ Call(p)
    <3>1. PICK b \in Inputs : \E g \in [DOMAIN b -> Turn] :
              IsGrouped(b, g) /\ batch' = [batch EXCEPT ![p] = g]
        BY <2>2 DEF Call
    <3>2. PICK g \in [DOMAIN b -> Turn] :
              IsGrouped(b, g) /\ batch' = [batch EXCEPT ![p] = g]
        BY <3>1
    <3>3. b \in Seq(Turn) /\ g \in Seq(Turn) /\ batch'[p] = g
        BY <3>2, InputsAssumption DEF TypeInv, TypeOK
    <3>4. Grouped(g)
        BY <3>2, <3>3, GroupedIsContiguous DEF Grouped
    <3> QED  BY <2>2, <3>3, <3>4
  <2>3. CASE q = p /\ (RaiseStoreError(p) \/ Crash(p))
    <3>1. batch'[p] = <<>>
        BY <2>3 DEF RaiseStoreError, Crash, Forget, TypeInv, TypeOK
    <3>2. DOMAIN batch'[p] = {}
        BY <3>1
    <3> QED  BY <2>3, <3>2 DEF Grouped
  <2> QED
    BY <1>2, <2>1, <2>2, <2>3, OthersKept, CallKept
<1> QED  BY <1>1, <1>2 DEF Next, Contiguous

LEMMA LandedInvNext ==
    ASSUME TypeInv, Contiguous, LandedInv, [Next]_vars
    PROVE  LandedInv'
<1>0. done \in [Proc -> Nat] /\ batch \in [Proc -> Seq(Turn)] /\ pc \in [Proc -> Labels]
      /\ landed \in [Proc -> SUBSET Turn]
    BY DEF TypeInv, TypeOK
<1>1. CASE UNCHANGED vars \/ LoseCounter
    BY <1>1 DEF vars, writer, LoseCounter, LandedInv
<1> DEFINE Landed(q) ==
       /\ \A i \in DOMAIN batch[q] : batch[q][i] \in landed[q] => i <= done[q]
       /\ pc[q] = "close" /\ done[q] < Len(batch[q]) =>
             batch[q][done[q] + 1] # batch[q][done[q]]
<1>2. ASSUME NEW p \in Proc, Step(p), NEW q \in Proc
      PROVE  Landed(q)'
  <2>0. Landed(q)
    BY DEF LandedInv
  <2>1. CASE q # p
    BY <1>2, <2>0, <2>1, OthersKept
  <2>2. CASE q = p
    <3>1. CASE Call(p) \/ RaiseStoreError(p) \/ Crash(p)
      <4>1. pc'[p] # "close"
        BY <1>0, <3>1 DEF Call, RaiseStoreError, Crash, Fail, Leave, GoTo
      <4> QED  BY <2>2, <3>1, <4>1, Begun
    <3>2. CASE WriteRecord(p)
      <4>1. /\ batch' = batch /\ landed' = landed /\ done'[p] = done[p] + 1
            /\ pc'[p] = IF done[p] + 1 < Len(batch[p])
                            /\ batch[p][done[p] + 2] = batch[p][done[p] + 1]
                        THEN "write" ELSE "close"
        BY <1>0, <3>2 DEF WriteRecord, GoTo, NextTurn
      <4>2. \A i \in DOMAIN batch[p] : batch[p][i] \in landed[p] => i <= done[p] + 1
        BY <1>0, <2>0, <2>2
      <4>3. pc'[p] = "close" /\ done[p] + 1 < Len(batch[p]) =>
                batch[p][(done[p] + 1) + 1] # batch[p][done[p] + 1]
        BY <1>0, <4>1
      <4> QED  BY <2>2, <4>1, <4>2, <4>3
    <3>3. CASE CloseTurn(p)
      <4> DEFINE b == batch[p]
                 d == done[p]
      <4>1. /\ batch' = batch /\ done' = done /\ landed'[p] = landed[p] \cup {b[d]}
            /\ pc[p] = "close" /\ pc'[p] # "close"
        BY <1>0, <3>3 DEF CloseTurn, Leave, GoTo
      <4>2. d \in 1..Len(b) /\ b \in Seq(Turn)
        BY <1>0, <4>1 DEF TypeInv, DoneInv
      <4>3. ASSUME NEW i \in DOMAIN b, b[i] = b[d], ~(i <= d)  PROVE FALSE
        <5>1. d \in DOMAIN b /\ d + 1 \in DOMAIN b /\ d < d + 1 /\ i \in Nat /\ d < Len(b)
            BY <4>2, <4>3
        <5>2. b[d + 1] # b[d]
            BY <2>0, <2>2, <4>1, <5>1
        <5>3. d + 1 < i
            BY <4>3, <5>1, <5>2
        <5> QED  BY <4>3, <5>1, <5>2, <5>3 DEF Contiguous, Grouped
      <4>4. \A i \in DOMAIN b : b[i] \in landed'[p] => i <= d
        BY <2>0, <2>2, <4>1, <4>3
      <4> QED  BY <2>2, <4>1, <4>4
    <3>4. CASE ~(\/ Call(p) \/ RaiseStoreError(p) \/ Crash(p) \/ WriteRecord(p)
                 \/ CloseTurn(p))
      <4>1. batch' = batch /\ done' = done /\ landed' = landed
        BY <1>2, <3>4, CallKept
      <4>2. pc'[p] # "close"
        BY <1>0, <1>2, <3>4 DEF Step, Proceed, LockExclusive, ReadSequence, Reserve, Encode,
           Open, CopyTail, CutTail, ShortWrite, RaiseStoreWriteError, Fail, Leave, CallRead,
           LockShared, ReadTurn, ReturnRead, AbandonRead, GoTo
      <4> QED  BY <2>0, <2>2, <4>1, <4>2
    <3> QED  BY <3>1, <3>2, <3>3, <3>4
  <2> QED  BY <2>1, <2>2
<1> QED  BY <1>1, <1>2 DEF Next, LandedInv

LEMMA AnswerInvNext ==
    ASSUME TypeInv, AnswerInv, [Next]_vars
    PROVE  AnswerInv'
<1>0. /\ done \in [Proc -> Nat] /\ batch \in [Proc -> Seq(Turn)] /\ pc \in [Proc -> Labels]
      /\ DOMAIN outcome = Proc
    BY DEF TypeInv, TypeOK
<1>1. CASE UNCHANGED vars \/ LoseCounter
    BY <1>1 DEF vars, writer, LoseCounter, AnswerInv
<1> DEFINE Answer(q) ==
       /\ pc[q] \in Appending => outcome[q] = "pending"
       /\ outcome[q] = "ok" => done[q] >= Len(batch[q])
<1>2. ASSUME NEW p \in Proc, Step(p), NEW q \in Proc
      PROVE  Answer(q)'
  <2>0. Answer(q)
    BY DEF AnswerInv
  <2>1. CASE q # p
    BY <1>2, <2>0, <2>1, OthersKept
  <2>2. CASE q = p
    <3>1. CASE Call(p)
      <4>1. \E b \in Inputs : \E g \in [DOMAIN b -> Turn] :
                /\ batch'[p] = g
                /\ outcome'[p] = IF b = <<>> THEN "ok" ELSE "pending"
                /\ pc'[p] = IF b = <<>> THEN "idle" ELSE "wantEx"
        BY <1>0, <3>1 DEF Call, GoTo
      <4>2. outcome'[p] = "ok" => Len(batch'[p]) = 0
        BY <4>1
      <4>3. pc'[p] \in Appending => outcome'[p] = "pending"
        BY <4>1 DEF Appending, Writing
      <4> QED  BY <2>2, <3>1, <4>2, <4>3, Begun
    <3>2. CASE RaiseStoreError(p) \/ RaiseStoreWriteError(p) \/ Crash(p)
      <4>1. pc'[p] = "idle" /\ outcome'[p] \in {"none", "StoreError", "StoreWriteError"}
        BY <1>0, <3>2 DEF RaiseStoreError, RaiseStoreWriteError, Crash, Fail, Leave, GoTo
      <4> QED  BY <2>2, <4>1 DEF Appending, Writing
    <3>3. CASE CloseTurn(p)
      <4>1. done[p] \in 1..Len(batch[p]) /\ batch' = batch /\ done' = done
        BY <3>3 DEF CloseTurn, TypeInv, DoneInv
      <4>2. CASE done[p] < Len(batch[p])
        BY <1>0, <2>0, <2>2, <3>3, <4>1, <4>2 DEF CloseTurn, GoTo, Appending, Writing
      <4>3. CASE ~(done[p] < Len(batch[p]))
        <5>1. pc'[p] = "idle" /\ outcome'[p] = "ok" /\ done[p] = Len(batch[p])
            BY <1>0, <3>3, <4>1, <4>3 DEF CloseTurn, Leave, GoTo
        <5> QED  BY <1>0, <2>2, <4>1, <5>1 DEF Appending, Writing
      <4> QED  BY <4>2, <4>3
    <3>4. CASE WriteRecord(p)
      <4>1. pc[p] = "write" /\ outcome' = outcome
        BY <3>4 DEF WriteRecord
      <4> QED  BY <2>0, <2>2, <4>1 DEF Appending, Writing
    <3>5. CASE ~(\/ Call(p) \/ RaiseStoreError(p) \/ RaiseStoreWriteError(p) \/ Crash(p)
                 \/ CloseTurn(p) \/ WriteRecord(p))
      <4>1. batch' = batch /\ done' = done
        BY <1>2, <3>5, CallKept
      <4>2. outcome' = outcome
        BY <1>2, <3>5 DEF Step, Proceed, LockExclusive, ReadSequence, Reserve, Encode,
           Open, CopyTail, CutTail, ShortWrite, CallRead, LockShared, ReadTurn, ReturnRead,
           AbandonRead, writer
      <4>3. pc'[p] \in Appending => pc[p] \in Appending
        BY <1>2, <3>5, IdKept
      <4> QED  BY <2>0, <2>2, <4>1, <4>2, <4>3
    <3> QED  BY <3>1, <3>2, <3>3, <3>4, <3>5
  <2> QED  BY <2>1, <2>2
<1> QED  BY <1>1, <1>2 DEF Next, AnswerInv

(* append_many's answer is true afterwards: a return means every record is *)
(* on disk, a StoreError that none is, and each turn a StoreWriteError     *)
(* names is there in full, whoever writes or crashes meanwhile.            *)
THEOREM AnswersAreTrue == Spec => []OutcomeTruthful
<1>1. Init => AInv
  <2> SUFFICES ASSUME Init  PROVE AInv
    OBVIOUS
  <2>1. Stock = {} /\ IdInv /\ NothingYet /\ AnswerInv
    BY DEF Init, Stock, IdInv, NothingYet, AnswerInv, Appending, Writing
  <2>2. DoneOnDisk /\ Contiguous /\ LandedInv
    BY DEF Init, DoneOnDisk, Contiguous, Grouped, LandedInv
  <2> QED  BY <2>1, <2>2 DEF AInv
<1>2. IInv /\ AInv /\ [Next]_vars => AInv'
    BY IdInvNext, NothingYetNext, DoneOnDiskNext, ContiguousNext, LandedInvNext, AnswerInvNext
       DEF IInv, AInv
<1>3. IInv /\ AInv => OutcomeTruthful
  <2> SUFFICES ASSUME IInv, AInv, NEW p \in Proc
               PROVE  /\ outcome[p] = "ok" => \A i \in DOMAIN batch[p] : OwnRec(p, i) \in Stock
                      /\ outcome[p] = "StoreError" => Own(p) = {}
                      /\ outcome[p] = "StoreWriteError" =>
                            \A i \in DOMAIN batch[p] :
                               batch[p][i] \in landed[p] => OwnRec(p, i) \in Stock
    BY DEF OutcomeTruthful
  <2>0. batch[p] \in Seq(Turn) /\ done[p] \in Nat
    BY DEF IInv, TypeInv, TypeOK
  <2>1. \A i \in DOMAIN batch[p] : i <= done[p] => OwnRec(p, i) \in Stock
    BY <2>0 DEF AInv, DoneOnDisk
  <2>2. outcome[p] = "ok" => \A i \in DOMAIN batch[p] : i <= done[p]
    BY <2>0 DEF AInv, AnswerInv
  <2>3. outcome[p] = "StoreError" => Own(p) = {}
    BY DEF AInv, NothingYet, Own
  <2>4. \A i \in DOMAIN batch[p] : batch[p][i] \in landed[p] => i <= done[p]
    BY DEF AInv, LandedInv
  <2> QED  BY <2>1, <2>2, <2>3, <2>4
<1> QED
    BY <1>1, <1>2, <1>3, StoreInvariant, PTL DEF Spec
=============================================================================
