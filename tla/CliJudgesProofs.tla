--------------------------- MODULE CliJudgesProofs ---------------------------
(***************************************************************************)
(* What the panel hears of its judges and what it makes of that, for every *)
(* roster, pair, family and transport.                                     *)
(*                                                                         *)
(* A call (IInv): the last attempt holds what the model said last, or an   *)
(* echo where it said no object (RawInv), and a call that has run out of   *)
(* time has an attempt that failed, which neither the adapter nor the      *)
(* panel asks again (TimeInv).                                             *)
(*                                                                         *)
(* A round (PanelInv): who is still to be asked built neither candidate    *)
(* and is not remembered with them from an earlier round (FairInv,         *)
(* FreshInv), and the votes that count are, family by family, what each    *)
(* family's first verdict meant of the pair as the caller named it         *)
(* (CountInv).                                                             *)
(***************************************************************************)
EXTENDS CliJudges, FiniteSetTheorems, TLAPS

Attempt == [rc : {"ok", "failed", "timeout", "unavailable"}, raw : Text \cup {"none", "echo"}]

CallInv ==
    /\ attempts \in Seq(Attempt)
    /\ word \in Text \cup {"none"}
    /\ at = "idle" => attempts = <<>>
    /\ at = "attempted" => attempts # <<>>

RawInv ==
    attempts # <<>> /\ LastAttempt.rc = "ok" /\ at \in {"attempted", "answered"} =>
       \/ LastAttempt.raw = word
       \/ LastAttempt.raw = "echo" /\ ~HoldsObject(word)

TimeInv ==
    overdue =>
       /\ at \in {"attempted", "answered"}
       /\ attempts # <<>>
       /\ LastAttempt.rc # "ok"

IInv == CallInv /\ RawInv /\ TimeInv

(* What an attempt that went well may hold.                                *)
Kept(rc, raw, said) ==
    /\ rc \in {"ok", "failed", "timeout", "unavailable"}
    /\ raw \in Text \cup {"none", "echo"}
    /\ said \in Text \cup {"none"}
    /\ rc = "ok" => raw = said \/ (raw = "echo" /\ ~HoldsObject(said))

LEMMA EchoIsNoObject == "echo" \notin Choice \cup Invalid
  BY RepliesAssumption DEF Choice

-----------------------------------------------------------------------------
(* One attempt                                                             *)

LEMMA AttemptStep ==
    ASSUME IInv, at \in {"invoke", "cli"},
           NEW rc, NEW raw, NEW said, Kept(rc, raw, said), Attempted(rc, raw, said)
    PROVE  IInv'
  <1>1. /\ attempts' = Append(attempts, [rc |-> rc, raw |-> raw])
        /\ at' = "attempted" /\ word' = said
        /\ overdue' = (overdue \/ rc = "timeout")
    BY DEF Attempted
  <1>2. /\ attempts' \in Seq(Attempt)
        /\ attempts' # <<>>
        /\ LastAttempt' = [rc |-> rc, raw |-> raw]
    BY <1>1 DEF IInv, CallInv, LastAttempt, Kept, Attempt
  <1>3. CallInv'
    BY <1>1, <1>2 DEF CallInv, Kept
  <1>4. RawInv'
    BY <1>1, <1>2 DEF RawInv, Kept, HoldsObject
  <1>5. TimeInv'
    <2>1. ~overdue
      BY DEF IInv, TimeInv
    <2> QED
      BY <1>1, <1>2, <2>1 DEF TimeInv
  <1> QED
    BY <1>3, <1>4, <1>5 DEF IInv

(* A process that failed leaves an attempt that did.                       *)
LEMMA FailingStep ==
    ASSUME IInv, at \in {"invoke", "cli"}, ProcessFails
    PROVE  IInv'
  <1>1. \A rc \in {"unavailable", "timeout", "failed"}, said \in Text \cup {"none"} :
            Kept(rc, "none", said)
    BY DEF Kept
  <1> QED
    BY <1>1, AttemptStep DEF ProcessFails

(* A reply that is taken as the model gave it.                             *)
LEMMA ReplyStep ==
    ASSUME IInv, at \in {"invoke", "cli"}, NEW said \in Text, Attempted("ok", said, said)
    PROVE  IInv'
  <1>1. Kept("ok", said, said)
    BY DEF Kept
  <1> QED
    BY <1>1, AttemptStep

LEMMA CodexStep ==
    ASSUME IInv, CodexReplies
    PROVE  IInv'
  <1>1. at \in {"invoke", "cli"}
    BY DEF CodexReplies, Running
  <1>2. CASE ProcessFails
    BY <1>1, <1>2, FailingStep
  <1>3. CASE \E said \in Text : Attempted("ok", said, said)
    BY <1>1, <1>3, ReplyStep
  <1>4. ASSUME NEW said \in Text \cup {"none"}, Attempted("ok", LastSpan(said), said)
        PROVE  IInv'
    <2>1. Kept("ok", LastSpan(said), said)
      BY DEF Kept, LastSpan, HoldsObject, Text
    <2> QED
      BY <1>1, <1>4, <2>1, AttemptStep
  <1>5. ASSUME NEW said \in Text \cup {"none"}, Attempted("failed", "none", said)
        PROVE  IInv'
    <2>1. Kept("failed", "none", said)
      BY DEF Kept
    <2> QED
      BY <1>1, <1>5, <2>1, AttemptStep
  <1> QED
    BY <1>2, <1>3, <1>4, <1>5 DEF CodexReplies

LEMMA BridgeStep ==
    ASSUME IInv, BridgeReplies
    PROVE  IInv'
  <1>1. at = "invoke"
    BY DEF BridgeReplies, Running
  <1>2. ASSUME NEW why \in FallsBack,
               at' = "cli", overdue' = (overdue \/ why = "timeout"),
               UNCHANGED <<attempts, word>>
        PROVE  IInv'
    <2>1. ~overdue'
      BY <1>1, <1>2 DEF IInv, TimeInv, FallsBack
    <2> QED
      BY <1>1, <1>2, <2>1 DEF IInv, CallInv, RawInv, TimeInv
  <1>3. ASSUME NEW why \in {"noToken", "unreachable", "rejected", "timeout"} \ FallsBack,
               Attempted(why, "none", "none")
        PROVE  IInv'
    <2>1. Kept(why, "none", "none")
      BY <1>3 DEF Kept, FallsBack
    <2> QED
      BY <1>1, <1>3, <2>1, AttemptStep
  <1>4. ASSUME NEW said \in Text \cup {"none"}, Attempted("failed", "none", said)
        PROVE  IInv'
    <2>1. Kept("failed", "none", said)
      BY DEF Kept
    <2> QED
      BY <1>1, <1>4, <2>1, AttemptStep
  <1>5. CASE \E said \in Text : Attempted("ok", said, said)
    BY <1>1, <1>5, ReplyStep
  <1> QED
    BY <1>2, <1>3, <1>4, <1>5 DEF BridgeReplies

-----------------------------------------------------------------------------
(* The call around its attempts, and the panel around its calls            *)

LEMMA CallStep ==
    ASSUME IInv, CallJudge \/ ParseAttempt
    PROVE  IInv'
  <1>1. CASE CallJudge
    BY <1>1 DEF IInv, CallInv, RawInv, TimeInv, CallJudge
  <1>2. CASE ParseAttempt
    <2>1. /\ at = "attempted" /\ UNCHANGED <<attempts, word, overdue>>
          /\ at' = IF ShouldReask THEN "invoke" ELSE "answered"
      BY <1>2 DEF ParseAttempt
    <2>2. overdue => ~ShouldReask
      BY DEF IInv, TimeInv, ShouldReask
    <2> QED
      BY <2>1, <2>2 DEF IInv, CallInv, RawInv, TimeInv, LastAttempt
  <1> QED
    BY <1>1, <1>2

(* A call that ran out of time has failed, and the panel takes the next.   *)
LEMMA AnswerStep ==
    ASSUME IInv, Answer
    PROVE  IInv'
  <1>1. /\ at = "answered" /\ at' = "idle" /\ attempts' = <<>> /\ word' = "none"
        /\ overdue' = (overdue /\ retry')
    BY DEF Answer
  <1>2. ~overdue'
    <2>1. SUFFICES ASSUME overdue PROVE ~retry'
      BY <1>1
    <2>2. Response = "failed"
      BY <2>1 DEF IInv, TimeInv, Response
    <2>3. Reject(Response)
      BY <2>2 DEF Answer, Cast, Reask, HoldsUp, Choice
    <2> QED
      BY <2>3 DEF Reject, NextJudge
  <1> QED
    BY <1>1, <1>2 DEF IInv, CallInv, RawInv, TimeInv

LEMMA StepInvariant ==
    ASSUME IInv, [JNext]_jvars
    PROVE  IInv'
  <1>1. CASE UNCHANGED call
    BY <1>1 DEF call, IInv, CallInv, RawInv, TimeInv, LastAttempt
  <1>2. CASE CallJudge \/ ParseAttempt
    BY <1>2, CallStep
  <1>3. CASE ClaudeReplies
    BY <1>3, FailingStep, ReplyStep DEF ClaudeReplies, Running
  <1>4. CASE AgyReplies
    BY <1>4, FailingStep, ReplyStep DEF AgyReplies
  <1>5. CASE Answer
    BY <1>5, AnswerStep
  <1> QED
    BY <1>1, <1>2, <1>3, <1>4, <1>5, CodexStep, BridgeStep DEF JNext, Between, jvars, call

-----------------------------------------------------------------------------
(* The theorems                                                            *)

(* The inductive invariant holds of every reachable state of a panel and   *)
(* its judges (_CliJudge.judge).                                           *)
THEOREM CallInvariant == JSpec => []IInv
  <1>1. JInit => IInv
    BY DEF JInit, IInv, CallInv, RawInv, TimeInv
  <1> QED
    BY <1>1, StepInvariant, PTL DEF JSpec

(* The vote the panel hears is the last thing the model said, whichever    *)
(* transport and however often it was asked (judge, _invoke).              *)
THEOREM VotesAreLastWords == JSpec => []VoteIsLastWord
  <1>1. IInv => VoteIsLastWord
    <2>1. SUFFICES ASSUME IInv, at = "answered"
                   PROVE  /\ Response \in Choice => Response = word
                          /\ attempts # <<>> /\ LastAttempt.rc = "ok" /\ HoldsObject(word)
                                => Response = word
      BY DEF VoteIsLastWord
    <2>2. "failed" \notin Choice /\ "broken" \notin Choice
      BY DEF Choice
    <2>3. CASE attempts = <<>> \/ LastAttempt.rc # "ok"
      BY <2>2, <2>3 DEF Response
    <2>4. CASE attempts # <<>> /\ LastAttempt.rc = "ok" /\ LastAttempt.raw = word
      <3>1. Response = IF word \in Choice \cup Invalid THEN word ELSE "broken"
        BY <2>4 DEF Response
      <3>2. HoldsObject(word) => word \in Choice \cup Invalid \/ word = "echo"
        BY DEF HoldsObject
      <3>3. word # "echo"
        BY <2>1, EchoIsNoObject DEF IInv, CallInv, Text
      <3> QED
        BY <2>2, <3>1, <3>2, <3>3
    <2>5. CASE attempts # <<>> /\ LastAttempt.rc = "ok" /\ LastAttempt.raw = "echo"
               /\ ~HoldsObject(word)
      BY <2>2, <2>5, EchoIsNoObject DEF Response
    <2> QED
      BY <2>1, <2>3, <2>4, <2>5 DEF IInv, RawInv
  <1> QED
    BY <1>1, CallInvariant, PTL

(* Nothing is sent to a judge after a call of its turn ran out of time     *)
(* (GeminiJudge, _should_reask, _ask).                                     *)
THEOREM TimeoutsAreFinal == JSpec => []TimeoutIsFinal
  <1>1. IInv => TimeoutIsFinal
    BY DEF IInv, TimeInv, TimeoutIsFinal
  <1> QED
    BY <1>1, CallInvariant, PTL

-----------------------------------------------------------------------------
(* Who is on a panel                                                       *)

(* A comprehension over a list keeps some of its members, all of which are *)
(* among those wanted: counting up to a place tells the places apart.      *)
LEMMA AmongAre ==
    ASSUME NEW judges \in Seq(Family), NEW kept
    PROVE  /\ Among(judges, kept) \in Seq(Family)
           /\ Len(Among(judges, kept)) <= Len(judges)
           /\ \A n \in DOMAIN Among(judges, kept) :
                 /\ Among(judges, kept)[n] \in kept
                 /\ \E i \in DOMAIN judges : Among(judges, kept)[n] = judges[i]
  <1>1. DOMAIN judges = 1..Len(judges) /\ Len(judges) \in Nat
    OBVIOUS
  <1>2. \A n \in Nat : IsFiniteSet(1..n) /\ Cardinality(1..n) = n
    BY FS_Interval
  <1> DEFINE places == {i \in DOMAIN judges : judges[i] \in kept}
             upTo(i) == {j \in places : j <= i}
             size == Cardinality(places)
             count == [i \in places |-> Cardinality(upTo(i))]
             counts == {count[i] : i \in places}
  <1>3. /\ IsFiniteSet(1..Len(judges)) /\ Cardinality(1..Len(judges)) = Len(judges)
        /\ places \in SUBSET (1..Len(judges)) /\ \A i \in places : i \in Nat
    <2>1. IsFiniteSet(1..Len(judges)) /\ Cardinality(1..Len(judges)) = Len(judges)
      BY <1>1, <1>2
    <2>2. places \in SUBSET (1..Len(judges))
      BY <1>1
    <2> HIDE DEF places
    <2> QED
      BY <2>1, <2>2
  <1>4. IsFiniteSet(places) /\ size \in Nat /\ size <= Len(judges)
    BY <1>1, <1>3, FS_Subset, FS_CardinalityType
  <1> HIDE DEF places, size
  <1>5. \A i \in places : \A k : k \in upTo(i) <=> k \in places /\ k <= i
    OBVIOUS
  <1> HIDE DEF upTo
  <1>6. ASSUME NEW i \in places
        PROVE  /\ IsFiniteSet(upTo(i)) /\ Cardinality(upTo(i)) \in 1..size
    <2>1. upTo(i) \in SUBSET places /\ i \in upTo(i)
      BY <1>3, <1>5
    <2>2. IsFiniteSet(upTo(i)) /\ Cardinality(upTo(i)) \in Nat /\ Cardinality(upTo(i)) <= size
      BY <1>4, <2>1, FS_Subset, FS_CardinalityType DEF size
    <2>3. Cardinality(upTo(i)) # 0
      BY <2>1, <2>2, FS_EmptySet
    <2> QED
      BY <1>4, <2>2, <2>3
  <1>7. ASSUME NEW i \in places, NEW j \in places, i < j
        PROVE  Cardinality(upTo(i)) < Cardinality(upTo(j))
    <2>1. i \in Nat /\ j \in Nat /\ \A k \in places : k \in Nat
      BY <1>3
    <2>2. j \in upTo(j) /\ j \notin upTo(i)
      BY <1>7, <1>5, <2>1
    <2>3. ASSUME NEW k \in upTo(i) PROVE k \in upTo(j)
      <3>1. k \in places /\ k <= i
        BY <1>5, <2>3
      <3>2. k <= j
        BY <1>7, <2>1, <3>1
      <3> QED
        BY <1>5, <3>1, <3>2
    <2>4. upTo(i) \in SUBSET upTo(j)
      BY <2>3
    <2>5. IsFiniteSet(upTo(j)) /\ Cardinality(upTo(j)) \in Nat /\ Cardinality(upTo(i)) \in Nat
      BY <1>4, <1>6
    <2>6. Cardinality(upTo(i)) <= Cardinality(upTo(j)) /\ Cardinality(upTo(i)) # Cardinality(upTo(j))
      BY <2>2, <2>5, <2>4, FS_Subset
    <2> QED
      BY <2>5, <2>6
  <1>8. \A i, j \in places : count[i] = count[j] => i = j
    BY <1>3, <1>4, <1>6, <1>7
  <1>9. count \in Bijection(places, counts) /\ counts \in SUBSET (1..size)
    BY <1>6, <1>8 DEF Bijection, Injection, Surjection, IsInjective
  <1> HIDE DEF count, counts
  <1>10. Cardinality(counts) = size
    BY <1>4, <1>9, FS_Bijection DEF ExistsBijection, size
  <1>11. counts = 1..size
    <2>1. IsFiniteSet(1..size) /\ Cardinality(1..size) = size
      BY <1>4, <1>2
    <2> QED
      BY <1>9, <1>10, <2>1, FS_Subset
  <1>12. \A n \in 1..size : \E i \in places : Cardinality(upTo(i)) = n
    BY <1>11 DEF counts, count
  <1> DEFINE nth(n) == CHOOSE i \in places : Cardinality(upTo(i)) = n
  <1>13. \A n \in 1..size : nth(n) \in places
    BY <1>12
  <1>14. Among(judges, kept) = [n \in 1..size |-> judges[nth(n)]]
    BY DEF Among, places, size, upTo
  <1> HIDE DEF nth
  <1>15. \A i \in places : i \in DOMAIN judges /\ judges[i] \in kept /\ judges[i] \in Family
    BY DEF places
  <1>16. \A n \in 1..size : nth(n) \in DOMAIN judges /\ judges[nth(n)] \in kept /\ judges[nth(n)] \in Family
    BY <1>13, <1>15
  <1>17. Among(judges, kept) \in Seq(Family) /\ Len(Among(judges, kept)) = size
    BY <1>4, <1>14, <1>16
  <1> QED
    BY <1>4, <1>14, <1>16, <1>17

LEMMA RotatedAre ==
    ASSUME NEW judges \in Seq(Family), NEW offset \in 0..(IF judges = <<>> THEN 0 ELSE Len(judges) - 1)
    PROVE  /\ Rotated(judges, offset) \in Seq(Family)
           /\ \A n \in DOMAIN Rotated(judges, offset) :
                 \E i \in DOMAIN judges : Rotated(judges, offset)[n] = judges[i]
  <1> DEFINE back == SubSeq(judges, offset + 1, Len(judges))
             front == SubSeq(judges, 1, offset)
  <1>1. Len(judges) \in Nat /\ offset \in Nat /\ offset <= Len(judges)
    OBVIOUS
  <1>2. /\ back \in Seq(Family) /\ front \in Seq(Family)
        /\ \A n \in DOMAIN back : n + offset \in DOMAIN judges /\ back[n] = judges[n + offset]
        /\ \A n \in DOMAIN front : n \in DOMAIN judges /\ front[n] = judges[n]
    <2>1. back \in Seq(Family) /\ Len(back) = Len(judges) - offset
      BY <1>1
    <2>2. front \in Seq(Family) /\ Len(front) = offset
      BY <1>1
    <2>3. \A n \in 1..(Len(judges) - offset) : back[n] = judges[n + offset]
      BY <1>1
    <2>4. \A n \in 1..offset : front[n] = judges[n]
      BY <1>1
    <2>5. /\ DOMAIN back = 1..(Len(judges) - offset) /\ DOMAIN front = 1..offset
          /\ DOMAIN judges = 1..Len(judges)
      BY <2>1, <2>2
    <2> HIDE DEF back, front
    <2> QED
      BY <1>1, <2>1, <2>2, <2>3, <2>4, <2>5
  <1> HIDE DEF back, front
  <1>3. /\ back \o front \in Seq(Family)
        /\ \A n \in DOMAIN (back \o front) :
              \/ n \in DOMAIN back /\ (back \o front)[n] = back[n]
              \/ n - Len(back) \in DOMAIN front /\ (back \o front)[n] = front[n - Len(back)]
    <2>1. /\ back \o front \in Seq(Family) /\ Len(back) \in Nat /\ Len(front) \in Nat
          /\ Len(back \o front) = Len(back) + Len(front)
      BY <1>2
    <2>2. /\ DOMAIN back = 1..Len(back) /\ DOMAIN front = 1..Len(front)
          /\ DOMAIN (back \o front) = 1..(Len(back) + Len(front))
      BY <1>2, <2>1
    <2>3. ASSUME NEW n \in 1..(Len(back) + Len(front)), n <= Len(back)
          PROVE  n \in 1..Len(back) /\ (back \o front)[n] = back[n]
      BY <1>2, <2>1, <2>3
    <2>4. ASSUME NEW n \in 1..(Len(back) + Len(front)), ~(n <= Len(back))
          PROVE  /\ n - Len(back) \in 1..Len(front)
                 /\ (back \o front)[n] = front[n - Len(back)]
      BY <1>2, <2>1, <2>4
    <2> QED
      BY <2>1, <2>2, <2>3, <2>4
  <1>4. Rotated(judges, offset) = back \o front
    BY DEF Rotated, back, front
  <1> QED
    BY <1>2, <1>3, <1>4

LEMMA TruncatedAre ==
    ASSUME NEW judges \in Seq(Family)
    PROVE  /\ Truncated(judges) \in Seq(Family) /\ Len(Truncated(judges)) <= PanelSize
           /\ \A n \in DOMAIN Truncated(judges) :
                 \E i \in DOMAIN judges : Truncated(judges)[n] = judges[i]
  <1>1. PanelSize \in Nat
    BY PanelAssumption
  <1>2. CASE Len(judges) > PanelSize
    <2>1. /\ SubSeq(judges, 1, PanelSize) \in Seq(Family)
          /\ Len(SubSeq(judges, 1, PanelSize)) = PanelSize
          /\ \A n \in DOMAIN SubSeq(judges, 1, PanelSize) :
                n \in DOMAIN judges /\ SubSeq(judges, 1, PanelSize)[n] = judges[n]
      BY <1>1, <1>2
    <2> QED
      BY <1>1, <1>2, <2>1 DEF Truncated
  <1>3. CASE ~(Len(judges) > PanelSize)
    BY <1>1, <1>3 DEF Truncated
  <1> QED
    BY <1>2, <1>3

(* A panel for two candidates has no family behind either, and none that   *)
(* the rotation remembers with them.                                       *)
LEMMA PanelIs ==
    ASSUME NEW a, NEW b,
           NEW offset \in 0..(IF Eligible(a, b) = <<>> THEN 0 ELSE Len(Eligible(a, b)) - 1)
    PROVE  LET judges == Truncated(Unseen(Rotated(Eligible(a, b), offset), a, b))
           IN  /\ judges \in Seq(Family) /\ Len(judges) <= PanelSize
               /\ \A n \in DOMAIN judges :
                     /\ judges[n] \notin {BuilderOf[a], BuilderOf[b]}
                     /\ <<judges[n], PairKey(a, b)>> \notin history
  <1> DEFINE able == Eligible(a, b)
             turned == Rotated(able, offset)
             new == {f \in Family : <<f, PairKey(a, b)>> \notin history}
             fresh == Unseen(turned, a, b)
  <1>1. /\ able \in Seq(Family)
        /\ \A n \in DOMAIN able : able[n] \notin {BuilderOf[a], BuilderOf[b]}
    BY RosterAssumption, AmongAre DEF Eligible
  <1>2. /\ turned \in Seq(Family)
        /\ \A n \in DOMAIN turned : \E i \in DOMAIN able : turned[n] = able[i]
    BY <1>1, RotatedAre
  <1> HIDE DEF able, turned
  <1>3. /\ fresh \in Seq(Family)
        /\ \A n \in DOMAIN fresh :
              /\ <<fresh[n], PairKey(a, b)>> \notin history
              /\ \E i \in DOMAIN turned : fresh[n] = turned[i]
    <2>1. fresh = Among(turned, new)
      BY DEF Unseen
    <2>2. \A f \in new : <<f, PairKey(a, b)>> \notin history
      OBVIOUS
    <2> HIDE DEF new
    <2> QED
      BY <1>2, <2>1, <2>2, AmongAre
  <1> HIDE DEF fresh
  <1>4. /\ Truncated(fresh) \in Seq(Family) /\ Len(Truncated(fresh)) <= PanelSize
        /\ \A n \in DOMAIN Truncated(fresh) : \E i \in DOMAIN fresh : Truncated(fresh)[n] = fresh[i]
    BY <1>3, TruncatedAre
  <1>5. \A n \in DOMAIN fresh : fresh[n] \notin {BuilderOf[a], BuilderOf[b]}
    <2>1. \A n \in DOMAIN turned : turned[n] \notin {BuilderOf[a], BuilderOf[b]}
      BY <1>1, <1>2
    <2> QED
      BY <1>3, <2>1
  <1>6. Truncated(fresh) = Truncated(Unseen(Rotated(Eligible(a, b), offset), a, b))
    BY DEF fresh, turned, able
  <1> QED
    BY <1>3, <1>4, <1>5, <1>6

-----------------------------------------------------------------------------
(* Counting the votes                                                      *)

LEMMA MajorityWins ==
    ASSUME NEW cast, IsFiniteSet(Deduped(cast))
    PROVE  /\ PanelOutcome(cast) \in {"A", "B", "escalate"}
           /\ \A c \in {"A", "B"} :
                 PanelOutcome(cast) = c <=>
                    /\ Cardinality(Deduped(cast)) >= 2
                    /\ 2 * Cardinality({v \in Deduped(cast) : v.winner = c})
                          > Cardinality(Deduped(cast))
  <1> DEFINE counted == Deduped(cast)
             size == Cardinality(counted)
             for(c) == {v \in counted : v.winner = c}
             leaders == {c \in Choice : Cardinality(for(c)) >= size \div 2 + 1}
  <1>1. PanelOutcome(cast) = IF size < MinPanelFamilies \/ leaders \subseteq {"tie"}
                             THEN "escalate" ELSE CHOOSE c \in leaders : TRUE
    BY DEF PanelOutcome
  <1>2. size \in Nat /\ \A c : for(c) \subseteq counted /\ Cardinality(for(c)) \in Nat
    BY FS_CardinalityType, FS_Subset
  <1>3. \A c, d : c # d => for(c) \cap for(d) = {}
    OBVIOUS
  <1> HIDE DEF counted, size, for
  <1>4. \A k \in Nat : k >= size \div 2 + 1 <=> 2 * k > size
    BY <1>2
  <1>5. \A c : c \in leaders <=> c \in Choice /\ 2 * Cardinality(for(c)) > size
    BY <1>2, <1>4
  <1>6. ASSUME NEW c \in leaders, NEW d \in leaders
        PROVE  c = d
    <2>1. 2 * Cardinality(for(c)) > size /\ 2 * Cardinality(for(d)) > size
      BY <1>5
    <2>2. Cardinality(for(c)) + Cardinality(for(d)) > size
      BY <1>2, <2>1
    <2>3. for(c) \cap for(d) # {}
      BY <1>2, <2>2, FS_MajoritiesIntersect DEF counted, size
    <2> QED
      BY <1>3, <2>3
  <1>7. \A c \in leaders : c \in {"A", "B", "tie"}
    BY DEF Choice
  <1> HIDE DEF leaders
  <1>8. CASE size < 2 \/ leaders \subseteq {"tie"}
    <2>1. PanelOutcome(cast) = "escalate"
      BY <1>1, <1>8 DEF MinPanelFamilies
    <2>2. ASSUME NEW c \in {"A", "B"}, size >= 2 PROVE ~(2 * Cardinality(for(c)) > size)
      BY <1>2, <1>5, <1>8, <2>2 DEF Choice
    <2> QED
      BY <2>1, <2>2 DEF counted, size, for
  <1>9. CASE ~(size < 2 \/ leaders \subseteq {"tie"})
    <2>1. PICK w \in leaders : w # "tie"
      BY <1>9
    <2>2. PanelOutcome(cast) = w
      BY <1>1, <1>6, <1>9, <2>1 DEF MinPanelFamilies
    <2>3. w \in {"A", "B"} /\ size >= 2
      BY <1>2, <1>7, <1>9, <2>1
    <2>4. \A c \in {"A", "B"} : w = c <=> 2 * Cardinality(for(c)) > size
      BY <1>5, <1>6, <2>1 DEF Choice
    <2> QED
      BY <2>2, <2>3, <2>4 DEF counted, size, for
  <1> QED
    BY <1>8, <1>9

(* A family's first vote counts.                                           *)
LEMMA DedupedGrows ==
    ASSUME NEW cast \in Seq([family : Family, winner : Choice]),
           NEW vote \in [family : Family, winner : Choice]
    PROVE  Deduped(Append(cast, vote)) =
              IF \E j \in DOMAIN cast : cast[j].family = vote.family
              THEN Deduped(cast) ELSE Deduped(cast) \cup {vote}
  <1> DEFINE more == Append(cast, vote)
             n == Len(cast)
             first(s, j) == \A k \in 1..(j - 1) : s[k].family # s[j].family
  <1>1. /\ n \in Nat /\ DOMAIN cast = 1..n /\ DOMAIN more = 1..(n + 1)
        /\ \A j \in 1..n : more[j] = cast[j]
        /\ more[n + 1] = vote
    OBVIOUS
  <1>2. /\ Deduped(more) = {more[i] : i \in {j \in 1..(n + 1) : first(more, j)}}
        /\ Deduped(cast) = {cast[i] : i \in {j \in 1..n : first(cast, j)}}
    BY <1>1 DEF Deduped
  <1> HIDE DEF more, n
  <1>3. \A j \in 1..n : first(more, j) <=> first(cast, j)
    BY <1>1
  <1>4. first(more, n + 1) <=> ~ \E j \in DOMAIN cast : cast[j].family = vote.family
    BY <1>1
  <1> HIDE DEF first
  <1>5. 1..(n + 1) = 1..n \cup {n + 1}
    BY <1>1
  <1> QED
    BY <1>1, <1>2, <1>3, <1>4, <1>5 DEF more

(* The first verdict that each family gave in a round.                     *)
Valid(replies) == {i \in DOMAIN replies : replies[i].said \in Choice}

Leads(replies, j) ==
    \A k \in Valid(replies) : replies[k].family = replies[j].family => j <= k

FirstVerdicts(replies) == {replies[i] : i \in {j \in Valid(replies) : Leads(replies, j)}}

Heard(replies, f) == \E i \in Valid(replies) : replies[i].family = f

Reply == [judge : 1..PanelSize, family : Family, shown : Candidate \X Candidate, said : Replies]

LEMMA VerdictsGrow ==
    ASSUME NEW replies \in Seq(Reply), NEW reply \in Reply
    PROVE  /\ FirstVerdicts(Append(replies, reply)) =
                 IF reply.said \in Choice /\ ~Heard(replies, reply.family)
                 THEN FirstVerdicts(replies) \cup {reply} ELSE FirstVerdicts(replies)
           /\ \A f : Heard(Append(replies, reply), f) <=>
                        Heard(replies, f) \/ (reply.said \in Choice /\ reply.family = f)
  <1> DEFINE more == Append(replies, reply)
             n == Len(replies)
  <1>1. /\ n \in Nat /\ DOMAIN replies = 1..n /\ DOMAIN more = 1..(n + 1)
        /\ \A j \in 1..n : more[j] = replies[j]
        /\ more[n + 1] = reply
    OBVIOUS
  <1> HIDE DEF more, n
  <1>2. /\ Valid(replies) \subseteq 1..n
        /\ Valid(more) = IF reply.said \in Choice THEN Valid(replies) \cup {n + 1} ELSE Valid(replies)
        /\ \A i \in Valid(replies) : more[i] = replies[i]
    BY <1>1 DEF Valid
  <1>3. \A f : Heard(more, f) <=> Heard(replies, f) \/ (reply.said \in Choice /\ reply.family = f)
    BY <1>1, <1>2 DEF Heard
  <1>4. \A j \in Valid(replies) : Leads(more, j) <=> Leads(replies, j)
    BY <1>1, <1>2 DEF Leads
  <1>5. reply.said \in Choice => (Leads(more, n + 1) <=> ~Heard(replies, reply.family))
    <2> SUFFICES ASSUME reply.said \in Choice
                 PROVE  Leads(more, n + 1) <=> ~Heard(replies, reply.family)
      OBVIOUS
    <2>1. \A k \in 1..n : ~(n + 1 <= k)
      BY <1>1
    <2> QED
      BY <1>1, <1>2, <2>1 DEF Leads, Heard
  <1>6. FirstVerdicts(more) = IF reply.said \in Choice /\ ~Heard(replies, reply.family)
                              THEN FirstVerdicts(replies) \cup {reply} ELSE FirstVerdicts(replies)
    <2> DEFINE leaders(s) == {j \in Valid(s) : Leads(s, j)}
    <2>1. leaders(more) = IF reply.said \in Choice /\ ~Heard(replies, reply.family)
                          THEN leaders(replies) \cup {n + 1} ELSE leaders(replies)
      BY <1>2, <1>4, <1>5
    <2>2. /\ FirstVerdicts(more) = {more[i] : i \in leaders(more)}
          /\ FirstVerdicts(replies) = {replies[i] : i \in leaders(replies)}
      BY DEF FirstVerdicts
    <2>3. \A i \in leaders(replies) : more[i] = replies[i]
      BY <1>2
    <2> HIDE DEF leaders
    <2>4. {more[i] : i \in leaders(replies)} = {replies[i] : i \in leaders(replies)}
      BY <2>3
    <2>5. CASE reply.said \in Choice /\ ~Heard(replies, reply.family)
      <3>1. leaders(more) = leaders(replies) \cup {n + 1}
        BY <2>1, <2>5
      <3>2. {more[i] : i \in leaders(more)} = {more[i] : i \in leaders(replies)} \cup {reply}
        BY <1>1, <3>1
      <3> QED
        BY <2>2, <2>4, <2>5, <3>2
    <2>6. CASE ~(reply.said \in Choice /\ ~Heard(replies, reply.family))
      BY <2>1, <2>2, <2>4, <2>6
    <2> QED
      BY <2>5, <2>6
  <1> QED
    BY <1>3, <1>6 DEF more

LEMMA VerdictsAre ==
    ASSUME NEW replies \in Seq(Reply)
    PROVE  /\ IsFiniteSet(FirstVerdicts(replies))
           /\ \A u, v \in FirstVerdicts(replies) : u.family = v.family => u = v
           /\ \A v \in FirstVerdicts(replies) :
                 v.said \in Choice /\ \E i \in DOMAIN replies : v = replies[i]
  <1> DEFINE leaders == {j \in Valid(replies) : Leads(replies, j)}
             f == [i \in leaders |-> replies[i]]
  <1>1. leaders \in SUBSET (1..Len(replies)) /\ Len(replies) \in Nat
    BY DEF Valid
  <1>2. IsFiniteSet(leaders)
    <2>1. IsFiniteSet(1..Len(replies))
      BY <1>1, FS_Interval
    <2> HIDE DEF leaders
    <2> QED
      BY <1>1, <2>1, FS_Subset
  <1>3. f \in Surjection(leaders, FirstVerdicts(replies))
    BY DEF Surjection, FirstVerdicts
  <1>4. ASSUME NEW i \in leaders, NEW j \in leaders, replies[i].family = replies[j].family
        PROVE  i = j
    <2>1. i <= j /\ j <= i
      BY <1>4 DEF Leads
    <2> QED
      BY <1>1, <2>1
  <1>5. \A i \in leaders : replies[i].said \in Choice /\ i \in DOMAIN replies
    BY DEF Valid
  <1>6. FirstVerdicts(replies) = {replies[i] : i \in leaders}
    BY DEF FirstVerdicts
  <1> HIDE DEF f, leaders
  <1> QED
    BY <1>2, <1>3, <1>4, <1>5, <1>6, FS_Surjection

-----------------------------------------------------------------------------
(* The invariant of the panel                                              *)

FairInv ==
    /\ NoSelfPreference
    /\ pc = "asking" => \A n \in DOMAIN panel : panel[n] \notin {BuilderOf[pair[1]], BuilderOf[pair[2]]}

(* Whom the rotation remembers was asked; who is still to be asked about   *)
(* this pair was not asked about it in an earlier round.                   *)
FreshInv ==
    /\ FreshEyes
    /\ \A x \in asked : <<x.family, x.candidates>> \in history
    /\ pc = "asking" =>
          \A n \in DOMAIN panel : \A x \in asked :
             x.family = panel[n] /\ x.candidates = PairKey(pair[1], pair[2]) => x.round = rounds

(* What a reply votes for, of the pair as the caller named it.             *)
Vote(v) ==
    [family |-> v.family,
     winner |-> IF Prefers(v, pair[1]) THEN "A" ELSE IF Prefers(v, pair[2]) THEN "B" ELSE "tie"]

(* The votes that count are what the families meant.                       *)
CountInv ==
    /\ Deduped(votes) = {Vote(v) : v \in FirstVerdicts(heard)}
    /\ \A f \in Family : (\E j \in DOMAIN votes : votes[j].family = f) <=> Heard(heard, f)
    /\ \A i \in DOMAIN heard : heard[i].shown \in {pair, <<pair[2], pair[1]>>}
    /\ heard # <<>> => pair \in Pairs
    /\ outcome # "none" => pair \in Pairs /\ outcome = PanelOutcome(votes)
    /\ pc = "asking" => outcome = "none"

PanelInv == TypeOK /\ FairInv /\ FreshInv /\ CountInv

LEMMA NobodyYet ==
    /\ Deduped(<<>>) = {} /\ FirstVerdicts(<<>>) = {}
    /\ \A f : ~Heard(<<>>, f)
    /\ DOMAIN <<>> = {} /\ \A S : <<>> \in Seq(S) /\ Len(<<>>) = 0
  BY DEF Deduped, FirstVerdicts, Heard, Valid

LEMMA PanelStarts ==
    ASSUME Init
    PROVE  PanelInv
  <1>1. TypeOK
    <2>1. /\ panel \in Seq(Family) /\ votes \in Seq([family : Family, winner : Choice])
          /\ heard \in Seq([judge : 1..PanelSize, family : Family, shown : Candidate \X Candidate,
                            said : Replies])
      BY NobodyYet DEF Init
    <2>2. Len(panel) <= PanelSize /\ DOMAIN panel = {}
      BY NobodyYet, PanelAssumption DEF Init
    <2>3. /\ pc \in {"idle", "asking", "BlindnessError", "StoreError"} /\ rounds \in 0..MaxRounds
          /\ pc # "asking" /\ outcome \in {"none", "A", "B", "escalate"}
      BY PanelAssumption DEF Init
    <2>4. pair \in Pairs \cup {<<>>} /\ retry \in BOOLEAN
      BY Zenon DEF Init
    <2>5. history = {} /\ asked = {}
      BY DEF Init
    <2> QED
      BY <2>1, <2>2, <2>3, <2>5, <2>4 DEF TypeOK
  <1>2. FairInv /\ FreshInv
    BY DEF Init, FairInv, FreshInv, NoSelfPreference, FreshEyes
  <1>3. CountInv
    BY NobodyYet DEF Init, CountInv
  <1> QED
    BY <1>1, <1>2, <1>3 DEF PanelInv

LEMMA BeginStep ==
    ASSUME PanelInv, BeginRound
    PROVE  PanelInv'
  <1>1. /\ pc = "idle" /\ pc' = "asking" /\ rounds < MaxRounds /\ rounds' = rounds + 1
        /\ retry' = FALSE /\ votes' = <<>> /\ outcome' = "none" /\ heard' = <<>>
        /\ UNCHANGED <<history, asked>>
        /\ pair' \in Pairs /\ flip' \in Flips(panel')
    BY DEF BeginRound
  <1>2. /\ panel' \in Seq(Family) /\ Len(panel') <= PanelSize
        /\ \A n \in DOMAIN panel' :
              /\ panel'[n] \notin {BuilderOf[pair'[1]], BuilderOf[pair'[2]]}
              /\ <<panel'[n], PairKey(pair'[1], pair'[2])>> \notin history
    BY PanelIs DEF BeginRound
  <1>3. TypeOK'
    <2>1. rounds' \in 0..MaxRounds /\ rounds' # 0 /\ 1..rounds \subseteq 1..rounds'
      BY <1>1, PanelAssumption DEF PanelInv, TypeOK
    <2>2. \A n \in DOMAIN panel' : flip'[panel'[n]] \in BOOLEAN
      BY <1>1 DEF Flips
    <2>3. asked' \subseteq [round : 1..rounds', family : Family,
                            candidates : {{p[1], p[2]} : p \in Pairs}]
      BY <1>1, <2>1 DEF PanelInv, TypeOK
    <2>4. history' \subseteq Family \X {{p[1], p[2]} : p \in Pairs}
      BY <1>1 DEF PanelInv, TypeOK
    <2> QED
      BY <1>1, <1>2, <2>1, <2>2, <2>3, <2>4, NobodyYet DEF TypeOK
  <1>4. FairInv'
    BY <1>1, <1>2 DEF PanelInv, FairInv, NoSelfPreference
  <1>5. FreshInv'
    <2>1. FreshEyes'
      BY <1>1 DEF PanelInv, FreshInv, FreshEyes
    <2>2. \A x \in asked : <<x.family, x.candidates>> \in history
      BY DEF PanelInv, FreshInv
    <2>3. \A n \in DOMAIN panel' : \A x \in asked :
             ~(x.family = panel'[n] /\ x.candidates = PairKey(pair'[1], pair'[2]))
      BY <1>2, <2>2
    <2> QED
      BY <1>1, <2>1, <2>2, <2>3 DEF FreshInv
  <1>6. CountInv'
    BY <1>1, NobodyYet DEF CountInv
  <1> QED
    BY <1>3, <1>4, <1>5, <1>6 DEF PanelInv

(* The panel after an answer: the same, or without its head.               *)
LEMMA RestOfPanel ==
    ASSUME panel \in Seq(Family), panel # <<>>, panel' = panel \/ panel' = Tail(panel)
    PROVE  /\ panel' \in Seq(Family) /\ Len(panel') <= Len(panel)
           /\ \A n \in DOMAIN panel' : \E i \in DOMAIN panel : panel'[n] = panel[i]
           /\ Head(panel) \in Family /\ \E i \in DOMAIN panel : Head(panel) = panel[i]
           /\ Len(panel) \in Nat \ {0}
  <1>1. Len(panel) \in Nat \ {0} /\ Head(panel) = panel[1] /\ 1 \in DOMAIN panel
    OBVIOUS
  <1>2. CASE panel' = panel
    BY <1>1, <1>2
  <1>3. CASE panel' = Tail(panel)
    <2>1. /\ panel' \in Seq(Family) /\ Len(panel') = Len(panel) - 1
          /\ \A n \in DOMAIN panel' : n + 1 \in DOMAIN panel /\ panel'[n] = panel[n + 1]
      BY <1>1, <1>3
    <2> QED
      BY <1>1, <2>1
  <1> QED
    BY <1>2, <1>3

(* Whoever is asked is remembered, and built neither candidate.            *)
LEMMA AskStep ==
    ASSUME PanelInv, NEW said \in Replies, Ask(said),
           panel' = panel \/ panel' = Tail(panel),
           pc' \in {"asking", "BlindnessError"}, retry' \in BOOLEAN,
           votes' \in Seq([family : Family, winner : Choice])
    PROVE  TypeOK' /\ FairInv' /\ FreshInv'
  <1> DEFINE f == Head(panel)
             shown == IF flip[f] THEN <<pair[2], pair[1]>> ELSE pair
             key == {pair[1], pair[2]}
             entry == [round |-> rounds, family |-> f, candidates |-> key]
             reply == [judge |-> Len(panel), family |-> f, shown |-> shown, said |-> said]
  <1>1. /\ pc = "asking" /\ panel # <<>>
        /\ history' = history \cup {<<f, key>>}
        /\ heard' = Append(heard, reply)
        /\ asked' = asked \cup {entry}
        /\ UNCHANGED <<rounds, pair, flip, outcome>>
        /\ PairKey(pair[1], pair[2]) = key
    BY DEF Ask, PairKey
  <1>2. /\ pair \in Pairs /\ rounds \in 1..MaxRounds /\ panel \in Seq(Family)
        /\ Len(panel) <= PanelSize
    BY <1>1, PanelAssumption DEF PanelInv, TypeOK
  <1>3. /\ panel' \in Seq(Family) /\ Len(panel') <= Len(panel)
        /\ \A n \in DOMAIN panel' : \E i \in DOMAIN panel : panel'[n] = panel[i]
        /\ f \in Family /\ \E i \in DOMAIN panel : f = panel[i]
        /\ Len(panel) \in Nat \ {0}
    BY <1>1, <1>2, RestOfPanel
  <1>4. pair \in Candidate \X Candidate /\ key \in {{p[1], p[2]} : p \in Pairs}
    BY <1>2, PairsAssumption
  <1>5. reply \in [judge : 1..PanelSize, family : Family, shown : Candidate \X Candidate, said : Replies]
    <2>1. shown \in Candidate \X Candidate
      BY <1>4
    <2>2. Len(panel) \in 1..PanelSize
      BY <1>2, <1>3, PanelAssumption
    <2> HIDE DEF shown
    <2> QED
      BY <1>3, <2>1, <2>2
  <1>6. \A c \in key : c = pair[1] \/ c = pair[2]
    OBVIOUS
  <1> HIDE DEF key
  <1>7. entry \in [round : 1..rounds, family : Family, candidates : {{p[1], p[2]} : p \in Pairs}]
    BY <1>2, <1>3, <1>4
  <1>8. entry.family = f /\ entry.candidates = key /\ entry.round = rounds
    OBVIOUS
  <1> HIDE DEF reply, entry
  <1>9. TypeOK'
    <2>1. panel' \in Seq(Family) /\ Len(panel') <= PanelSize
      BY <1>2, <1>3, PanelAssumption
    <2>2. \A i \in DOMAIN panel' : flip'[panel'[i]] \in BOOLEAN
      BY <1>1, <1>3 DEF PanelInv, TypeOK
    <2>3. heard' \in Seq([judge : 1..PanelSize, family : Family, shown : Candidate \X Candidate,
                          said : Replies])
      BY <1>1, <1>5 DEF PanelInv, TypeOK
    <2>4. asked' \subseteq [round : 1..rounds', family : Family,
                            candidates : {{p[1], p[2]} : p \in Pairs}]
      BY <1>1, <1>7 DEF PanelInv, TypeOK
    <2>5. history' \subseteq Family \X {{p[1], p[2]} : p \in Pairs}
      <3>1. history \subseteq Family \X {{p[1], p[2]} : p \in Pairs}
        BY DEF PanelInv, TypeOK
      <3>2. <<f, key>> \in Family \X {{p[1], p[2]} : p \in Pairs}
        BY <1>3, <1>4
      <3> QED
        BY <1>1, <3>1, <3>2
    <2> QED
      BY <1>1, <1>2, <2>1, <2>2, <2>3, <2>4, <2>5 DEF PanelInv, TypeOK
  <1>10. FairInv'
    <2>1. \A n \in DOMAIN panel : panel[n] \notin {BuilderOf[pair[1]], BuilderOf[pair[2]]}
      BY <1>1 DEF PanelInv, FairInv
    <2>2. f # BuilderOf[pair[1]] /\ f # BuilderOf[pair[2]]
      BY <1>3, <2>1
    <2>3. NoSelfPreference'
      BY <1>1, <1>6, <1>8, <2>2 DEF PanelInv, FairInv, NoSelfPreference
    <2> QED
      BY <1>1, <1>3, <2>1, <2>3 DEF FairInv
  <1>11. FreshInv'
    <2>1. \A n \in DOMAIN panel : \A x \in asked :
             x.family = panel[n] /\ x.candidates = key => x.round = rounds
      BY <1>1 DEF PanelInv, FreshInv
    <2>2. \A x \in asked : x.family = f /\ x.candidates = key => x.round = rounds
      BY <1>3, <2>1
    <2>3. FreshEyes'
      BY <1>1, <1>8, <2>2 DEF PanelInv, FreshInv, FreshEyes
    <2>4. \A x \in asked' : <<x.family, x.candidates>> \in history'
      BY <1>1, <1>8 DEF PanelInv, FreshInv
    <2>5. \A n \in DOMAIN panel' : \A x \in asked' :
             x.family = panel'[n] /\ x.candidates = key => x.round = rounds
      BY <1>1, <1>3, <1>8, <2>1
    <2>6. PairKey(pair'[1], pair'[2]) = key
      BY <1>1
    <2> QED
      BY <1>1, <2>3, <2>4, <2>5, <2>6 DEF FreshInv
  <1> QED
    BY <1>9, <1>10, <1>11


LEMMA DedupedIsFinite ==
    ASSUME NEW cast \in Seq([family : Family, winner : Choice])
    PROVE  IsFiniteSet(Deduped(cast))
  <1> DEFINE firsts == {j \in DOMAIN cast : \A k \in 1..(j - 1) : cast[k].family # cast[j].family}
             f == [i \in firsts |-> cast[i]]
  <1>1. firsts \in SUBSET (1..Len(cast)) /\ Len(cast) \in Nat
    OBVIOUS
  <1>2. f \in Surjection(firsts, Deduped(cast))
    BY DEF Surjection, Deduped
  <1> HIDE DEF firsts, f
  <1>3. IsFiniteSet(firsts)
    <2>1. IsFiniteSet(1..Len(cast))
      BY <1>1, FS_Interval
    <2> QED
      BY <1>1, <2>1, FS_Subset
  <1> QED
    BY <1>2, <1>3, FS_Surjection

(* Whichever way round a judge is shown the pair, its vote is what it      *)
(* meant.                                                                  *)
LEMMA VoteIsMeant ==
    ASSUME NEW said \in Choice, NEW f, NEW reply, pair \in Pairs,
           reply.said = said,
           reply.shown = IF flip[f] THEN <<pair[2], pair[1]>> ELSE pair
    PROVE  Vote(reply) = [family |-> reply.family, winner |-> Derandomize(said, flip[f])]
  <1>1. pair[1] # pair[2] /\ pair = <<pair[1], pair[2]>>
    BY PairsAssumption
  <1>2. CASE flip[f]
    <2>1. reply.shown[1] = pair[2] /\ reply.shown[2] = pair[1]
      BY <1>2
    <2> QED
      BY <1>1, <1>2, <2>1 DEF Vote, Prefers, Derandomize, Opposite, Choice
  <1>3. CASE ~flip[f]
    BY <1>1, <1>3 DEF Vote, Prefers, Derandomize, Choice
  <1> QED
    BY <1>2, <1>3

LEMMA CountStep ==
    ASSUME PanelInv, NEW said \in Replies, Ask(said),
           IF said \in Choice
             THEN votes' = Append(votes, [family |-> Head(panel),
                                          winner |-> Derandomize(said, flip[Head(panel)])])
             ELSE votes' = votes
    PROVE  CountInv' /\ votes' \in Seq([family : Family, winner : Choice])
  <1> DEFINE f == Head(panel)
             shown == IF flip[f] THEN <<pair[2], pair[1]>> ELSE pair
             reply == [judge |-> Len(panel), family |-> f, shown |-> shown, said |-> said]
             vote == [family |-> f, winner |-> Derandomize(said, flip[f])]
  <1>1. /\ pc = "asking" /\ panel # <<>> /\ heard' = Append(heard, reply)
        /\ pair' = pair /\ outcome' = outcome
    BY DEF Ask
  <1>2. /\ pair \in Pairs /\ panel \in Seq(Family) /\ Len(panel) <= PanelSize /\ outcome = "none"
        /\ heard \in Seq(Reply) /\ votes \in Seq([family : Family, winner : Choice])
        /\ retry \in BOOLEAN
    BY <1>1 DEF PanelInv, TypeOK, CountInv, Reply
  <1>3. f \in Family /\ Len(panel) \in 1..PanelSize
    BY <1>1, <1>2, PanelAssumption
  <1>4. reply \in Reply
    <2>1. shown \in Candidate \X Candidate
      BY <1>2, PairsAssumption
    <2> HIDE DEF shown
    <2> QED
      BY <1>3, <2>1 DEF Reply
  <1>5. reply.family = f /\ reply.said = said /\ reply.shown = shown
    OBVIOUS
  <1>6. \A v : Vote(v)' = Vote(v)
    BY <1>1 DEF Vote, Prefers
  <1>7. said \in Choice => Vote(reply) = vote /\ vote \in [family : Family, winner : Choice]
    <2> SUFFICES ASSUME said \in Choice
                 PROVE  Vote(reply) = vote /\ vote \in [family : Family, winner : Choice]
      OBVIOUS
    <2>1. Vote(reply) = vote
      <3>1. pair \in Pairs /\ reply.said = said /\ reply.family = f
        BY <1>2, <1>5
      <3>2. reply.shown = IF flip[f] THEN <<pair[2], pair[1]>> ELSE pair
        BY <1>5
      <3> HIDE DEF reply, f, shown
      <3>3. Vote(reply) = [family |-> reply.family, winner |-> Derandomize(said, flip[f])]
        BY <3>1, <3>2, VoteIsMeant
      <3> QED
        BY <3>1, <3>3
    <2>2. Derandomize(said, flip[f]) \in Choice
      BY DEF Derandomize, Opposite, Choice
    <2> QED
      BY <1>3, <2>1, <2>2
  <1>8. vote.family = f
    OBVIOUS
  <1>9. \A i \in DOMAIN heard' : heard'[i] = reply \/ (i \in DOMAIN heard /\ heard'[i] = heard[i])
    BY <1>1, <1>2, <1>4
  <1>10. shown \in {pair, <<pair[2], pair[1]>>}
    OBVIOUS
  <1> HIDE DEF reply, vote, f, shown
  <1>11. votes' \in Seq([family : Family, winner : Choice])
    <2>1. CASE said \in Choice
      <3>1. votes' = Append(votes, vote)
        BY <2>1 DEF vote, f
      <3> QED
        BY <1>2, <1>7, <2>1, <3>1
    <2>2. CASE said \notin Choice
      BY <1>2, <2>2
    <2> QED
      BY <2>1, <2>2
  <1>12. /\ FirstVerdicts(heard') = IF said \in Choice /\ ~Heard(heard, f)
                                    THEN FirstVerdicts(heard) \cup {reply} ELSE FirstVerdicts(heard)
         /\ \A g : Heard(heard', g) <=> Heard(heard, g) \/ (said \in Choice /\ f = g)
    BY <1>1, <1>2, <1>4, <1>5, VerdictsGrow
  <1>13. /\ Deduped(votes) = {Vote(v) : v \in FirstVerdicts(heard)}
         /\ \A g \in Family : (\E j \in DOMAIN votes : votes[j].family = g) <=> Heard(heard, g)
         /\ \A i \in DOMAIN heard : heard[i].shown \in {pair, <<pair[2], pair[1]>>}
    BY DEF PanelInv, CountInv
  <1>14. \A i \in DOMAIN heard' : heard'[i].shown \in {pair, <<pair[2], pair[1]>>}
    BY <1>5, <1>9, <1>10, <1>13
  <1>15. /\ Deduped(votes') = {Vote(v) : v \in FirstVerdicts(heard')}
         /\ \A g \in Family : (\E j \in DOMAIN votes' : votes'[j].family = g) <=> Heard(heard', g)
    <2>1. CASE said \notin Choice
      BY <1>12, <1>13, <2>1
    <2>2. CASE said \in Choice
      <3>1. votes' = Append(votes, vote) /\ vote \in [family : Family, winner : Choice]
        BY <1>7, <2>2 DEF vote, f
      <3>2. Deduped(votes') = IF \E j \in DOMAIN votes : votes[j].family = f
                              THEN Deduped(votes) ELSE Deduped(votes) \cup {vote}
        BY <1>2, <1>8, <3>1, DedupedGrows
      <3>3. Deduped(votes') = IF Heard(heard, f) THEN Deduped(votes) ELSE Deduped(votes) \cup {vote}
        BY <1>3, <1>13, <3>2
      <3>4. {Vote(v) : v \in FirstVerdicts(heard) \cup {reply}}
               = {Vote(v) : v \in FirstVerdicts(heard)} \cup {vote}
        BY <1>7, <2>2
      <3>5. Deduped(votes') = {Vote(v) : v \in FirstVerdicts(heard')}
        BY <1>12, <1>13, <2>2, <3>3, <3>4
      <3>6. \A g \in Family : (\E j \in DOMAIN votes' : votes'[j].family = g)
                                 <=> (\E j \in DOMAIN votes : votes[j].family = g) \/ f = g
        <4>1. /\ DOMAIN votes = 1..Len(votes) /\ DOMAIN votes' = 1..(Len(votes) + 1)
              /\ Len(votes) \in Nat
              /\ \A j \in 1..Len(votes) : votes'[j] = votes[j]
              /\ votes'[Len(votes) + 1] = vote
          BY <1>2, <3>1
        <4> QED
          BY <1>8, <4>1
      <3> QED
        BY <1>12, <1>13, <2>2, <3>5, <3>6
    <2> QED
      BY <2>1, <2>2
  <1>16. {Vote(v)' : v \in FirstVerdicts(heard')} = {Vote(v) : v \in FirstVerdicts(heard')}
    BY <1>6
  <1> QED
    BY <1>1, <1>2, <1>11, <1>14, <1>15, <1>16 DEF CountInv


LEMMA PanelAnswers ==
    ASSUME PanelInv, NEW said \in Replies, Cast(said) \/ Reask(said) \/ Reject(said)
    PROVE  PanelInv'
  <1>1. "failed" \notin Choice
    BY DEF Choice
  <1>2. Ask(said) /\ pc = "asking" /\ retry \in BOOLEAN
    <2>1. Ask(said)
      BY DEF Cast, Reask, Reject
    <2> QED
      BY <2>1 DEF Ask, PanelInv, TypeOK
  <1>3. IF said \in Choice
          THEN votes' = Append(votes, [family |-> Head(panel),
                                       winner |-> Derandomize(said, flip[Head(panel)])])
          ELSE votes' = votes
    BY <1>1 DEF Cast, Reask, Reject, HoldsUp
  <1>4. panel' = panel \/ panel' = Tail(panel)
    BY DEF Cast, Reask, Reject, NextJudge
  <1>5. pc' \in {"asking", "BlindnessError"}
    BY <1>2 DEF Cast, Reask, Reject, NextJudge
  <1>6. retry' \in BOOLEAN
    <2>1. retry' = TRUE \/ retry' = FALSE \/ retry' = retry
      BY Zenon DEF Cast, Reask, Reject, NextJudge
    <2> QED
      BY <1>2, <2>1, Zenon
  <1>7. CountInv' /\ votes' \in Seq([family : Family, winner : Choice])
    BY <1>2, <1>3, CountStep
  <1>8. TypeOK' /\ FairInv' /\ FreshInv'
    BY <1>2, <1>4, <1>5, <1>6, <1>7, AskStep
  <1> QED
    BY <1>7, <1>8 DEF PanelInv

LEMMA PanelConcludes ==
    ASSUME PanelInv, Conclude
    PROVE  PanelInv'
  <1>1. /\ pc = "asking" /\ pc' = "idle" /\ outcome' = PanelOutcome(votes)
        /\ UNCHANGED <<rounds, pair, flip, panel, retry, history, votes, heard, asked>>
    BY DEF Conclude
  <1>2. /\ pair \in Pairs /\ PanelOutcome(votes) \in {"A", "B", "escalate"}
    <2>1. IsFiniteSet(Deduped(votes))
      BY DedupedIsFinite DEF PanelInv, TypeOK
    <2> QED
      BY <1>1, <2>1, MajorityWins DEF PanelInv, TypeOK
  <1>3. TypeOK'
    BY <1>1, <1>2 DEF PanelInv, TypeOK
  <1>4. FairInv' /\ FreshInv'
    BY <1>1 DEF PanelInv, FairInv, FreshInv, NoSelfPreference, FreshEyes
  <1>5. CountInv'
    <2>1. \A v : Vote(v)' = Vote(v)
      BY <1>1 DEF Vote, Prefers
    <2>2. {Vote(v)' : v \in FirstVerdicts(heard)} = {Vote(v) : v \in FirstVerdicts(heard)}
      BY <2>1
    <2>3. PanelOutcome(votes)' = PanelOutcome(votes)
      BY <1>1
    <2> QED
      BY <1>1, <1>2, <2>2, <2>3 DEF PanelInv, CountInv
  <1> QED
    BY <1>3, <1>4, <1>5 DEF PanelInv

(* Nothing the panel keeps changes but where run_round is, if that.        *)
LEMMA PanelRests ==
    ASSUME PanelInv,
           pc' = pc \/ pc' \in {"BlindnessError", "StoreError"},
           UNCHANGED <<rounds, pair, flip, panel, retry, history, votes, trail, outcome, heard, asked>>
    PROVE  PanelInv'
  <1>1. TypeOK'
    BY DEF PanelInv, TypeOK
  <1>2. FairInv' /\ FreshInv'
    BY DEF PanelInv, FairInv, FreshInv, NoSelfPreference, FreshEyes
  <1>3. CountInv'
    <2>1. \A v : Vote(v)' = Vote(v)
      BY DEF Vote, Prefers
    <2>2. {Vote(v)' : v \in FirstVerdicts(heard)} = {Vote(v) : v \in FirstVerdicts(heard)}
      BY <2>1
    <2> QED
      BY <2>2 DEF PanelInv, CountInv
  <1> QED
    BY <1>1, <1>2, <1>3 DEF PanelInv

LEMMA PanelKept ==
    ASSUME PanelInv, [JNext]_jvars
    PROVE  PanelInv'
  <1>1. CASE UNCHANGED vars
    BY <1>1, PanelRests DEF vars
  <1>2. CASE BeginRound
    BY <1>2, BeginStep
  <1>3. CASE RefusePrompt \/ RaiseStoreError
    BY <1>3, PanelRests DEF RefusePrompt, RaiseStoreError
  <1>4. CASE Conclude
    BY <1>4, PanelConcludes
  <1>5. CASE Answer
    <2>1. Response \in Replies
      BY DEF Response, Replies
    <2> QED
      BY <1>5, <2>1, PanelAnswers DEF Answer
  <1>6. CASE CallJudge \/ ClaudeReplies \/ CodexReplies \/ BridgeReplies \/ AgyReplies \/ ParseAttempt
    <2>1. UNCHANGED vars
      BY <1>6 DEF CallJudge, ClaudeReplies, CodexReplies, BridgeReplies, AgyReplies, ParseAttempt,
                  ProcessFails, Attempted
    <2> QED
      BY <1>1, <2>1
  <1> QED
    BY <1>1, <1>2, <1>3, <1>4, <1>5, <1>6 DEF JNext, Between, jvars

-----------------------------------------------------------------------------
(* The theorems about the panel                                            *)

(* The invariant of the panel holds in every state of every sequence of    *)
(* rounds, with the judges it is run with (CritiquePanel.run_round).       *)
THEOREM PanelInvariant == JSpec => []PanelInv
  <1>1. JInit => PanelInv
    BY PanelStarts DEF JInit
  <1> QED
    BY <1>1, PanelKept, PTL DEF JSpec

(* No family is asked about a candidate it built (eligible_judges).        *)
THEOREM NobodyGradesItsOwn == JSpec => []NoSelfPreference
  <1>1. PanelInv => NoSelfPreference
    BY DEF PanelInv, FairInv
  <1> QED
    BY <1>1, PanelInvariant, PTL

(* No family is asked in two rounds about one pair of candidates, in       *)
(* whichever order the caller names them (rotate, RotationHistory).        *)
THEOREM EyesStayFresh == JSpec => []FreshEyes
  <1>1. PanelInv => FreshEyes
    BY DEF PanelInv, FreshInv
  <1> QED
    BY <1>1, PanelInvariant, PTL

LEMMA VerdictsTallied ==
    ASSUME PanelInv, pair \in Pairs
    PROVE  /\ Verdicts = FirstVerdicts(heard)
           /\ Cardinality(Deduped(votes)) = Cardinality(Verdicts)
           /\ Cardinality({d \in Deduped(votes) : d.winner = "A"})
                 = Cardinality({v \in Verdicts : Prefers(v, pair[1])})
           /\ Cardinality({d \in Deduped(votes) : d.winner = "B"})
                 = Cardinality({v \in Verdicts : Prefers(v, pair[2])})
  <1>1. Verdicts = FirstVerdicts(heard)
    BY DEF Verdicts, FirstVerdicts, Valid, Leads
  <1>2. /\ IsFiniteSet(Verdicts)
        /\ \A u, v \in Verdicts : u.family = v.family => u = v
        /\ \A v \in Verdicts : v.said \in Choice /\ \E i \in DOMAIN heard : v = heard[i]
    BY <1>1, VerdictsAre DEF PanelInv, TypeOK, Reply
  <1>3. Deduped(votes) = {Vote(v) : v \in Verdicts}
    BY <1>1 DEF PanelInv, CountInv
  <1>4. \A v \in Verdicts : v.shown \in {pair, <<pair[2], pair[1]>>}
    BY <1>2 DEF PanelInv, CountInv
  <1>5. pair[1] # pair[2]
    BY PairsAssumption
  <1>6. ASSUME NEW v \in Verdicts
        PROVE  ~(Prefers(v, pair[1]) /\ Prefers(v, pair[2]))
    BY <1>4, <1>5 DEF Prefers
  <1>7. \A v \in Verdicts :
           /\ Vote(v).family = v.family
           /\ Vote(v).winner = "A" <=> Prefers(v, pair[1])
           /\ Vote(v).winner = "B" <=> Prefers(v, pair[2])
    BY <1>6 DEF Vote
  <1> HIDE DEF Vote, Verdicts
  <1>8. ASSUME NEW S \in SUBSET Verdicts
        PROVE  Cardinality({Vote(v) : v \in S}) = Cardinality(S)
    <2> DEFINE f == [v \in S |-> Vote(v)]
    <2>1. \A u, v \in S : f[u] = f[v] => u = v
      BY <1>2, <1>7
    <2>2. f \in Bijection(S, {Vote(v) : v \in S})
      BY <2>1 DEF Bijection, Injection, Surjection, IsInjective
    <2>3. IsFiniteSet(S)
      BY <1>2, FS_Subset
    <2> HIDE DEF f
    <2> QED
      BY <2>2, <2>3, FS_Bijection DEF ExistsBijection
  <1>9. /\ {d \in Deduped(votes) : d.winner = "A"}
              = {Vote(v) : v \in {u \in Verdicts : Prefers(u, pair[1])}}
        /\ {d \in Deduped(votes) : d.winner = "B"}
              = {Vote(v) : v \in {u \in Verdicts : Prefers(u, pair[2])}}
    BY <1>3, <1>7
  <1> QED
    BY <1>1, <1>3, <1>8, <1>9

(* The candidate a round declares is the one a strict majority of at least *)
(* two families meant by the position they named, and a candidate with     *)
(* such a majority is declared (flip_for, derandomize, panel_outcome).     *)
THEOREM WinnersHaveMajorities == JSpec => []WinnerIsMajority
  <1>1. PanelInv => WinnerIsMajority
    <2> SUFFICES ASSUME PanelInv, outcome # "none"
                 PROVE  \A i \in {1, 2} :
                           outcome = <<"A", "B">>[i] <=>
                              /\ Cardinality(Verdicts) >= 2
                              /\ 2 * Cardinality({v \in Verdicts : Prefers(v, pair[i])})
                                    > Cardinality(Verdicts)
      BY DEF WinnerIsMajority
    <2>1. pair \in Pairs /\ outcome = PanelOutcome(votes)
      BY DEF PanelInv, CountInv
    <2>2. IsFiniteSet(Deduped(votes))
      BY DedupedIsFinite DEF PanelInv, TypeOK
    <2>3. \A c \in {"A", "B"} :
             outcome = c <=>
                /\ Cardinality(Deduped(votes)) >= 2
                /\ 2 * Cardinality({v \in Deduped(votes) : v.winner = c})
                      > Cardinality(Deduped(votes))
      BY <2>1, <2>2, MajorityWins
    <2>4. /\ outcome = "A" <=>
                /\ Cardinality(Verdicts) >= 2
                /\ 2 * Cardinality({v \in Verdicts : Prefers(v, pair[1])}) > Cardinality(Verdicts)
          /\ outcome = "B" <=>
                /\ Cardinality(Verdicts) >= 2
                /\ 2 * Cardinality({v \in Verdicts : Prefers(v, pair[2])}) > Cardinality(Verdicts)
      BY <2>1, <2>3, VerdictsTallied
    <2> TAKE i \in {1, 2}
    <2>5. CASE i = 1
      BY <2>4, <2>5
    <2>6. CASE i = 2
      BY <2>4, <2>6
    <2> QED
      BY <2>5, <2>6
  <1> QED
    BY <1>1, PanelInvariant, PTL

(* A judge is called in the panel's round, with one re-ask at most.        *)
TurnInv ==
    /\ at \in {"idle", "invoke", "cli", "attempted", "answered"}
    /\ overdue \in BOOLEAN
    /\ at # "idle" => pc = "asking" /\ panel # <<>>
    /\ at \in {"invoke", "cli"} => Len(attempts) <= 1
    /\ Len(attempts) <= 2

LEMMA TurnKept ==
    ASSUME IInv, PanelInv, TurnInv, [JNext]_jvars
    PROVE  TurnInv'
  <1>1. CASE UNCHANGED jvars
    BY <1>1 DEF jvars, vars, call, TurnInv
  <1>2. CASE Between /\ (BeginRound \/ RefusePrompt \/ Conclude \/ RaiseStoreError)
    BY <1>2 DEF Between, call, TurnInv
  <1>3. CASE CallJudge
    BY <1>3 DEF CallJudge, vars, TurnInv, IInv, CallInv
  <1>4. ASSUME NEW rc, NEW raw, NEW said, at \in {"invoke", "cli"}, Attempted(rc, raw, said)
        PROVE  TurnInv'
    <2>1. /\ at' = "attempted" /\ UNCHANGED <<pc, panel>>
          /\ Len(attempts') = Len(attempts) + 1 /\ Len(attempts) \in Nat
      BY <1>4 DEF Attempted, vars, IInv, CallInv
    <2>2. overdue' \in BOOLEAN
      BY <1>4, Zenon DEF Attempted
    <2> QED
      BY <1>4, <2>1, <2>2 DEF TurnInv
  <1>5. ASSUME at \in {"invoke", "cli"}, ProcessFails PROVE TurnInv'
    BY <1>4, <1>5 DEF ProcessFails
  <1>6. CASE ClaudeReplies \/ CodexReplies \/ AgyReplies
    BY <1>4, <1>5, <1>6 DEF ClaudeReplies, CodexReplies, AgyReplies, Running
  <1>7. CASE BridgeReplies
    <2>1. ASSUME NEW why, at = "invoke", at' = "cli", overdue' = (overdue \/ why = "timeout"),
                 UNCHANGED <<vars, attempts, word>>
          PROVE  TurnInv'
      <3>1. overdue' \in BOOLEAN
        BY <2>1, Zenon
      <3> QED
        BY <2>1, <3>1 DEF TurnInv, vars
    <2> QED
      BY <1>4, <1>7, <2>1 DEF BridgeReplies, Running
  <1>8. CASE ParseAttempt
    <2>1. /\ at = "attempted" /\ at' \in {"invoke", "answered"} /\ UNCHANGED <<pc, panel, attempts>>
          /\ at' = "invoke" => Len(attempts) = 1
      BY <1>8 DEF ParseAttempt, ShouldReask, vars
    <2>2. overdue' \in BOOLEAN
      BY <1>8, Zenon DEF ParseAttempt, TurnInv
    <2>3. Len(attempts) <= 2 /\ pc = "asking" /\ panel # <<>>
      BY <2>1 DEF TurnInv
    <2>4. Len(attempts') <= 2 /\ (at' = "invoke" => Len(attempts') <= 1)
      BY <2>1, <2>3
    <2> QED
      BY <2>1, <2>2, <2>3, <2>4 DEF TurnInv
  <1>9. CASE Answer
    <2>1. at' = "idle" /\ attempts' = <<>>
      BY <1>9 DEF Answer
    <2>2. overdue' \in BOOLEAN
      BY <1>9, Zenon DEF Answer
    <2> QED
      BY <2>1, <2>2 DEF TurnInv
  <1> QED
    BY <1>1, <1>2, <1>3, <1>6, <1>7, <1>8, <1>9 DEF JNext

(* Every variable of the panel and its judges has the shape the code gives *)
(* it; a judge is asked at most twice in a call, and only in a round.      *)
THEOREM PanelTypeCorrect == JSpec => []JTypeOK
  <1>1. JInit => TurnInv
    <2> SUFFICES ASSUME JInit PROVE TurnInv
      OBVIOUS
    <2>1. at = "idle" /\ attempts = <<>>
      BY DEF JInit
    <2>2. overdue \in BOOLEAN
      BY Zenon DEF JInit
    <2> QED
      BY <2>1, <2>2 DEF TurnInv
  <1>2. IInv /\ PanelInv /\ TurnInv /\ [JNext]_jvars => TurnInv'
    BY TurnKept
  <1>3. IInv /\ PanelInv /\ TurnInv => JTypeOK
    BY DEF IInv, CallInv, Attempt, PanelInv, TurnInv, JTypeOK
  <1> QED
    BY <1>1, <1>2, <1>3, CallInvariant, PanelInvariant, PTL DEF JSpec
=============================================================================
