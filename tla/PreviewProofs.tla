---------------------------- MODULE PreviewProofs ----------------------------
(***************************************************************************)
(* The preview: the server that is put up for it, and the events its pages *)
(* send home.                                                              *)
(*                                                                         *)
(* serve (Harness), for any set of ports and any number of retries.  Only  *)
(* the newest attempt can be up, because an earlier one was given up for a *)
(* lost port and its thread is on its way out (PastInv); a server that has *)
(* the port is the one that was sent for it (HoldInv); and what the        *)
(* calling thread has seen of a thread or of a failure cannot be undone    *)
(* (EndInv), because a thread that has failed or ended stays so (FailInv). *)
(*                                                                         *)
(* probe.js, the network and the ingest worker (BeaconPipeline), for any   *)
(* caps and whatever other senders post.  An event that was seen is in one *)
(* place, once: it waits, was dropped, or is in one batch (Sound); the     *)
(* worker decodes a batch at most once, because a batch that arrived has   *)
(* left the wire (GotInv); and a record stands for one event of one body   *)
(* (DiskInv).                                                              *)
(***************************************************************************)
EXTENDS Harness, BeaconPipeline, FiniteSetTheorems, SequenceTheorems, WellFoundedInduction,
        TLAPS

ShapeInv ==
    /\ TypeOK
    /\ pc = "pick" => n <= Retries
    /\ \A i \in Attempt : (thread[i] = "none") <=> (i > n)

HoldInv ==
    \A p \in Port : \A i \in Attempt :
       holder[p] = i => thread[i] = "serving" /\ bind[i] = p

FailInv == \A i \in Attempt : failure[i] # "none" => thread[i] \in {"closing", "exited"}

LostItsPort(i) == port = NoPort /\ failure[i] = "conflict" /\ thread[i] \in {"closing", "exited"}

PastInv ==
    /\ \A i \in 1..n : i < n \/ pc = "pick" => LostItsPort(i)
    /\ port # NoPort => \A i \in 1..n : bind[i] = port

(* Where the start has succeeded.                                          *)
Started == {"body", "leave", "join", "judgeFailure", "judgeThread", "bodyError", "returned"}

EndInv ==
    /\ pc \in Started => seen = "started"
    /\ seen = "failed" => n > 0 /\ failure[n] # "none"
    /\ pc = "raised" /\ seen = "failed" /\ failure[n] = "conflict" =>
          port # NoPort \/ n = Retries + 1
    /\ pc \in {"judgeFailure", "judgeThread", "returned"} => timedOut \/ thread[n] = "exited"
    /\ pc \in {"judgeThread", "returned"} => timedOut \/ failure[n] = "none"
    /\ pc = "returned" => thread[n] = "exited"

IInv == ShapeInv /\ HoldInv /\ FailInv /\ PastInv /\ EndInv

ServerStep(i) == Binds(i) \/ LosesPort(i) \/ FailsToStart(i) \/ StopsServing(i) \/ Exits(i)

Stranger(p) == StrangerListens(p) \/ StrangerLeaves(p)

(* The steps of the calling thread that touch no attempt.                  *)
Calling ==
    \/ Deadline \/ Poll \/ CheckAlive \/ CheckAccepting
    \/ Join("joinLost", "lost") \/ RetryOrRaise
    \/ EndBody \/ Leave \/ Join("join", "judgeFailure") \/ JudgeFailure \/ JudgeStopped

LEMMA Cases ==
    ASSUME Next
    PROVE  Spawn \/ Calling \/ (\E i \in 1..n : ServerStep(i)) \/ (\E p \in Port : Stranger(p))
  BY DEF Next, MainStep, Calling, ServerStep, Stranger

(* An attempt's number is told apart from the two other holders.           *)
LEMMA Holders == Foreign \notin Attempt /\ Free \notin Attempt /\ Foreign # Free
  BY RetriesAssumption DEF Foreign, Free, Attempt

LEMMA Numbers ==
    ASSUME ShapeInv
    PROVE  n \in Nat /\ n <= Retries + 1 /\ 1..n \subseteq Attempt
  <1>1. n \in 0..(Retries + 1)
    BY DEF ShapeInv, TypeOK
  <1> QED
    BY <1>1, RetriesAssumption DEF Attempt

-----------------------------------------------------------------------------
(* The type invariant and the numbering of the attempts                    *)

LEMMA InitInvariant == Init => IInv
  <1>1. SUFFICES ASSUME Init PROVE IInv
    OBVIOUS
  <1>2. ShapeInv
    <2>1. \A i \in Attempt : ~(bind[i] \in Port) /\ thread[i] = "none" /\ i > n
      BY <1>1, RetriesAssumption, PortAssumption DEF Init, Attempt
    <2>2. /\ bind \in [Attempt -> Port \cup {NoPort}]
          /\ thread \in [Attempt -> {"none", "binding", "serving", "closing", "exited"}]
          /\ failure \in [Attempt -> {"none", "conflict", "other"}]
          /\ holder \in [Port -> {Free, Foreign} \cup Attempt]
      BY <1>1 DEF Init
    <2>3. asked \in [Attempt -> BOOLEAN]
      BY <1>1 DEF Init
    <2>4. port \in Port \cup {NoPort} /\ pc = "pick" /\ n = 0
      BY <1>1, PortAssumption DEF Init
    <2>5. /\ \A i \in Attempt : (bind[i] \in Port) <=> (i <= n)
          /\ \A i \in Attempt : (thread[i] = "none") <=> (i > n)
      BY <2>1, <2>4 DEF Attempt
    <2>6. n \in 0..(Retries + 1) /\ n <= Retries
      BY <2>4, RetriesAssumption
    <2> QED
      BY <1>1, <2>2, <2>3, <2>4, <2>5, <2>6 DEF Init, ShapeInv, TypeOK
  <1>3. HoldInv
    BY <1>1, Holders DEF Init, HoldInv
  <1>4. FailInv /\ PastInv /\ EndInv
    BY <1>1, RetriesAssumption DEF Init, FailInv, PastInv, EndInv, Started, Attempt
  <1> QED
    BY <1>2, <1>3, <1>4 DEF IInv

LEMMA SpawnStep ==
    ASSUME IInv, Spawn
    PROVE  IInv'
  <1>1. PICK p \in Port : /\ IF port = NoPort THEN holder[p] = Free ELSE p = port
                          /\ bind' = [bind EXCEPT ![n + 1] = p]
    BY DEF Spawn
  <1>2. /\ pc = "pick" /\ n \in Nat /\ n <= Retries /\ n' = n + 1 /\ n + 1 \in Attempt
        /\ thread' = [thread EXCEPT ![n + 1] = "binding"]
        /\ late' = FALSE /\ seen' = "none" /\ timedOut' = FALSE /\ pc' = "poll"
        /\ UNCHANGED <<port, asked, clean, failure, holder>>
    BY RetriesAssumption DEF IInv, ShapeInv, TypeOK, Spawn, Attempt
  <1>3. thread[n + 1] = "none" /\ failure[n + 1] = "none"
    BY <1>2 DEF IInv, ShapeInv, TypeOK, FailInv
  <1>4. ShapeInv'
    <2>1. /\ bind' \in [Attempt -> Port \cup {NoPort}]
          /\ \A i \in Attempt : (bind'[i] \in Port) <=> (i <= n')
      BY <1>1, <1>2, PortAssumption DEF IInv, ShapeInv, TypeOK, Attempt
    <2>2. /\ thread' \in [Attempt -> {"none", "binding", "serving", "closing", "exited"}]
          /\ \A i \in Attempt : (thread'[i] = "none") <=> (i > n')
      BY <1>2 DEF IInv, ShapeInv, TypeOK, Attempt
    <2>3. n' \in 0..(Retries + 1) /\ n' # 0
      BY <1>2, RetriesAssumption
    <2>4. TypeOK'
      BY <1>2, <2>1, <2>2, <2>3 DEF IInv, ShapeInv, TypeOK
    <2> QED
      BY <1>2, <2>2, <2>4 DEF ShapeInv
  <1>5. HoldInv'
    BY <1>1, <1>2, <1>3 DEF IInv, ShapeInv, TypeOK, HoldInv
  <1>6. FailInv'
    BY <1>2, <1>3 DEF IInv, ShapeInv, TypeOK, FailInv
  <1>7. PastInv'
    <2>1. \A i \in 1..n' : i < n' => LostItsPort(i)'
      BY <1>2, RetriesAssumption DEF IInv, ShapeInv, TypeOK, PastInv, LostItsPort, Attempt
    <2>2. port' # NoPort => \A i \in 1..n' : bind'[i] = port'
      BY <1>1, <1>2, RetriesAssumption DEF IInv, ShapeInv, TypeOK, PastInv, Attempt
    <2> QED
      BY <1>2, <2>1, <2>2 DEF PastInv
  <1>8. EndInv'
    BY <1>2 DEF EndInv, Started
  <1> QED
    BY <1>4, <1>5, <1>6, <1>7, <1>8 DEF IInv

-----------------------------------------------------------------------------
(* The steps of the calling thread                                         *)

LEMMA CallingTouchesNothing ==
    ASSUME IInv, Calling
    PROVE  /\ UNCHANGED <<port, n, bind, thread, failure, holder>>
           /\ ShapeInv' /\ HoldInv' /\ FailInv'
  <1>1. UNCHANGED <<port, n, bind, thread, failure, holder>>
    BY DEF Calling, Deadline, Poll, CheckAlive, CheckAccepting, Join, RetryOrRaise, EndBody,
           Leave, JudgeFailure, JudgeStopped, servers, StartupRaises
  <1>2. TypeOK'
    <2>1. CASE Deadline \/ EndBody
      BY <1>1, <2>1 DEF IInv, ShapeInv, TypeOK, Deadline, EndBody
    <2>2. CASE Poll \/ CheckAlive \/ CheckAccepting
      BY <1>1, <2>2 DEF IInv, ShapeInv, TypeOK, Poll, CheckAlive, CheckAccepting, StartupRaises
    <2>3. CASE Join("joinLost", "lost") \/ Join("join", "judgeFailure")
      BY <1>1, <2>3 DEF IInv, ShapeInv, TypeOK, Join
    <2>4. CASE RetryOrRaise \/ JudgeFailure \/ JudgeStopped
      BY <1>1, <2>4 DEF IInv, ShapeInv, TypeOK, RetryOrRaise, JudgeFailure, JudgeStopped
    <2>5. CASE Leave
      BY <1>1, <2>5 DEF IInv, ShapeInv, TypeOK, Leave
    <2> QED
      BY <2>1, <2>2, <2>3, <2>4, <2>5 DEF Calling
  <1>3. pc' = "pick" => n' <= Retries
    BY <1>1 DEF IInv, ShapeInv, Calling, Deadline, Poll, CheckAlive, CheckAccepting, Join,
                RetryOrRaise, Retriable, EndBody, Leave, JudgeFailure, JudgeStopped, StartupRaises
  <1> QED
    BY <1>1, <1>2, <1>3 DEF IInv, ShapeInv, HoldInv, FailInv

LEMMA CallingStep ==
    ASSUME IInv, Calling
    PROVE  IInv'
  <1>1. /\ UNCHANGED <<port, n, bind, thread, failure, holder>>
        /\ ShapeInv' /\ HoldInv' /\ FailInv'
    BY CallingTouchesNothing
  <1>2. n \in Nat /\ n > 0 /\ pc # "pick" /\ n \in Attempt
    <2>1. pc # "pick" \/ RetryOrRaise
      BY DEF Calling, Deadline, Poll, CheckAlive, CheckAccepting, Join, EndBody,
             Leave, JudgeFailure, JudgeStopped
    <2> QED
      BY <2>1, RetriesAssumption DEF IInv, ShapeInv, TypeOK, RetryOrRaise, Attempt
  <1>3. PastInv'
    <2>1. pc' = "pick" => LostItsPort(n)
      BY <1>2 DEF IInv, FailInv, LostItsPort, Calling, Deadline, Poll, CheckAlive, CheckAccepting,
                  Join, RetryOrRaise, Retriable, EndBody, Leave, JudgeFailure, JudgeStopped,
                  StartupRaises
    <2> QED
      BY <1>1, <1>2, <2>1 DEF IInv, PastInv, LostItsPort
  <1>4. EndInv'
    <2>1. CASE Deadline
      BY <1>1, <2>1 DEF IInv, EndInv, Deadline, Started
    <2>2. CASE EndBody \/ Leave
      BY <1>1, <2>2 DEF IInv, EndInv, EndBody, Leave, Started
    <2>3. CASE Poll
      BY <1>1, <1>2, <2>3 DEF IInv, EndInv, Poll, StartupRaises, Started
    <2>4. CASE CheckAlive \/ CheckAccepting
      BY <1>1, <1>2, <2>4 DEF IInv, EndInv, CheckAlive, CheckAccepting, StartupRaises, Started
    <2>5. CASE Join("joinLost", "lost") \/ Join("join", "judgeFailure")
      BY <1>1, <2>5 DEF IInv, EndInv, Join, Started
    <2>6. CASE RetryOrRaise
      BY <1>1, <1>2, <2>6, RetriesAssumption
      DEF IInv, EndInv, ShapeInv, TypeOK, RetryOrRaise, Retriable, Started
    <2>7. CASE JudgeFailure
      BY <1>1, <2>7 DEF IInv, EndInv, JudgeFailure, Started
    <2>8. CASE JudgeStopped
      BY <1>1, <2>8 DEF IInv, EndInv, JudgeStopped, Started
    <2> QED
      BY <2>1, <2>2, <2>3, <2>4, <2>5, <2>6, <2>7, <2>8 DEF Calling
  <1> QED
    BY <1>1, <1>3, <1>4 DEF IInv

-----------------------------------------------------------------------------
(* The server threads and strangers                                        *)

(* A thread only goes on: one that is over is over, one that is closing    *)
(* keeps what it failed with, and one that failed was not over before.     *)
LEMMA ThreadGoesOn ==
    ASSUME IInv, NEW i \in 1..n, ServerStep(i)
    PROVE  /\ i \in Attempt
           /\ UNCHANGED main
           /\ thread[i] \in {"binding", "serving", "closing"}
           /\ thread' = [thread EXCEPT ![i] = thread'[i]]
           /\ thread'[i] \in {"serving", "closing", "exited"}
           /\ failure' = [failure EXCEPT ![i] = failure'[i]]
           /\ failure'[i] \in {"none", "conflict", "other"}
           /\ failure'[i] # "none" => thread'[i] \in {"closing", "exited"}
           /\ thread[i] = "closing" => failure'[i] = failure[i] /\ thread'[i] = "exited"
  <1>1. i \in Attempt
    BY RetriesAssumption DEF IInv, ShapeInv, TypeOK, Attempt
  <1>2. /\ thread \in [Attempt -> {"none", "binding", "serving", "closing", "exited"}]
        /\ failure \in [Attempt -> {"none", "conflict", "other"}]
    BY DEF IInv, ShapeInv, TypeOK
  <1>3. CASE Binds(i)
    BY <1>1, <1>2, <1>3 DEF Binds, Moves
  <1>4. CASE LosesPort(i)
    BY <1>1, <1>2, <1>4 DEF LosesPort, Moves
  <1>5. CASE FailsToStart(i)
    BY <1>1, <1>2, <1>5 DEF FailsToStart, Moves
  <1>6. CASE StopsServing(i)
    BY <1>1, <1>2, <1>6 DEF StopsServing, Moves
  <1>7. CASE Exits(i)
    BY <1>1, <1>2, <1>7 DEF Exits, Moves
  <1> QED
    BY <1>3, <1>4, <1>5, <1>6, <1>7 DEF ServerStep

LEMMA ServerKeepsPorts ==
    ASSUME IInv, NEW i \in 1..n, ServerStep(i)
    PROVE  HoldInv' /\ holder' \in [Port -> {Free, Foreign} \cup Attempt]
  <1>1. /\ i \in Attempt
        /\ thread \in [Attempt -> {"none", "binding", "serving", "closing", "exited"}]
        /\ holder \in [Port -> {Free, Foreign} \cup Attempt]
        /\ bind[i] \in Port
        /\ bind' = bind
    BY ThreadGoesOn, RetriesAssumption DEF IInv, ShapeInv, TypeOK, main
  <1>2. CASE Binds(i)
    BY <1>1, <1>2 DEF IInv, HoldInv, Binds, Moves
  <1>3. CASE LosesPort(i) \/ FailsToStart(i) \/ Exits(i)
    BY <1>1, <1>3 DEF IInv, HoldInv, LosesPort, FailsToStart, Exits, Moves
  <1>4. CASE StopsServing(i)
    BY <1>1, <1>4, Holders DEF IInv, HoldInv, StopsServing, Moves
  <1> QED
    BY <1>2, <1>3, <1>4 DEF ServerStep

LEMMA ServerMoves ==
    ASSUME IInv, NEW i \in 1..n, ServerStep(i)
    PROVE  IInv'
  <1>1. /\ i \in Attempt
        /\ UNCHANGED main
        /\ thread[i] \in {"binding", "serving", "closing"}
        /\ thread' = [thread EXCEPT ![i] = thread'[i]]
        /\ thread'[i] \in {"serving", "closing", "exited"}
        /\ failure' = [failure EXCEPT ![i] = failure'[i]]
        /\ failure'[i] \in {"none", "conflict", "other"}
        /\ failure'[i] # "none" => thread'[i] \in {"closing", "exited"}
        /\ thread[i] = "closing" => failure'[i] = failure[i] /\ thread'[i] = "exited"
    BY ThreadGoesOn
  <1>2. HoldInv' /\ holder' \in [Port -> {Free, Foreign} \cup Attempt]
    BY ServerKeepsPorts
  <1>3. UNCHANGED <<pc, port, n, bind, late, asked, seen, clean, timedOut>>
    BY <1>1 DEF main
  <1>4. n \in Nat /\ n \in Attempt
    BY RetriesAssumption DEF IInv, ShapeInv, TypeOK, Attempt
  <1>5. ShapeInv'
    <2>1. TypeOK'
      BY <1>1, <1>2, <1>3 DEF IInv, ShapeInv, TypeOK
    <2>2. \A j \in Attempt : (thread'[j] = "none") <=> (j > n)
      BY <1>1, <1>4 DEF IInv, ShapeInv, TypeOK, Attempt
    <2> QED
      BY <1>3, <2>1, <2>2 DEF IInv, ShapeInv
  <1>6. FailInv'
    BY <1>1 DEF IInv, ShapeInv, TypeOK, FailInv
  <1>7. PastInv'
    BY <1>1, <1>3, <1>4, RetriesAssumption DEF IInv, ShapeInv, TypeOK, PastInv, LostItsPort, Attempt
  <1>8. EndInv'
    BY <1>1, <1>3, <1>4 DEF IInv, ShapeInv, TypeOK, FailInv, EndInv
  <1> QED
    BY <1>2, <1>5, <1>6, <1>7, <1>8 DEF IInv

LEMMA StrangerStep ==
    ASSUME IInv, NEW p \in Port, Stranger(p)
    PROVE  IInv'
  <1>1. /\ UNCHANGED <<pc, port, n, bind, late, asked, seen, clean, timedOut, thread, failure>>
        /\ holder' = [holder EXCEPT ![p] = holder'[p]]
        /\ holder'[p] \in {Free, Foreign}
    BY DEF IInv, ShapeInv, TypeOK, Stranger, StrangerListens, StrangerLeaves, main, servers
  <1>2. ShapeInv' /\ HoldInv'
    BY <1>1, Holders DEF IInv, ShapeInv, TypeOK, HoldInv
  <1>3. FailInv' /\ PastInv' /\ EndInv'
    BY <1>1 DEF IInv, FailInv, PastInv, LostItsPort, EndInv
  <1> QED
    BY <1>2, <1>3 DEF IInv

LEMMA NextStep ==
    ASSUME IInv, [Next]_vars
    PROVE  IInv'
  <1>1. CASE UNCHANGED vars
    BY <1>1 DEF vars, main, servers, IInv, ShapeInv, TypeOK, HoldInv, FailInv, PastInv,
                LostItsPort, EndInv
  <1>2. CASE Next
    BY <1>2, Cases, SpawnStep, CallingStep, ServerMoves, StrangerStep
  <1> QED
    BY <1>1, <1>2

-----------------------------------------------------------------------------
(* The theorems                                                            *)

(* The inductive invariant holds of every reachable state of serve.        *)
THEOREM ServeInvariant == Spec => []IInv
  BY InitInvariant, NextStep, PTL DEF Spec

(* Every variable of serve keeps its type, for any ports and retries.      *)
THEOREM ServeTypeCorrect == Spec => []TypeOK
  <1>1. IInv => TypeOK
    BY DEF IInv, ShapeInv
  <1> QED
    BY <1>1, ServeInvariant, PTL

(* A call that returns leaves no server behind, on any port (serve's       *)
(* finally clause, for any ports and retries).                             *)
THEOREM NothingLeftBehind == Spec => []ReturnLeavesNothing
  <1>1. IInv => ReturnLeavesNothing
    <2>1. SUFFICES ASSUME IInv, pc = "returned"
                   PROVE  thread[n] = "exited" /\ \A p \in Port : holder[p] \notin Attempt
      BY DEF ReturnLeavesNothing
    <2>2. thread[n] = "exited" /\ n \in Nat
      BY <2>1 DEF IInv, EndInv, ShapeInv, TypeOK
    <2>3. \A i \in Attempt : thread[i] # "serving"
      BY <2>1, <2>2, RetriesAssumption
      DEF IInv, ShapeInv, PastInv, LostItsPort, Attempt
    <2> QED
      BY <2>1, <2>2, <2>3 DEF IInv, HoldInv
  <1> QED
    BY <1>1, ServeInvariant, PTL

(* A call that returns passes no failure over that its join waited for     *)
(* (serve's docstring).                                                    *)
THEOREM FailuresAreTold == Spec => []CrashIsTold
  <1>1. IInv => CrashIsTold
    BY DEF IInv, EndInv, CrashIsTold
  <1> QED
    BY <1>1, ServeInvariant, PTL

(* serve tries again exactly when an automatic port was lost and a retry   *)
(* is left, and never binds another port than the caller's own (serve's    *)
(* except clause).                                                         *)
THEOREM RetriesForLostPorts == Spec => []RetriedExactlyOnConflict
  <1>1. IInv => RetriedExactlyOnConflict
    BY DEF IInv, PastInv, LostItsPort, EndInv, RetriedExactlyOnConflict
  <1> QED
    BY <1>1, ServeInvariant, PTL

-----------------------------------------------------------------------------
(* Places                                                                  *)

(* The places of I, once each, in some order.                              *)
Lists(nth, s, I) ==
    /\ nth \in [1..Cardinality(I) -> I]
    /\ Page!Only(s, I) = [m \in 1..Cardinality(I) |-> s[nth[m]]]
    /\ \A x, y \in 1..Cardinality(I) : nth[x] = nth[y] => x = y
    /\ \A i \in I : \E m \in 1..Cardinality(I) : nth[m] = i

(* Counting up to a place tells the places apart, so Only lists the        *)
(* members at the places of I once each.                                   *)
LEMMA OnlyLists ==
    ASSUME NEW I \in SUBSET Nat, IsFiniteSet(I), NEW s
    PROVE  Cardinality(I) \in Nat /\ \E nth : Lists(nth, s, I)
  <1>1. IsFiniteSet(1..Cardinality(I)) /\ Cardinality(1..Cardinality(I)) = Cardinality(I)
    BY FS_CardinalityType, FS_Interval
  <1> DEFINE upTo(i) == {j \in I : j <= i}
             size == Cardinality(I)
             count == [i \in I |-> Cardinality(upTo(i))]
             counts == {count[i] : i \in I}
  <1>2. size \in Nat
    BY FS_CardinalityType
  <1>3. \A i \in I : \A k : k \in upTo(i) <=> k \in I /\ k <= i
    OBVIOUS
  <1> HIDE DEF upTo, size
  <1>4. ASSUME NEW i \in I
        PROVE  /\ IsFiniteSet(upTo(i)) /\ Cardinality(upTo(i)) \in 1..size
    <2>1. upTo(i) \in SUBSET I /\ i \in upTo(i)
      BY <1>3
    <2>2. IsFiniteSet(upTo(i)) /\ Cardinality(upTo(i)) \in Nat /\ Cardinality(upTo(i)) <= size
      BY <2>1, FS_Subset, FS_CardinalityType DEF size
    <2>3. Cardinality(upTo(i)) # 0
      BY <2>1, <2>2, FS_EmptySet
    <2> QED
      BY <1>2, <2>2, <2>3
  <1>5. ASSUME NEW i \in I, NEW j \in I, i < j
        PROVE  Cardinality(upTo(i)) < Cardinality(upTo(j))
    <2>1. j \in upTo(j) /\ j \notin upTo(i)
      BY <1>5, <1>3
    <2>2. ASSUME NEW k \in upTo(i) PROVE k \in upTo(j)
      <3>1. k \in I /\ k <= i
        BY <1>3, <2>2
      <3>2. k <= j
        BY <1>5, <3>1
      <3> QED
        BY <1>3, <3>1, <3>2
    <2>3. upTo(i) \in SUBSET upTo(j)
      BY <2>2
    <2>4. IsFiniteSet(upTo(j)) /\ Cardinality(upTo(j)) \in Nat /\ Cardinality(upTo(i)) \in Nat
      BY <1>2, <1>4
    <2>5. Cardinality(upTo(i)) <= Cardinality(upTo(j)) /\ Cardinality(upTo(i)) # Cardinality(upTo(j))
      BY <2>1, <2>4, <2>3, FS_Subset
    <2> QED
      BY <2>4, <2>5
  <1>6. \A i, j \in I : count[i] = count[j] => i = j
    BY <1>2, <1>4, <1>5
  <1>7. count \in Bijection(I, counts) /\ counts \in SUBSET (1..size)
    BY <1>4, <1>6 DEF Bijection, Injection, Surjection, IsInjective
  <1> HIDE DEF count, counts
  <1>8. Cardinality(counts) = size
    BY <1>7, FS_Bijection DEF ExistsBijection, size
  <1>9. counts = 1..size
    BY <1>1, <1>7, <1>8, FS_Subset DEF size
  <1>10. \A m \in 1..size : \E i \in I : Cardinality(upTo(i)) = m
    BY <1>9 DEF counts, count
  <1> DEFINE place(m) == CHOOSE i \in I : Cardinality(upTo(i)) = m
             nth == [m \in 1..size |-> place(m)]
  <1>11. \A m \in 1..size : place(m) \in I /\ Cardinality(upTo(place(m))) = m
    BY <1>10
  <1>12. Page!Only(s, I) = [m \in 1..size |-> s[place(m)]]
    BY DEF Page!Only, Page!Cardinality, Cardinality, size, upTo
  <1> HIDE DEF place
  <1>13. /\ nth \in [1..size -> I]
         /\ \A m \in 1..size : nth[m] \in I /\ Cardinality(upTo(nth[m])) = m
         /\ Page!Only(s, I) = [m \in 1..size |-> s[nth[m]]]
    BY <1>11, <1>12
  <1> HIDE DEF nth
  <1>14. \A x, y \in 1..size : nth[x] = nth[y] => x = y
    BY <1>13
  <1>15. \A i \in I : \E m \in 1..size : nth[m] = i
    <2> SUFFICES ASSUME NEW i \in I PROVE \E m \in 1..size : nth[m] = i
      OBVIOUS
    <2>1. Cardinality(upTo(i)) \in 1..size
      BY <1>4
    <2>2. nth[Cardinality(upTo(i))] \in I
          /\ Cardinality(upTo(nth[Cardinality(upTo(i))])) = Cardinality(upTo(i))
      BY <1>13, <2>1
    <2>3. \A j \in I : Cardinality(upTo(j)) = Cardinality(upTo(i)) => j = i
      BY <1>6 DEF count
    <2>4. nth[Cardinality(upTo(i))] = i
      BY <2>2, <2>3
    <2> QED
      BY <2>1, <2>4
  <1> QED
    BY <1>2, <1>13, <1>14, <1>15 DEF size, Lists

(* An event is shipped in one part, and a part holds at most BeaconCap.    *)
LEMMA PartsAre ==
    ASSUME NEW i \in Nat \ {0}
    PROVE  /\ Page!Part(i) \in 1..i
           /\ (Page!Part(i) - 1) * BeaconCap <= i - 1 /\ i <= (Page!Part(i) - 1) * BeaconCap + BeaconCap
  <1> DEFINE d == (i - 1) \div BeaconCap
  <1>1. BeaconCap \in Nat /\ BeaconCap > 0 /\ i - 1 \in Nat
    BY QueueAssumption
  <1>2. d \in Nat /\ d * BeaconCap <= i - 1 /\ i - 1 < d * BeaconCap + BeaconCap
    BY <1>1
  <1>3. d <= i - 1
    BY <1>1
  <1>4. Page!Part(i) = d + 1
    BY DEF Page!Part
  <1> HIDE DEF d
  <1>5. Page!Part(i) - 1 = d
    BY <1>2, <1>4
  <1> QED
    BY <1>1, <1>2, <1>3, <1>4, <1>5

-----------------------------------------------------------------------------
(* Shipping                                                                *)

(* No event that was seen is twice in a queue, or twice in some batches.   *)
Once(q) == \A x, y \in DOMAIN q : q[x].kind = "seen" /\ q[x] = q[y] => x = y

OnceIn(batches) ==
    \A k, l \in DOMAIN batches : \A x \in DOMAIN batches[k], y \in DOMAIN batches[l] :
       batches[k][x].kind = "seen" /\ batches[k][x] = batches[l][y] => k = l /\ x = y

(* The members of p at the places of I, and none of them twice that was in *)
(* p once.                                                                 *)
LEMMA OnlyOf ==
    ASSUME NEW S, NEW p \in Seq(S), NEW I \in SUBSET DOMAIN p
    PROVE  /\ Page!Only(p, I) \in Seq(S) /\ Len(Page!Only(p, I)) = Cardinality(I)
           /\ IsFiniteSet(I) /\ Cardinality(I) \in Nat
           /\ \A x \in DOMAIN Page!Only(p, I) : \E i \in I : Page!Only(p, I)[x] = p[i]
           /\ \A i \in I : \E x \in DOMAIN Page!Only(p, I) : Page!Only(p, I)[x] = p[i]
           /\ Once(p) => Once(Page!Only(p, I))
  <1>1. DOMAIN p = 1..Len(p) /\ Len(p) \in Nat
    OBVIOUS
  <1>2. I \in SUBSET Nat /\ \A i \in I : i <= Len(p)
    BY <1>1
  <1>3. IsFiniteSet(I)
    BY <1>1, <1>2, FS_BoundedSetOfNaturals
  <1>4. PICK nth : Lists(nth, p, I)
    BY <1>2, <1>3, OnlyLists
  <1>5. Cardinality(I) \in Nat
    BY <1>3, FS_CardinalityType
  <1>6. \A m \in 1..Cardinality(I) : nth[m] \in DOMAIN p /\ p[nth[m]] \in S
    BY <1>4 DEF Lists
  <1>7. Page!Only(p, I) \in Seq(S) /\ Len(Page!Only(p, I)) = Cardinality(I)
        /\ DOMAIN Page!Only(p, I) = 1..Cardinality(I)
    BY <1>4, <1>5, <1>6 DEF Lists
  <1>8. Once(p) => Once(Page!Only(p, I))
    BY <1>4, <1>6, <1>7 DEF Once, Lists
  <1> QED
    BY <1>3, <1>4, <1>5, <1>7, <1>8 DEF Lists

(* What ship() makes of a queue: parts that are neither empty nor too      *)
(* large, each of the events with its number.                              *)
LEMMA ChunksAre ==
    ASSUME NEW S, NEW p \in Seq(S), NEW k \in Page!Parts(p)
    PROVE  /\ Page!Chunks(p)[k] = Page!Only(p, {i \in DOMAIN p : Page!Part(i) = k})
           /\ Page!Chunks(p)[k] \in Seq(S) /\ Len(Page!Chunks(p)[k]) \in 1..BeaconCap
           /\ \A x \in DOMAIN Page!Chunks(p)[k] :
                 \E i \in DOMAIN p : Page!Part(i) = k /\ Page!Chunks(p)[k][x] = p[i]
           /\ \A i \in DOMAIN p : Page!Part(i) = k =>
                 \E x \in DOMAIN Page!Chunks(p)[k] : Page!Chunks(p)[k][x] = p[i]
           /\ Once(p) => Once(Page!Chunks(p)[k])
  <1> DEFINE I == {i \in DOMAIN p : Page!Part(i) = k}
  <1>1. Page!Chunks(p)[k] = Page!Only(p, I)
    BY DEF Page!Chunks
  <1>2. I \in SUBSET DOMAIN p /\ \A i \in I : i \in Nat \ {0} /\ Page!Part(i) = k
    OBVIOUS
  <1>3. I # {}
    BY DEF Page!Parts
  <1>4. \A i \in DOMAIN p : Page!Part(i) = k => i \in I
    OBVIOUS
  <1> HIDE DEF I
  <1>5. /\ Page!Only(p, I) \in Seq(S) /\ Len(Page!Only(p, I)) = Cardinality(I)
        /\ IsFiniteSet(I) /\ Cardinality(I) \in Nat
        /\ \A x \in DOMAIN Page!Only(p, I) : \E i \in I : Page!Only(p, I)[x] = p[i]
        /\ \A i \in I : \E x \in DOMAIN Page!Only(p, I) : Page!Only(p, I)[x] = p[i]
        /\ Once(p) => Once(Page!Only(p, I))
    BY <1>2, OnlyOf
  <1>6. BeaconCap \in Nat /\ k \in Nat
    BY <1>2, <1>3, PartsAre, QueueAssumption
  <1>7. Cardinality(I) \in 1..BeaconCap
    <2> DEFINE before == (k - 1) * BeaconCap
    <2>1. before \in Int
      BY <1>6
    <2>2. \A i \in I : before <= i - 1 /\ i <= before + BeaconCap
      BY <1>2, PartsAre
    <2> HIDE DEF before
    <2>3. I \in SUBSET ((before + 1)..(before + BeaconCap))
      BY <1>2, <1>6, <2>1, <2>2
    <2>4. IsFiniteSet((before + 1)..(before + BeaconCap))
          /\ Cardinality((before + 1)..(before + BeaconCap)) = BeaconCap
      BY <1>6, <2>1, QueueAssumption, FS_Interval
    <2>5. Cardinality(I) <= BeaconCap
      BY <2>3, <2>4, FS_Subset
    <2>6. Cardinality(I) # 0
      BY <1>3, <1>5, FS_EmptySet
    <2> QED
      BY <1>5, <1>6, <2>5, <2>6
  <1>8. \A i \in I : i \in DOMAIN p
    BY <1>2
  <1> QED
    BY <1>1, <1>2, <1>4, <1>5, <1>7, <1>8 DEF I

(* The parts that were accepted.                                           *)
LEMMA ShippedAre ==
    ASSUME NEW S, NEW p \in Seq(S), NEW ok \in SUBSET Page!Parts(p)
    PROVE  LET new == Page!Only(Page!Chunks(p), ok)
           IN  /\ new \in Seq(Seq(S)) /\ \A m \in DOMAIN new : Len(new[m]) \in 1..BeaconCap
               /\ \A m \in DOMAIN new : \A x \in DOMAIN new[m] :
                     \E i \in DOMAIN p : Page!Part(i) \in ok /\ new[m][x] = p[i]
               /\ \A i \in DOMAIN p : Page!Part(i) \in ok =>
                     \E m \in DOMAIN new : \E x \in DOMAIN new[m] : new[m][x] = p[i]
               /\ Once(p) => OnceIn(new)
  <1> DEFINE new == Page!Only(Page!Chunks(p), ok)
             chunk == Page!Chunks(p)
  <1>1. DOMAIN p = 1..Len(p) /\ Len(p) \in Nat
    OBVIOUS
  <1>2. ok \in SUBSET Nat /\ \A k \in ok : k <= Len(p)
    <2>1. \A i \in DOMAIN p : Page!Part(i) \in Nat /\ Page!Part(i) <= Len(p)
      BY <1>1, PartsAre
    <2> QED
      BY <2>1 DEF Page!Parts
  <1>3. IsFiniteSet(ok)
    BY <1>1, <1>2, FS_BoundedSetOfNaturals
  <1>4. ASSUME NEW k \in ok
        PROVE  /\ chunk[k] \in Seq(S) /\ Len(chunk[k]) \in 1..BeaconCap
               /\ \A x \in DOMAIN chunk[k] : \E i \in DOMAIN p : Page!Part(i) = k /\ chunk[k][x] = p[i]
               /\ \A i \in DOMAIN p : Page!Part(i) = k => \E x \in DOMAIN chunk[k] : chunk[k][x] = p[i]
               /\ Once(p) => Once(chunk[k])
    <2>1. k \in Page!Parts(p)
      OBVIOUS
    <2>2. /\ chunk[k] \in Seq(S) /\ Len(chunk[k]) \in 1..BeaconCap
          /\ Once(p) => Once(chunk[k])
      BY <2>1, ChunksAre
    <2>3. \A x \in DOMAIN chunk[k] : \E i \in DOMAIN p : Page!Part(i) = k /\ chunk[k][x] = p[i]
      BY <2>1, ChunksAre, Zenon
    <2>4. \A i \in DOMAIN p : Page!Part(i) = k => \E x \in DOMAIN chunk[k] : chunk[k][x] = p[i]
      BY <2>1, ChunksAre, Zenon
    <2> QED
      BY <2>2, <2>3, <2>4
  <1>5. PICK nth : Lists(nth, chunk, ok)
    BY <1>2, <1>3, OnlyLists
  <1> HIDE DEF chunk
  <1>6. Cardinality(ok) \in Nat
    BY <1>3, FS_CardinalityType
  <1>7. /\ nth \in [1..Cardinality(ok) -> ok]
        /\ new = [m \in 1..Cardinality(ok) |-> chunk[nth[m]]]
        /\ \A x, y \in 1..Cardinality(ok) : nth[x] = nth[y] => x = y
        /\ \A i \in ok : \E m \in 1..Cardinality(ok) : nth[m] = i
    BY <1>5 DEF Lists, new, chunk
  <1> HIDE DEF new
  <1>8. ASSUME NEW m \in 1..Cardinality(ok)
        PROVE  /\ nth[m] \in ok /\ new[m] = chunk[nth[m]]
               /\ new[m] \in Seq(S) /\ Len(new[m]) \in 1..BeaconCap
               /\ \A x \in DOMAIN new[m] : \E i \in DOMAIN p : Page!Part(i) = nth[m] /\ new[m][x] = p[i]
               /\ \A i \in DOMAIN p : Page!Part(i) = nth[m] => \E x \in DOMAIN new[m] : new[m][x] = p[i]
               /\ Once(p) => Once(new[m])
    <2>1. nth[m] \in ok /\ new[m] = chunk[nth[m]]
      BY <1>7
    <2> QED
      BY <2>1, <1>4
  <1>9. new \in Seq(Seq(S)) /\ DOMAIN new = 1..Cardinality(ok)
    <2>1. \A m \in 1..Cardinality(ok) : chunk[nth[m]] \in Seq(S)
      BY <1>8
    <2> QED
      BY <1>6, <1>7, <2>1
  <1>10. \A i \in DOMAIN p : Page!Part(i) \in ok =>
            \E m \in DOMAIN new : \E x \in DOMAIN new[m] : new[m][x] = p[i]
    <2> SUFFICES ASSUME NEW i \in DOMAIN p, Page!Part(i) \in ok
                 PROVE  \E m \in DOMAIN new : \E x \in DOMAIN new[m] : new[m][x] = p[i]
      OBVIOUS
    <2>1. PICK m \in 1..Cardinality(ok) : nth[m] = Page!Part(i)
      BY <1>7
    <2>2. \E x \in DOMAIN new[m] : new[m][x] = p[i]
      BY <1>8, <2>1
    <2> QED
      BY <1>9, <2>2
  <1>11. ASSUME Once(p) PROVE OnceIn(new)
    <2> SUFFICES ASSUME NEW k \in DOMAIN new, NEW l \in DOMAIN new,
                        NEW x \in DOMAIN new[k], NEW y \in DOMAIN new[l],
                        new[k][x].kind = "seen", new[k][x] = new[l][y]
                 PROVE  k = l /\ x = y
      BY DEF OnceIn
    <2>1. PICK i \in DOMAIN p : Page!Part(i) = nth[k] /\ new[k][x] = p[i]
      BY <1>8, <1>9
    <2>2. PICK j \in DOMAIN p : Page!Part(j) = nth[l] /\ new[l][y] = p[j]
      BY <1>8, <1>9
    <2>3. i = j
      BY <1>11, <2>1, <2>2 DEF Once
    <2>4. k = l
      <3>1. k \in 1..Cardinality(ok) /\ l \in 1..Cardinality(ok)
        BY <1>9
      <3>2. nth[k] = nth[l]
        BY <2>1, <2>2, <2>3
      <3> QED
        BY <1>7, <3>1, <3>2
    <2>5. Once(new[k])
      BY <1>8, <1>9, <1>11
    <2> QED
      BY <2>4, <2>5 DEF Once
  <1> QED
    BY <1>8, <1>9, <1>10, <1>11, <1>7 DEF new, chunk

-----------------------------------------------------------------------------
(* The queue, what was dropped and what was sent                           *)

(* A report of what was dropped is to be written, waits, or was sent.      *)
Told(q, counted, batches) ==
    \/ counted > 0
    \/ \E x \in DOMAIN q : q[x].kind = "probe-drop" /\ q[x].dropped > 0
    \/ \E k \in DOMAIN batches : \E x \in DOMAIN batches[k] :
          batches[k][x].kind = "probe-drop" /\ batches[k][x].dropped > 0

(* Of a queue, the count beside it, the events dropped and the batches     *)
(* sent before tick t: an event that was seen is in one of them, once.     *)
Sound(q, counted, gone, batches, t) ==
    /\ q \in Seq(Page!Event) /\ counted \in Nat /\ gone \subseteq Page!Event
    /\ batches \in Seq(Seq(Page!Event))
    /\ \A x \in DOMAIN q : q[x].ts < t
    /\ \A e \in gone : e.ts < t
    /\ \A k \in DOMAIN batches : \A x \in DOMAIN batches[k] : batches[k][x].ts < t
    /\ Once(q) /\ OnceIn(batches)
    /\ \A x \in DOMAIN q : q[x].kind = "seen" =>
          /\ q[x] \notin gone
          /\ \A k \in DOMAIN batches : \A y \in DOMAIN batches[k] : batches[k][y] # q[x]
    /\ \A k \in DOMAIN batches : \A x \in DOMAIN batches[k] :
          batches[k][x].kind = "seen" => batches[k][x] \notin gone
    /\ gone # {} => Told(q, counted, batches)

(* trim() cuts a queue in two: what comes off the front, and what is left. *)
LEMMA TrimSplits ==
    ASSUME NEW S, NEW q \in Seq(S)
    PROVE  \E d \in 0..Len(q) :
              /\ Page!Excess(q) \in Seq(S) /\ Len(Page!Excess(q)) = d
              /\ \A x \in 1..d : Page!Excess(q)[x] = q[x]
              /\ Page!Trimmed(q) \in Seq(S) /\ Len(Page!Trimmed(q)) = Len(q) - d
              /\ \A x \in 1..(Len(q) - d) : Page!Trimmed(q)[x] = q[x + d]
              /\ Len(Page!Trimmed(q)) <= QueueCap
  <1>1. Len(q) \in Nat /\ QueueCap \in Nat /\ DOMAIN q = 1..Len(q) /\ \A x \in 1..Len(q) : q[x] \in S
    BY QueueAssumption
  <1>2. CASE Len(q) > QueueCap
    <2> DEFINE d == Len(q) - QueueCap
    <2>1. d \in 0..Len(q) /\ d + 1 \in Int /\ Len(q) - QueueCap + 1 = d + 1 /\ d \in Int
          /\ Len(q) \in Int
      BY <1>1, <1>2
    <2>2. (\A x \in 1..d : q[x] \in S) /\ \A x \in (d + 1)..Len(q) : q[x] \in S
      BY <1>1, <2>1
    <2>3. Page!Excess(q) = SubSeq(q, 1, d) /\ Page!Trimmed(q) = SubSeq(q, d + 1, Len(q))
      BY <1>2 DEF Page!Excess, Page!Trimmed, Page!Kept
    <2> HIDE DEF d
    <2>4. /\ SubSeq(q, 1, d) \in Seq(S)
          /\ Len(SubSeq(q, 1, d)) = (IF 1 <= d THEN d - 1 + 1 ELSE 0)
          /\ \A x \in 1..(d - 1 + 1) : SubSeq(q, 1, d)[x] = q[1 + x - 1]
      BY <2>1, <2>2, SubSeqProperties
    <2>5. /\ SubSeq(q, d + 1, Len(q)) \in Seq(S)
          /\ Len(SubSeq(q, d + 1, Len(q))) = (IF d + 1 <= Len(q) THEN Len(q) - (d + 1) + 1 ELSE 0)
          /\ \A x \in 1..(Len(q) - (d + 1) + 1) : SubSeq(q, d + 1, Len(q))[x] = q[d + 1 + x - 1]
      BY <2>1, <2>2, SubSeqProperties
    <2>6. Len(SubSeq(q, 1, d)) = d /\ \A x \in 1..d : SubSeq(q, 1, d)[x] = q[x]
      BY <2>1, <2>4
    <2>7. /\ Len(SubSeq(q, d + 1, Len(q))) = Len(q) - d
          /\ \A x \in 1..(Len(q) - d) : SubSeq(q, d + 1, Len(q))[x] = q[x + d]
      <3>1. Len(q) - (d + 1) + 1 = Len(q) - d
        BY <1>1, <2>1
      <3>2. \A x \in 1..(Len(q) - d) : d + 1 + x - 1 = x + d
        BY <1>1, <2>1
      <3>3. \A a, b \in Int : a <= b => a + 1 <= b \/ b - a = 0
        OBVIOUS
      <3>4. d \in Int /\ Len(q) \in Int /\ d <= Len(q)
        BY <2>1
      <3>5. d + 1 <= Len(q) \/ Len(q) - d = 0
        BY <3>3, <3>4
      <3>6. Len(SubSeq(q, d + 1, Len(q))) = Len(q) - d
        BY <2>5, <3>1, <3>5
      <3> QED
        BY <2>5, <3>1, <3>2, <3>6
    <2>8. Len(q) - d <= QueueCap
      BY <1>1 DEF d
    <2> QED
      BY <2>1, <2>3, <2>4, <2>5, <2>6, <2>7, <2>8
  <1>3. CASE ~(Len(q) > QueueCap)
    <2>1. Page!Excess(q) = <<>> /\ Page!Trimmed(q) = q
      BY <1>3 DEF Page!Excess, Page!Trimmed
    <2>2. /\ <<>> \in Seq(S) /\ Len(<<>>) = 0 /\ \A x \in 1..0 : <<>>[x] = q[x]
          /\ \A x \in 1..Len(q) : q[x] = q[x + 0]
      BY <1>1
    <2>3. 0 \in 0..Len(q) /\ Len(q) - 0 = Len(q)
      BY <1>1
    <2> WITNESS 0 \in 0..Len(q)
    <2> QED
      BY <1>1, <1>3, <2>1, <2>2, <2>3
  <1> QED
    BY <1>2, <1>3

(* What trim takes off the front is counted, and seen no more.             *)
LEMMA TrimKeeps ==
    ASSUME NEW q, NEW c, NEW gone, NEW batches, NEW t, Sound(q, c, gone, batches, t)
    PROVE  /\ Sound(Page!Trimmed(q), c + Len(Page!Excess(q)),
                    gone \cup Page!Events(Page!Excess(q)), batches, t)
           /\ Len(Page!Trimmed(q)) <= QueueCap
  <1> DEFINE cut == Page!Trimmed(q)
             off == Page!Excess(q)
             gone2 == gone \cup Page!Events(off)
  <1>1. q \in Seq(Page!Event) /\ DOMAIN q = 1..Len(q) /\ Len(q) \in Nat
    BY DEF Sound
  <1>2. PICK d \in 0..Len(q) :
              /\ off \in Seq(Page!Event) /\ Len(off) = d
              /\ \A x \in 1..d : off[x] = q[x]
              /\ cut \in Seq(Page!Event) /\ Len(cut) = Len(q) - d
              /\ \A x \in 1..(Len(q) - d) : cut[x] = q[x + d]
              /\ Len(cut) <= QueueCap
    BY <1>1, TrimSplits
  <1>3. \A e : e \in gone2 <=> e \in gone \/ \E x \in 1..d : e = q[x] /\ q[x].kind # "probe-drop"
    <2>1. DOMAIN off = 1..d
      BY <1>2
    <2>2. gone2 = gone \cup {e \in {off[x] : x \in DOMAIN off} : e.kind # "probe-drop"}
      BY DEF Page!Events, Page!Range
    <2> HIDE DEF off, gone2
    <2>3. \A e : e \in {off[x] : x \in DOMAIN off} <=> \E x \in 1..d : e = q[x]
      BY <1>2, <2>1
    <2> QED
      BY <2>2, <2>3
  <1> HIDE DEF cut, off, gone2
  <1>4. DOMAIN cut = 1..(Len(q) - d) /\ \A x \in DOMAIN cut : x + d \in DOMAIN q /\ cut[x] = q[x + d]
    BY <1>1, <1>2
  <1>5. \A x \in 1..d : x \in DOMAIN q /\ q[x] \in Page!Event
    BY <1>1, <1>2
  <1>6. c + Len(off) \in Nat /\ gone2 \subseteq Page!Event /\ c \in Nat /\ d \in Nat
    BY <1>2, <1>3, <1>5 DEF Sound
  <1>7. (\A x \in DOMAIN cut : cut[x].ts < t) /\ \A e \in gone2 : e.ts < t
    BY <1>3, <1>4, <1>5 DEF Sound
  <1>8. Once(cut)
    BY <1>1, <1>2, <1>4 DEF Sound, Once
  <1>9. ASSUME NEW x \in DOMAIN cut, cut[x].kind = "seen"
        PROVE  /\ cut[x] \notin gone2
               /\ \A k \in DOMAIN batches : \A y \in DOMAIN batches[k] : batches[k][y] # cut[x]
    <2>1. x + d \in DOMAIN q /\ cut[x] = q[x + d] /\ q[x + d].kind = "seen"
      BY <1>4, <1>9
    <2>2. \A y \in 1..d : q[y] # q[x + d]
      BY <1>1, <1>4, <1>5, <1>6, <2>1 DEF Sound, Once
    <2> QED
      BY <1>3, <2>1, <2>2 DEF Sound
  <1>10. ASSUME NEW k \in DOMAIN batches, NEW x \in DOMAIN batches[k], batches[k][x].kind = "seen"
         PROVE  batches[k][x] \notin gone2
    <2>1. batches[k][x] \notin gone
      BY <1>10 DEF Sound
    <2>2. \A y \in 1..d : q[y] # batches[k][x]
      BY <1>5, <1>10 DEF Sound
    <2> QED
      BY <1>3, <2>1, <2>2
  <1>11. ASSUME gone2 # {} PROVE Told(cut, c + Len(off), batches)
    <2>1. CASE d > 0
      BY <1>2, <1>6, <2>1 DEF Told
    <2>2. CASE d = 0
      <3>1. gone # {} /\ DOMAIN cut = DOMAIN q /\ \A x \in DOMAIN q : cut[x] = q[x]
        BY <1>1, <1>3, <1>4, <1>11, <2>2
      <3>2. Told(q, c, batches) /\ c + Len(off) = c
        BY <1>2, <1>6, <2>2, <3>1 DEF Sound
      <3> QED
        BY <3>1, <3>2 DEF Told
    <2> QED
      BY <1>6, <2>1, <2>2
  <1>12. Sound(cut, c + Len(off), gone2, batches, t)
    BY <1>2, <1>6, <1>7, <1>8, <1>9, <1>10, <1>11 DEF Sound
  <1> QED
    BY <1>2, <1>12 DEF cut, off, gone2

(* What flush leads its queue with is a report of the count.               *)
LEMMA PendingKeeps ==
    ASSUME clock \in 0..MaxTicks,
           NEW q, NEW c, NEW gone, NEW batches, Sound(q, c, gone, batches, clock + 1)
    PROVE  Sound(Page!Pending(q, c), 0, gone, batches, clock + 1)
  <1>1. q \in Seq(Page!Event) /\ DOMAIN q = 1..Len(q) /\ Len(q) \in Nat /\ c \in Nat
    BY DEF Sound
  <1>2. CASE c = 0
    BY <1>2 DEF Sound, Page!Pending
  <1>3. CASE c # 0
    <2> DEFINE drop == Page!Pack("probe-drop", c)
               p == <<drop>> \o q
    <2>1. drop \in Page!Event /\ drop.kind = "probe-drop" /\ drop.dropped = c /\ drop.ts = clock
      BY <1>1 DEF Page!Pack, Page!Event
    <2>2. Page!Pending(q, c) = p
      BY <1>3 DEF Page!Pending
    <2> HIDE DEF drop
    <2>3. /\ p \in Seq(Page!Event) /\ DOMAIN p = 1..(Len(q) + 1) /\ p[1] = drop
          /\ \A x \in 2..(Len(q) + 1) : x - 1 \in DOMAIN q /\ p[x] = q[x - 1]
      BY <1>1, <2>1
    <2> HIDE DEF p
    <2>4. \A x \in DOMAIN p : x = 1 \/ x \in 2..(Len(q) + 1)
      BY <1>1, <2>3
    <2>5. \A x \in DOMAIN p : p[x].ts < clock + 1
      BY <2>1, <2>3, <2>4, TicksAssumption DEF Sound
    <2>6. \A x \in DOMAIN p : p[x].kind = "seen" => x - 1 \in DOMAIN q /\ p[x] = q[x - 1]
      BY <2>1, <2>3, <2>4
    <2>7. Once(p)
      <3> SUFFICES ASSUME NEW x \in DOMAIN p, NEW y \in DOMAIN p, p[x].kind = "seen", p[x] = p[y]
                   PROVE  x = y
        BY DEF Once
      <3>1. x - 1 \in DOMAIN q /\ y - 1 \in DOMAIN q /\ p[x] = q[x - 1] /\ p[y] = q[y - 1]
        BY <2>6
      <3>2. x - 1 = y - 1
        BY <3>1 DEF Sound, Once
      <3> QED
        BY <2>3, <3>2
    <2>8. Told(p, 0, batches)
      BY <1>1, <1>3, <2>1, <2>3 DEF Told
    <2>9. \A x \in DOMAIN p : p[x].kind = "seen" =>
             /\ p[x] \notin gone
             /\ \A k \in DOMAIN batches : \A y \in DOMAIN batches[k] : batches[k][y] # p[x]
      BY <2>6 DEF Sound
    <2> QED
      BY <2>2, <2>3, <2>5, <2>7, <2>8, <2>9 DEF Sound
  <1> QED
    BY <1>2, <1>3

(* An event that is emitted is new.                                        *)
LEMMA EmitKeeps ==
    ASSUME clock \in 0..MaxTicks,
           NEW q, NEW c, NEW gone, NEW batches, Sound(q, c, gone, batches, clock)
    PROVE  Sound(Append(q, Page!Pack("seen", 0)), c, gone, batches, clock + 1)
  <1> DEFINE event == Page!Pack("seen", 0)
             p == Append(q, event)
  <1>1. q \in Seq(Page!Event) /\ DOMAIN q = 1..Len(q) /\ Len(q) \in Nat /\ c \in Nat /\ clock \in Int
    BY DEF Sound
  <1>2. event \in Page!Event /\ event.kind = "seen" /\ event.ts = clock
    BY <1>1 DEF Page!Pack, Page!Event
  <1> HIDE DEF event
  <1>3. /\ p \in Seq(Page!Event) /\ DOMAIN p = 1..(Len(q) + 1) /\ p[Len(q) + 1] = event
        /\ \A x \in 1..Len(q) : x \in DOMAIN q /\ p[x] = q[x]
    BY <1>1, <1>2
  <1> HIDE DEF p
  <1>4. \A x \in DOMAIN p : x = Len(q) + 1 \/ x \in 1..Len(q)
    BY <1>1, <1>3
  <1>5. \A e \in Page!Event : e.ts \in Int
    BY TicksAssumption DEF Page!Event
  <1>6. /\ \A x \in DOMAIN q : q[x].ts < clock + 1 /\ q[x] # event
        /\ \A e \in gone : e.ts < clock + 1 /\ e # event
        /\ \A k \in DOMAIN batches : \A x \in DOMAIN batches[k] :
              batches[k][x].ts < clock + 1 /\ batches[k][x] # event
    <2>1. \A e \in Page!Event : e.ts < clock => e.ts < clock + 1 /\ e # event
      BY <1>1, <1>2, <1>5
    <2>2. \A k \in DOMAIN batches : \A x \in DOMAIN batches[k] : batches[k][x] \in Page!Event
      BY DEF Sound
    <2>3. \A x \in DOMAIN q : q[x] \in Page!Event
      BY <1>1
    <2> QED
      BY <2>1, <2>2, <2>3 DEF Sound
  <1>7. \A x \in DOMAIN p : p[x].ts < clock + 1
    BY <1>1, <1>2, <1>3, <1>4, <1>6
  <1>8. Once(p)
    BY <1>3, <1>4, <1>6 DEF Sound, Once
  <1>9. \A x \in DOMAIN p : p[x].kind = "seen" =>
           /\ p[x] \notin gone
           /\ \A k \in DOMAIN batches : \A y \in DOMAIN batches[k] : batches[k][y] # p[x]
    BY <1>3, <1>4, <1>6 DEF Sound
  <1>10. Told(q, c, batches) => Told(p, c, batches)
    BY <1>1, <1>3 DEF Told
  <1>11. Sound(p, c, gone, batches, clock + 1)
    BY <1>3, <1>6, <1>7, <1>8, <1>9, <1>10 DEF Sound
  <1> QED
    BY <1>11 DEF p, event

(* Two sequences of batches in one.                                        *)
LEMMA JoinedAre ==
    ASSUME NEW T, NEW u \in Seq(T), NEW w \in Seq(T)
    PROVE  /\ u \o w \in Seq(T) /\ DOMAIN (u \o w) = 1..(Len(u) + Len(w))
           /\ \A k \in DOMAIN u : k \in DOMAIN (u \o w) /\ (u \o w)[k] = u[k]
           /\ \A m \in DOMAIN w : Len(u) + m \in DOMAIN (u \o w) /\ (u \o w)[Len(u) + m] = w[m]
           /\ \A k \in DOMAIN (u \o w) : k \notin DOMAIN u =>
                 k - Len(u) \in DOMAIN w /\ (u \o w)[k] = w[k - Len(u)]
  <1>1. /\ Len(u) \in Nat /\ DOMAIN u = 1..Len(u)
        /\ Len(w) \in Nat /\ DOMAIN w = 1..Len(w)
    OBVIOUS
  <1>2. u \o w \in Seq(T) /\ Len(u \o w) = Len(u) + Len(w)
    OBVIOUS
  <1>3. DOMAIN (u \o w) = 1..(Len(u) + Len(w))
    BY <1>2
  <1>4. ASSUME NEW k \in 1..(Len(u) + Len(w))
        PROVE  (u \o w)[k] = IF k <= Len(u) THEN u[k] ELSE w[k - Len(u)]
    BY <1>1
  <1>5. ASSUME NEW m \in 1..Len(w)
        PROVE  Len(u) + m \in 1..(Len(u) + Len(w)) /\ ~(Len(u) + m <= Len(u))
               /\ (Len(u) + m) - Len(u) = m
    BY <1>1
  <1>6. \A m \in 1..Len(w) : (u \o w)[Len(u) + m] = w[m]
    BY <1>4, <1>5
  <1>7. ASSUME NEW k \in 1..(Len(u) + Len(w)), k \notin 1..Len(u)
        PROVE  k - Len(u) \in 1..Len(w) /\ (u \o w)[k] = w[k - Len(u)]
    <2>1. k - Len(u) \in 1..Len(w) /\ ~(k <= Len(u))
      BY <1>1, <1>7
    <2> QED
      BY <1>4, <2>1
  <1>8. ASSUME NEW k \in 1..Len(u)
        PROVE  k \in 1..(Len(u) + Len(w)) /\ (u \o w)[k] = u[k]
    <2>1. k \in 1..(Len(u) + Len(w)) /\ k <= Len(u)
      BY <1>1
    <2> QED
      BY <1>4, <2>1
  <1> QED
    BY <1>1, <1>2, <1>3, <1>5, <1>6, <1>7, <1>8

(* Each event of a queue is sent or put back, and not both.                *)
LEMMA ShipKeeps ==
    ASSUME NEW p, NEW gone, NEW batches, NEW t, Sound(p, 0, gone, batches, t),
           NEW ok \in SUBSET Page!Parts(p)
    PROVE  LET new == Page!Only(Page!Chunks(p), ok)
           IN  /\ Sound(Page!PutBack(p, ok), 0, gone, batches \o new, t)
               /\ new \in Seq(Seq(Page!Event))
               /\ \A m \in DOMAIN new : Len(new[m]) \in 1..BeaconCap
  <1> DEFINE new == Page!Only(Page!Chunks(p), ok)
             left == {i \in DOMAIN p : Page!Part(i) \notin ok}
             back == Page!PutBack(p, ok)
             all == batches \o new
  <1>1. p \in Seq(Page!Event) /\ batches \in Seq(Seq(Page!Event)) /\ DOMAIN p = 1..Len(p)
        /\ Len(p) \in Nat /\ Len(batches) \in Nat /\ DOMAIN batches = 1..Len(batches)
    BY DEF Sound
  <1>2. /\ new \in Seq(Seq(Page!Event)) /\ \A m \in DOMAIN new : Len(new[m]) \in 1..BeaconCap
        /\ \A m \in DOMAIN new : \A x \in DOMAIN new[m] :
              \E i \in DOMAIN p : Page!Part(i) \in ok /\ new[m][x] = p[i]
        /\ \A i \in DOMAIN p : Page!Part(i) \in ok =>
              \E m \in DOMAIN new : \E x \in DOMAIN new[m] : new[m][x] = p[i]
        /\ Once(p) => OnceIn(new)
    BY <1>1, ShippedAre
  <1>3. back = Page!Only(p, left)
    BY DEF Page!PutBack
  <1>4. left \in SUBSET DOMAIN p /\ \A i \in DOMAIN p : i \in left <=> Page!Part(i) \notin ok
    OBVIOUS
  <1> HIDE DEF left, new, back
  <1>5. /\ back \in Seq(Page!Event)
        /\ \A x \in DOMAIN back : \E i \in left : back[x] = p[i]
        /\ \A i \in left : \E x \in DOMAIN back : back[x] = p[i]
        /\ Once(p) => Once(back)
    BY <1>1, <1>3, <1>4, OnlyOf
  <1>6. DOMAIN new = 1..Len(new) /\ Len(new) \in Nat
    BY <1>2
  <1>7. /\ all \in Seq(Seq(Page!Event)) /\ DOMAIN all = 1..(Len(batches) + Len(new))
        /\ \A k \in DOMAIN batches : k \in DOMAIN all /\ all[k] = batches[k]
        /\ \A m \in DOMAIN new : Len(batches) + m \in DOMAIN all /\ all[Len(batches) + m] = new[m]
        /\ \A k \in DOMAIN all : k \notin DOMAIN batches =>
              k - Len(batches) \in DOMAIN new /\ all[k] = new[k - Len(batches)]
    BY <1>1, <1>2, JoinedAre
  <1>8. \A k \in DOMAIN all :
           \/ k \in DOMAIN batches /\ all[k] = batches[k]
           \/ k - Len(batches) \in DOMAIN new /\ all[k] = new[k - Len(batches)]
              /\ k \notin DOMAIN batches
    BY <1>7
  <1> HIDE DEF all
  <1>9. \A x \in DOMAIN back : back[x].ts < t
    BY <1>4, <1>5 DEF Sound
  <1>10. \A k \in DOMAIN all : \A x \in DOMAIN all[k] : all[k][x].ts < t
    BY <1>2, <1>8 DEF Sound
  <1>11. Once(back) /\ OnceIn(new)
    BY <1>2, <1>5 DEF Sound
  <1>12. \A m \in DOMAIN new : \A x \in DOMAIN new[m] : new[m][x].kind = "seen" =>
            /\ new[m][x] \notin gone
            /\ \A k \in DOMAIN batches : \A y \in DOMAIN batches[k] : batches[k][y] # new[m][x]
    BY <1>2 DEF Sound
  <1>13. OnceIn(all)
    <2> SUFFICES ASSUME NEW k \in DOMAIN all, NEW l \in DOMAIN all,
                        NEW x \in DOMAIN all[k], NEW y \in DOMAIN all[l],
                        all[k][x].kind = "seen", all[k][x] = all[l][y]
                 PROVE  k = l /\ x = y
      BY DEF OnceIn
    <2>1. CASE k \in DOMAIN batches /\ l \in DOMAIN batches
      BY <1>7, <2>1 DEF Sound, OnceIn
    <2>2. CASE k \in DOMAIN batches /\ l \notin DOMAIN batches
      <3>1. l - Len(batches) \in DOMAIN new /\ all[l] = new[l - Len(batches)]
        BY <1>8, <2>2
      <3>2. all[k] = batches[k]
        BY <1>7, <2>2
      <3> QED
        BY <1>12, <2>2, <3>1, <3>2
    <2>3. CASE k \notin DOMAIN batches /\ l \in DOMAIN batches
      <3>1. k - Len(batches) \in DOMAIN new /\ all[k] = new[k - Len(batches)]
        BY <1>8, <2>3
      <3>2. all[l] = batches[l]
        BY <1>7, <2>3
      <3> QED
        BY <1>12, <2>3, <3>1, <3>2
    <2>4. CASE k \notin DOMAIN batches /\ l \notin DOMAIN batches
      <3>1. /\ k - Len(batches) \in DOMAIN new /\ all[k] = new[k - Len(batches)]
            /\ l - Len(batches) \in DOMAIN new /\ all[l] = new[l - Len(batches)]
        BY <1>8, <2>4
      <3>2. k - Len(batches) = l - Len(batches) /\ x = y
        BY <1>11, <3>1 DEF OnceIn
      <3> QED
        BY <1>1, <1>7, <3>2
    <2> QED
      BY <2>1, <2>2, <2>3, <2>4
  <1>14. ASSUME NEW x \in DOMAIN back, back[x].kind = "seen"
         PROVE  /\ back[x] \notin gone
                /\ \A k \in DOMAIN all : \A y \in DOMAIN all[k] : all[k][y] # back[x]
    <2>1. PICK i \in DOMAIN p : i \in left /\ back[x] = p[i] /\ Page!Part(i) \notin ok
      BY <1>4, <1>5
    <2>2. /\ back[x] \notin gone
          /\ \A k \in DOMAIN batches : \A y \in DOMAIN batches[k] : batches[k][y] # back[x]
      BY <1>14, <2>1 DEF Sound
    <2>3. ASSUME NEW m \in DOMAIN new, NEW y \in DOMAIN new[m] PROVE new[m][y] # back[x]
      <3>1. PICK j \in DOMAIN p : Page!Part(j) \in ok /\ new[m][y] = p[j]
        BY <1>2
      <3> QED
        BY <1>14, <2>1, <3>1 DEF Sound, Once
    <2> QED
      BY <1>8, <2>2, <2>3
  <1>15. \A k \in DOMAIN all : \A x \in DOMAIN all[k] :
            all[k][x].kind = "seen" => all[k][x] \notin gone
    BY <1>8, <1>12 DEF Sound
  <1>16. ASSUME gone # {} PROVE Told(back, 0, all)
    <2>1. Told(p, 0, batches)
      BY <1>16 DEF Sound
    <2>2. CASE \E x \in DOMAIN p : p[x].kind = "probe-drop" /\ p[x].dropped > 0
      <3>1. PICK x \in DOMAIN p : p[x].kind = "probe-drop" /\ p[x].dropped > 0
        BY <2>2
      <3>2. CASE Page!Part(x) \in ok
        <4>1. PICK m \in DOMAIN new : \E y \in DOMAIN new[m] : new[m][y] = p[x]
          BY <1>2, <3>2
        <4>2. Len(batches) + m \in DOMAIN all /\ all[Len(batches) + m] = new[m]
          BY <1>7
        <4> QED
          BY <3>1, <4>1, <4>2 DEF Told
      <3>3. CASE Page!Part(x) \notin ok
        BY <1>4, <1>5, <3>1, <3>3 DEF Told
      <3> QED
        BY <3>2, <3>3
    <2>3. CASE \E k \in DOMAIN batches : \E x \in DOMAIN batches[k] :
                  batches[k][x].kind = "probe-drop" /\ batches[k][x].dropped > 0
      BY <1>7, <2>3 DEF Told
    <2> QED
      BY <2>1, <2>2, <2>3 DEF Told
  <1>17. Sound(back, 0, gone, all, t)
    BY <1>5, <1>7, <1>9, <1>10, <1>11, <1>13, <1>14, <1>15, <1>16 DEF Sound
  <1> QED
    BY <1>2, <1>17 DEF new, back, all

-----------------------------------------------------------------------------
(* The page                                                                *)

(* What the page keeps and what was accepted of it, at this tick.          *)
PageInv ==
    /\ Sound(queue, lost, shed, sent, clock)
    /\ Len(queue) <= QueueCap
    /\ \A k \in DOMAIN sent : Len(sent[k]) \in 1..BeaconCap
    /\ clock \in 0..MaxTicks
    /\ wire \subseteq DOMAIN sent

(* flush() only adds to what was sent, and sends what it adds once.        *)
LEMMA FlushKeeps ==
    ASSUME PageInv, clock < MaxTicks, clock' = clock + 1,
           NEW q, NEW c, NEW gone, Sound(q, c, gone, sent, clock + 1),
           Page!FlushQueue(q, c, gone)
    PROVE  /\ PageInv'
           /\ DOMAIN sent \subseteq DOMAIN sent' /\ \A k \in DOMAIN sent : sent'[k] = sent[k]
           /\ DOMAIN sent \ wire \subseteq DOMAIN sent' \ wire'
  <1> DEFINE p == Page!Pending(q, c)
  <1>1. PICK ok \in SUBSET Page!Parts(p) :
           /\ sent' = sent \o Page!Only(Page!Chunks(p), ok)
           /\ wire' = wire \cup (Len(sent) + 1)..Len(sent')
           /\ queue' = Page!Trimmed(Page!PutBack(p, ok))
           /\ Page!Dropped(Page!PutBack(p, ok), 0, gone)
    BY DEF Page!FlushQueue
  <1> DEFINE new == Page!Only(Page!Chunks(p), ok)
             back == Page!PutBack(p, ok)
  <1>2. Sound(p, 0, gone, sent, clock + 1)
    BY PendingKeeps DEF PageInv
  <1> HIDE DEF p
  <1>3. /\ Sound(back, 0, gone, sent \o new, clock + 1)
        /\ new \in Seq(Seq(Page!Event)) /\ \A m \in DOMAIN new : Len(new[m]) \in 1..BeaconCap
    BY <1>2, ShipKeeps
  <1>4. sent' = sent \o new /\ queue' = Page!Trimmed(back)
        /\ lost' = 0 + Len(Page!Excess(back)) /\ shed' = gone \cup Page!Events(Page!Excess(back))
    BY <1>1 DEF Page!Dropped
  <1> HIDE DEF new, back
  <1>5. Sound(queue', lost', shed', sent', clock') /\ Len(queue') <= QueueCap
    BY <1>3, <1>4, TrimKeeps
  <1>6. sent \in Seq(Seq(Page!Event)) /\ Len(sent) \in Nat /\ DOMAIN sent = 1..Len(sent)
        /\ Len(new) \in Nat /\ DOMAIN new = 1..Len(new)
    BY <1>3 DEF PageInv, Sound
  <1>7. /\ Len(sent') = Len(sent) + Len(new) /\ DOMAIN sent' = 1..(Len(sent) + Len(new))
        /\ \A k \in DOMAIN sent : sent'[k] = sent[k]
        /\ \A k \in DOMAIN sent' : k \notin DOMAIN sent =>
              k - Len(sent) \in DOMAIN new /\ sent'[k] = new[k - Len(sent)]
    BY <1>3, <1>4, <1>6
  <1>8. DOMAIN sent \subseteq DOMAIN sent' /\ wire' \subseteq DOMAIN sent'
        /\ DOMAIN sent \ wire \subseteq DOMAIN sent' \ wire'
    BY <1>1, <1>6, <1>7 DEF PageInv
  <1>9. \A k \in DOMAIN sent' : Len(sent'[k]) \in 1..BeaconCap
    BY <1>3, <1>7 DEF PageInv
  <1>10. clock' \in 0..MaxTicks
    BY TicksAssumption DEF PageInv
  <1> QED
    BY <1>5, <1>7, <1>8, <1>9, <1>10 DEF PageInv

(* No handler of the page disturbs a batch that was accepted.              *)
LEMMA PageKeeps ==
    ASSUME PageInv, PageStep
    PROVE  /\ PageInv'
           /\ DOMAIN sent \subseteq DOMAIN sent' /\ \A k \in DOMAIN sent : sent'[k] = sent[k]
           /\ DOMAIN sent \ wire \subseteq DOMAIN sent' \ wire'
  <1> DEFINE q == Append(queue, Page!Pack("seen", 0))
  <1>1. clock < MaxTicks /\ clock' = clock + 1 /\ clock \in Int
    BY DEF PageStep, Page!Emit, Page!EmitUrgent, Page!Flush, Page!Tick, PageInv
  <1>2. Sound(q, lost, shed, sent, clock + 1)
    BY EmitKeeps DEF PageInv
  <1> HIDE DEF q
  <1>3. /\ Sound(Page!Trimmed(q), lost + Len(Page!Excess(q)),
                 shed \cup Page!Events(Page!Excess(q)), sent, clock + 1)
        /\ Len(Page!Trimmed(q)) <= QueueCap
    BY <1>2, TrimKeeps
  <1>4. CASE Page!Emit
    <2>1. /\ queue' = Page!Trimmed(q) /\ lost' = lost + Len(Page!Excess(q))
          /\ shed' = shed \cup Page!Events(Page!Excess(q)) /\ UNCHANGED <<sent, wire>>
      BY <1>4 DEF Page!Emit, Page!Dropped, q
    <2>2. clock' \in 0..MaxTicks
      BY <1>1, TicksAssumption DEF PageInv
    <2> QED
      BY <1>1, <1>3, <2>1, <2>2 DEF PageInv
  <1>5. CASE Page!EmitUrgent
    <2>1. Page!FlushQueue(Page!Trimmed(q), lost + Len(Page!Excess(q)),
                          shed \cup Page!Events(Page!Excess(q)))
      BY <1>5 DEF Page!EmitUrgent, q
    <2> QED
      BY <1>1, <1>3, <2>1, FlushKeeps
  <1>6. CASE Page!Flush
    <2>1. Page!FlushQueue(queue, lost, shed)
      BY <1>6 DEF Page!Flush
    <2>2. Sound(queue, lost, shed, sent, clock + 1)
      <3>1. \A e \in Page!Event : e.ts < clock => e.ts < clock + 1
        BY <1>1, TicksAssumption DEF Page!Event
      <3>2. \A x \in DOMAIN queue : queue[x] \in Page!Event
        BY DEF PageInv, Sound
      <3>3. \A k \in DOMAIN sent : \A x \in DOMAIN sent[k] : sent[k][x] \in Page!Event
        BY DEF PageInv, Sound
      <3> QED
        BY <3>1, <3>2, <3>3 DEF PageInv, Sound
    <2> QED
      BY <1>1, <2>1, <2>2, FlushKeeps
  <1> QED
    BY <1>4, <1>5, <1>6 DEF PageStep

-----------------------------------------------------------------------------
(* Where a batch is placed                                                 *)

(* What a body may hold.                                                   *)
PageEvent == Page!Event \cup PostedEvent

(* The two modules count sets alike.                                       *)
LEMMA SameCount == \A S : Server!Cardinality(S) = Cardinality(S)
  BY DEF Server!Cardinality, Cardinality

(* The offset of event i of a body.                                        *)
At(body, i) == Server!Offset(body[i].ts)

(* What is kept and decodes is in the body, and what can be placed has an  *)
(* offset within MAX_PAGE_MS.                                              *)
LEMMA PlaceableAre ==
    ASSUME NEW body \in Seq(PageEvent)
    PROVE  /\ Server!Placeable(body) \subseteq Server!Decoded(body)
           /\ Server!Decoded(body) \subseteq DOMAIN body
           /\ IsFiniteSet(Server!Decoded(body)) /\ IsFiniteSet(Server!Placeable(body))
           /\ \A i \in Server!Placeable(body) : At(body, i) \in 0..MaxPage
  <1>1. Len(body) \in Nat /\ DOMAIN body = 1..Len(body) /\ MaxPage \in Nat /\ MaxEvents \in Nat
    BY LimitsAssumption
  <1>2. Server!Kept(body) \subseteq DOMAIN body
    BY <1>1 DEF Server!Kept, Server!Least
  <1>3. /\ Server!Decoded(body) \subseteq DOMAIN body
        /\ Server!Placeable(body) \subseteq Server!Decoded(body)
    BY <1>2 DEF Server!Decoded, Server!Placeable
  <1>4. IsFiniteSet(1..Len(body))
    BY <1>1, FS_Interval
  <1>5. IsFiniteSet(Server!Decoded(body)) /\ IsFiniteSet(Server!Placeable(body))
    BY <1>1, <1>3, <1>4, FS_Subset
  <1>6. ASSUME NEW i \in Server!Placeable(body)
        PROVE  At(body, i) \in 0..MaxPage
    <2>1. Server!Offset(body[i].ts) # NoOffset /\ body[i] \in PageEvent
      BY <1>3 DEF Server!Placeable
    <2>2. body[i].ts \in Int
      <3>1. body[i].ts # NoOffset
        BY <2>1 DEF Server!Offset
      <3>2. CASE body[i] \in Page!Event
        BY <3>2, TicksAssumption DEF Page!Event
      <3>3. CASE body[i] \in PostedEvent
        BY <3>1, <3>3 DEF PostedEvent
      <3> QED
        BY <2>1, <3>2, <3>3 DEF PageEvent
    <2>3. body[i].ts # NoOffset
      BY <2>2, LimitsAssumption
    <2> QED
      BY <1>1, <2>2, <2>3 DEF At, Server!Offset, Server!Least, Server!Most
  <1> QED
    BY <1>3, <1>5, <1>6

(* Numbers that are not too large have a least and a largest.              *)
LEMMA LeastOf ==
    ASSUME NEW S \in SUBSET Nat, S # {}
    PROVE  \E m \in S : \A x \in S : m <= x
  <1>1. PICK m \in S : \A x \in S : ~(<<x, m>> \in OpToRel(<, Nat))
    BY WFMin, NatLessThanWellFounded, Zenon
  <1>2. \A x \in S : ~(x < m)
    BY <1>1 DEF OpToRel
  <1> QED
    BY <1>2

(* Numbers with a bound have a largest.                                    *)
LEMMA GreatestOf ==
    ASSUME NEW top \in Nat, NEW S \in SUBSET (0..top), S # {}
    PROVE  \E m \in S : \A x \in S : x <= m
  <1> DEFINE R == {top - x : x \in S}
  <1>1. \A x \in S : x \in Nat /\ x <= top
    OBVIOUS
  <1>2. \A x \in S : top - x \in R /\ top - x \in Nat
    BY <1>1
  <1>3. \A y \in R : y \in Nat
    BY <1>2
  <1> HIDE DEF R
  <1>4. R \in SUBSET Nat /\ R # {}
    BY <1>2, <1>3
  <1>5. PICK y \in R : \A x \in R : y <= x
    BY <1>4, LeastOf
  <1>6. PICK m \in S : y = top - m
    BY <1>5 DEF R
  <1> QED
    BY <1>1, <1>2, <1>5, <1>6

(* At most half of the offsets are below the median, and more than half    *)
(* are not above it.                                                       *)
LEMMA MedianIs ==
    ASSUME NEW body \in Seq(PageEvent), Server!Placeable(body) # {}
    PROVE  LET I == Server!Placeable(body)
               v == Server!Median(body, I)
           IN  /\ \E i \in I : v = At(body, i)
               /\ Cardinality({i \in I : At(body, i) < v}) <= Cardinality(I) \div 2
  <1> DEFINE I == Server!Placeable(body)
             upTo(w) == {i \in I : At(body, i) <= w}
             below(w) == {i \in I : At(body, i) < w}
             half == Cardinality(I) \div 2
             good == {w \in Nat : Cardinality(upTo(w)) > half}
  <1>1. IsFiniteSet(I) /\ MaxPage \in Nat /\ \A i \in I : At(body, i) \in Nat /\ At(body, i) <= MaxPage
    BY PlaceableAre, LimitsAssumption
  <1>2. Cardinality(I) \in Nat /\ Cardinality(I) # 0
    BY <1>1, FS_CardinalityType, FS_EmptySet
  <1>3. half \in Nat /\ Cardinality(I) > half
    BY <1>2
  <1>4. upTo(MaxPage) = I
    BY <1>1
  <1>5. \A w : /\ \A i : i \in upTo(w) <=> i \in I /\ At(body, i) <= w
               /\ \A i : i \in below(w) <=> i \in I /\ At(body, i) < w
               /\ upTo(w) \in SUBSET I /\ below(w) \in SUBSET I
    OBVIOUS
  <1> HIDE DEF I, upTo, below, half
  <1>6. good \in SUBSET Nat /\ good # {}
    BY <1>1, <1>3, <1>4
  <1>7. PICK w \in good : \A x \in good : w <= x
    BY <1>6, LeastOf
  <1>8. w \in Nat /\ Cardinality(upTo(w)) > half /\ \A x \in Nat : Cardinality(upTo(x)) > half => w <= x
    BY <1>7
  <1> HIDE DEF good
  <1>9. Cardinality(below(w)) <= half /\ \E i \in I : At(body, i) = w
    <2>1. CASE w = 0
      <3>1. below(w) = {}
        BY <1>1, <1>5, <2>1
      <3>2. upTo(w) # {}
        <4>1. Cardinality({}) = 0
          BY FS_EmptySet
        <4>2. half \in Nat /\ Cardinality(upTo(w)) > half
          BY <1>3, <1>8
        <4>3. Cardinality(upTo(w)) # 0
          BY <4>2
        <4> QED
          BY <4>1, <4>3, Zenon
      <3>3. PICK i : i \in upTo(w)
        BY <3>2
      <3>4. i \in I /\ At(body, i) = w
        BY <1>1, <1>5, <2>1, <3>3
      <3> QED
        BY <1>3, <3>1, <3>4, FS_EmptySet
    <2>2. CASE w # 0
      <3>1. w - 1 \in Nat /\ ~(w <= w - 1)
        BY <1>8, <2>2
      <3>2. Cardinality(upTo(w - 1)) \in Nat
        BY <1>1, <1>5, FS_Subset, FS_CardinalityType
      <3>3. Cardinality(upTo(w - 1)) <= half
        BY <1>3, <1>8, <3>1, <3>2
      <3>4. below(w) = upTo(w - 1)
        <4>1. \A i \in I : At(body, i) < w <=> At(body, i) <= w - 1
          BY <1>1, <1>8
        <4>2. \A i : i \in below(w) <=> i \in upTo(w - 1)
          BY <1>5, <4>1
        <4> QED
          BY <4>2
      <3>5. upTo(w) # upTo(w - 1)
        BY <1>3, <1>8, <3>2, <3>3
      <3>6. \A i \in upTo(w - 1) : i \in upTo(w)
        BY <1>1, <1>5, <1>8
      <3>7. PICK i : i \in upTo(w) /\ i \notin upTo(w - 1)
        BY <3>5, <3>6
      <3>8. i \in I /\ At(body, i) = w
        BY <1>1, <1>5, <1>8, <3>7
      <3> QED
        BY <3>3, <3>4, <3>8
    <2> QED
      BY <2>1, <2>2
  <1> DEFINE v == Server!Median(body, I)
  <1>10. /\ v \in {At(body, i) : i \in I}
         /\ Server!Cardinality(below(v)) <= Server!Cardinality(I) \div 2
    <2>1. w \in {At(body, i) : i \in I}
      BY <1>9
    <2>2. /\ Server!Cardinality(below(w)) <= Server!Cardinality(I) \div 2
          /\ Server!Cardinality(upTo(w)) > Server!Cardinality(I) \div 2
      BY <1>8, <1>9, SameCount DEF half
    <2>3. v = CHOOSE x \in {At(body, i) : i \in I} :
                 /\ Server!Cardinality(below(x)) <= Server!Cardinality(I) \div 2
                 /\ Server!Cardinality(upTo(x)) > Server!Cardinality(I) \div 2
      BY DEF Server!Median, below, upTo, At
    <2> HIDE DEF v
    <2> QED
      BY <2>1, <2>2, <2>3
  <1> HIDE DEF v
  <1>11. Cardinality(below(v)) <= half
    BY <1>10, SameCount DEF half
  <1> QED
    BY <1>10, <1>11 DEF v, I, below, half

(* The anchor is the newest of the offsets that are plausible.             *)
LEMMA AnchorIs ==
    ASSUME NEW body \in Seq(PageEvent), Server!Placeable(body) # {}
    PROVE  LET I == Server!Placeable(body)
               v == Server!Median(body, I)
           IN  /\ \E i \in I : Server!Anchor(body) = At(body, i)
               /\ Server!Anchor(body) <= v + MaxSpan
               /\ \A i \in I : At(body, i) <= v + MaxSpan => At(body, i) <= Server!Anchor(body)
  <1> DEFINE I == Server!Placeable(body)
             v == Server!Median(body, I)
             offsets == {At(body, i) : i \in I}
             plausible == {x \in offsets : x <= v + MaxSpan}
  <1>1. MaxPage \in Nat /\ MaxSpan \in Nat /\ \A i \in I : At(body, i) \in 0..MaxPage
    BY PlaceableAre, LimitsAssumption
  <1>2. PICK i \in I : v = At(body, i)
    BY MedianIs
  <1>3. Server!Anchor(body) = CHOOSE x \in plausible : \A y \in plausible : y <= x
    BY DEF Server!Anchor, At
  <1> HIDE DEF I, v
  <1>4. plausible \in SUBSET (0..MaxPage)
    BY <1>1
  <1>5. v \in plausible
    BY <1>1, <1>2
  <1>6. \A j \in I : At(body, j) <= v + MaxSpan => At(body, j) \in plausible
    OBVIOUS
  <1>7. \A x \in plausible : x <= v + MaxSpan /\ \E j \in I : x = At(body, j)
    OBVIOUS
  <1> HIDE DEF plausible
  <1>8. \E x \in plausible : \A y \in plausible : y <= x
    BY <1>1, <1>4, <1>5, GreatestOf
  <1>9. Server!Anchor(body) \in plausible /\ \A y \in plausible : y <= Server!Anchor(body)
    BY <1>3, <1>8
  <1> QED
    BY <1>6, <1>7, <1>9 DEF I, v

(* How far before its arrival an event is placed.                          *)
LEMMA BehindIs ==
    ASSUME NEW body \in Seq(PageEvent), NEW i \in Server!Decoded(body)
    PROVE  /\ Server!Behind(body, i) \in 0..MaxSpan
           /\ i \in Server!Placeable(body) =>
                 Server!Behind(body, i) =
                    Server!Least(Server!Most(Server!Anchor(body) - At(body, i), 0), MaxSpan)
  <1>1. MaxSpan \in Nat
    BY LimitsAssumption
  <1>2. CASE i \notin Server!Placeable(body)
    BY <1>1, <1>2 DEF Server!Behind
  <1>3. CASE i \in Server!Placeable(body)
    <2>1. At(body, i) \in Int /\ Server!Anchor(body) \in Int
      <3>1. \A j \in Server!Placeable(body) : At(body, j) \in Int
        BY PlaceableAre
      <3>2. \E j \in Server!Placeable(body) : Server!Anchor(body) = At(body, j)
        BY <1>3, AnchorIs
      <3> QED
        BY <1>3, <3>1, <3>2
    <2>2. Server!Behind(body, i) =
             Server!Least(Server!Most(Server!Anchor(body) - At(body, i), 0), MaxSpan)
      BY <1>3 DEF Server!Behind, At
    <2> QED
      BY <1>1, <2>1, <2>2 DEF Server!Least, Server!Most
  <1> QED
    BY <1>2, <1>3

-----------------------------------------------------------------------------
(* What the worker has taken in                                            *)

(* What was decoded, and where a batch can come from: others, who post no  *)
(* event of this page, or the network, which delivers a batch once.        *)
GotInv ==
    /\ got \in Seq(Seq(PageEvent)) /\ Len(got) <= MaxBodies
    /\ \A b \in DOMAIN got : got[b] \in Bodies \/ \E k \in DOMAIN sent \ wire : got[b] = sent[k]
    /\ OnceIn(got)

(* Every record is a signal of a body that was decoded.                    *)
DiskInv == \A r \in disk : \E b \in DOMAIN got : r \in Server!Signals(b, got[b])

(* While nothing was lost, all of what this worker took in is stored.      *)
WorkerInv ==
    /\ since \in 0..Len(got)
    /\ health \in [DOMAIN Server!Fresh -> Nat]
    /\ Server!OkMeansKept

PipelineInv == PageInv /\ GotInv /\ DiskInv /\ WorkerInv

(* A signal says which event of which body it stands for.                  *)
LEMMA SignalsAre ==
    ASSUME NEW b, NEW body \in Seq(PageEvent), NEW r \in Server!Signals(b, body)
    PROVE  /\ r = [body |-> b, pos |-> r.pos, behind |-> Server!Behind(body, r.pos)]
           /\ r.body = b /\ r.pos \in Server!Decoded(body) /\ r.pos \in DOMAIN body
           /\ r.behind = Server!Behind(body, r.pos) /\ r.behind \in 0..MaxSpan
  <1>1. PICK i \in Server!Decoded(body) :
           r = [body |-> b, pos |-> i, behind |-> Server!Behind(body, i)]
    BY DEF Server!Signals
  <1>2. r.body = b /\ r.pos = i /\ r.behind = Server!Behind(body, i)
    BY <1>1
  <1> QED
    BY <1>1, <1>2, PlaceableAre, BehindIs

(* IngestHealth's counters.                                                *)
Counters == {"batches", "events", "stored", "skipped", "truncated", "refused", "lost"}

(* The counters of a fresh worker.                                         *)
LEMMA CountersAre == DOMAIN Server!Fresh = Counters /\ \A f \in Counters : Server!Fresh[f] = 0
  BY DEF Server!Fresh, Counters

(* What decode_batch counts are numbers, and none of them counts a loss.   *)
LEMMA CountedIs ==
    ASSUME health \in [DOMAIN Server!Fresh -> Nat], NEW body \in Seq(PageEvent)
    PROVE  /\ Server!Counted(body) \in [DOMAIN Server!Fresh -> Nat]
           /\ Server!Counted(body).lost = health.lost
           /\ Server!Cardinality(Server!Decoded(body)) \in Nat
           /\ Server!Decoded(body) # {} => Server!Cardinality(Server!Decoded(body)) > 0
  <1> DEFINE kept == Server!Cardinality(Server!Kept(body))
             decoded == Server!Cardinality(Server!Decoded(body))
  <1>1. Len(body) \in Nat /\ MaxEvents \in Nat
    BY LimitsAssumption
  <1>2. Server!Least(Len(body), MaxEvents) \in 0..Len(body)
    BY <1>1 DEF Server!Least
  <1>3. IsFiniteSet(Server!Kept(body)) /\ kept \in Nat /\ kept <= Len(body)
    <2> DEFINE m == Server!Least(Len(body), MaxEvents)
    <2>1. Server!Kept(body) = 1..m /\ m \in 0..Len(body)
      BY <1>2 DEF Server!Kept
    <2> HIDE DEF m
    <2>2. IsFiniteSet(1..m) /\ Cardinality(1..m) = m
      BY <1>1, <2>1, FS_Interval
    <2> QED
      BY <1>1, <2>1, <2>2, SameCount
  <1>4. Server!Decoded(body) \subseteq Server!Kept(body)
    BY DEF Server!Decoded
  <1>5. decoded \in Nat /\ decoded <= kept /\ (Server!Decoded(body) # {} => decoded > 0)
    <2>1. IsFiniteSet(Server!Decoded(body)) /\ Cardinality(Server!Decoded(body)) \in Nat
          /\ Cardinality(Server!Decoded(body)) <= Cardinality(Server!Kept(body))
      BY <1>3, <1>4, FS_Subset, FS_CardinalityType
    <2>2. Server!Decoded(body) # {} => Cardinality(Server!Decoded(body)) # 0
      BY <2>1, FS_EmptySet
    <2> QED
      BY <2>1, <2>2, SameCount
  <1>6. Server!Counted(body) =
           [health EXCEPT !.batches = @ + 1,
                          !.events = @ + Len(body),
                          !.truncated = @ + Len(body) - kept,
                          !.skipped = @ + kept - decoded]
    BY DEF Server!Counted
  <1> HIDE DEF kept, decoded
  <1>7. \A m \in Nat : m + Len(body) - kept \in Nat /\ m + kept - decoded \in Nat
                       /\ m + 1 \in Nat /\ m + Len(body) \in Nat
    BY <1>1, <1>3, <1>5
  <1>8. /\ Server!Counted(body) \in [Counters -> Nat]
        /\ Server!Counted(body).lost = health.lost
    <2>1. \A f \in Counters : health[f] \in Nat
      BY CountersAre
    <2> DEFINE b1 == health["batches"] + 1
               e1 == health["events"] + Len(body)
               t1 == health["truncated"] + Len(body) - kept
               s1 == health["skipped"] + kept - decoded
    <2>2. b1 \in Nat /\ e1 \in Nat /\ t1 \in Nat /\ s1 \in Nat
      BY <1>7, <2>1 DEF Counters
    <2>3. health \in [Counters -> Nat]
      BY CountersAre
    <2>4. Server!Counted(body) =
             [health EXCEPT !.batches = b1, !.events = e1, !.truncated = t1, !.skipped = s1]
      BY <1>6, <2>3 DEF Counters
    <2> HIDE DEF b1, e1, t1, s1
    <2> QED
      BY <2>2, <2>3, <2>4 DEF Counters
  <1> QED
    BY <1>5, <1>8, CountersAre DEF decoded

(* A body whose events are new keeps what the worker's invariants say.     *)
LEMMA TakenIn ==
    ASSUME GotInv, DiskInv, WorkerInv,
           NEW body \in Seq(PageEvent), OnceIn(Append(got, body)),
           Server!Ingest(body) \/ Server!IngestFails(body)
    PROVE  /\ got' \in Seq(Seq(PageEvent)) /\ Len(got') <= MaxBodies
           /\ DOMAIN got' = DOMAIN got \cup {Len(got) + 1}
           /\ got'[Len(got) + 1] = body /\ \A b \in DOMAIN got : got'[b] = got[b]
           /\ OnceIn(got') /\ DiskInv' /\ WorkerInv'
  <1>1. got \in Seq(Seq(PageEvent)) /\ Len(got) \in Nat /\ DOMAIN got = 1..Len(got)
        /\ since \in 0..Len(got) /\ MaxBodies \in Nat /\ health.lost \in Nat
        /\ health.refused \in Nat
    BY LimitsAssumption DEF GotInv, WorkerInv, Server!Fresh
  <1>2. got' = Append(got, body) /\ since' = since /\ Len(got) + health.refused < MaxBodies
    BY DEF Server!Ingest, Server!IngestFails, Server!Room
  <1>3. /\ got' \in Seq(Seq(PageEvent)) /\ Len(got') = Len(got) + 1
        /\ DOMAIN got' = 1..(Len(got) + 1)
        /\ got'[Len(got) + 1] = body /\ \A b \in DOMAIN got : got'[b] = got[b]
    BY <1>1, <1>2
  <1>4. Len(got') <= MaxBodies /\ since' \in 0..Len(got')
        /\ DOMAIN got' = DOMAIN got \cup {Len(got) + 1}
    BY <1>1, <1>2, <1>3
  <1>5. \E landed \in SUBSET Server!Signals(Len(got'), body) : disk' = disk \cup landed
    BY DEF Server!Ingest, Server!IngestFails
  <1>6. DiskInv'
    <2> SUFFICES ASSUME NEW r \in disk'
                 PROVE  \E b \in DOMAIN got' : r \in Server!Signals(b, got'[b])
      BY DEF DiskInv, Server!Signals, Server!Behind, Server!Decoded, Server!Kept
    <2>1. CASE r \in disk
      <3>1. PICK b \in DOMAIN got : r \in Server!Signals(b, got[b])
        BY <2>1 DEF DiskInv
      <3> QED
        BY <1>3, <1>4, <3>1
    <2>2. CASE r \notin disk
      BY <1>3, <1>4, <1>5, <2>2
    <2> QED
      BY <2>1, <2>2
  <1>7. CASE Server!Ingest(body)
    <2>1. /\ health' = [Server!Counted(body) EXCEPT
                           !.stored = @ + Server!Cardinality(Server!Decoded(body))]
          /\ disk' = disk \cup Server!Signals(Len(got'), body)
      BY <1>7 DEF Server!Ingest
    <2>2. health' \in [DOMAIN Server!Fresh -> Nat] /\ health'.lost = health.lost
      <3> DEFINE h == Server!Counted(body)
                 m == Server!Cardinality(Server!Decoded(body))
      <3>1. h \in [Counters -> Nat] /\ h.lost = health.lost /\ m \in Nat
        BY CountedIs, CountersAre DEF WorkerInv
      <3>2. health' = [h EXCEPT !.stored = @ + m]
        BY <2>1
      <3> HIDE DEF h, m
      <3>3. h["stored"] + m \in Nat
        BY <3>1 DEF Counters
      <3>4. health' \in [Counters -> Nat] /\ health'["lost"] = h["lost"]
        BY <3>1, <3>2, <3>3 DEF Counters
      <3> QED
        BY <3>1, <3>4, CountersAre
    <2>3. Server!OkMeansKept'
      <3> SUFFICES ASSUME health.lost = 0, NEW b \in since'+1..Len(got')
                   PROVE  Server!Signals(b, got'[b]) \subseteq disk'
        BY <2>2 DEF Server!OkMeansKept, Server!Ok, Server!Signals, Server!Behind,
                    Server!Decoded, Server!Kept
      <3>1. CASE b = Len(got) + 1
        BY <1>3, <2>1, <3>1
      <3>2. CASE b # Len(got) + 1
        <4>1. b \in since+1..Len(got)
          <5>1. b \in since+1..(Len(got) + 1)
            BY <1>2, <1>3
          <5>2. \A x, y, z \in Int : z \in x..(y + 1) /\ z # y + 1 => z \in x..y
            OBVIOUS
          <5>3. since + 1 \in Int /\ Len(got) \in Int /\ b \in Int
            BY <1>1, <5>1
          <5> QED
            BY <3>2, <5>1, <5>2, <5>3
        <4>2. got'[b] = got[b]
          <5>1. b \in DOMAIN got
            BY <1>1, <4>1
          <5> QED
            BY <1>3, <5>1
        <4>3. Server!Signals(b, got[b]) \subseteq disk
          BY <4>1 DEF WorkerInv, Server!OkMeansKept, Server!Ok
        <4> QED
          BY <2>1, <4>2, <4>3
      <3> QED
        BY <3>1, <3>2
    <2> QED
      BY <1>2, <1>3, <1>4, <1>6, <2>2, <2>3 DEF WorkerInv
  <1>8. CASE Server!IngestFails(body)
    <2>1. /\ health' = [Server!Counted(body) EXCEPT
                           !.lost = @ + Server!Cardinality(Server!Decoded(body))]
          /\ Server!Decoded(body) # {}
      BY <1>8 DEF Server!IngestFails
    <2>2. health' \in [DOMAIN Server!Fresh -> Nat] /\ health'.lost > 0
      <3> DEFINE h == Server!Counted(body)
                 m == Server!Cardinality(Server!Decoded(body))
      <3>1. h \in [Counters -> Nat] /\ m \in Nat /\ m > 0
        BY <2>1, CountedIs, CountersAre DEF WorkerInv
      <3>2. health' = [h EXCEPT !.lost = @ + m]
        BY <2>1
      <3> HIDE DEF h, m
      <3>3. h["lost"] + m \in Nat /\ h["lost"] + m > 0
        BY <3>1 DEF Counters
      <3>4. health' \in [Counters -> Nat] /\ health'["lost"] = h["lost"] + m
        BY <3>1, <3>2, <3>3 DEF Counters
      <3> QED
        BY <3>3, <3>4, CountersAre
    <2>3. Server!OkMeansKept'
      BY <2>2 DEF Server!OkMeansKept, Server!Ok
    <2> QED
      BY <1>2, <1>3, <1>4, <1>6, <2>2, <2>3 DEF WorkerInv
  <1> QED
    BY <1>7, <1>8

(* No body of another sender has an event of this page.                    *)
LEMMA OthersAre ==
    ASSUME NEW body \in Bodies
    PROVE  body \in Seq(PageEvent) /\ \A x \in DOMAIN body : body[x].kind # "seen"
  <1>1. body \in Seq(PostedEvent)
    BY BodiesAssumption
  <1>2. \A x \in DOMAIN body : body[x] \in PostedEvent
    BY <1>1
  <1>3. Len(body) \in Nat /\ DOMAIN body = 1..Len(body) /\ body = [x \in 1..Len(body) |-> body[x]]
    BY <1>1
  <1>4. \A x \in 1..Len(body) : body[x] \in PageEvent
    BY <1>2, <1>3 DEF PageEvent
  <1>5. body \in Seq(PageEvent)
    BY <1>3, <1>4
  <1> QED
    BY <1>2, <1>5 DEF PostedEvent

(* What the page sends is what the worker may decode.                      *)
LEMMA SentAre ==
    ASSUME PageInv, NEW k \in DOMAIN sent
    PROVE  sent[k] \in Seq(PageEvent)
  <1>1. sent[k] \in Seq(Page!Event)
    BY DEF PageInv, Sound
  <1>2. Len(sent[k]) \in Nat /\ DOMAIN sent[k] = 1..Len(sent[k])
        /\ sent[k] = [x \in 1..Len(sent[k]) |-> sent[k][x]]
    BY <1>1
  <1>3. \A x \in 1..Len(sent[k]) : sent[k][x] \in PageEvent
    BY <1>1, <1>2 DEF PageEvent
  <1> QED
    BY <1>2, <1>3

(* A body that shares no event of the page with those before it.           *)
LEMMA NewBody ==
    ASSUME GotInv, NEW body \in Seq(PageEvent), Once(body),
           \A b \in DOMAIN got : \A x \in DOMAIN got[b], y \in DOMAIN body :
              got[b][x].kind = "seen" => got[b][x] # body[y]
    PROVE  OnceIn(Append(got, body))
  <1> DEFINE all == Append(got, body)
  <1>1. got \in Seq(Seq(PageEvent)) /\ Len(got) \in Nat /\ DOMAIN got = 1..Len(got)
    BY DEF GotInv
  <1>2. /\ DOMAIN all = 1..(Len(got) + 1) /\ all[Len(got) + 1] = body
        /\ \A b \in DOMAIN got : all[b] = got[b]
    BY <1>1
  <1> HIDE DEF all
  <1> SUFFICES ASSUME NEW k \in DOMAIN all, NEW l \in DOMAIN all,
                      NEW x \in DOMAIN all[k], NEW y \in DOMAIN all[l],
                      all[k][x].kind = "seen", all[k][x] = all[l][y]
               PROVE  k = l /\ x = y
    BY DEF OnceIn, all
  <1>3. CASE k = Len(got) + 1 /\ l = Len(got) + 1
    BY <1>2, <1>3 DEF Once
  <1>4. CASE k = Len(got) + 1 /\ l # Len(got) + 1
    <2>1. l \in DOMAIN got /\ all[l] = got[l] /\ all[k] = body
      BY <1>1, <1>2, <1>4
    <2> QED
      BY <2>1
  <1>5. CASE k # Len(got) + 1 /\ l = Len(got) + 1
    <2>1. k \in DOMAIN got /\ all[k] = got[k] /\ all[l] = body
      BY <1>1, <1>2, <1>5
    <2> QED
      BY <2>1
  <1>6. CASE k # Len(got) + 1 /\ l # Len(got) + 1
    <2>1. k \in DOMAIN got /\ all[k] = got[k] /\ l \in DOMAIN got /\ all[l] = got[l]
      BY <1>1, <1>2, <1>6
    <2> QED
      BY <2>1 DEF GotInv, OnceIn
  <1> QED
    BY <1>3, <1>4, <1>5, <1>6

-----------------------------------------------------------------------------
(* The invariant                                                           *)

(* The page is empty, and so is the worker.                                *)
LEMMA PipelineStarts == BeaconInit => PipelineInv
  <1> SUFFICES ASSUME BeaconInit PROVE PipelineInv
    OBVIOUS
  <1>1. /\ queue = <<>> /\ lost = 0 /\ clock = 0 /\ shed = {} /\ sent = <<>> /\ wire = {}
        /\ got = <<>> /\ since = 0 /\ disk = {} /\ health = Server!Fresh
    BY DEF BeaconInit, Page!ProbeInit, Server!IngestInit
  <1>2. PageInv
    BY <1>1, QueueAssumption, TicksAssumption DEF PageInv, Sound, Once, OnceIn
  <1>3. GotInv
    BY <1>1, LimitsAssumption DEF GotInv, OnceIn
  <1>4. DiskInv
    BY <1>1 DEF DiskInv
  <1>5. health \in [DOMAIN Server!Fresh -> Nat]
    BY <1>1, CountersAre DEF Server!Fresh
  <1>6. Server!OkMeansKept
    BY <1>1 DEF Server!OkMeansKept
  <1> QED
    BY <1>1, <1>2, <1>3, <1>4, <1>5, <1>6 DEF PipelineInv, WorkerInv

(* The page moves on: what was taken in is as it was.                      *)
LEMMA PageMoves ==
    ASSUME PipelineInv, PageInv', UNCHANGED ingestVars,
           DOMAIN sent \ wire \subseteq DOMAIN sent' \ wire',
           \A k \in DOMAIN sent : sent'[k] = sent[k]
    PROVE  PipelineInv'
  <1>1. got' = got /\ since' = since /\ disk' = disk /\ health' = health
    BY DEF ingestVars
  <1>2. GotInv'
    <2>1. /\ got' \in Seq(Seq(PageEvent)) /\ Len(got') <= MaxBodies /\ OnceIn(got')
      BY <1>1 DEF PipelineInv, GotInv
    <2>2. ASSUME NEW b \in DOMAIN got'
          PROVE  got'[b] \in Bodies \/ \E k \in DOMAIN sent' \ wire' : got'[b] = sent'[k]
      <3>1. got'[b] \in Bodies \/ \E k \in DOMAIN sent \ wire : got'[b] = sent[k]
        BY <1>1 DEF PipelineInv, GotInv
      <3> QED
        BY <3>1
    <2> QED
      BY <2>1, <2>2 DEF GotInv
  <1>3. DiskInv'
    BY <1>1 DEF PipelineInv, DiskInv, Server!Signals, Server!Behind, Server!Decoded, Server!Kept
  <1>4. WorkerInv'
    BY <1>1 DEF PipelineInv, WorkerInv, Server!OkMeansKept, Server!Ok, Server!Signals,
                Server!Behind, Server!Decoded, Server!Kept
  <1> QED
    BY <1>2, <1>3, <1>4 DEF PipelineInv

(* A batch leaves the network, delivered or not.                           *)
LEMMA WireShrinks ==
    ASSUME PageInv, NEW k \in wire, wire' = wire \ {k},
           UNCHANGED <<queue, lost, clock, shed, sent>>
    PROVE  PageInv' /\ DOMAIN sent' \ wire' = (DOMAIN sent \ wire) \cup {k} /\ k \in DOMAIN sent
  BY DEF PageInv

(* A batch leaves the wire when it arrives, so its events are new.         *)
LEMMA ArriveKeeps == PipelineInv /\ Arrive => PipelineInv'
  <1> SUFFICES ASSUME PipelineInv, Arrive PROVE PipelineInv'
    OBVIOUS
  <1>1. PICK k \in wire : wire' = wire \ {k}
                          /\ (Server!Ingest(sent[k]) \/ Server!IngestFails(sent[k]))
    BY DEF Arrive
  <1>2. /\ PageInv' /\ DOMAIN sent' \ wire' = (DOMAIN sent \ wire) \cup {k} /\ k \in DOMAIN sent
        /\ sent' = sent
    BY <1>1, WireShrinks DEF Arrive, PipelineInv
  <1>3. sent[k] \in Seq(PageEvent)
    BY <1>2, SentAre DEF PipelineInv
  <1>4. OnceIn(sent)
    BY DEF PipelineInv, PageInv, Sound
  <1>5. Once(sent[k])
    BY <1>2, <1>4 DEF OnceIn, Once
  <1>6. ASSUME NEW b \in DOMAIN got, NEW x \in DOMAIN got[b], NEW y \in DOMAIN sent[k],
               got[b][x].kind = "seen", got[b][x] = sent[k][y]
        PROVE  FALSE
    <2>1. got[b] \notin Bodies
      BY <1>6, OthersAre
    <2>2. PICK l \in DOMAIN sent \ wire : got[b] = sent[l]
      BY <2>1 DEF PipelineInv, GotInv
    <2>3. l = k
      BY <1>2, <1>4, <1>6, <2>2 DEF OnceIn
    <2> QED
      BY <2>2, <2>3
  <1>7. OnceIn(Append(got, sent[k]))
    BY <1>3, <1>5, <1>6, NewBody DEF PipelineInv
  <1>8. /\ got' \in Seq(Seq(PageEvent)) /\ Len(got') <= MaxBodies
        /\ DOMAIN got' = DOMAIN got \cup {Len(got) + 1}
        /\ got'[Len(got) + 1] = sent[k] /\ \A b \in DOMAIN got : got'[b] = got[b]
        /\ OnceIn(got') /\ DiskInv' /\ WorkerInv'
    BY <1>1, <1>3, <1>7, TakenIn DEF PipelineInv
  <1>9. \A b \in DOMAIN got' : got'[b] \in Bodies \/ \E l \in DOMAIN sent' \ wire' : got'[b] = sent'[l]
    <2>1. \A b \in DOMAIN got : got[b] \in Bodies \/ \E l \in DOMAIN sent \ wire : got[b] = sent[l]
      BY DEF PipelineInv, GotInv
    <2> QED
      BY <1>2, <1>8, <2>1
  <1> QED
    BY <1>2, <1>8, <1>9 DEF PipelineInv, GotInv

(* A batch that is lost reaches nobody.                                    *)
LEMMA LoseKeeps == PipelineInv /\ LoseBatch => PipelineInv'
  <1> SUFFICES ASSUME PipelineInv, LoseBatch PROVE PipelineInv'
    OBVIOUS
  <1>1. PICK k \in wire : wire' = wire \ {k}
    BY DEF LoseBatch
  <1>2. /\ PageInv' /\ DOMAIN sent' \ wire' = (DOMAIN sent \ wire) \cup {k}
        /\ sent' = sent /\ UNCHANGED ingestVars
    BY <1>1, WireShrinks DEF LoseBatch, PipelineInv
  <1> QED
    BY <1>2, PageMoves

(* Other senders have no event of the page to post.                        *)
LEMMA StrangerKeeps == PipelineInv /\ StrangerPosts => PipelineInv'
  <1> SUFFICES ASSUME PipelineInv, StrangerPosts PROVE PipelineInv'
    OBVIOUS
  <1>1. sent' = sent /\ wire' = wire /\ PageInv'
    BY DEF StrangerPosts, pageVars, PipelineInv, PageInv
  <1>2. ASSUME NEW body \in Bodies, Server!Ingest(body) \/ Server!IngestFails(body)
        PROVE  PipelineInv'
    <2>1. body \in Seq(PageEvent) /\ \A x \in DOMAIN body : body[x].kind # "seen"
      BY OthersAre
    <2>2. OnceIn(Append(got, body))
      BY <2>1, NewBody DEF PipelineInv, Once
    <2>3. /\ got' \in Seq(Seq(PageEvent)) /\ Len(got') <= MaxBodies
          /\ DOMAIN got' = DOMAIN got \cup {Len(got) + 1}
          /\ got'[Len(got) + 1] = body /\ \A b \in DOMAIN got : got'[b] = got[b]
          /\ OnceIn(got') /\ DiskInv' /\ WorkerInv'
      BY <1>2, <2>1, <2>2, TakenIn DEF PipelineInv
    <2>4. \A b \in DOMAIN got' :
             got'[b] \in Bodies \/ \E k \in DOMAIN sent' \ wire' : got'[b] = sent'[k]
      BY <1>1, <2>3 DEF PipelineInv, GotInv
    <2> QED
      BY <1>1, <2>3, <2>4 DEF PipelineInv, GotInv
  <1>3. ASSUME NEW counted \in BOOLEAN, Server!Refuse(counted)
        PROVE  PipelineInv'
    <2>1. got' = got /\ since' = since /\ disk' = disk
          /\ health' = [health EXCEPT !.refused = @ + 1,
                                      !.batches = IF counted THEN @ + 1 ELSE @]
      BY <1>3 DEF Server!Refuse
    <2>2. health' \in [DOMAIN Server!Fresh -> Nat] /\ health'.lost = health.lost
      <3>1. health \in [Counters -> Nat]
        BY CountersAre DEF PipelineInv, WorkerInv
      <3>2. \A m \in Nat : m + 1 \in Nat
        OBVIOUS
      <3>3. health["refused"] + 1 \in Nat /\ health["batches"] + 1 \in Nat /\ health["batches"] \in Nat
        BY <3>1, <3>2 DEF Counters
      <3>4. health' \in [Counters -> Nat] /\ health'["lost"] = health["lost"]
        <4>1. CASE counted
          <5>1. health' = [health EXCEPT !.refused = @ + 1, !.batches = @ + 1]
            BY <2>1, <4>1
          <5> QED
            BY <3>1, <3>3, <5>1 DEF Counters
        <4>2. CASE ~counted
          <5>1. health' = [health EXCEPT !.refused = @ + 1, !.batches = @]
            BY <2>1, <4>2
          <5> QED
            BY <3>1, <3>3, <5>1 DEF Counters
        <4> QED
          BY <4>1, <4>2
      <3> QED
        BY <3>4, CountersAre
    <2>3. GotInv' /\ DiskInv'
      BY <1>1, <2>1 DEF PipelineInv, GotInv, DiskInv, Server!Signals, Server!Behind,
                        Server!Decoded, Server!Kept
    <2>4. Server!OkMeansKept'
      BY <2>1, <2>2 DEF PipelineInv, WorkerInv, Server!OkMeansKept, Server!Ok, Server!Signals,
                        Server!Behind, Server!Decoded, Server!Kept
    <2>5. since' \in 0..Len(got')
      BY <2>1 DEF PipelineInv, WorkerInv
    <2> QED
      BY <1>1, <2>2, <2>3, <2>4, <2>5 DEF PipelineInv, WorkerInv
  <1> QED
    BY <1>2, <1>3 DEF StrangerPosts

(* A worker that was replaced answers for nothing before its start.        *)
LEMMA RestartKeeps == PipelineInv /\ Restart => PipelineInv'
  <1> SUFFICES ASSUME PipelineInv, Restart PROVE PipelineInv'
    OBVIOUS
  <1>1. /\ got' = got /\ disk' = disk /\ health' = Server!Fresh /\ since' = Len(got)
        /\ sent' = sent /\ wire' = wire /\ PageInv'
    BY DEF Restart, Server!Restart, pageVars, PipelineInv, PageInv
  <1>2. GotInv' /\ DiskInv'
    BY <1>1 DEF PipelineInv, GotInv, DiskInv, Server!Signals, Server!Behind,
                Server!Decoded, Server!Kept
  <1>3. since' \in 0..Len(got') /\ since' + 1 > Len(got') /\ Len(got') \in Nat
    BY <1>1 DEF PipelineInv, GotInv
  <1>4. Server!OkMeansKept'
    <2>1. since'+1..Len(got') = {}
      BY <1>3
    <2> QED
      BY <2>1 DEF Server!OkMeansKept
  <1>5. Server!Fresh' = Server!Fresh
    BY DEF Server!Fresh
  <1>6. health' \in [Counters -> Nat]
    BY <1>1, CountersAre DEF Server!Fresh, Counters
  <1> QED
    BY <1>1, <1>2, <1>3, <1>4, <1>6, CountersAre DEF PipelineInv, WorkerInv

(* Page, network and worker keep the invariant whatever their order.       *)
THEOREM PipelineInvariant == BeaconSpec => []PipelineInv
  <1>1. PipelineInv /\ [BeaconNext]_beaconVars => PipelineInv'
    <2> SUFFICES ASSUME PipelineInv, [BeaconNext]_beaconVars PROVE PipelineInv'
      OBVIOUS
    <2>1. CASE PageStep
      <3>1. UNCHANGED ingestVars
        BY <2>1 DEF PageStep
      <3> QED
        BY <2>1, <3>1, PageKeeps, PageMoves DEF PipelineInv
    <2>2. CASE UNCHANGED beaconVars
      <3>1. UNCHANGED ingestVars /\ UNCHANGED pageVars
        BY <2>2 DEF beaconVars
      <3>2. PageInv' /\ sent' = sent /\ wire' = wire
        BY <3>1 DEF pageVars, PipelineInv, PageInv
      <3> QED
        BY <3>1, <3>2, PageMoves
    <2> QED
      BY <2>1, <2>2, ArriveKeeps, LoseKeeps, StrangerKeeps, RestartKeeps DEF BeaconNext
  <1> QED
    BY <1>1, PipelineStarts, PTL DEF BeaconSpec

-----------------------------------------------------------------------------
(* What the invariant says                                                 *)

(* Every variable of page and worker keeps the shape the code gives it,    *)
(* the queue and each batch their caps.                                    *)
THEOREM BeaconTypeCorrect == BeaconSpec => []BeaconTypeOK
  <1>1. PipelineInv => BeaconTypeOK
    <2> SUFFICES ASSUME PipelineInv PROVE BeaconTypeOK
      OBVIOUS
    <2>1. got \in Seq(Seq(Page!Event \cup PostedEvent))
      BY DEF PipelineInv, GotInv, PageEvent
    <2>2. ASSUME NEW r \in disk
          PROVE  r \in [body : DOMAIN got, pos : Nat, behind : 0..MaxSpan]
      <3>1. PICK b \in DOMAIN got : r \in Server!Signals(b, got[b])
        BY DEF PipelineInv, DiskInv
      <3>2. got[b] \in Seq(PageEvent)
        BY <3>1 DEF PipelineInv, GotInv
      <3>3. /\ r = [body |-> b, pos |-> r.pos, behind |-> Server!Behind(got[b], r.pos)]
            /\ r.pos \in DOMAIN got[b] /\ Server!Behind(got[b], r.pos) \in 0..MaxSpan
        BY <3>1, <3>2, SignalsAre
      <3>4. r.pos \in Nat
        BY <3>2, <3>3
      <3> QED
        BY <3>1, <3>3, <3>4
    <2> QED
      BY <2>1, <2>2 DEF PipelineInv, PageInv, Sound, GotInv, WorkerInv, BeaconTypeOK
  <1> QED
    BY <1>1, PipelineInvariant, PTL

(* A page's event is recorded at most once, and never both recorded and    *)
(* dropped, however often its batch was refused, lost or sent again.       *)
THEOREM EventsAreStoredOnce == BeaconSpec => []StoredOnce
  <1>1. PipelineInv => StoredOnce
    <2> SUFFICES ASSUME PipelineInv,
                        NEW k \in DOMAIN sent, NEW i \in DOMAIN sent[k], sent[k][i].kind = "seen"
                 PROVE  Cardinality(Copies(sent[k][i])) <= 1 /\ sent[k][i] \notin shed
      BY DEF StoredOnce
    <2>1. sent[k][i] \notin shed
      BY DEF PipelineInv, PageInv, Sound
    <2>2. ASSUME NEW r \in Copies(sent[k][i])
          PROVE  /\ r.body \in DOMAIN got /\ r.pos \in DOMAIN got[r.body]
                 /\ r = [body |-> r.body, pos |-> r.pos,
                         behind |-> Server!Behind(got[r.body], r.pos)]
                 /\ got[r.body][r.pos] = sent[k][i]
      <3>1. r \in disk /\ got[r.body][r.pos] = sent[k][i]
        BY DEF Copies
      <3>2. PICK b \in DOMAIN got : r \in Server!Signals(b, got[b])
        BY <3>1 DEF PipelineInv, DiskInv
      <3>3. got[b] \in Seq(PageEvent)
        BY DEF PipelineInv, GotInv
      <3>4. /\ r.body = b /\ r.pos \in DOMAIN got[b]
            /\ r = [body |-> b, pos |-> r.pos, behind |-> Server!Behind(got[b], r.pos)]
        BY <3>2, <3>3, SignalsAre
      <3> QED
        BY <3>1, <3>4
    <2>3. \A r, s \in Copies(sent[k][i]) : r = s
      <3> SUFFICES ASSUME NEW r \in Copies(sent[k][i]), NEW s \in Copies(sent[k][i])
                   PROVE  r = s
        OBVIOUS
      <3>1. r.body = s.body /\ r.pos = s.pos
        BY <2>2 DEF PipelineInv, GotInv, OnceIn
      <3> QED
        BY <2>2, <3>1
    <2>4. CASE Copies(sent[k][i]) = {}
      BY <2>1, <2>4, FS_EmptySet
    <2>5. CASE Copies(sent[k][i]) # {}
      <3>1. PICK r : r \in Copies(sent[k][i])
        BY <2>5
      <3>2. Copies(sent[k][i]) = {r}
        BY <2>3, <3>1
      <3>3. Cardinality({r}) = 1
        BY FS_Singleton
      <3> QED
        BY <2>1, <3>2, <3>3
    <2> QED
      BY <2>4, <2>5
  <1> QED
    BY <1>1, PipelineInvariant, PTL

(* While events were dropped, a report of it is to be written, waits in    *)
(* the queue, or was sent, although the trim may drop reports as well.     *)
THEOREM DropsAreTold == BeaconSpec => []DropNeverSilent
  <1>1. PipelineInv => DropNeverSilent
    <2> SUFFICES ASSUME PipelineInv, shed # {}
                 PROVE  lost > 0 \/ \E e \in Page!Reports : e.dropped > 0
      BY DEF DropNeverSilent, Page!DropNeverSilent
    <2>1. Told(queue, lost, sent)
      BY DEF PipelineInv, PageInv, Sound
    <2>2. CASE \E x \in DOMAIN queue : queue[x].kind = "probe-drop" /\ queue[x].dropped > 0
      BY <2>2 DEF Page!Reports, Page!Range
    <2>3. CASE \E k \in DOMAIN sent : \E x \in DOMAIN sent[k] :
                  sent[k][x].kind = "probe-drop" /\ sent[k][x].dropped > 0
      <3>1. PICK k \in DOMAIN sent : \E x \in DOMAIN sent[k] :
                  sent[k][x].kind = "probe-drop" /\ sent[k][x].dropped > 0
        BY <2>3
      <3>2. PICK x \in DOMAIN sent[k] : sent[k][x].kind = "probe-drop" /\ sent[k][x].dropped > 0
        BY <3>1
      <3>3. sent[k][x] \in UNION {Page!Range(sent[j]) : j \in DOMAIN sent}
        BY DEF Page!Range
      <3> QED
        BY <3>2, <3>3 DEF Page!Reports
    <2> QED
      BY <2>1, <2>2, <2>3 DEF Told
  <1> QED
    BY <1>1, PipelineInvariant, PTL

(* While the health route says ok, everything this worker took in and did  *)
(* not skip or truncate is in the store.                                   *)
THEOREM OkIsHonest == BeaconSpec => []OkMeansKept
  <1>1. PipelineInv => OkMeansKept
    BY DEF PipelineInv, WorkerInv, OkMeansKept
  <1> QED
    BY <1>1, PipelineInvariant, PTL

-----------------------------------------------------------------------------
(* Placement                                                               *)

(* What a record says of the event it stands for.                          *)
LEMMA RecordIs ==
    ASSUME PipelineInv, NEW r \in disk
    PROVE  /\ r.body \in DOMAIN got /\ got[r.body] \in Seq(PageEvent)
           /\ r.behind \in 0..MaxSpan
           /\ r.pos \in Server!Placeable(got[r.body]) =>
                 r.behind = Server!Least(Server!Most(Server!Anchor(got[r.body])
                                                     - At(got[r.body], r.pos), 0), MaxSpan)
  <1>1. PICK b \in DOMAIN got : r \in Server!Signals(b, got[b])
    BY DEF PipelineInv, DiskInv
  <1>2. got[b] \in Seq(PageEvent)
    BY DEF PipelineInv, GotInv
  <1>3. /\ r.body = b /\ r.pos \in Server!Decoded(got[b])
        /\ r.behind = Server!Behind(got[b], r.pos) /\ r.behind \in 0..MaxSpan
    BY <1>1, <1>2, SignalsAre
  <1> QED
    BY <1>2, <1>3, BehindIs

(* A record lies behind the anchor by a clamped difference, and a clamp    *)
(* keeps the order.                                                        *)
LEMMA PageOrderKept == PipelineInv => Server!InPageOrder
  <1> SUFFICES ASSUME PipelineInv, NEW r \in disk
               PROVE  /\ r.behind \in 0..MaxSpan
                      /\ \A s \in disk :
                            LET body == got[r.body]
                            IN  r.body = s.body /\ {r.pos, s.pos} \subseteq Server!Placeable(body)
                                /\ At(body, r.pos) <= At(body, s.pos) => r.behind >= s.behind
    BY DEF Server!InPageOrder, At
  <1>1. r.behind \in 0..MaxSpan
    BY RecordIs
  <1>2. ASSUME NEW s \in disk, r.body = s.body,
               r.pos \in Server!Placeable(got[r.body]), s.pos \in Server!Placeable(got[r.body]),
               At(got[r.body], r.pos) <= At(got[r.body], s.pos)
        PROVE  r.behind >= s.behind
    <2> DEFINE anchor == Server!Anchor(got[r.body])
               a == At(got[r.body], r.pos)
               c == At(got[r.body], s.pos)
    <2>1. got[r.body] \in Seq(PageEvent)
      BY RecordIs
    <2>2. a \in Int /\ c \in Int /\ a <= c /\ MaxSpan \in Nat
      BY <1>2, <2>1, PlaceableAre, LimitsAssumption
    <2>3. anchor \in Int
      <3>1. \A j \in Server!Placeable(got[r.body]) : At(got[r.body], j) \in Int
        BY <2>1, PlaceableAre
      <3>2. \E j \in Server!Placeable(got[r.body]) : anchor = At(got[r.body], j)
        BY <1>2, <2>1, AnchorIs
      <3> QED
        BY <3>1, <3>2
    <2>4. /\ r.behind = Server!Least(Server!Most(anchor - a, 0), MaxSpan)
          /\ s.behind = Server!Least(Server!Most(anchor - c, 0), MaxSpan)
      BY <1>2, RecordIs
    <2> HIDE DEF anchor, a, c
    <2> QED
      BY <2>2, <2>3, <2>4 DEF Server!Least, Server!Most
  <1> QED
    BY <1>1, <1>2

(* More than half of the offsets agree: the median is one of them, so the  *)
(* plausible offsets are theirs, and the anchor is the newest of these.    *)
LEMMA MajorityAnchors ==
    ASSUME NEW body \in Seq(PageEvent), NEW H \in SUBSET Server!Placeable(body),
           Server!Honest(body, H),
           2 * Server!Cardinality(H) > Server!Cardinality(Server!Placeable(body))
    PROVE  \E j \in H : /\ Server!Anchor(body) = At(body, j)
                        /\ \A i \in H : At(body, i) <= At(body, j)
  <1> DEFINE I == Server!Placeable(body)
             v == Server!Median(body, I)
             below == {i \in I : At(body, i) < v}
  <1>1. IsFiniteSet(I) /\ MaxSpan \in Nat /\ \A i \in I : At(body, i) \in Int
    BY PlaceableAre, LimitsAssumption
  <1>2. /\ \A i, j \in H : At(body, j) - At(body, i) <= MaxSpan
        /\ \A i \in H : \A k \in I \ H : At(body, k) > At(body, i) + MaxSpan
    BY DEF Server!Honest, At
  <1>3. IsFiniteSet(H) /\ Cardinality(H) \in Nat /\ Cardinality(I) \in Nat
        /\ 2 * Cardinality(H) > Cardinality(I)
    BY <1>1, SameCount, FS_Subset, FS_CardinalityType
  <1>4. I # {}
    BY <1>1, <1>3, FS_EmptySet
  <1>5. (\E i \in I : v = At(body, i)) /\ Cardinality(below) <= Cardinality(I) \div 2
    BY <1>4, MedianIs
  <1>6. PICK m \in I : v = At(body, m)
    BY <1>5
  <1>7. /\ \E i \in I : Server!Anchor(body) = At(body, i)
        /\ Server!Anchor(body) <= v + MaxSpan
        /\ \A i \in I : At(body, i) <= v + MaxSpan => At(body, i) <= Server!Anchor(body)
    BY <1>4, AnchorIs
  <1>8. below \subseteq I /\ \A i : i \in below <=> i \in I /\ At(body, i) < v
    OBVIOUS
  <1> HIDE DEF I, v, below
  <1>9. m \in H
    <2> SUFFICES ASSUME m \notin H PROVE FALSE
      OBVIOUS
    <2>1. \A i \in H : At(body, i) < v
      BY <1>1, <1>2, <1>6 DEF I
    <2>2. H \subseteq below
      BY <1>8, <2>1 DEF I
    <2>3. Cardinality(below) \in Nat /\ Cardinality(H) <= Cardinality(below)
      BY <1>1, <1>8, <2>2, FS_Subset, FS_CardinalityType
    <2>4. 2 * Cardinality(H) <= Cardinality(I)
      BY <1>3, <1>5, <2>3
    <2> QED
      BY <1>3, <2>4
  <1>10. PICK j \in I : Server!Anchor(body) = At(body, j)
    BY <1>7
  <1>11. j \in H
    BY <1>1, <1>2, <1>6, <1>7, <1>9, <1>10
  <1>12. \A i \in H : At(body, i) <= At(body, j)
    <2>1. \A i \in H : At(body, i) <= v + MaxSpan /\ i \in I
      BY <1>1, <1>2, <1>6, <1>9 DEF I
    <2> QED
      BY <1>7, <1>10, <2>1
  <1> QED
    BY <1>10, <1>11, <1>12

(* The records of a majority are placed as if there were nothing else.     *)
LEMMA HonestAreUnmoved == PipelineInv => Server!MajorityUnmoved
  <1> SUFFICES ASSUME PipelineInv,
                      NEW b \in DOMAIN got, NEW H \in SUBSET Server!Placeable(got[b]),
                      Server!Honest(got[b], H),
                      2 * Server!Cardinality(H) > Server!Cardinality(Server!Placeable(got[b])),
                      NEW r \in disk, r.body = b, r.pos \in H
               PROVE  \E j \in H : /\ \A i \in H : At(got[b], i) <= At(got[b], j)
                                   /\ r.behind = At(got[b], j) - At(got[b], r.pos)
    BY DEF Server!MajorityUnmoved, Server!Unmoved, At
  <1>1. got[b] \in Seq(PageEvent)
    BY DEF PipelineInv, GotInv
  <1>2. PICK j \in H : /\ Server!Anchor(got[b]) = At(got[b], j)
                       /\ \A i \in H : At(got[b], i) <= At(got[b], j)
    BY <1>1, MajorityAnchors
  <1> DEFINE a == At(got[b], r.pos)
             c == At(got[b], j)
  <1>3. a \in Int /\ c \in Int /\ MaxSpan \in Nat
    BY <1>1, PlaceableAre, LimitsAssumption
  <1>4. a <= c /\ c - a <= MaxSpan
    BY <1>2 DEF Server!Honest, At
  <1>5. r.behind = Server!Least(Server!Most(c - a, 0), MaxSpan)
    BY <1>2, RecordIs
  <1> HIDE DEF a, c
  <1>6. r.behind = c - a
    BY <1>3, <1>4, <1>5 DEF Server!Least, Server!Most
  <1> QED
    BY <1>2, <1>6 DEF a, c

(* Records lie within a batch's span of its arrival and in the page's      *)
(* order, and no minority of absurd offsets moves the record of an event   *)
(* that agrees with the majority.                                          *)
THEOREM RecordsArePlaced == BeaconSpec => []Placement
  <1>1. PipelineInv => Placement
    BY PageOrderKept, HonestAreUnmoved DEF Placement, Server!Placement
  <1> QED
    BY <1>1, PipelineInvariant, PTL
=============================================================================
