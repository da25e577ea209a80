------------------------------- MODULE Harness -------------------------------
(***************************************************************************)
(* serve (ui_servo/adapters/granian_server.py): an ASGI app on a port of   *)
(* this machine for the length of a with block.  The calling thread picks  *)
(* a port, starts a thread that binds it a moment later, polls until the   *)
(* port answers, runs the body, and stops and joins the thread.  Between   *)
(* any two of its steps the server thread moves, a stranger takes or       *)
(* leaves a port, and a deadline passes.                                   *)
(*                                                                         *)
(* Granian is external: a server binds its port or fails, fails later,     *)
(* stops some time after it was asked, or never moves again.               *)
(***************************************************************************)
EXTENDS Naturals

CONSTANTS Port,
          Retries,      \* PORT_RACE_RETRIES
          Callers,      \* what callers pass as port=
          NoPort        \* port=None

ASSUME RetriesAssumption == Retries \in Nat
ASSUME PortAssumption == Callers \subseteq Port \cup {NoPort} /\ NoPort \notin Port

Attempt == 1..(Retries + 1)
Foreign == 0
Free == Retries + 2

VARIABLES
    pc,         \* where the calling thread is, or how the call ended
    port,       \* the argument
    n,          \* attempts begun
    bind,       \* bind[i]: the port of attempt i
    late,       \* the startup deadline has passed
    thread,     \* thread[i]: the server thread of attempt i
    failure,    \* failure[i]: what it appended to its failure list
    asked,      \* asked[i]: its server was told to stop
    holder,     \* holder[p]: who listens on port p
    seen,       \* how _await_startup ended in the last attempt
    clean,      \* the body did not raise
    timedOut    \* the last join gave up

main == <<pc, port, n, bind, late, asked, seen, clean, timedOut>>
servers == <<thread, failure>>
vars == <<main, servers, holder>>

Init ==
    /\ pc = "pick"
    /\ port \in Callers
    /\ n = 0
    /\ bind = [i \in Attempt |-> NoPort]
    /\ late = FALSE
    /\ thread = [i \in Attempt |-> "none"]
    /\ failure = [i \in Attempt |-> "none"]
    /\ asked = [i \in Attempt |-> FALSE]
    /\ holder \in [Port -> {Free, Foreign}]
    /\ \E p \in Port : holder[p] = Free
    /\ seen = "none"
    /\ clean = FALSE
    /\ timedOut = FALSE

-----------------------------------------------------------------------------
(* The calling thread                                                      *)

(* free_port, or the caller's own port, and _spawn.                        *)
Spawn ==
    /\ pc = "pick"
    /\ \E p \in Port :
          /\ IF port = NoPort THEN holder[p] = Free ELSE p = port
          /\ bind' = [bind EXCEPT ![n + 1] = p]
    /\ n' = n + 1
    /\ thread' = [thread EXCEPT ![n + 1] = "binding"]
    /\ late' = FALSE
    /\ seen' = "none"
    /\ timedOut' = FALSE
    /\ pc' = "poll"
    /\ UNCHANGED <<port, asked, clean, failure, holder>>

Deadline ==
    /\ pc \in {"poll", "alive", "accepts"}
    /\ ~late
    /\ late' = TRUE
    /\ UNCHANGED <<pc, port, n, bind, asked, seen, clean, timedOut, servers, holder>>

(* _await_startup raises.                                                  *)
StartupRaises(why) ==
    /\ seen' = why
    /\ pc' = "joinLost"

Poll ==
    /\ pc = "poll"
    /\ \/ late /\ StartupRaises("late")
       \/ ~late /\ failure[n] # "none" /\ StartupRaises("failed")
       \/ ~late /\ failure[n] = "none" /\ pc' = "alive" /\ UNCHANGED seen
    /\ UNCHANGED <<port, n, bind, late, asked, clean, timedOut, servers, holder>>

CheckAlive ==
    /\ pc = "alive"
    /\ IF thread[n] = "exited" THEN StartupRaises("exited")
                               ELSE pc' = "accepts" /\ UNCHANGED seen
    /\ UNCHANGED <<port, n, bind, late, asked, clean, timedOut, servers, holder>>

(* _accepting: whoever listens on the port answers.                        *)
CheckAccepting ==
    /\ pc = "accepts"
    /\ IF holder[bind[n]] = Free THEN pc' = "poll" /\ UNCHANGED seen
                                 ELSE pc' = "body" /\ seen' = "started"
    /\ UNCHANGED <<port, n, bind, late, asked, clean, timedOut, servers, holder>>

(* Mutated: thread.join() without its timeout.                             *)
JoinForever(from, to) ==
    /\ pc = from
    /\ thread[n] = "exited"
    /\ pc' = to
    /\ timedOut' = FALSE
    /\ UNCHANGED <<port, n, bind, late, asked, seen, clean, servers, holder>>

(* thread.join(timeout=shutdown_timeout): it returns either way.           *)
Join(from, to) ==
    /\ pc = from
    /\ pc' = to
    /\ timedOut' = (thread[n] # "exited")
    /\ UNCHANGED <<port, n, bind, late, asked, seen, clean, servers, holder>>

(* Mutated: any failed start is tried again, on a caller's port too.       *)
WorthRetrying == n <= Retries

(* retries_left > 0 and failure and _is_port_conflict(failure[0])          *)
Retriable == port = NoPort /\ n <= Retries /\ failure[n] = "conflict"

RetryOrRaise ==
    /\ pc = "lost"
    /\ pc' = IF Retriable THEN "pick" ELSE "raised"
    /\ UNCHANGED <<port, n, bind, late, asked, seen, clean, timedOut, servers, holder>>

EndBody ==
    /\ pc = "body"
    /\ clean' \in BOOLEAN
    /\ pc' = "leave"
    /\ UNCHANGED <<port, n, bind, late, asked, seen, timedOut, servers, holder>>

(* call_soon_threadsafe, suppressed on a loop that is closed.              *)
Leave ==
    /\ pc = "leave"
    /\ asked' = [asked EXCEPT ![n] = thread[n] # "exited"]
    /\ pc' = "join"
    /\ UNCHANGED <<port, n, bind, late, seen, clean, timedOut, servers, holder>>

(* Mutated: what the worker appended is never read.                        *)
JudgeFailureNever ==
    /\ pc = "judgeFailure"
    /\ pc' = IF clean THEN "judgeThread" ELSE "bodyError"
    /\ UNCHANGED <<port, n, bind, late, asked, seen, clean, timedOut, servers, holder>>

JudgeFailure ==
    /\ pc = "judgeFailure"
    /\ pc' = CASE ~clean -> "bodyError"
               [] clean /\ failure[n] # "none" -> "raised"
               [] OTHER -> "judgeThread"
    /\ UNCHANGED <<port, n, bind, late, asked, seen, clean, timedOut, servers, holder>>

(* Mutated: a thread that is still alive is let go.                        *)
JudgeNothing ==
    /\ pc = "judgeThread"
    /\ pc' = "returned"
    /\ UNCHANGED <<port, n, bind, late, asked, seen, clean, timedOut, servers, holder>>

JudgeStopped ==
    /\ pc = "judgeThread"
    /\ pc' = IF thread[n] # "exited" THEN "raised" ELSE "returned"
    /\ UNCHANGED <<port, n, bind, late, asked, seen, clean, timedOut, servers, holder>>

MainStep ==
    \/ Spawn \/ Poll \/ CheckAlive \/ CheckAccepting
    \/ Join("joinLost", "lost") \/ RetryOrRaise
    \/ Leave \/ Join("join", "judgeFailure") \/ JudgeFailure \/ JudgeStopped

-----------------------------------------------------------------------------
(* The server threads and the rest of the machine                          *)

Moves(i, from, to, why) ==
    /\ thread[i] = from
    /\ thread' = [thread EXCEPT ![i] = to]
    /\ failure' = [failure EXCEPT ![i] = why]
    /\ UNCHANGED main

Binds(i) ==
    /\ holder[bind[i]] = Free
    /\ Moves(i, "binding", "serving", "none")
    /\ holder' = [holder EXCEPT ![bind[i]] = i]

LosesPort(i) ==
    /\ holder[bind[i]] # Free
    /\ Moves(i, "binding", "closing", "conflict")
    /\ UNCHANGED holder

(* Any other error before the bind, or serve() returning at once.          *)
FailsToStart(i) ==
    /\ \E why \in {"none", "other"} : Moves(i, "binding", "closing", why)
    /\ UNCHANGED holder

(* A crash, or the end of a server that was asked to stop.                 *)
StopsServing(i) ==
    /\ \E why \in {"other"} \cup (IF asked[i] THEN {"none"} ELSE {}) :
          Moves(i, "serving", "closing", why)
    /\ holder' = [holder EXCEPT ![bind[i]] = Free]

(* loop.close() and the end of the thread.                                 *)
Exits(i) ==
    /\ Moves(i, "closing", "exited", failure[i])
    /\ UNCHANGED holder

(* Some port stays free, or free_port would have nothing to hand out.      *)
StrangerListens(p) ==
    /\ holder[p] = Free
    /\ \E q \in Port \ {p} : holder[q] = Free
    /\ holder' = [holder EXCEPT ![p] = Foreign]
    /\ UNCHANGED <<main, servers>>

StrangerLeaves(p) ==
    /\ holder[p] = Foreign
    /\ holder' = [holder EXCEPT ![p] = Free]
    /\ UNCHANGED <<main, servers>>

Next ==
    \/ MainStep \/ Deadline \/ EndBody
    \/ \E i \in 1..n :
          Binds(i) \/ LosesPort(i) \/ FailsToStart(i) \/ StopsServing(i) \/ Exits(i)
    \/ \E p \in Port : StrangerListens(p) \/ StrangerLeaves(p)

(* The calling thread runs and its clock moves; neither the body nor a     *)
(* server is under any obligation.                                         *)
Spec == Init /\ [][Next]_vars /\ WF_vars(MainStep) /\ WF_vars(Deadline)

-----------------------------------------------------------------------------
(* Properties                                                              *)

(* Every variable keeps the shape the code gives it.                       *)
TypeOK ==
    /\ pc \in {"pick", "poll", "alive", "accepts", "joinLost", "lost", "body", "leave",
               "join", "judgeFailure", "judgeThread", "bodyError", "raised", "returned"}
    /\ port \in Port \cup {NoPort}
    /\ n \in 0..(Retries + 1) /\ (n = 0 => pc = "pick")
    /\ bind \in [Attempt -> Port \cup {NoPort}]
    /\ \A i \in Attempt : (bind[i] \in Port) <=> (i <= n)
    /\ thread \in [Attempt -> {"none", "binding", "serving", "closing", "exited"}]
    /\ failure \in [Attempt -> {"none", "conflict", "other"}]
    /\ asked \in [Attempt -> BOOLEAN]
    /\ holder \in [Port -> {Free, Foreign} \cup Attempt]
    /\ seen \in {"none", "late", "failed", "exited", "started"}
    /\ late \in BOOLEAN /\ clean \in BOOLEAN /\ timedOut \in BOOLEAN

(* A call that returns leaves nothing behind: no attempt listens on any    *)
(* port, and the last server's thread is over (serve's finally).           *)
ReturnLeavesNothing ==
    pc = "returned" => /\ \A p \in Port : holder[p] \notin Attempt
                       /\ thread[n] = "exited"

(* A worker that failed is never passed over in a call that returns,       *)
(* unless the join ran out of time (serve's docstring).                    *)
CrashIsTold == pc = "returned" => failure[n] = "none" \/ timedOut

(* A failed attempt is followed by another exactly when an automatic port  *)
(* was lost to someone else and a retry is left.  So at most one server is *)
(* ever up, the one the caller talks to, and a port the caller named is    *)
(* the only port bound (serve's except clause).                            *)
RetriedExactlyOnConflict ==
    /\ \A i \in 1..n : i < n => /\ port = NoPort
                               /\ failure[i] = "conflict"
                               /\ thread[i] \in {"closing", "exited"}
    /\ port # NoPort => \A i \in 1..n : bind[i] = port
    /\ pc = "raised" /\ seen = "failed" /\ failure[n] = "conflict" =>
          port # NoPort \/ n = Retries + 1

(* Outside its body the call never hangs, whatever the server does.        *)
ServeEnds == (pc # "body") ~> (pc \in {"body", "bodyError", "raised", "returned"})
=============================================================================
