------------------------------ MODULE CliJudges ------------------------------
(***************************************************************************)
(* The panel of CritiquePanel with the judges it is run with               *)
(* (ui_servo/adapters/cli_judges.py): each reply is the end of a call of   *)
(* _CliJudge.judge, which checks the screenshots, sends the prompt to a    *)
(* command or to the agy bridge, unwraps what comes back, and asks once    *)
(* more for JSON it could not find.  The panel's own re-ask is another     *)
(* call, so one judge is sent up to four prompts in its turn.              *)
(*                                                                         *)
(* A text is what extract_json and validate_verdict can tell of it: a      *)
(* choice, an object that breaks the rubric, prose with no object in it,   *)
(* or the schema that a transcript echoes.  The programs, the bridge and   *)
(* the models behind them are external.                                    *)
(***************************************************************************)
EXTENDS CritiquePanel

CONSTANT Transport    \* Transport[f]: the judge class of family f

ASSUME TransportAssumption == Transport \in [Family -> {"claude", "codex", "gemini"}]

VARIABLES
    at,        \* where judge() is
    attempts,  \* the attempts of this call: [rc |-> , raw |-> ]
    word,      \* what its model said in the last attempt (history)
    overdue    \* a call of this turn ran out of time (history)

call == <<at, attempts, word, overdue>>
jvars == <<vars, call>>

JInit == Init /\ at = "idle" /\ attempts = <<>> /\ word = "none" /\ overdue = FALSE

Text == Choice \cup Invalid \cup {"prose"}

(* extract_json finds an object.                                           *)
HoldsObject(raw) == raw \in Choice \cup Invalid \cup {"echo"}

ReadsImages(f) == Transport[f] # "gemini"

Running(class) == at = "invoke" /\ Transport[Head(panel)] = class

LastAttempt == attempts[Len(attempts)]

(* An Attempt; `said` is what the model answered, if it got so far.        *)
Attempted(rc, raw, said) ==
    /\ attempts' = Append(attempts, [rc |-> rc, raw |-> raw])
    /\ at' = "attempted"
    /\ word' = said
    /\ overdue' = (overdue \/ rc = "timeout")
    /\ UNCHANGED vars

-----------------------------------------------------------------------------
(* judge() is entered.  A screenshot that is not a file is refused before  *)
(* a call is spent, by the judges that are given screenshots.              *)
CallJudge ==
    /\ pc = "asking"
    /\ panel # <<>>
    /\ at = "idle"
    /\ PromptIsBlind
    /\ \/ at' = "invoke"
       \/ ReadsImages(Head(panel)) /\ at' = "answered"
    /\ UNCHANGED <<vars, attempts, word, overdue>>

(* _run and _safe_invoke: not started, out of time, a bad exit, or an      *)
(* exception in the adapter.                                               *)
ProcessFails ==
    \/ Attempted("unavailable", "none", "none")
    \/ Attempted("timeout", "none", "none")
    \/ \E said \in Text \cup {"none"} : Attempted("failed", "none", said)

(* The envelope holds a result; or it is missing, an error or not a text.  *)
ClaudeReplies ==
    /\ Running("claude")
    /\ \/ ProcessFails
       \/ \E said \in Text : Attempted("ok", said, said)

(* Mutated: the first object of a transcript.                              *)
FirstSpan(said) == "echo"

(* last_json_span of a transcript that repeats the schema before `said`.   *)
LastSpan(said) == IF HoldsObject(said) THEN said ELSE "echo"

(* The final-message file, or the transcript when that file is empty; a    *)
(* transcript may also repeat no schema and hold no object.                *)
CodexReplies ==
    /\ Running("codex")
    /\ \/ ProcessFails
       \/ \E said \in Text : Attempted("ok", said, said)
       \/ \E said \in Text \cup {"none"} :
             \/ Attempted("ok", LastSpan(said), said)
             \/ ~HoldsObject(said) /\ Attempted("failed", "none", said)

(* Mutated: every httpx timeout drops to the command, not only a connect.  *)
FallsBackOnTimeout == {"noToken", "unreachable", "rejected", "timeout"}

(* Why _invoke drops to the agy command.                                   *)
FallsBack == {"noToken", "unreachable", "rejected"}

(* The bridge; the last result event of its stream decides.                *)
BridgeReplies ==
    /\ Running("gemini")
    /\ \/ \E why \in {"noToken", "unreachable", "rejected", "timeout"} :
             IF why \in FallsBack
               THEN /\ at' = "cli"
                    /\ overdue' = (overdue \/ why = "timeout")
                    /\ UNCHANGED <<vars, attempts, word>>
               ELSE Attempted(why, "none", "none")
       \/ \E said \in Text \cup {"none"} : Attempted("failed", "none", said)
       \/ \E said \in Text : Attempted("ok", said, said)

AgyReplies ==
    /\ at = "cli"
    /\ \/ ProcessFails
       \/ \E said \in Text : Attempted("ok", said, said)

(* _should_reask, once.                                                    *)
ShouldReask == Len(attempts) = 1 /\ ~HoldsObject(LastAttempt.raw) /\ LastAttempt.rc = "ok"

ParseAttempt ==
    /\ at = "attempted"
    /\ at' = IF ShouldReask THEN "invoke" ELSE "answered"
    /\ UNCHANGED <<vars, attempts, word, overdue>>

(* What CritiquePanel makes of the JudgeResponse: not ok, an object that   *)
(* holds up, or violations (no object at all is one).                      *)
Response ==
    CASE attempts = <<>> -> "failed"
      [] attempts # <<>> /\ LastAttempt.rc # "ok" -> "failed"
      [] OTHER -> IF LastAttempt.raw \in Choice \cup Invalid THEN LastAttempt.raw ELSE "broken"

(* The panel takes the response.                                           *)
Answer ==
    /\ at = "answered"
    /\ Cast(Response) \/ Reask(Response) \/ Reject(Response)
    /\ at' = "idle"
    /\ attempts' = <<>>
    /\ word' = "none"
    /\ overdue' = (overdue /\ retry')

Between == at = "idle" /\ UNCHANGED call

JNext ==
    \/ Between /\ BeginRound
    \/ Between /\ RefusePrompt
    \/ Between /\ Conclude
    \/ Between /\ RaiseStoreError
    \/ CallJudge \/ ClaudeReplies \/ CodexReplies \/ BridgeReplies \/ AgyReplies
    \/ ParseAttempt \/ Answer

JSpec == JInit /\ [][JNext]_jvars

-----------------------------------------------------------------------------
(* Properties                                                              *)

(* Every variable has the shape the code gives it.                         *)
JTypeOK ==
    /\ TypeOK
    /\ at \in {"idle", "invoke", "cli", "attempted", "answered"}
    /\ attempts \in Seq([rc : {"ok", "failed", "timeout", "unavailable"},
                         raw : Text \cup {"none", "echo"}])
    /\ Len(attempts) <= 2
    /\ word \in Text \cup {"none"}
    /\ overdue \in BOOLEAN
    /\ at # "idle" => pc = "asking" /\ panel # <<>>

(* What the panel hears of a call that went well is what the model itself  *)
(* said last, through envelope, file, transcript or stream and through the *)
(* re-asks of both layers: an echoed schema or an earlier attempt never    *)
(* votes, and a verdict that was given is never lost (judge, _invoke).     *)
VoteIsLastWord ==
    at = "answered" =>
       /\ Response \in Choice => Response = word
       /\ attempts # <<>> /\ LastAttempt.rc = "ok" /\ HoldsObject(word) => Response = word

(* A call that ran out of time is the last thing a judge is sent in its    *)
(* turn: by another transport, by the adapter's re-ask or by the panel's   *)
(* it would be paid for twice (GeminiJudge, _should_reask, _ask).          *)
TimeoutIsFinal == overdue => at \notin {"invoke", "cli"} /\ ~(at = "idle" /\ retry)
=============================================================================
