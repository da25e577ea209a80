---------------------------- MODULE CritiquePanel ----------------------------
(***************************************************************************)
(* CritiquePanel.run_round (ui_servo/control/critique.py) and the rules of *)
(* ui_servo/domain/policy.py it applies: one panel asked about one pair    *)
(* after another, with the rotation memory handed from round to round.     *)
(*                                                                         *)
(* A judge is known by its family and its place on the panel.  Prompts and *)
(* findings are left out; a verdict is the position it names.  The two     *)
(* digests that rotate the roster and flip a prompt are free choices.      *)
(***************************************************************************)
EXTENDS Naturals, Sequences, FiniteSets

CONSTANTS Family,
          Roster,           \* the families of the judges, in order
          Candidate,
          BuilderOf,        \* BuilderOf[c]: the family that built c
          NoBuilder,        \* builder_family is None
          Pairs,            \* the pairs a caller asks about
          PanelSize,        \* panel_size
          MaxRounds,        \* bound: rounds in a behaviour
          Invalid,          \* replies that break the rubric
          Telltale          \* what of a prompt names a model family

ASSUME RosterAssumption == Roster \in Seq(Family)
ASSUME BuilderAssumption ==
    BuilderOf \in [Candidate -> Family \cup {NoBuilder}] /\ NoBuilder \notin Family
ASSUME PairsAssumption ==
    Pairs \subseteq {p \in Candidate \X Candidate : p[1] # p[2]}
ASSUME PanelAssumption == {PanelSize, MaxRounds} \subseteq Nat
ASSUME RepliesAssumption ==
    /\ Invalid \subseteq {"broken", "named"}
    /\ Telltale \subseteq Candidate \cup {"root", "named"}

Choice == {"A", "B", "tie"}

MinPanelFamilies == 2

VARIABLES
    pc,        \* where run_round is, or how it ended
    rounds,    \* rounds begun
    pair,      \* the caller's A and B
    flip,      \* flip[f]: family f is shown B first
    panel,     \* judges still to be asked; the head may be under re-ask
    retry,     \* the head's first reply broke the rubric
    history,   \* the rotation memory
    votes,     \* the votes so far
    trail,     \* records appended to the evidence store in this round
    outcome,   \* the outcome of the last round
    heard,     \* every reply of this round, as it was given (history)
    asked      \* whom was asked about what, in every round (history)

vars == <<pc, rounds, pair, flip, panel, retry, history, votes, trail, outcome, heard, asked>>

Init ==
    /\ pc = "idle"
    /\ rounds = 0
    /\ pair = <<>>
    /\ flip = <<>>
    /\ panel = <<>>
    /\ retry = FALSE
    /\ history = {}
    /\ votes = <<>>
    /\ trail = <<>>
    /\ outcome = "none"
    /\ heard = <<>>
    /\ asked = {}

-----------------------------------------------------------------------------
(* policy.py                                                               *)

(* Mutated: the pair is named as it was shown.                             *)
PairAsShown(a, b) == <<a, b>>

(* pair_key: the same name in either order.                                *)
PairKey(a, b) == {a, b}

(* A comprehension: the judges whose families are kept, in their order.    *)
Among(judges, kept) ==
    LET places == {i \in DOMAIN judges : judges[i] \in kept}
    IN  [n \in 1..Cardinality(places) |->
            judges[CHOOSE i \in places : Cardinality({j \in places : j <= i}) = n]]

(* Mutated: only the family behind A is excluded.                          *)
EligibleForFirst(a, b) == Among(Roster, Family \ {BuilderOf[a]})

Eligible(a, b) == Among(Roster, Family \ {BuilderOf[a], BuilderOf[b]})

Rotated(judges, offset) ==
    SubSeq(judges, offset + 1, Len(judges)) \o SubSeq(judges, 1, offset)

Unseen(judges, a, b) == Among(judges, {f \in Family : <<f, PairKey(a, b)>> \notin history})

Truncated(judges) == IF Len(judges) > PanelSize THEN SubSeq(judges, 1, PanelSize) ELSE judges

(* flip_for: a digest decides for each family which of the two it sees     *)
(* first.                                                                  *)
Flips(judges) == [{judges[i] : i \in DOMAIN judges} -> BOOLEAN]

(* validate_verdict: the reply is a whole verdict with cited findings.     *)
HoldsUp(said) == said \in Choice

(* blindness_violations: a family is named by a part that is not masked.   *)
NamesFamily(parts, masked) == (parts \ masked) \cap Telltale # {}

Opposite(choice) == CASE choice = "A" -> "B" [] choice = "B" -> "A" [] OTHER -> "tie"

(* Mutated: the answer to a re-ask is taken in the frame it was shown in.  *)
DerandomizeOnce(choice, flipped) == IF flipped /\ ~retry THEN Opposite(choice) ELSE choice

Derandomize(choice, flipped) == IF flipped THEN Opposite(choice) ELSE choice

(* A repeat family's later votes do not count.                             *)
Deduped(cast) ==
    {cast[i] : i \in {j \in DOMAIN cast : \A k \in 1..(j-1) : cast[k].family # cast[j].family}}

(* panel_outcome: "A" or "B", or "escalate".                               *)
PanelOutcome(cast) ==
    LET counted == Deduped(cast)
        needed == Cardinality(counted) \div 2 + 1
        leaders == {c \in Choice : Cardinality({v \in counted : v.winner = c}) >= needed}
    IN  IF Cardinality(counted) < MinPanelFamilies \/ leaders \subseteq {"tie"}
        THEN "escalate"
        ELSE CHOOSE c \in leaders : TRUE

-----------------------------------------------------------------------------
(* run_round                                                               *)

BeginRound ==
    /\ pc = "idle"
    /\ rounds < MaxRounds
    /\ rounds' = rounds + 1
    /\ \E p \in Pairs :
          /\ pair' = p
          /\ LET able == Eligible(p[1], p[2])
             IN  \E offset \in 0..(IF able = <<>> THEN 0 ELSE Len(able) - 1) :
                    panel' = Truncated(Unseen(Rotated(able, offset), p[1], p[2]))
    /\ flip' \in Flips(panel')
    /\ pc' = "asking"
    /\ retry' = FALSE
    /\ votes' = <<>>
    /\ trail' = <<>>
    /\ outcome' = "none"
    /\ heard' = <<>>
    /\ UNCHANGED <<history, asked>>

(* What a prompt is made of: the two artefacts, and paths under the root.  *)
Prompt == {pair[1], pair[2], "root"}

PromptIsBlind == retry \/ ~NamesFamily(Prompt, {"root"})

(* The prompt names a family: the round ends before its judge is asked.    *)
RefusePrompt ==
    /\ pc = "asking"
    /\ panel # <<>>
    /\ ~PromptIsBlind
    /\ pc' = "BlindnessError"
    /\ UNCHANGED <<rounds, pair, flip, panel, retry, history, votes, trail, outcome, heard, asked>>

(* The judge at the head of the panel is asked and replies with `said`.    *)
Ask(said) ==
    LET f == Head(panel)
        shown == IF flip[f] THEN <<pair[2], pair[1]>> ELSE pair
    IN  /\ pc = "asking"
        /\ panel # <<>>
        /\ PromptIsBlind
        /\ history' = history \cup {<<f, PairKey(pair[1], pair[2])>>}
        /\ heard' = Append(heard, [judge |-> Len(panel), family |-> f, shown |-> shown,
                                   said |-> said])
        /\ asked' = asked \cup {[round |-> rounds, family |-> f,
                                 candidates |-> {pair[1], pair[2]}]}
        /\ UNCHANGED <<rounds, pair, flip, outcome>>

Emit(kind, family, winner) ==
    trail' = Append(trail, [kind |-> kind, family |-> family, winner |-> winner])

NextJudge ==
    /\ panel' = Tail(panel)
    /\ retry' = FALSE
    /\ UNCHANGED pc

(* A verdict that holds up, to either attempt.                             *)
Cast(said) ==
    LET f == Head(panel)
        winner == Derandomize(said, flip[f])
    IN  /\ HoldsUp(said)
        /\ Ask(said)
        /\ votes' = Append(votes, [family |-> f, winner |-> winner])
        /\ Emit("judge-verdict", f, winner)
        /\ NextJudge

(* A first reply that breaks the rubric.  The retry prompt quotes it and   *)
(* repeats the artefact paths; it is scanned with nothing masked.          *)
Reask(said) ==
    /\ said # "failed" /\ ~HoldsUp(said)
    /\ ~retry
    /\ Ask(said)
    /\ Emit("judge-reask", Head(panel), "none")
    /\ IF NamesFamily(Prompt \cup {said}, {})
         THEN pc' = "BlindnessError" /\ UNCHANGED retry
         ELSE retry' = TRUE /\ UNCHANGED pc
    /\ UNCHANGED <<votes, panel>>

(* No reply, or a second one that breaks the rubric.                       *)
Reject(said) ==
    /\ said = "failed" \/ (retry /\ ~HoldsUp(said))
    /\ Ask(said)
    /\ Emit("judge-error", Head(panel), "none")
    /\ NextJudge
    /\ UNCHANGED votes

Conclude ==
    /\ pc = "asking"
    /\ panel = <<>>
    /\ outcome' = PanelOutcome(votes)
    /\ Emit("panel-outcome", "none", outcome')
    /\ pc' = "idle"
    /\ UNCHANGED <<rounds, pair, flip, panel, retry, history, votes, heard, asked>>

(* store.append raises and nobody here catches it.                         *)
RaiseStoreError ==
    /\ pc = "asking"
    /\ pc' = "StoreError"
    /\ UNCHANGED <<rounds, pair, flip, panel, retry, history, votes, trail, outcome, heard, asked>>

Replies == Choice \cup Invalid \cup {"broken", "failed"}

-----------------------------------------------------------------------------
(* Properties                                                              *)

(* Every variable has the shape the code gives it.                         *)
TypeOK ==
    /\ pc \in {"idle", "asking", "BlindnessError", "StoreError"}
    /\ rounds \in 0..MaxRounds
    /\ pair \in Pairs \cup {<<>>}
    /\ panel \in Seq(Family) /\ Len(panel) <= PanelSize
    /\ pc = "asking" => pair \in Pairs /\ rounds # 0
    /\ \A i \in DOMAIN panel : flip[panel[i]] \in BOOLEAN
    /\ retry \in BOOLEAN
    /\ history \subseteq Family \X {{p[1], p[2]} : p \in Pairs}
    /\ votes \in Seq([family : Family, winner : Choice])
    /\ outcome \in {"none", "A", "B", "escalate"}
    /\ heard \in Seq([judge : 1..PanelSize, family : Family, shown : Candidate \X Candidate,
                      said : Replies])
    /\ asked \subseteq [round : 1..rounds, family : Family,
                        candidates : {{p[1], p[2]} : p \in Pairs}]

(* The first verdict each family gave, whatever its position meant.        *)
Verdicts ==
    LET valid == {i \in DOMAIN heard : heard[i].said \in Choice}
    IN  {heard[i] : i \in {j \in valid : \A k \in valid : heard[k].family = heard[j].family => j <= k}}

(* The candidate a reply is about.                                         *)
Prefers(reply, c) == \/ reply.said = "A" /\ reply.shown[1] = c
                     \/ reply.said = "B" /\ reply.shown[2] = c

(* The candidate a round declares is the one a strict majority of at least *)
(* two families meant by the position they named, and a candidate with     *)
(* such a majority is declared (flip_for, derandomize, panel_outcome).     *)
WinnerIsMajority ==
    outcome # "none" =>
       \A i \in {1, 2} :
          outcome = <<"A", "B">>[i] <=>
             /\ Cardinality(Verdicts) >= 2
             /\ 2 * Cardinality({v \in Verdicts : Prefers(v, pair[i])}) > Cardinality(Verdicts)

(* No family is asked about a candidate it built (eligible_judges).        *)
NoSelfPreference ==
    \A x \in asked : \A c \in x.candidates : BuilderOf[c] # x.family

(* No family is asked in two rounds about one pair of candidates, in       *)
(* whichever order the caller names them (rotate, RotationHistory).        *)
FreshEyes ==
    \A x, y \in asked :
       x.family = y.family /\ x.candidates = y.candidates => x.round = y.round
=============================================================================
