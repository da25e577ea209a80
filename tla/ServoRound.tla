------------------------------ MODULE ServoRound ------------------------------
(***************************************************************************)
(* run_round (ui_servo/control/servo.py): variants pass the gates or are   *)
(* rejected, the survivors meet pairwise before the panel, the ranked      *)
(* field is offered to the archive (ui_servo/domain/variant.py), and the   *)
(* round is recorded.  The archive is handed from round to round.          *)
(*                                                                         *)
(* Gate verdicts and the panel's decisions are free choices (CritiquePanel *)
(* is the panel); what was measured of a variant is a constant.  A fitness *)
(* is a number of Unit-ths.                                                *)
(***************************************************************************)
EXTENDS Briefs, SequencesExt

CONSTANTS Variant,
          Directories,     \* the candidate files a round may be given
          FileOrder,       \* FileOrder[v]: where part, family and index sort
          Id,              \* Id[v]: where variant_id sorts
          BuilderOf,       \* the family that built it
          Bland,           \* its blandness_score, 0 when there is none
          AxesOf,          \* its density, expressiveness and motion, in Unit-ths
          StyleOf,         \* its style vector, or NoStyle
          NoStyle,
          Distance,        \* Distance[s][t]: cosine distance, in Unit-ths
          JudgeFamily,     \* families on the roster
          MaxField,        \* MAX_TOURNAMENT_FIELD
          Unit,
          Weight,          \* DISTINCTIVENESS_WEIGHT, in Unit-ths
          NameOf,          \* exemplar_name of it
          Asked,           \* numbers of briefs a round may be given
          MaxRounds,       \* bound: rounds in a behaviour
          MaxPicks         \* bound: picks in a behaviour

ASSUME DirectoriesAssumption ==
    \A files \in Directories : files \subseteq Variant /\ IsFiniteSet(files)
ASSUME OrderAssumption ==
    /\ FileOrder \in [Variant -> Int] /\ Id \in [Variant -> Int] /\ Bland \in [Variant -> Int]
    /\ \A v, w \in Variant : FileOrder[v] = FileOrder[w] \/ Id[v] = Id[w] => v = w
ASSUME BoundAssumption == {MaxField, Weight, MaxRounds, MaxPicks} \subseteq Nat
ASSUME UnitAssumption == Unit \in Nat \ {0} /\ \A n \in 1..(MaxField - 1) : Unit % n = 0

ASSUME AxesAssumption == \A v \in Variant : AxesOf[v] \in [1..3 -> 0..Unit]
ASSUME DistanceAssumption ==
    \A v, w \in Variant : NoStyle \notin {StyleOf[v], StyleOf[w]} =>
        Distance[StyleOf[v]][StyleOf[w]] \in 0..Unit
ASSUME AskedAssumption == Asked \subseteq 1..Cardinality(Grid)

Smaller(m, n) == IF m < n THEN m ELSE n

(* StyleAxes.cell: bins of equal width, the last of them closed.           *)
CellOf(v) == [i \in 1..3 |-> Smaller((AxesOf[v][i] * Resolution) \div Unit, Resolution - 1)]

Cell == {CellOf(v) : v \in Variant}

(* sorted(): the members of S, of any two the one that R puts first.       *)
InOrder(S, R) ==
    CHOOSE seq \in SetToSeqs(S) : \A i, j \in DOMAIN seq : i < j => <<seq[i], seq[j]>> \in R

(* What the archive keeps of a variant; the round is for properties only.  *)
Elite(v, fitness, round, rank) ==
    [variant |-> v, fitness |-> fitness, round |-> round, rank |-> rank]

NoElite == Elite("none", 0, 0, 0)

VARIABLES
    pc,         \* where run_round is
    rounds,     \* rounds begun
    todo,       \* variants still to be regulated
    rejected,   \* variants whose gates failed in this round
    field,      \* survivors, then those of them that are argued about
    unargued,   \* survivors the field has no place for
    decided,    \* decided[<<i, j>>]: what the panel said of field[i], field[j]
    ranked,     \* the standings
    offered,    \* entries of ranked that have been offered to the archive
    archive,    \* archive[c]: the elite of cell c
    recorded,   \* rounds whose result is in the evidence store
    picks,      \* picks recorded
    taste       \* taste[name]: the elite that was saved as an exemplar

round == <<todo, rejected, field, unargued, decided, ranked, offered>>
human == <<picks, taste>>
vars == <<pc, rounds, round, archive, recorded, human, aim>>

(* The locals of run_round are gone, or still empty.                       *)
Blank ==
    /\ rejected' = {}
    /\ field' = <<>>
    /\ unargued' = {}
    /\ decided' = <<>>
    /\ ranked' = <<>>
    /\ offered' = 0

Init ==
    /\ pc = "idle"
    /\ rounds = 0
    /\ todo = <<>>
    /\ rejected = {}
    /\ field = <<>>
    /\ unargued = {}
    /\ decided = <<>>
    /\ ranked = <<>>
    /\ offered = 0
    /\ archive = [c \in Cell |-> NoElite]
    /\ recorded = {}
    /\ picks = 0
    /\ taste = [n \in {NameOf[v] : v \in Variant} |-> NoElite]
    /\ wanted = 0
    /\ avoid = {}
    /\ chosen = {}

-----------------------------------------------------------------------------
(* Aiming the briefs                                                       *)

Held == {c \in Cell : archive[c] # NoElite}

(* A caller aims away from what the archive holds, or from what it likes.  *)
Brief ==
    /\ pc = "idle"
    /\ rounds < MaxRounds
    /\ \E n \in Asked : \E taken \in IF rounds = 0 THEN SUBSET Grid ELSE {Held} :
          BeginAim(n, taken)
    /\ pc' = "aim"
    /\ UNCHANGED <<rounds, round, archive, recorded, human>>

Aim ==
    /\ pc = "aim"
    /\ TakeFurthest \/ Exchange
    /\ UNCHANGED <<pc, rounds, round, archive, recorded, human>>

-----------------------------------------------------------------------------
(* The fast loop                                                           *)

(* load_candidates: by part, family and index, whatever the directory says.*)
Loaded(files) == InOrder(files, {p \in files \X files : FileOrder[p[1]] < FileOrder[p[2]]})

(* With briefs or without; what was built is not bound by them.            *)
BeginRound ==
    /\ pc = "idle" \/ (pc = "aim" /\ Aimed)
    /\ rounds < MaxRounds
    /\ rounds' = rounds + 1
    /\ \E files \in Directories : todo' = Loaded(files)
    /\ Blank
    /\ wanted' = 0 /\ avoid' = {} /\ chosen' = {}
    /\ pc' = "regulate"
    /\ UNCHANGED <<archive, recorded, human>>

(* Mutated: what fails a gate is reported and argued about all the same.   *)
RegulateAll ==
    /\ pc = "regulate"
    /\ todo # <<>>
    /\ todo' = Tail(todo)
    /\ \E passed \in BOOLEAN :
          rejected' = IF passed THEN rejected ELSE rejected \cup {Head(todo)}
    /\ field' = Append(field, Head(todo))
    /\ UNCHANGED <<pc, rounds, unargued, decided, ranked, offered, archive, recorded, human, aim>>

Regulate ==
    /\ pc = "regulate"
    /\ todo # <<>>
    /\ todo' = Tail(todo)
    /\ \E passed \in BOOLEAN :
          IF passed
          THEN field' = Append(field, Head(todo)) /\ UNCHANGED rejected
          ELSE rejected' = rejected \cup {Head(todo)} /\ UNCHANGED field
    /\ UNCHANGED <<pc, rounds, unargued, decided, ranked, offered, archive, recorded, human, aim>>

Before(i, j) ==
    \/ Bland[field[i]] > Bland[field[j]]
    \/ Bland[field[i]] = Bland[field[j]] /\ i < j

(* The most distinctive MaxField survivors; the earlier one of equals.     *)
Kept == {i \in DOMAIN field : Cardinality({j \in DOMAIN field : Before(j, i)}) < MaxField}

(* _tournament_field: those of an index in Kept, as they came.             *)
TakeField ==
    /\ pc = "regulate"
    /\ todo = <<>>
    /\ LET kept == InOrder(Kept, {p \in Kept \X Kept : p[1] < p[2]})
       IN  field' = [n \in DOMAIN kept |-> field[kept[n]]]
    /\ unargued' = {field[i] : i \in DOMAIN field \ Kept}
    /\ pc' = "tournament"
    /\ UNCHANGED <<rounds, todo, rejected, decided, ranked, offered, archive, recorded, human, aim>>

-----------------------------------------------------------------------------
(* The tournament                                                          *)

PairsOf(seq) == {p \in (DOMAIN seq) \X (DOMAIN seq) : p[1] < p[2]}

(* What the panel may say: it needs two families that built neither.       *)
PanelSays(a, b) ==
    IF Cardinality(JudgeFamily \ {BuilderOf[a], BuilderOf[b]}) >= 2
    THEN {"A", "B", "escalate"} ELSE {"escalate"}

(* Stage both, ask the panel, keep its outcome; in the order of _pairs.    *)
Compare ==
    /\ pc = "tournament"
    /\ \E p \in PairsOf(field) \ DOMAIN decided :
          /\ \A q \in PairsOf(field) \ DOMAIN decided :
                p[1] < q[1] \/ (p[1] = q[1] /\ p[2] <= q[2])
          /\ \E said \in PanelSays(field[p[1]], field[p[2]]) :
                decided' = [q \in DOMAIN decided \cup {p} |-> IF q = p THEN said ELSE decided[q]]
    /\ UNCHANGED <<pc, rounds, todo, rejected, field, unargued, ranked, offered, archive, recorded, human, aim>>

(* Comparison.winner_variant, of the pair as it was staged.                *)
IsWinner(v, p) == \/ decided[p] = "A" /\ field[p[1]] = v
                  \/ decided[p] = "B" /\ field[p[2]] = v

(* Mutated: every win is credited to the candidate staged as A.            *)
WonAsA(v) == {p \in DOMAIN decided : decided[p] \in {"A", "B"} /\ field[p[1]] = v}

Won(v) == {p \in DOMAIN decided : IsWinner(v, p)}

Drawn(v) ==
    {p \in DOMAIN decided : decided[p] = "escalate" /\ v \in {field[p[1]], field[p[2]]}}

(* Copeland points, in halves.                                             *)
Points(v) == 2 * Cardinality(Won(v)) + Cardinality(Drawn(v))

Above(v, w) ==
    \/ Points(v) > Points(w)
    \/ Points(v) = Points(w) /\ Bland[v] > Bland[w]
    \/ Points(v) = Points(w) /\ Bland[v] = Bland[w] /\ Id[v] < Id[w]

(* _standings                                                              *)
Rank ==
    /\ pc = "tournament"
    /\ DOMAIN decided = PairsOf(field)
    /\ ranked' = InOrder(ToSet(field), {p \in ToSet(field) \X ToSet(field) : Above(p[1], p[2])})
    /\ pc' = "admit"
    /\ UNCHANGED <<rounds, todo, rejected, field, unargued, decided, offered, archive, recorded, human, aim>>

-----------------------------------------------------------------------------
(* The archive                                                             *)

(* EliteArchive.distinctiveness                                            *)
Distinctiveness(v) ==
    LET far == {Distance[StyleOf[v]][StyleOf[archive[c].variant]] : c \in Held}
    IN  IF far = {} THEN Unit ELSE CHOOSE d \in far : \A e \in far : d <= e

RankScore(rank, size) == IF size = 1 THEN Unit ELSE (size - rank) * (Unit \div (size - 1))

(* Mutated: the bonus is not capped at one step of the ranking.            *)
FitnessUncapped(rank, size, bonus) == RankScore(rank, size) + (Weight * bonus) \div Unit

(* fitness_of                                                              *)
Fitness(rank, size, bonus) ==
    LET step == IF size = 1 THEN Unit ELSE Unit \div (size - 1)
    IN  RankScore(rank, size) + (Smaller(Weight, step) * bonus) \div Unit

(* Mutated: the latest offer takes the cell.                               *)
PlaceLatest(v, fitness, rank) ==
    archive' = [archive EXCEPT ![CellOf(v)] = Elite(v, fitness, rounds, rank)]

(* EliteArchive.place: ties go to the incumbent.                           *)
Place(v, fitness, rank) ==
    LET c == CellOf(v)
    IN  archive' = IF archive[c] # NoElite /\ archive[c].fitness >= fitness
                   THEN archive
                   ELSE [archive EXCEPT ![c] = Elite(v, fitness, rounds, rank)]

(* explore.admit: what failed a gate is refused by raising, and the bonus  *)
(* is measured before the variant is in.                                   *)
Offer(v, rank, size) ==
    /\ v \notin rejected
    /\ StyleOf[v] # NoStyle
    /\ Place(v, Fitness(rank, size, Distinctiveness(v)), rank)

(* One turn of the loop in _admit_all; without a style vector, a skip.     *)
Admit ==
    /\ pc = "admit"
    /\ offered < Len(ranked)
    /\ offered' = offered + 1
    /\ \/ StyleOf[ranked[offered']] = NoStyle /\ UNCHANGED archive
       \/ Offer(ranked[offered'], offered', Len(ranked))
    /\ UNCHANGED <<pc, rounds, todo, rejected, field, unargued, decided, ranked, recorded, human, aim>>

(* The report, the result file and the round-result record.                *)
Record ==
    /\ pc = "admit"
    /\ offered = Len(ranked)
    /\ recorded' = recorded \cup {rounds}
    /\ pc' = "idle"
    /\ todo' = <<>>
    /\ Blank
    /\ UNCHANGED <<rounds, archive, human, aim>>

(* A StoreError, a fragment that names its author, a GateFailure, a report *)
(* that cannot be written: whatever is raised leaves run_round.            *)
Raise ==
    /\ pc \in {"regulate", "tournament", "admit"}
    /\ pc' = "idle"
    /\ todo' = <<>>
    /\ Blank
    /\ UNCHANGED <<rounds, archive, recorded, human, aim>>

-----------------------------------------------------------------------------
(* The human's pick                                                        *)

ExemplarName(elite) == NameOf[elite.variant]

(* picks_from and record_pick, between rounds: the elite of a cell that is *)
(* occupied is saved under its name, its capture with it; a capture that   *)
(* cannot be read, or a store that fails, leaves the stock as it was.      *)
Pick ==
    /\ pc = "idle"
    /\ picks < MaxPicks
    /\ picks' = picks + 1
    /\ \E c \in Held : \E saved \in BOOLEAN :
          taste' = IF saved THEN [taste EXCEPT ![ExemplarName(archive[c])] = archive[c]]
                            ELSE taste
    /\ UNCHANGED <<pc, rounds, round, archive, recorded, aim>>

Next ==
    \/ Brief \/ Aim \/ BeginRound
    \/ Regulate \/ TakeField \/ Compare \/ Rank \/ Admit \/ Record \/ Raise
    \/ Pick

Spec == Init /\ [][Next]_vars

-----------------------------------------------------------------------------
(* Properties                                                              *)

Elites == [variant : Variant, fitness : Nat, round : 1..MaxRounds, rank : Nat]

(* Every variable has the shape the code gives it; the field keeps its cap *)
(* once it is taken.                                                       *)
TypeOK ==
    /\ pc \in {"idle", "aim", "regulate", "tournament", "admit"}
    /\ rounds \in 0..MaxRounds
    /\ {todo, field, ranked} \subseteq Seq(Variant)
    /\ rejected \cup unargued \subseteq Variant
    /\ pc \in {"tournament", "admit"} => Len(field) <= MaxField
    /\ DOMAIN decided \subseteq PairsOf(field)
    /\ \A p \in DOMAIN decided : decided[p] \in {"A", "B", "escalate"}
    /\ offered \in 0..Len(ranked)
    /\ archive \in [Cell -> Elites \cup {NoElite}]
    /\ recorded \subseteq 1..rounds
    /\ picks \in 0..MaxPicks
    /\ taste \in [{NameOf[v] : v \in Variant} -> Elites \cup {NoElite}]
    /\ wanted \in Asked \cup {0}
    /\ chosen \cup avoid \subseteq Grid

(* A place in the field is earned: what fails a gate is never argued       *)
(* about, ranked or archived, no variant is in two lists of a round's      *)
(* result, and no survivor is left out for a blander one (RoundResult,     *)
(* MAX_TOURNAMENT_FIELD).                                                  *)
FieldIsEarned ==
    /\ rejected \cap (ToSet(field) \cup unargued) = {}
    /\ ToSet(field) \cap unargued = {}
    /\ \A c \in Cell : archive[c].round = rounds => archive[c].variant \notin rejected
    /\ \A v \in unargued : \A i \in DOMAIN field : Bland[field[i]] >= Bland[v]

(* v beat w in the panel's eyes.                                           *)
Beat(v, w) ==
    \E p \in DOMAIN decided : \/ decided[p] = "A" /\ <<field[p[1]], field[p[2]]>> = <<v, w>>
                              \/ decided[p] = "B" /\ <<field[p[1]], field[p[2]]>> = <<w, v>>

(* The standings respect the panel: who beat every other is first, and     *)
(* nobody stands above a rival that beat it and did at least as well       *)
(* against every third (_standings).                                       *)
StandingsFollowPanel ==
    \A i, j \in DOMAIN ranked :
       LET v == ranked[i]
           w == ranked[j]
       IN  /\ (\A k \in DOMAIN ranked \ {i} : Beat(v, ranked[k])) => i = 1
           /\ i < j /\ Beat(w, v) =>
                 \E k \in DOMAIN ranked \ {i, j} :
                    \/ Beat(v, ranked[k]) /\ ~Beat(w, ranked[k])
                    \/ Beat(ranked[k], w) /\ ~Beat(ranked[k], v)

(* Inside a round the distinctiveness bonus never overturns the panel: the *)
(* elite a round leaves in a cell is its best ranked variant of that cell  *)
(* (DISTINCTIVENESS_WEIGHT).                                               *)
RankNotOverturned ==
    \A c \in Cell : archive[c].round = rounds =>
       \A i \in 1..offered :
          CellOf(ranked[i]) = c /\ StyleOf[ranked[i]] # NoStyle => archive[c].rank <= i

(* What a round's briefs are when they are handed out.                     *)
BriefsSpread == pc = "aim" /\ Aimed => Spread

(* Taste never runs ahead of the archive: whatever a human picked, its     *)
(* cell still holds it or something fitter of a later round, whichever     *)
(* rounds were played or broken off since (place, record_pick).            *)
PickIsOutdoneOnly ==
    \A n \in DOMAIN taste : taste[n] # NoElite =>
       LET e == archive[CellOf(taste[n].variant)]
       IN  e = taste[n] \/ (e.round > taste[n].round /\ e.fitness > taste[n].fitness)
=============================================================================
