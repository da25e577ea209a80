--------------------------- MODULE ServoRoundProofs ---------------------------
(***************************************************************************)
(* Theorems about ServoRound, for every set of variants, every order,      *)
(* measurement and distance, every size of field and every number of       *)
(* rounds.                                                                 *)
(***************************************************************************)
EXTENDS ServoRound, FiniteSetTheorems, WellFoundedInduction, NaturalsInduction,
        SequenceTheorems, TLAPS

-----------------------------------------------------------------------------
(* Finite sets and strict total orders                                     *)

(* R, a set of pairs, is a strict total order on S.                        *)
Orders(R, S) ==
    /\ \A x \in S : <<x, x>> \notin R
    /\ \A x, y \in S : x = y \/ <<x, y>> \in R \/ <<y, x>> \in R
    /\ \A x, y, z \in S : <<x, y>> \in R /\ <<y, z>> \in R => <<x, z>> \in R

(* Every nonempty set of naturals has a least member.                      *)
LEMMA LeastNatural ==
    ASSUME NEW S, S \subseteq Nat, S # {}
    PROVE  \E m \in S : \A n \in S : m <= n
<1>1. PICK m \in S : \A n \in S : ~(<<n, m>> \in OpToRel(<, Nat))
    BY WFMin, NatLessThanWellFounded, Zenon
<1>2. \A n \in S : n \in Nat /\ m \in Nat /\ ~(n < m)
    BY <1>1 DEF OpToRel
<1> QED  BY <1>2

(* The last element of a finite set: the one that comes before the fewest. *)
LEMMA HasLast ==
    ASSUME NEW S, IsFiniteSet(S), S # {}, NEW R, Orders(R, S)
    PROVE  \E m \in S : \A x \in S \ {m} : <<x, m>> \in R
<1> DEFINE After(x) == {y \in S : <<x, y>> \in R}
           sizes == {Cardinality(After(x)) : x \in S}
<1>1. \A x \in S : IsFiniteSet(After(x)) /\ Cardinality(After(x)) \in Nat
    BY FS_Subset, FS_CardinalityType
<1>2. PICK m \in S : \A x \in S : Cardinality(After(m)) <= Cardinality(After(x))
  <2>1. sizes \subseteq Nat /\ sizes # {}
      BY <1>1
  <2>2. PICK k \in sizes : \A n \in sizes : k <= n
      BY <2>1, LeastNatural
  <2>3. PICK m \in S : k = Cardinality(After(m))
      BY <2>2
  <2>4. \A x \in S : Cardinality(After(x)) \in sizes
      OBVIOUS
  <2> QED  BY <2>2, <2>3, <2>4
<1>3. ASSUME NEW x \in S, x # m, <<x, m>> \notin R
      PROVE  FALSE
  <2>1. <<m, x>> \in R
      BY <1>3 DEF Orders
  <2>2. After(x) \in SUBSET After(m)
      BY <2>1 DEF Orders
  <2>3. x \in After(m) /\ x \notin After(x)
      BY <2>1 DEF Orders
  <2>4. Cardinality(After(x)) <= Cardinality(After(m)) /\ Cardinality(After(x)) # Cardinality(After(m))
      BY <2>2, <2>3, <1>1, FS_Subset
  <2> HIDE DEF After
  <2> QED  BY <2>4, <1>1, <1>2
<1> QED  BY <1>3

LEMMA HasFirst ==
    ASSUME NEW S, IsFiniteSet(S), S # {}, NEW R, Orders(R, S)
    PROVE  \E m \in S : \A x \in S \ {m} : <<m, x>> \in R
<1> DEFINE reverse == {p \in S \X S : <<p[2], p[1]>> \in R}
<1>1. \A x, y \in S : <<x, y>> \in reverse <=> <<y, x>> \in R
    OBVIOUS
<1> HIDE DEF reverse
<1>2. Orders(reverse, S)
    BY <1>1 DEF Orders
<1> QED  BY <1>1, <1>2, HasLast

Ascending(seq, R) == \A i, j \in DOMAIN seq : i < j => <<seq[i], seq[j]>> \in R

(* Every finite set can be listed in order: the least subset that cannot   *)
(* has a last element, and without it can be listed.                       *)
LEMMA CanBeSorted ==
    ASSUME NEW S, IsFiniteSet(S), NEW R, Orders(R, S)
    PROVE  \E seq \in SetToSeqs(S) : Ascending(seq, R)
<1> DEFINE Sorted(T) == \E seq \in SetToSeqs(T) : Ascending(seq, R)
           bad == {T \in SUBSET S : ~Sorted(T)}
           sizes == {Cardinality(T) : T \in bad}
<1>1. \A T \in SUBSET S : IsFiniteSet(T) /\ Cardinality(T) \in Nat
    BY FS_Subset, FS_CardinalityType
<1>2. ASSUME bad # {}
      PROVE  FALSE
  <2>1. PICK T \in bad : \A U \in bad : Cardinality(T) <= Cardinality(U)
    <3>1. sizes \subseteq Nat /\ sizes # {}
        BY <1>1, <1>2
    <3>2. PICK k \in sizes : \A n \in sizes : k <= n
        BY <3>1, LeastNatural
    <3> QED  BY <3>2
  <2>2. IsFiniteSet(T) /\ T \subseteq S /\ ~Sorted(T)
      BY <1>1
  <2>3. T # {}
    <3>1. SUFFICES Sorted({})
        BY <2>2
    <3>2. Cardinality({}) = 0 /\ 1..0 = {}
        BY FS_EmptySet
    <3>3. <<>> \in SetToSeqs({}) /\ DOMAIN <<>> = {}
        BY <3>2 DEF SetToSeqs
    <3> QED  BY <3>3 DEF Ascending
  <2>4. Orders(R, T)
      BY <2>2 DEF Orders
  <2>5. PICK m \in T : \A x \in T \ {m} : <<x, m>> \in R
      BY <2>2, <2>3, <2>4, HasLast
  <2> DEFINE rest == T \ {m}
             n == Cardinality(rest)
  <2>6. rest \in SUBSET S /\ n \in Nat /\ Cardinality(T) = n + 1
    <3>1. Cardinality(T) \in Nat /\ n = Cardinality(T) - 1
        BY <2>2, <1>1, FS_RemoveElement
    <3> QED  BY <2>2, <3>1, <1>1
  <2>7. Sorted(rest)
      BY <2>1, <2>6
  <2>8. PICK seq \in SetToSeqs(rest) : Ascending(seq, R)
      BY <2>7
  <2>9. /\ DOMAIN seq = 1..n
        /\ \A i \in 1..n : seq[i] \in rest
        /\ \A i, j \in 1..n : i # j => seq[i] # seq[j]
      BY DEF SetToSeqs
  <2> HIDE DEF n, rest
  <2> DEFINE longer == [i \in 1..(n + 1) |-> IF i = n + 1 THEN m ELSE seq[i]]
  <2>10. \A i \in 1..(n + 1) : i # n + 1 => i \in 1..n
      BY <2>6
  <2>11. \A x \in rest : x \in T /\ x # m /\ <<x, m>> \in R
      BY <2>5 DEF rest
  <2>12. longer \in SetToSeqs(T)
    <3>1. \A i \in 1..(n + 1) : longer[i] \in T
        BY <2>9, <2>10, <2>11
    <3>2. \A i, j \in 1..(n + 1) : i # j => longer[i] # longer[j]
        BY <2>9, <2>10, <2>11
    <3> QED  BY <2>6, <3>1, <3>2 DEF SetToSeqs
  <2>13. Ascending(longer, R)
    <3> SUFFICES ASSUME NEW i \in 1..(n + 1), NEW j \in 1..(n + 1), i < j
                 PROVE  <<longer[i], longer[j]>> \in R
        BY DEF Ascending
    <3>1. i \in 1..n /\ i # n + 1
        BY <2>6
    <3>2. CASE j = n + 1
        BY <2>9, <2>11, <3>1, <3>2
    <3>3. CASE j # n + 1
        BY <2>8, <2>9, <2>10, <3>1, <3>3 DEF Ascending
    <3> QED  BY <3>2, <3>3
  <2> QED  BY <2>2, <2>12, <2>13
<1> QED  BY <1>2

(* What sorted() returns: the members of the set, each once, in order.     *)
LEMMA InOrderSorts ==
    ASSUME NEW S, IsFiniteSet(S), NEW R, Orders(R, S)
    PROVE  /\ InOrder(S, R) \in Seq(S)
           /\ Len(InOrder(S, R)) = Cardinality(S) /\ Cardinality(S) \in Nat
           /\ IsInjective(InOrder(S, R))
           /\ ToSet(InOrder(S, R)) = S
           /\ Ascending(InOrder(S, R), R)
<1> DEFINE seq == InOrder(S, R)
           n == Cardinality(S)
<1>1. seq \in SetToSeqs(S) /\ Ascending(seq, R)
    BY CanBeSorted, Zenon DEF InOrder, Ascending
<1>2. n \in Nat /\ IsFiniteSet(1..n) /\ Cardinality(1..n) = n
    BY FS_CardinalityType, FS_Interval
<1>3. /\ seq \in [1..n -> S] /\ DOMAIN seq = 1..n
      /\ \A i, j \in 1..n : i # j => seq[i] # seq[j]
    BY <1>1 DEF SetToSeqs
<1> HIDE DEF n, seq
<1>4. seq \in Injection(1..n, S)
    BY <1>3 DEF Injection, IsInjective
<1>5. seq \in Surjection(1..n, S)
    BY <1>2, <1>4, FS_Injection DEF n
<1>6. \A x \in S : \E i \in 1..n : seq[i] = x
    BY <1>5 DEF Surjection
<1>7. seq \in Seq(S) /\ Len(seq) = n
    BY <1>2, <1>3
<1>8. ToSet(seq) = S
    BY <1>3, <1>6 DEF ToSet
<1>9. IsInjective(seq)
    BY <1>3 DEF IsInjective
<1> QED  BY <1>1, <1>2, <1>7, <1>8, <1>9 DEF n, seq

-----------------------------------------------------------------------------
(* The inductive invariant                                                 *)

(* TypeOK without the briefs.                                              *)
RoundType ==
    /\ pc \in {"idle", "aim", "regulate", "tournament", "admit"}
    /\ rounds \in 0..MaxRounds
    /\ todo \in Seq(Variant) /\ field \in Seq(Variant) /\ ranked \in Seq(Variant)
    /\ rejected \subseteq Variant /\ unargued \subseteq Variant
    /\ pc \in {"tournament", "admit"} => Len(field) <= MaxField
    /\ DOMAIN decided \subseteq PairsOf(field)
    /\ \A p \in DOMAIN decided : decided[p] \in {"A", "B", "escalate"}
    /\ offered \in 0..Len(ranked)
    /\ recorded \subseteq 1..rounds

ArchiveType ==
    /\ archive \in [Cell -> Elites \cup {NoElite}]
    /\ taste \in [{NameOf[v] : v \in Variant} -> Elites \cup {NoElite}]
    /\ picks \in 0..MaxPicks

(* The locals of a round are empty until their stage.                      *)
StageInv ==
    /\ pc \in {"idle", "aim"} => todo = <<>> /\ rejected = {} /\ field = <<>>
    /\ pc \in {"idle", "aim", "regulate"} => unargued = {} /\ decided = <<>>
    /\ pc # "admit" => ranked = <<>> /\ offered = 0
    /\ pc \in {"tournament", "admit"} => todo = <<>>
    /\ pc \notin {"idle", "aim"} => rounds # 0

(* A variant is in one list, once.                                         *)
FieldInv ==
    /\ IsInjective(todo) /\ IsInjective(field)
    /\ ToSet(todo) \cap (ToSet(field) \cup rejected) = {}
    /\ rejected \cap (ToSet(field) \cup unargued) = {}
    /\ ToSet(field) \cap unargued = {}
    /\ \A v \in unargued : \A i \in DOMAIN field : Bland[field[i]] >= Bland[v]

(* The standings are the field, in the order of what the panel said.       *)
RankedInv ==
    pc = "admit" =>
       /\ DOMAIN decided = PairsOf(field)
       /\ ToSet(ranked) = ToSet(field) /\ IsInjective(ranked)
       /\ \A i, j \in DOMAIN ranked : i < j => Above(ranked[i], ranked[j])

(* An elite is in its cell, and one of this round came by an offer.        *)
EliteInv ==
    \A c \in Cell : archive[c] # NoElite =>
       /\ CellOf(archive[c].variant) = c /\ StyleOf[archive[c].variant] # NoStyle
       /\ archive[c].round <= rounds
       /\ pc \in {"regulate", "tournament"} => archive[c].round < rounds
       /\ pc = "admit" /\ archive[c].round = rounds =>
             archive[c].variant \in ToSet(ranked) /\ archive[c].rank <= offered

(* The cell of an entry that has been offered is held by something as fit  *)
(* as the entry's rank alone makes it.                                     *)
OfferedInv ==
    \A i \in 1..offered : StyleOf[ranked[i]] # NoStyle =>
       /\ archive[CellOf(ranked[i])] # NoElite
       /\ archive[CellOf(ranked[i])].fitness >= RankScore(i, Len(ranked))
       /\ archive[CellOf(ranked[i])].round = rounds => archive[CellOf(ranked[i])].rank <= i

(* A pick was made before the round that is on.                            *)
TasteInv ==
    \A n \in DOMAIN taste : taste[n] # NoElite =>
       /\ taste[n].round <= rounds
       /\ pc \notin {"idle", "aim"} => taste[n].round < rounds
       /\ LET e == archive[CellOf(taste[n].variant)]
          IN  e = taste[n] \/ (e.round > taste[n].round /\ e.fitness > taste[n].fitness)

RoundInv ==
    /\ RoundType /\ ArchiveType
    /\ StageInv /\ FieldInv /\ RankedInv
    /\ EliteInv /\ OfferedInv /\ TasteInv

-----------------------------------------------------------------------------
(* Fitness                                                                 *)

LEMMA PartOfAWhole ==
    ASSUME NEW x \in Nat, NEW u \in Nat \ {0}, NEW b \in 0..u
    PROVE  (x * b) \div u \in 0..x
<1>1. x * b \in Nat /\ x * b <= x * u
    OBVIOUS
<1> DEFINE y == x * b
<1>2. \A z \in Nat : z <= x * u => z \div u \in Nat /\ z \div u <= x
    OBVIOUS
<1> QED  BY <1>1, <1>2

LEMMA StepsAdd ==
    ASSUME NEW n \in Nat, NEW i \in 1..n, NEW k \in 1..n, i < k, NEW s \in Nat, NEW e \in 0..s
    PROVE  (n - k) * s + e <= (n - i) * s
<1>1. (n - k) * s + s = (n - k + 1) * s
    OBVIOUS
<1>2. (n - i) * s = (n - k + 1) * s + (k - i - 1) * s
    OBVIOUS
<1>3. (k - i - 1) * s \in Nat /\ (n - k) * s \in Nat /\ (n - k + 1) * s \in Nat
    OBVIOUS
<1> QED  BY <1>1, <1>2, <1>3

LEMMA ScoreIsNatural ==
    ASSUME NEW n \in Nat, NEW k \in 1..n
    PROVE  RankScore(k, n) \in Nat
<1>1. CASE n = 1
    BY <1>1, UnitAssumption DEF RankScore
<1>2. CASE n # 1
  <2>1. n - 1 \in Nat \ {0} /\ Unit \in Nat /\ n - k \in Nat
      BY <1>2, UnitAssumption
  <2>2. Unit \div (n - 1) \in Nat
      BY <2>1
  <2> QED  BY <1>2, <2>1, <2>2 DEF RankScore
<1> QED  BY <1>1, <1>2

(* The bonus is less than a step: whoever is ranked higher is at least as  *)
(* fit by rank alone (fitness_of).                                         *)
LEMMA BonusIsCapped ==
    ASSUME NEW n \in Nat, NEW k \in 1..n, NEW bonus \in 0..Unit
    PROVE  /\ Fitness(k, n, bonus) \in Nat
           /\ Fitness(k, n, bonus) >= RankScore(k, n)
           /\ \A i \in 1..n : i < k => Fitness(k, n, bonus) <= RankScore(i, n)
<1> DEFINE step == IF n = 1 THEN Unit ELSE Unit \div (n - 1)
           extra == (Smaller(Weight, step) * bonus) \div Unit
<1>1. step \in Nat
  <2>1. CASE n = 1
      BY <2>1, UnitAssumption
  <2>2. CASE n # 1
    <3>1. n - 1 \in Nat \ {0} /\ Unit \in Nat
        BY <2>2, UnitAssumption
    <3> QED  BY <2>2, <3>1
  <2> QED  BY <2>1, <2>2
<1>2. extra \in 0..step
  <2>1. Weight \in Nat /\ Unit \in Nat \ {0}
      BY BoundAssumption, UnitAssumption
  <2>2. Smaller(Weight, step) \in Nat /\ Smaller(Weight, step) <= step
      BY <1>1, <2>1 DEF Smaller
  <2>3. extra \in 0..Smaller(Weight, step)
      BY <2>1, <2>2, PartOfAWhole
  <2> HIDE DEF extra, step
  <2> QED  BY <1>1, <2>2, <2>3
<1>3. Fitness(k, n, bonus) = RankScore(k, n) + extra
    BY DEF Fitness
<1>4. RankScore(k, n) \in Nat
    BY ScoreIsNatural
<1>5. ASSUME NEW i \in 1..n, i < k
      PROVE  RankScore(k, n) + extra <= RankScore(i, n)
  <2>1. n # 1
      BY <1>5
  <2>2. RankScore(k, n) = (n - k) * step /\ RankScore(i, n) = (n - i) * step
      BY <2>1 DEF RankScore
  <2> HIDE DEF step, extra
  <2> QED  BY <1>1, <1>2, <1>5, <2>2, StepsAdd
<1> HIDE DEF step, extra
<1> QED  BY <1>1, <1>2, <1>3, <1>4, <1>5

-----------------------------------------------------------------------------
(* What the archive holds                                                  *)

LEMMA EliteFields ==
    ASSUME NEW v, NEW f, NEW r, NEW k
    PROVE  /\ Elite(v, f, r, k).variant = v /\ Elite(v, f, r, k).fitness = f
           /\ Elite(v, f, r, k).round = r /\ Elite(v, f, r, k).rank = k
BY DEF Elite

LEMMA ElitesAre ==
    /\ NoElite.round = 0
    /\ \A v \in Variant, f \in Nat, r \in 1..MaxRounds, k \in Nat :
          Elite(v, f, r, k) \in Elites /\ Elite(v, f, r, k) # NoElite
    /\ \A e \in Elites : /\ e.variant \in Variant /\ e.fitness \in Nat /\ e.rank \in Nat
                         /\ e.round \in 1..MaxRounds /\ e # NoElite
<1>1. NoElite.round = 0
    BY DEF NoElite, Elite
<1>2. \A e \in Elites : /\ e.variant \in Variant /\ e.fitness \in Nat /\ e.rank \in Nat
                        /\ e.round \in 1..MaxRounds
    BY DEF Elites
<1>3. \A e \in Elites : e # NoElite
    BY <1>1, <1>2
<1>4. \A v \in Variant, f \in Nat, r \in 1..MaxRounds, k \in Nat : Elite(v, f, r, k) \in Elites
    BY DEF Elite, Elites
<1> QED  BY <1>1, <1>2, <1>3, <1>4

LEMMA BonusIsAShare ==
    ASSUME ArchiveType, EliteInv, NEW v \in Variant, StyleOf[v] # NoStyle
    PROVE  Distinctiveness(v) \in 0..Unit
<1> DEFINE far == {Distance[StyleOf[v]][StyleOf[archive[c].variant]] : c \in Held}
<1>1. far \subseteq 0..Unit
  <2> SUFFICES ASSUME NEW c \in Held
               PROVE  Distance[StyleOf[v]][StyleOf[archive[c].variant]] \in 0..Unit
      OBVIOUS
  <2>1. c \in Cell /\ archive[c] # NoElite /\ archive[c] \in Elites
      BY DEF Held, ArchiveType
  <2>2. archive[c].variant \in Variant /\ StyleOf[archive[c].variant] # NoStyle
      BY <2>1, ElitesAre DEF EliteInv
  <2> QED  BY <2>2, DistanceAssumption
<1>2. Distinctiveness(v) = IF far = {} THEN Unit ELSE CHOOSE d \in far : \A e \in far : d <= e
    BY DEF Distinctiveness
<1> HIDE DEF far
<1>3. CASE far = {}
    BY <1>2, <1>3, UnitAssumption
<1>4. CASE far # {}
  <2>1. far \subseteq Nat
      BY <1>1, UnitAssumption
  <2>2. \E d \in far : \A e \in far : d <= e
      BY <1>4, <2>1, LeastNatural
  <2>3. (CHOOSE d \in far : \A e \in far : d <= e) \in far
      BY <2>2
  <2> QED  BY <1>1, <1>2, <1>4, <2>3
<1> QED  BY <1>3, <1>4

-----------------------------------------------------------------------------
(* The standings' order                                                    *)

LEMMA SeqFacts ==
    ASSUME NEW S, NEW seq \in Seq(S)
    PROVE  /\ Len(seq) \in Nat /\ DOMAIN seq = 1..Len(seq)
           /\ IsFiniteSet(DOMAIN seq) /\ Cardinality(DOMAIN seq) = Len(seq)
           /\ IsFiniteSet(ToSet(seq)) /\ ToSet(seq) \subseteq S
<1>1. Len(seq) \in Nat /\ DOMAIN seq = 1..Len(seq) /\ \A i \in 1..Len(seq) : seq[i] \in S
    BY LenProperties, ElementOfSeq
<1>2. IsFiniteSet(DOMAIN seq) /\ Cardinality(DOMAIN seq) = Len(seq)
  <2> DEFINE n == Len(seq)
  <2>1. n \in Nat
      BY <1>1
  <2> HIDE DEF n
  <2>2. IsFiniteSet(1..n) /\ Cardinality(1..n) = n
      BY <2>1, FS_Interval
  <2> QED  BY <1>1, <2>2 DEF n
<1>3. ToSet(seq) \subseteq S
    BY <1>1 DEF ToSet
<1>4. IsFiniteSet(ToSet(seq))
  <2> DEFINE f == [i \in DOMAIN seq |-> seq[i]]
  <2>1. f \in Surjection(DOMAIN seq, ToSet(seq))
      BY DEF Surjection, ToSet
  <2> HIDE DEF f
  <2> QED  BY <1>2, <2>1, FS_Surjection
<1> QED  BY <1>1, <1>2, <1>3, <1>4

LEMMA PairsAreFinite ==
    ASSUME NEW S, NEW seq \in Seq(S)
    PROVE  IsFiniteSet(PairsOf(seq))
<1>1. IsFiniteSet((DOMAIN seq) \X (DOMAIN seq))
    BY SeqFacts, FS_Product
<1> QED  BY <1>1, FS_Subset DEF PairsOf

LEMMA PointsAreNatural ==
    ASSUME RoundType, NEW v
    PROVE  Points(v) \in Nat
<1>1. IsFiniteSet(DOMAIN decided)
    BY PairsAreFinite, FS_Subset DEF RoundType
<1>2. Won(v) \in SUBSET DOMAIN decided /\ Drawn(v) \in SUBSET DOMAIN decided
    BY DEF Won, Drawn
<1>3. Cardinality(Won(v)) \in Nat /\ Cardinality(Drawn(v)) \in Nat
    BY <1>1, <1>2, FS_Subset, FS_CardinalityType
<1> QED  BY <1>3 DEF Points

LEMMA AboveOrders ==
    ASSUME RoundType, NEW S \in SUBSET Variant
    PROVE  Orders({p \in S \X S : Above(p[1], p[2])}, S)
<1> DEFINE R == {p \in S \X S : Above(p[1], p[2])}
<1>1. \A v, w \in S : <<v, w>> \in R <=> Above(v, w)
    OBVIOUS
<1>2. \A v \in S : Points(v) \in Nat /\ Bland[v] \in Int /\ Id[v] \in Int
    BY PointsAreNatural, OrderAssumption
<1>3. \A v, w \in S : Id[v] = Id[w] => v = w
    BY OrderAssumption
<1>4. \A v \in S : ~Above(v, v)
    BY <1>2 DEF Above
<1>5. \A v, w \in S : v = w \/ Above(v, w) \/ Above(w, v)
    BY <1>2, <1>3 DEF Above
<1>6. \A u, v, w \in S : Above(u, v) /\ Above(v, w) => Above(u, w)
    BY <1>2 DEF Above
<1> HIDE DEF R
<1> QED  BY <1>1, <1>4, <1>5, <1>6 DEF Orders, R

LEMMA FilesOrder ==
    ASSUME NEW S \in SUBSET Variant
    PROVE  Orders({p \in S \X S : FileOrder[p[1]] < FileOrder[p[2]]}, S)
<1> DEFINE R == {p \in S \X S : FileOrder[p[1]] < FileOrder[p[2]]}
<1>1. \A v, w \in S : <<v, w>> \in R <=> FileOrder[v] < FileOrder[w]
    OBVIOUS
<1>2. \A v \in S : FileOrder[v] \in Int
    BY OrderAssumption
<1>3. \A v, w \in S : FileOrder[v] = FileOrder[w] => v = w
    BY OrderAssumption
<1> HIDE DEF R
<1>4. Orders(R, S)
    BY <1>1, <1>2, <1>3 DEF Orders
<1> QED  BY <1>4 DEF R

LEMMA IndicesOrder ==
    ASSUME NEW S \in SUBSET Nat
    PROVE  Orders({p \in S \X S : p[1] < p[2]}, S)
<1> DEFINE R == {p \in S \X S : p[1] < p[2]}
<1>1. \A i, j \in S : <<i, j>> \in R <=> i < j
    OBVIOUS
<1>2. \A i \in S : i \in Nat
    OBVIOUS
<1> HIDE DEF R
<1>3. Orders(R, S)
    BY <1>1, <1>2 DEF Orders
<1> QED  BY <1>3 DEF R

LEMMA LoadedLists ==
    ASSUME NEW files \in Directories
    PROVE  /\ Loaded(files) \in Seq(Variant) /\ IsInjective(Loaded(files))
           /\ ToSet(Loaded(files)) = files
<1>1. files \in SUBSET Variant /\ IsFiniteSet(files)
    BY DirectoriesAssumption
<1>2. Orders({p \in files \X files : FileOrder[p[1]] < FileOrder[p[2]]}, files)
    BY <1>1, FilesOrder
<1>3. /\ Loaded(files) \in Seq(files) /\ IsInjective(Loaded(files))
      /\ ToSet(Loaded(files)) = files
    BY <1>1, <1>2, InOrderSorts DEF Loaded
<1>4. Loaded(files) \in Seq(Variant)
    BY <1>1, <1>3, SeqMonotonic
<1> QED  BY <1>3, <1>4

-----------------------------------------------------------------------------
(* _tournament_field                                                       *)

LEMMA Survivors ==
    ASSUME RoundType, NEW i \in DOMAIN field
    PROVE  i \in Nat /\ field[i] \in Variant /\ Bland[field[i]] \in Int
<1>1. DOMAIN field = 1..Len(field) /\ Len(field) \in Nat
    BY SeqFacts DEF RoundType
<1>2. i \in 1..Len(field) /\ field[i] \in Variant
    BY <1>1, ElementOfSeq DEF RoundType
<1> QED  BY <1>1, <1>2, OrderAssumption

LEMMA BeforeOrders ==
    ASSUME RoundType, NEW S \in SUBSET DOMAIN field
    PROVE  Orders({p \in S \X S : Before(p[1], p[2])}, S)
<1> DEFINE R == {p \in S \X S : Before(p[1], p[2])}
<1>1. \A i, j \in S : <<i, j>> \in R <=> Before(i, j)
    OBVIOUS
<1>2. \A i \in S : i \in Nat /\ Bland[field[i]] \in Int
    BY Survivors
<1>3. \A i \in S : ~Before(i, i)
    BY <1>2 DEF Before
<1>4. \A i, j \in S : i = j \/ Before(i, j) \/ Before(j, i)
    BY <1>2 DEF Before
<1>5. \A i, j, k \in S : Before(i, j) /\ Before(j, k) => Before(i, k)
    BY <1>2 DEF Before
<1> HIDE DEF R
<1>6. Orders(R, S)
    BY <1>1, <1>3, <1>4, <1>5 DEF Orders
<1> QED  BY <1>6 DEF R

(* How many come before a survivor.                                        *)
LEMMA RanksAreNatural ==
    ASSUME RoundType, NEW i
    PROVE  /\ IsFiniteSet({j \in DOMAIN field : Before(j, i)})
           /\ Cardinality({j \in DOMAIN field : Before(j, i)}) \in Nat
<1>1. IsFiniteSet(DOMAIN field)
    BY SeqFacts DEF RoundType
<1>2. {j \in DOMAIN field : Before(j, i)} \in SUBSET DOMAIN field
    OBVIOUS
<1> QED  BY <1>1, <1>2, FS_Subset, FS_CardinalityType

(* Who is left out has as many before it as the field has places.          *)
LEMMA KeptAreBetter ==
    ASSUME RoundType, NEW i \in Kept, NEW j \in DOMAIN field \ Kept
    PROVE  Bland[field[i]] >= Bland[field[j]]
<1> DEFINE Ahead(k) == {m \in DOMAIN field : Before(m, k)}
<1>1. i \in DOMAIN field /\ Cardinality(Ahead(i)) < MaxField /\ ~(Cardinality(Ahead(j)) < MaxField)
    BY DEF Kept
<1>2. IsFiniteSet(Ahead(i)) /\ Cardinality(Ahead(i)) \in Nat /\ Cardinality(Ahead(j)) \in Nat
    BY RanksAreNatural
<1>3. Bland[field[i]] \in Int /\ Bland[field[j]] \in Int
    BY <1>1, Survivors
<1>4. ASSUME Bland[field[j]] > Bland[field[i]]
      PROVE  FALSE
  <2>1. \A m \in DOMAIN field : m \in Nat /\ Bland[field[m]] \in Int
      BY Survivors
  <2>2. \A m \in DOMAIN field : Before(m, j) => Before(m, i)
      BY <1>1, <1>3, <1>4, <2>1 DEF Before
  <2>3. Ahead(j) \in SUBSET Ahead(i)
      BY <2>2
  <2> HIDE DEF Ahead
  <2>4. Cardinality(Ahead(j)) <= Cardinality(Ahead(i))
      BY <1>2, <2>3, FS_Subset
  <2> QED  BY <1>1, <1>2, <2>4, BoundAssumption
<1> QED  BY <1>3, <1>4

(* The last of those kept has the others before it, so they fit.           *)
LEMMA KeptFit ==
    ASSUME RoundType
    PROVE  /\ Kept \subseteq DOMAIN field /\ Kept \subseteq Nat /\ IsFiniteSet(Kept)
           /\ Cardinality(Kept) \in Nat /\ Cardinality(Kept) <= MaxField
<1>1. IsFiniteSet(DOMAIN field) /\ DOMAIN field = 1..Len(field)
    BY SeqFacts DEF RoundType
<1>2. Kept \in SUBSET DOMAIN field /\ Kept \subseteq Nat
    BY <1>1 DEF Kept
<1>3. IsFiniteSet(Kept) /\ Cardinality(Kept) \in Nat
    BY <1>1, <1>2, FS_Subset, FS_CardinalityType
<1>4. CASE Kept = {}
    BY <1>2, <1>3, <1>4, FS_EmptySet, BoundAssumption
<1>5. CASE Kept # {}
  <2> DEFINE R == {p \in Kept \X Kept : Before(p[1], p[2])}
  <2>1. Orders(R, Kept)
      BY <1>2, BeforeOrders
  <2> HIDE DEF R
  <2>2. PICK m \in Kept : \A i \in Kept \ {m} : <<i, m>> \in R
      BY <1>3, <1>5, <2>1, HasLast
  <2> USE DEF R
  <2> DEFINE ahead == {j \in DOMAIN field : Before(j, m)}
  <2>3. Kept \ {m} \in SUBSET ahead
      BY <1>2, <2>2
  <2>4. IsFiniteSet(ahead) /\ Cardinality(ahead) \in Nat /\ Cardinality(ahead) < MaxField
      BY RanksAreNatural DEF Kept
  <2>5. Cardinality(Kept \ {m}) = Cardinality(Kept) - 1
      BY <1>3, FS_RemoveElement
  <2> HIDE DEF ahead
  <2>6. Cardinality(Kept \ {m}) <= Cardinality(ahead)
      BY <2>3, <2>4, FS_Subset
  <2> QED  BY <1>2, <1>3, <2>4, <2>5, <2>6, BoundAssumption
<1> QED  BY <1>4, <1>5

LEMMA FieldTaken ==
    ASSUME RoundType, IsInjective(field), TakeField
    PROVE  /\ field' \in Seq(Variant) /\ Len(field') <= MaxField
           /\ IsInjective(field') /\ ToSet(field') = {field[i] : i \in Kept}
<1> DEFINE R == {p \in Kept \X Kept : p[1] < p[2]}
           kept == InOrder(Kept, R)
           n == Len(kept)
<1>1. Kept \subseteq DOMAIN field /\ Kept \in SUBSET Nat /\ IsFiniteSet(Kept) /\ Cardinality(Kept) <= MaxField
    BY KeptFit
<1>2. Orders(R, Kept)
    BY <1>1, IndicesOrder
<1>3. kept \in Seq(Kept) /\ n = Cardinality(Kept) /\ IsInjective(kept) /\ ToSet(kept) = Kept
    BY <1>1, <1>2, InOrderSorts
<1>4. field' = [i \in DOMAIN kept |-> field[kept[i]]]
    BY DEF TakeField
<1> HIDE DEF R, kept
<1>5. n \in Nat /\ DOMAIN kept = 1..n /\ \A i \in 1..n : kept[i] \in Kept
    BY <1>3, LenProperties, ElementOfSeq
<1>6. \A i \in Kept : field[i] \in Variant
    BY <1>1, SeqFacts, ElementOfSeq DEF RoundType
<1> HIDE DEF n
<1>7. field' = [i \in 1..n |-> field[kept[i]]] /\ \A i \in 1..n : field[kept[i]] \in Variant
    BY <1>4, <1>5, <1>6
<1>8. field' \in Seq(Variant) /\ Len(field') = n /\ DOMAIN field' = 1..n
    BY <1>5, <1>7
<1>9. IsInjective(field')
  <2> SUFFICES ASSUME NEW i \in 1..n, NEW j \in 1..n, field'[i] = field'[j]
               PROVE  i = j
      BY <1>8 DEF IsInjective
  <2>1. kept[i] \in DOMAIN field /\ kept[j] \in DOMAIN field /\ field[kept[i]] = field[kept[j]]
      BY <1>1, <1>5, <1>7
  <2>2. kept[i] = kept[j]
      BY <2>1 DEF IsInjective
  <2> QED  BY <1>3, <1>5, <2>2 DEF IsInjective
<1>10. ToSet(field') = {field[i] : i \in Kept}
  <2>1. \A i \in Kept : \E k \in 1..n : kept[k] = i
      BY <1>3, <1>5 DEF ToSet
  <2>2. \A k \in 1..n : field'[k] = field[kept[k]] /\ kept[k] \in Kept
      BY <1>5, <1>7
  <2> QED  BY <1>8, <2>1, <2>2 DEF ToSet
<1> QED  BY <1>1, <1>3, <1>8, <1>9, <1>10 DEF n

-----------------------------------------------------------------------------
(* The steps                                                               *)

LEMMA NothingListed ==
    /\ <<>> \in Seq(Variant) /\ Len(<<>>) = 0 /\ DOMAIN <<>> = {} /\ ToSet(<<>>) = {}
    /\ IsInjective(<<>>)
<1>1. <<>> \in Seq(Variant) /\ Len(<<>>) = 0 /\ DOMAIN <<>> = {}
    BY EmptySeq
<1> QED  BY <1>1 DEF ToSet, IsInjective

(* Aiming and picking happen outside of a round.                           *)
LEMMA QuietStep ==
    ASSUME RoundInv, pc \in {"idle", "aim"}, pc' \in {"idle", "aim"},
           UNCHANGED <<rounds, round, archive, recorded>>
    PROVE  RoundType' /\ StageInv' /\ FieldInv' /\ RankedInv' /\ EliteInv' /\ OfferedInv'
<1> USE DEF RoundInv, round
<1>1. RoundType'
    BY DEF RoundType, PairsOf
<1>2. StageInv'
    BY DEF StageInv
<1>3. FieldInv'
    BY DEF FieldInv
<1>4. RankedInv'
    BY DEF RankedInv
<1>5. EliteInv'
    BY DEF EliteInv
<1>6. OfferedInv'
    BY DEF OfferedInv
<1> QED  BY <1>1, <1>2, <1>3, <1>4, <1>5, <1>6

LEMMA BriefStep ==
    ASSUME RoundInv, Brief
    PROVE  RoundInv'
<1>1. /\ pc = "idle" /\ pc' = "aim"
      /\ UNCHANGED <<rounds, round, archive, recorded>> /\ UNCHANGED <<picks, taste>>
    BY DEF Brief, human
<1>2. ArchiveType'
    BY <1>1 DEF RoundInv, ArchiveType
<1>3. TasteInv'
    BY <1>1 DEF RoundInv, TasteInv
<1> QED  BY <1>1, <1>2, <1>3, QuietStep DEF RoundInv

LEMMA AimStep ==
    ASSUME RoundInv, Aim
    PROVE  RoundInv'
<1>1. /\ pc = "aim" /\ pc' = "aim"
      /\ UNCHANGED <<rounds, round, archive, recorded>> /\ UNCHANGED <<picks, taste>>
    BY DEF Aim, human
<1>2. ArchiveType'
    BY <1>1 DEF RoundInv, ArchiveType
<1>3. TasteInv'
    BY <1>1 DEF RoundInv, TasteInv
<1> QED  BY <1>1, <1>2, <1>3, QuietStep DEF RoundInv

LEMMA PickStep ==
    ASSUME RoundInv, Pick
    PROVE  RoundInv'
<1>1. /\ pc = "idle" /\ pc' = pc /\ picks < MaxPicks /\ picks' = picks + 1
      /\ UNCHANGED <<rounds, round, archive, recorded>>
    BY DEF Pick
<1>2. PICK c \in Held : \/ taste' = [taste EXCEPT ![ExemplarName(archive[c])] = archive[c]]
                        \/ taste' = taste
    BY DEF Pick
<1>3. c \in Cell /\ archive[c] # NoElite /\ archive[c] \in Elites
    BY DEF Held, RoundInv, ArchiveType
<1> DEFINE name == ExemplarName(archive[c])
<1>4. name \in {NameOf[v] : v \in Variant}
    BY <1>3, ElitesAre DEF ExemplarName
<1>5. /\ DOMAIN taste = {NameOf[v] : v \in Variant} /\ DOMAIN taste' = DOMAIN taste
      /\ \A n \in DOMAIN taste : taste'[n] = taste[n] \/ taste'[n] = archive[c]
    BY <1>2 DEF RoundInv, ArchiveType
<1>6. ArchiveType'
    BY <1>1, <1>2, <1>3, <1>4, BoundAssumption DEF RoundInv, ArchiveType
<1>7. TasteInv'
  <2> SUFFICES ASSUME NEW n \in DOMAIN taste, taste'[n] # NoElite
               PROVE  /\ taste'[n].round <= rounds
                      /\ LET e == archive[CellOf(taste'[n].variant)]
                         IN  \/ e = taste'[n]
                             \/ e.round > taste'[n].round /\ e.fitness > taste'[n].fitness
      BY <1>1, <1>5 DEF TasteInv
  <2>1. CASE taste'[n] = taste[n]
      BY <2>1 DEF RoundInv, TasteInv
  <2>2. CASE taste'[n] = archive[c]
      BY <1>3, <2>2 DEF RoundInv, EliteInv
  <2> QED  BY <1>5, <2>1, <2>2
<1> QED  BY <1>1, <1>6, <1>7, QuietStep DEF RoundInv

LEMMA BeginRoundStep ==
    ASSUME RoundInv, BeginRound
    PROVE  RoundInv'
<1>1. /\ pc \in {"idle", "aim"} /\ pc' = "regulate" /\ rounds < MaxRounds /\ rounds' = rounds + 1
      /\ rejected' = {} /\ field' = <<>> /\ unargued' = {} /\ decided' = <<>> /\ ranked' = <<>>
      /\ offered' = 0
      /\ UNCHANGED <<archive, recorded, picks, taste>>
    BY DEF BeginRound, Blank, human
<1>2. todo' \in Seq(Variant) /\ IsInjective(todo')
    BY LoadedLists DEF BeginRound
<1>3. rounds \in Nat /\ rounds' \in 1..MaxRounds
    BY <1>1, BoundAssumption DEF RoundInv, RoundType
<1>4. RoundType'
  <2>1. recorded' \subseteq 1..rounds'
      BY <1>1, <1>3 DEF RoundInv, RoundType
  <2> QED  BY <1>1, <1>2, <1>3, <2>1, NothingListed DEF RoundType, PairsOf
<1>5. ArchiveType'
    BY <1>1 DEF RoundInv, ArchiveType
<1>6. StageInv'
    BY <1>1, <1>3 DEF StageInv
<1>7. FieldInv'
    BY <1>1, <1>2, NothingListed DEF FieldInv
<1>8. RankedInv'
    BY <1>1 DEF RankedInv
<1>9. EliteInv'
  <2> SUFFICES ASSUME NEW c \in Cell, archive[c] # NoElite
               PROVE  /\ CellOf(archive[c].variant) = c /\ StyleOf[archive[c].variant] # NoStyle
                      /\ archive[c].round < rounds' /\ archive[c].round <= rounds'
      BY <1>1 DEF EliteInv
  <2>1. archive[c].round \in Nat
      BY ElitesAre DEF RoundInv, ArchiveType
  <2>2. /\ CellOf(archive[c].variant) = c /\ StyleOf[archive[c].variant] # NoStyle
        /\ archive[c].round <= rounds
      BY DEF RoundInv, EliteInv
  <2> QED  BY <1>1, <1>3, <2>1, <2>2
<1>10. OfferedInv'
    BY <1>1 DEF OfferedInv
<1>11. TasteInv'
  <2> SUFFICES ASSUME NEW n \in DOMAIN taste, taste[n] # NoElite
               PROVE  /\ taste[n].round < rounds' /\ taste[n].round <= rounds'
                      /\ LET e == archive[CellOf(taste[n].variant)]
                         IN  e = taste[n] \/ (e.round > taste[n].round /\ e.fitness > taste[n].fitness)
      BY <1>1 DEF TasteInv
  <2>1. taste[n].round \in Nat
      BY ElitesAre DEF RoundInv, ArchiveType
  <2>2. /\ taste[n].round <= rounds
        /\ LET e == archive[CellOf(taste[n].variant)]
           IN  e = taste[n] \/ (e.round > taste[n].round /\ e.fitness > taste[n].fitness)
      BY DEF RoundInv, TasteInv
  <2> QED  BY <1>1, <1>3, <2>1, <2>2
<1> QED  BY <1>4, <1>5, <1>6, <1>7, <1>8, <1>9, <1>10, <1>11 DEF RoundInv

(* Record and Raise: the locals are gone, the archive stays.               *)
LEMMA EndStep ==
    ASSUME RoundInv, Record \/ Raise
    PROVE  RoundInv'
<1>1. /\ pc \notin {"idle", "aim"} /\ pc' = "idle" /\ rounds' = rounds /\ todo' = <<>>
      /\ rejected' = {} /\ field' = <<>> /\ unargued' = {} /\ decided' = <<>> /\ ranked' = <<>>
      /\ offered' = 0
      /\ recorded' \subseteq recorded \cup {rounds}
      /\ UNCHANGED <<archive, picks, taste>>
    BY DEF Record, Raise, Blank, human
<1>2. rounds \in 1..MaxRounds
    BY <1>1, BoundAssumption DEF RoundInv, RoundType, StageInv
<1>3. RoundType'
  <2>1. recorded' \subseteq 1..rounds'
      BY <1>1, <1>2 DEF RoundInv, RoundType
  <2> QED  BY <1>1, <1>2, <2>1, NothingListed DEF RoundType, PairsOf
<1>4. ArchiveType'
    BY <1>1 DEF RoundInv, ArchiveType
<1>5. StageInv'
    BY <1>1 DEF StageInv
<1>6. FieldInv'
    BY <1>1, NothingListed DEF FieldInv
<1>7. RankedInv'
    BY <1>1 DEF RankedInv
<1>8. EliteInv'
    BY <1>1 DEF RoundInv, EliteInv
<1>9. OfferedInv'
    BY <1>1 DEF OfferedInv
<1>10. TasteInv'
    BY <1>1 DEF RoundInv, TasteInv
<1> QED  BY <1>3, <1>4, <1>5, <1>6, <1>7, <1>8, <1>9, <1>10 DEF RoundInv

(* Until the standings are there the archive is as the round found it.     *)
LEMMA EarlyStep ==
    ASSUME RoundInv, pc \in {"regulate", "tournament"}, pc' \in {"regulate", "tournament", "admit"},
           UNCHANGED <<rounds, offered, archive, recorded, human>>
    PROVE  ArchiveType' /\ EliteInv' /\ OfferedInv' /\ TasteInv'
<1>1. UNCHANGED <<picks, taste>> /\ offered = 0 /\ rounds \in Nat
    BY DEF human, RoundInv, StageInv, RoundType
<1>2. ArchiveType'
    BY <1>1 DEF RoundInv, ArchiveType
<1>3. EliteInv'
  <2> SUFFICES ASSUME NEW c \in Cell, archive[c] # NoElite
               PROVE  /\ CellOf(archive[c].variant) = c /\ StyleOf[archive[c].variant] # NoStyle
                      /\ archive[c].round < rounds /\ archive[c].round <= rounds
                      /\ archive[c].round # rounds
      BY DEF EliteInv
  <2>1. archive[c].round \in Nat
      BY ElitesAre DEF RoundInv, ArchiveType
  <2> QED  BY <1>1, <2>1 DEF RoundInv, EliteInv
<1>4. OfferedInv'
    BY <1>1 DEF OfferedInv
<1>5. TasteInv'
    BY <1>1 DEF RoundInv, TasteInv
<1> QED  BY <1>2, <1>3, <1>4, <1>5

LEMMA HeadLeaves ==
    ASSUME NEW S, NEW s \in Seq(S), s # <<>>, IsInjective(s)
    PROVE  /\ Head(s) \in S /\ Head(s) \in ToSet(s)
           /\ Tail(s) \in Seq(S) /\ IsInjective(Tail(s))
           /\ ToSet(Tail(s)) \subseteq ToSet(s) /\ Head(s) \notin ToSet(Tail(s))
<1>1. Len(s) \in Nat \ {0} /\ DOMAIN s = 1..Len(s)
    BY LenProperties, EmptySeq
<1>2. /\ Head(s) = s[1] /\ 1 \in DOMAIN s /\ s[1] \in S
      /\ Tail(s) \in Seq(S) /\ Len(Tail(s)) = Len(s) - 1
      /\ \A i \in 1..Len(Tail(s)) : Tail(s)[i] = s[i + 1]
    BY <1>1, HeadTailProperties, ElementOfSeq
<1>3. DOMAIN Tail(s) = 1..Len(s) - 1
    BY <1>2, LenProperties
<1>4. \A i \in DOMAIN Tail(s) : i \in Nat /\ i + 1 \in DOMAIN s /\ i + 1 # 1 /\ Tail(s)[i] = s[i + 1]
    BY <1>1, <1>2, <1>3
<1>5. IsInjective(Tail(s))
    BY <1>4 DEF IsInjective
<1>6. ToSet(Tail(s)) \subseteq ToSet(s)
    BY <1>4 DEF ToSet
<1>7. Head(s) \notin ToSet(Tail(s))
    BY <1>2, <1>4 DEF ToSet, IsInjective
<1>8. Head(s) \in ToSet(s)
    BY <1>2 DEF ToSet
<1> QED  BY <1>2, <1>5, <1>6, <1>7, <1>8

LEMMA OneMore ==
    ASSUME NEW S, NEW s \in Seq(S), NEW e \in S
    PROVE  /\ Append(s, e) \in Seq(S)
           /\ ToSet(Append(s, e)) = ToSet(s) \cup {e}
           /\ IsInjective(s) /\ e \notin ToSet(s) => IsInjective(Append(s, e))
<1>1. Len(s) \in Nat /\ DOMAIN s = 1..Len(s)
    BY LenProperties
<1>2. /\ Append(s, e) \in Seq(S) /\ Len(Append(s, e)) = Len(s) + 1
      /\ \A i \in 1..Len(s) : Append(s, e)[i] = s[i]
      /\ Append(s, e)[Len(s) + 1] = e
    BY AppendProperties
<1>3. DOMAIN Append(s, e) = 1..(Len(s) + 1)
    BY <1>2, LenProperties
<1>4. \A i \in DOMAIN Append(s, e) : i \in DOMAIN s \/ i = Len(s) + 1
    BY <1>1, <1>3
<1>5. Len(s) + 1 \in DOMAIN Append(s, e) /\ \A i \in DOMAIN s : i \in DOMAIN Append(s, e)
    BY <1>1, <1>3
<1>6. ToSet(Append(s, e)) = ToSet(s) \cup {e}
    BY <1>1, <1>2, <1>4, <1>5 DEF ToSet
<1>7. ASSUME IsInjective(s), e \notin ToSet(s) PROVE IsInjective(Append(s, e))
    BY <1>1, <1>2, <1>4, <1>7 DEF ToSet, IsInjective
<1> QED  BY <1>2, <1>6, <1>7

LEMMA RegulateStep ==
    ASSUME RoundInv, Regulate
    PROVE  RoundInv'
<1> DEFINE h == Head(todo)
<1>1. /\ pc = "regulate" /\ pc' = pc /\ todo # <<>> /\ todo' = Tail(todo)
      /\ \/ field' = Append(field, h) /\ rejected' = rejected
         \/ field' = field /\ rejected' = rejected \cup {h}
      /\ UNCHANGED <<rounds, unargued, decided, ranked, offered, archive, recorded, human>>
    BY DEF Regulate
<1>2. /\ todo \in Seq(Variant) /\ field \in Seq(Variant) /\ rejected \subseteq Variant
      /\ IsInjective(todo) /\ IsInjective(field)
    BY DEF RoundInv, RoundType, FieldInv
<1>3. unargued = {} /\ decided = <<>> /\ ranked = <<>> /\ offered = 0 /\ rounds # 0
    BY <1>1 DEF RoundInv, StageInv
<1>4. /\ h \in Variant /\ h \in ToSet(todo) /\ todo' \in Seq(Variant) /\ IsInjective(todo')
      /\ ToSet(todo') \subseteq ToSet(todo) /\ h \notin ToSet(todo')
    BY <1>1, <1>2, HeadLeaves
<1>5. h \notin ToSet(field) /\ h \notin rejected
    BY <1>4 DEF RoundInv, FieldInv
<1> HIDE DEF h
<1> DEFINE longer == Append(field, h)
<1>6. /\ longer \in Seq(Variant) /\ IsInjective(longer)
      /\ ToSet(longer) = ToSet(field) \cup {h}
    BY <1>2, <1>4, <1>5, OneMore
<1>7. field' \in Seq(Variant) /\ IsInjective(field') /\ rejected' \subseteq Variant
  <2>1. field' = longer \/ field' = field
      BY <1>1
  <2>2. rejected' \subseteq rejected \cup {h}
      BY <1>1
  <2> HIDE DEF longer
  <2> QED  BY <1>6, <1>2, <1>4, <2>1, <2>2
<1>8. \/ ToSet(field') = ToSet(field) \cup {h} /\ rejected' = rejected
      \/ ToSet(field') = ToSet(field) /\ rejected' = rejected \cup {h}
  <2>1. \/ field' = longer /\ rejected' = rejected
        \/ field' = field /\ rejected' = rejected \cup {h}
      BY <1>1
  <2> HIDE DEF longer
  <2> QED  BY <1>6, <2>1
<1>9. RoundType'
    BY <1>1, <1>3, <1>4, <1>7 DEF RoundInv, RoundType
<1>10. StageInv'
    BY <1>1, <1>3 DEF StageInv
<1>11. FieldInv'
  <2>1. /\ ToSet(todo) \cap (ToSet(field) \cup rejected) = {}
        /\ rejected \cap ToSet(field) = {}
      BY DEF RoundInv, FieldInv
  <2>2. ToSet(todo') \cap (ToSet(field') \cup rejected') = {} /\ rejected' \cap ToSet(field') = {}
      BY <1>4, <1>5, <1>8, <2>1
  <2> QED  BY <1>1, <1>3, <1>4, <1>7, <2>2 DEF FieldInv
<1>12. RankedInv'
    BY <1>1 DEF RankedInv
<1> QED  BY <1>1, <1>9, <1>10, <1>11, <1>12, EarlyStep DEF RoundInv

LEMMA TakeFieldStep ==
    ASSUME RoundInv, TakeField
    PROVE  RoundInv'
<1>1. /\ pc = "regulate" /\ pc' = "tournament" /\ todo = <<>> /\ todo' = <<>>
      /\ unargued' = {field[i] : i \in DOMAIN field \ Kept}
      /\ UNCHANGED <<rounds, rejected, decided, ranked, offered, archive, recorded, human>>
    BY DEF TakeField
<1>2. decided = <<>> /\ ranked = <<>> /\ offered = 0 /\ rounds # 0
    BY <1>1 DEF RoundInv, StageInv
<1>3. RoundType /\ IsInjective(field)
    BY DEF RoundInv, FieldInv
<1>4. /\ field' \in Seq(Variant) /\ Len(field') <= MaxField
      /\ IsInjective(field') /\ ToSet(field') = {field[i] : i \in Kept}
    BY <1>3, FieldTaken
<1>5. Kept \subseteq DOMAIN field /\ \A i \in DOMAIN field : field[i] \in Variant
    BY <1>3, KeptFit, Survivors
<1>6. RoundType'
    BY <1>1, <1>2, <1>3, <1>4, <1>5 DEF RoundType
<1>7. StageInv'
    BY <1>1, <1>2 DEF StageInv
<1>8. FieldInv'
  <2>1. ToSet(field') \subseteq ToSet(field) /\ unargued' \subseteq ToSet(field)
      BY <1>1, <1>4, <1>5 DEF ToSet
  <2>2. rejected \cap ToSet(field) = {}
      BY DEF RoundInv, FieldInv
  <2>3. rejected' \cap (ToSet(field') \cup unargued') = {}
      BY <1>1, <2>1, <2>2
  <2>4. ToSet(field') \cap unargued' = {}
      BY <1>1, <1>3, <1>4, <1>5 DEF IsInjective
  <2>5. ASSUME NEW v \in unargued', NEW i \in DOMAIN field'
        PROVE  Bland[field'[i]] >= Bland[v]
    <3>1. PICK j \in DOMAIN field \ Kept : v = field[j]
        BY <1>1
    <3>2. field'[i] \in ToSet(field')
        BY DEF ToSet
    <3>3. PICK k \in Kept : field'[i] = field[k]
        BY <1>4, <3>2
    <3> QED  BY <1>3, <3>1, <3>3, KeptAreBetter
  <2> QED  BY <1>1, <1>4, <2>3, <2>4, <2>5, NothingListed DEF FieldInv
<1>9. RankedInv'
    BY <1>1 DEF RankedInv
<1> QED  BY <1>1, <1>6, <1>7, <1>8, <1>9, EarlyStep DEF RoundInv

LEMMA CompareStep ==
    ASSUME RoundInv, Compare
    PROVE  RoundInv'
<1>1. /\ pc = "tournament" /\ pc' = pc
      /\ UNCHANGED <<rounds, todo, rejected, field, unargued, ranked, offered>>
      /\ UNCHANGED <<archive, recorded, human>>
    BY DEF Compare
<1>2. PICK p \in PairsOf(field) \ DOMAIN decided :
         \E said \in PanelSays(field[p[1]], field[p[2]]) :
            decided' = [q \in DOMAIN decided \cup {p} |-> IF q = p THEN said ELSE decided[q]]
    BY DEF Compare
<1>3. \A a, b : PanelSays(a, b) \subseteq {"A", "B", "escalate"}
    BY DEF PanelSays
<1>4. /\ DOMAIN decided' \subseteq PairsOf(field)
      /\ \A q \in DOMAIN decided' : decided'[q] \in {"A", "B", "escalate"}
    BY <1>2, <1>3 DEF RoundInv, RoundType
<1>5. PairsOf(field)' = PairsOf(field)
    BY <1>1 DEF PairsOf
<1>6. RoundType'
    BY <1>1, <1>4, <1>5 DEF RoundInv, RoundType
<1>7. StageInv'
    BY <1>1 DEF RoundInv, StageInv
<1>8. FieldInv'
    BY <1>1 DEF RoundInv, FieldInv
<1>9. RankedInv'
    BY <1>1 DEF RankedInv
<1> QED  BY <1>1, <1>6, <1>7, <1>8, <1>9, EarlyStep DEF RoundInv

LEMMA RankStep ==
    ASSUME RoundInv, Rank
    PROVE  RoundInv'
<1> DEFINE S == ToSet(field)
           R == {p \in S \X S : Above(p[1], p[2])}
<1>1. /\ pc = "tournament" /\ pc' = "admit" /\ DOMAIN decided = PairsOf(field)
      /\ ranked' = InOrder(S, R)
      /\ UNCHANGED <<rounds, todo, rejected, field, unargued, decided, offered>>
      /\ UNCHANGED <<archive, recorded, human>>
    BY DEF Rank
<1>2. RoundType /\ IsFiniteSet(S) /\ S \in SUBSET Variant
    BY SeqFacts DEF RoundInv, RoundType
<1>3. Orders(R, S)
    BY <1>2, AboveOrders
<1> HIDE DEF R
<1>4. /\ ranked' \in Seq(S) /\ Len(ranked') \in Nat /\ IsInjective(ranked')
      /\ ToSet(ranked') = S /\ Ascending(ranked', R)
  <2>1. /\ InOrder(S, R) \in Seq(S) /\ Len(InOrder(S, R)) \in Nat /\ IsInjective(InOrder(S, R))
        /\ ToSet(InOrder(S, R)) = S /\ Ascending(InOrder(S, R), R)
    <3> HIDE DEF S
    <3> QED  BY <1>2, <1>3, InOrderSorts
  <2> QED  BY <1>1, <2>1
<1>5. ranked' \in Seq(Variant)
    BY <1>2, <1>4, SeqMonotonic
<1>6. offered = 0
    BY <1>1 DEF RoundInv, StageInv
<1>7. PairsOf(field)' = PairsOf(field)
    BY <1>1 DEF PairsOf
<1>8. RoundType'
    BY <1>1, <1>2, <1>4, <1>5, <1>6, <1>7 DEF RoundType
<1>9. StageInv'
    BY <1>1 DEF RoundInv, StageInv
<1>10. FieldInv'
    BY <1>1 DEF RoundInv, FieldInv
<1>11. RankedInv'
  <2>1. \A v, w : Above(v, w)' <=> Above(v, w)
      BY <1>1 DEF Above, Points, Won, Drawn, IsWinner
  <2>2. \A i, j \in DOMAIN ranked' : i < j => Above(ranked'[i], ranked'[j])
      BY <1>4 DEF Ascending, R
  <2> QED  BY <1>1, <1>4, <1>7, <2>1, <2>2 DEF RankedInv
<1> QED  BY <1>1, <1>8, <1>9, <1>10, <1>11, EarlyStep DEF RoundInv

LEMMA AdmitStep ==
    ASSUME RoundInv, Admit
    PROVE  RoundInv'
<1> DEFINE n == Len(ranked)
           k == offered + 1
           v == ranked[k]
           c == CellOf(v)
           fitness == Fitness(k, n, Distinctiveness(v))
           new == Elite(v, fitness, rounds, k)
<1>1. /\ pc = "admit" /\ pc' = pc /\ offered < Len(ranked) /\ offered' = k
      /\ UNCHANGED <<rounds, todo, rejected, field, unargued, decided, ranked>>
      /\ UNCHANGED <<recorded, picks, taste>>
    BY DEF Admit, human
<1>2. \/ StyleOf[v] = NoStyle /\ archive' = archive
      \/ /\ v \notin rejected /\ StyleOf[v] # NoStyle
         /\ archive' = IF archive[c] # NoElite /\ archive[c].fitness >= fitness
                       THEN archive ELSE [archive EXCEPT ![c] = new]
    BY <1>1 DEF Admit, Offer, Place
<1>3. /\ ranked \in Seq(Variant) /\ n \in Nat /\ offered \in 0..n /\ DOMAIN ranked = 1..n
      /\ rounds \in 1..MaxRounds
    BY <1>1, SeqFacts, BoundAssumption DEF RoundInv, RoundType, StageInv
<1>4. k \in 1..n /\ k \in Nat /\ v \in Variant /\ v \in ToSet(ranked)
    BY <1>1, <1>3, ElementOfSeq DEF ToSet
<1>5. c \in Cell
    BY <1>4 DEF Cell
<1>6. archive \in [Cell -> Elites \cup {NoElite}]
    BY DEF RoundInv, ArchiveType
<1>7. StyleOf[v] # NoStyle =>
         /\ fitness \in Nat /\ fitness >= RankScore(k, n)
         /\ \A i \in 1..n : i < k => fitness <= RankScore(i, n)
         /\ \A i \in 1..n : RankScore(i, n) \in Int
  <2>1. StyleOf[v] # NoStyle => Distinctiveness(v) \in 0..Unit
      BY <1>4, BonusIsAShare DEF RoundInv
  <2> HIDE DEF k, n, v
  <2>2. \A i \in 1..n : RankScore(i, n) \in Int
      BY <1>3, ScoreIsNatural
  <2> QED  BY <1>3, <1>4, <2>1, <2>2, BonusIsCapped
<1>8. StyleOf[v] # NoStyle =>
         /\ new \in Elites /\ new # NoElite /\ new.variant = v /\ new.fitness = fitness
         /\ new.round = rounds /\ new.rank = k
  <2> HIDE DEF k, v, fitness
  <2> QED  BY <1>3, <1>4, <1>7, ElitesAre, EliteFields
<1>9. \A d \in Cell : archive'[d] = archive[d] \/ (d = c /\ StyleOf[v] # NoStyle /\ archive'[d] = new)
  <2> HIDE DEF c, new, fitness
  <2> QED  BY <1>2, <1>6
<1>10. \A d \in Cell : archive[d] # NoElite =>
          \/ archive'[d] = archive[d]
          \/ d = c /\ archive'[d] = new /\ archive[d].fitness < fitness
  <2>1. StyleOf[v] # NoStyle /\ archive[c] # NoElite =>
           archive[c].fitness \in Nat /\ fitness \in Nat
      BY <1>5, <1>6, <1>7, ElitesAre
  <2> HIDE DEF c, new, fitness, v
  <2> QED  BY <1>2, <1>6, <2>1
<1>11. StyleOf[v] # NoStyle =>
          \/ archive'[c] = new
          \/ archive'[c] = archive[c] /\ archive[c] # NoElite /\ archive[c].fitness >= fitness
  <2> HIDE DEF c, new, fitness, v
  <2> QED  BY <1>2, <1>5, <1>6
<1>12. archive' \in [Cell -> Elites \cup {NoElite}]
  <2>1. archive' = archive \/ (StyleOf[v] # NoStyle /\ archive' = [archive EXCEPT ![c] = new])
      BY <1>2
  <2> HIDE DEF c, new, fitness, v
  <2> QED  BY <1>5, <1>6, <1>8, <2>1
<1> HIDE DEF n, k, v, c, fitness, new
<1>13. RoundType'
    BY <1>1, <1>4 DEF RoundInv, RoundType, PairsOf, n
<1>14. ArchiveType'
    BY <1>1, <1>12 DEF RoundInv, ArchiveType
<1>15. StageInv'
    BY <1>1 DEF RoundInv, StageInv
<1>16. FieldInv'
    BY <1>1 DEF RoundInv, FieldInv
<1>17. RankedInv'
  <2>1. \A x, y : Above(x, y)' <=> Above(x, y)
      BY <1>1 DEF Above, Points, Won, Drawn, IsWinner
  <2> QED  BY <1>1, <2>1 DEF RoundInv, RankedInv, PairsOf
<1>18. EliteInv'
  <2> SUFFICES ASSUME NEW d \in Cell, archive'[d] # NoElite
               PROVE  /\ CellOf(archive'[d].variant) = d /\ StyleOf[archive'[d].variant] # NoStyle
                      /\ archive'[d].round <= rounds
                      /\ archive'[d].round = rounds =>
                            archive'[d].variant \in ToSet(ranked) /\ archive'[d].rank <= k
      BY <1>1 DEF EliteInv
  <2>1. CASE archive'[d] = archive[d]
    <3>1. archive[d].rank \in Nat /\ offered \in Nat
        BY <1>3, <1>6, <2>1, ElitesAre
    <3>2. /\ CellOf(archive[d].variant) = d /\ StyleOf[archive[d].variant] # NoStyle
          /\ archive[d].round <= rounds
          /\ archive[d].round = rounds =>
                archive[d].variant \in ToSet(ranked) /\ archive[d].rank <= offered
        BY <1>1, <2>1 DEF RoundInv, EliteInv
    <3>3. archive[d].rank <= offered => archive[d].rank <= k
        BY <3>1 DEF k
    <3> QED  BY <2>1, <3>2, <3>3
  <2>2. CASE d = c /\ StyleOf[v] # NoStyle /\ archive'[d] = new
      BY <1>3, <1>4, <1>8, <2>2 DEF c
  <2> QED  BY <1>9, <2>1, <2>2
<1>19. OfferedInv'
  <2> SUFFICES ASSUME NEW i \in 1..k, StyleOf[ranked[i]] # NoStyle
               PROVE  /\ archive'[CellOf(ranked[i])] # NoElite
                      /\ archive'[CellOf(ranked[i])].fitness >= RankScore(i, n)
                      /\ archive'[CellOf(ranked[i])].round = rounds =>
                            archive'[CellOf(ranked[i])].rank <= i
      BY <1>1 DEF OfferedInv, n
  <2> DEFINE d == CellOf(ranked[i])
             old == archive[d]
  <2>1. d \in Cell /\ i \in 1..n /\ RankScore(i, n) \in Int
    <3>1. i \in 1..n
        BY <1>3, <1>4
    <3>2. ranked[i] \in Variant
        BY <1>3, <3>1, ElementOfSeq DEF n
    <3> QED  BY <1>3, <3>1, <3>2, ScoreIsNatural DEF Cell
  <2>2. old # NoElite => old.fitness \in Nat /\ old.rank \in Nat
      BY <1>6, <2>1, ElitesAre
  <2>3. CASE i # k
    <3>1. i \in 1..offered /\ i < k
        BY <1>3, <2>3 DEF k
    <3>2. old # NoElite /\ old.fitness >= RankScore(i, n) /\ (old.round = rounds => old.rank <= i)
        BY <3>1 DEF RoundInv, OfferedInv, n
    <3>3. archive'[d] = old
      <4>1. StyleOf[v] # NoStyle => fitness \in Nat /\ fitness <= RankScore(i, n)
          BY <1>7, <2>1, <3>1
      <4>2. StyleOf[v] # NoStyle => ~(old.fitness < fitness)
          BY <2>1, <2>2, <3>2, <4>1
      <4> QED  BY <1>9, <1>10, <2>1, <3>2, <4>2
    <3> QED  BY <3>2, <3>3
  <2>4. CASE i = k
    <3>1. d = c /\ StyleOf[v] # NoStyle
        BY <2>4 DEF c, v
    <3>2. CASE archive'[c] = new
      <4>1. new # NoElite /\ new.fitness >= RankScore(k, n) /\ new.rank <= k
          BY <1>4, <1>7, <1>8, <3>1
      <4> QED  BY <2>4, <3>1, <3>2, <4>1
    <3>3. CASE archive'[c] = archive[c] /\ archive[c] # NoElite /\ archive[c].fitness >= fitness
      <4>1. archive[c].fitness >= RankScore(k, n)
          BY <1>7, <2>1, <2>2, <2>4, <3>1, <3>3
      <4>2. archive[c].round = rounds => archive[c].rank <= offered
          BY <1>1, <1>5, <3>3 DEF RoundInv, EliteInv
      <4>3. archive[c].rank <= offered => archive[c].rank <= k
          BY <1>3, <2>2, <3>1, <3>3 DEF k
      <4> QED  BY <2>4, <3>1, <3>3, <4>1, <4>2, <4>3
    <3> QED  BY <1>11, <3>1, <3>2, <3>3
  <2> QED  BY <2>3, <2>4
<1>20. TasteInv'
  <2> SUFFICES ASSUME NEW m \in DOMAIN taste, taste[m] # NoElite
               PROVE  LET e == archive'[CellOf(taste[m].variant)]
                      IN  e = taste[m] \/ (e.round > taste[m].round /\ e.fitness > taste[m].fitness)
      BY <1>1 DEF RoundInv, TasteInv
  <2> DEFINE d == CellOf(taste[m].variant)
             old == archive[d]
  <2>1. taste[m] \in Elites
      BY DEF RoundInv, ArchiveType
  <2>2. d \in Cell /\ taste[m].fitness \in Nat /\ taste[m].round \in Nat
      BY <2>1, ElitesAre DEF Cell
  <2>3. taste[m].round < rounds
      BY <1>1 DEF RoundInv, TasteInv
  <2>4. old = taste[m] \/ (old.round > taste[m].round /\ old.fitness > taste[m].fitness)
      BY DEF RoundInv, TasteInv
  <2>5. old # NoElite
      BY <2>1, <2>2, <2>4, ElitesAre
  <2>6. old.fitness \in Nat
      BY <1>6, <2>2, <2>5, ElitesAre
  <2>7. CASE archive'[d] = old
      BY <2>4, <2>7
  <2>8. CASE d = c /\ archive'[d] = new /\ old.fitness < fitness
    <3>1. archive'[d] # old => StyleOf[v] # NoStyle
        BY <1>9, <2>2
    <3>2. CASE StyleOf[v] # NoStyle
      <4>1. new.round = rounds /\ new.fitness = fitness /\ fitness \in Nat
          BY <1>7, <1>8, <3>2
      <4>2. rounds > taste[m].round /\ fitness > taste[m].fitness
          BY <1>3, <2>2, <2>3, <2>4, <2>6, <2>8, <4>1
      <4> QED  BY <2>8, <4>1, <4>2
    <3> QED  BY <2>7, <3>1, <3>2
  <2> QED  BY <1>10, <2>2, <2>5, <2>7, <2>8
<1> QED  BY <1>13, <1>14, <1>15, <1>16, <1>17, <1>18, <1>19, <1>20 DEF RoundInv

-----------------------------------------------------------------------------
(* Theorems                                                                *)

LEMMA RoundStarts ==
    ASSUME Init
    PROVE  RoundInv
<1> USE DEF Init
<1>1. RoundType
    BY NothingListed, BoundAssumption DEF RoundType, PairsOf
<1>2. ArchiveType
    BY BoundAssumption DEF ArchiveType
<1>3. StageInv
    BY DEF StageInv
<1>4. FieldInv
    BY NothingListed DEF FieldInv
<1>5. RankedInv /\ OfferedInv
    BY DEF RankedInv, OfferedInv
<1>6. EliteInv /\ TasteInv
    BY DEF EliteInv, TasteInv
<1> QED  BY <1>1, <1>2, <1>3, <1>4, <1>5, <1>6 DEF RoundInv

LEMMA RoundKept ==
    ASSUME RoundInv, [Next]_vars
    PROVE  RoundInv'
<1>1. CASE Next
    BY <1>1, BriefStep, AimStep, BeginRoundStep, RegulateStep, TakeFieldStep, CompareStep,
       RankStep, AdmitStep, EndStep, PickStep DEF Next
<1>2. CASE UNCHANGED vars
  <2>1. UNCHANGED <<pc, rounds, todo, rejected, field, unargued, decided, ranked, offered>>
      BY <1>2 DEF vars, round
  <2>2. UNCHANGED <<archive, recorded, picks, taste>>
      BY <1>2 DEF vars, human
  <2>3. RoundType' /\ ArchiveType' /\ StageInv' /\ FieldInv'
      BY <2>1, <2>2 DEF RoundInv, RoundType, ArchiveType, StageInv, FieldInv, PairsOf
  <2>4. RankedInv'
    <3>1. \A x, y : Above(x, y)' <=> Above(x, y)
        BY <2>1 DEF Above, Points, Won, Drawn, IsWinner
    <3> QED  BY <2>1, <3>1 DEF RoundInv, RankedInv, PairsOf
  <2>5. EliteInv' /\ OfferedInv' /\ TasteInv'
      BY <2>1, <2>2 DEF RoundInv, EliteInv, OfferedInv, TasteInv
  <2> QED  BY <2>3, <2>4, <2>5 DEF RoundInv
<1> QED  BY <1>1, <1>2

(* The invariant holds in every state of every sequence of rounds.         *)
THEOREM RoundInvariant == Spec => []RoundInv
<1>1. Init => RoundInv
    BY RoundStarts
<1>2. RoundInv /\ [Next]_vars => RoundInv'
    BY RoundKept
<1> QED  BY <1>1, <1>2, PTL DEF Spec

(* A place in the field is earned: what fails a gate is never argued about,*)
(* ranked or archived, no variant is in two lists of a round's result, and *)
(* no survivor is left out for a blander one.                              *)
THEOREM PlacesAreEarned == Spec => []FieldIsEarned
<1>1. RoundInv => FieldIsEarned
  <2> SUFFICES ASSUME RoundInv PROVE FieldIsEarned
      OBVIOUS
  <2>1. ASSUME NEW c \in Cell, archive[c].round = rounds
        PROVE  archive[c].variant \notin rejected
    <3>1. CASE pc \in {"idle", "aim"}
        BY <3>1 DEF RoundInv, StageInv
    <3>2. CASE pc \notin {"idle", "aim"}
      <4>1. rounds # 0 /\ rounds \in Nat
          BY <3>2 DEF RoundInv, StageInv, RoundType
      <4>2. archive[c] # NoElite
          BY <2>1, <4>1, ElitesAre
      <4>3. pc = "admit"
          BY <2>1, <3>2, <4>1, <4>2 DEF RoundInv, EliteInv, RoundType
      <4>4. archive[c].variant \in ToSet(field)
          BY <2>1, <4>2, <4>3 DEF RoundInv, EliteInv, RankedInv
      <4> QED  BY <4>4 DEF RoundInv, FieldInv
    <3> QED  BY <3>1, <3>2
  <2> QED  BY <2>1 DEF RoundInv, FieldInv, FieldIsEarned
<1> QED  BY <1>1, RoundInvariant, PTL

(* Inside a round the distinctiveness bonus never overturns the panel: the *)
(* elite a round leaves in a cell is its best ranked variant of that cell. *)
THEOREM BonusNeverOverturns == Spec => []RankNotOverturned
<1>1. RoundInv => RankNotOverturned
    BY DEF RoundInv, OfferedInv, RankNotOverturned
<1> QED  BY <1>1, RoundInvariant, PTL

(* Whatever a human picked, its cell still holds it or something fitter of *)
(* a later round.                                                          *)
THEOREM PicksAreOutdoneOnly == Spec => []PickIsOutdoneOnly
<1>1. RoundInv => PickIsOutdoneOnly
    BY DEF RoundInv, TasteInv, PickIsOutdoneOnly
<1> QED  BY <1>1, RoundInvariant, PTL

-----------------------------------------------------------------------------
(* Counting points: a pair of the field is one opponent of each of its two *)

Other(p, u) == IF field[p[1]] = u THEN field[p[2]] ELSE field[p[1]]

Wins(u) == {x \in ToSet(field) : Beat(u, x)}
Ties(u) == {x \in ToSet(field) \ {u} : ~Beat(u, x) /\ ~Beat(x, u)}
Safe(u) == {x \in ToSet(field) \ {u} : ~Beat(x, u)}

(* The round's comparisons are all in.                                     *)
Decided ==
    /\ RoundType /\ IsInjective(field)
    /\ DOMAIN decided = PairsOf(field)

LEMMA PairIndices ==
    ASSUME Decided, NEW p \in DOMAIN decided
    PROVE  /\ p = <<p[1], p[2]>> /\ p[1] \in DOMAIN field /\ p[2] \in DOMAIN field
           /\ p[1] \in Nat /\ p[2] \in Nat /\ p[1] < p[2]
           /\ field[p[1]] # field[p[2]]
           /\ field[p[1]] \in ToSet(field) /\ field[p[2]] \in ToSet(field)
           /\ decided[p] \in {"A", "B", "escalate"}
<1>1. p = <<p[1], p[2]>> /\ p[1] \in DOMAIN field /\ p[2] \in DOMAIN field /\ p[1] < p[2]
    BY DEF Decided, PairsOf
<1>2. p[1] \in Nat /\ p[2] \in Nat
    BY <1>1, Survivors DEF Decided
<1>3. field[p[1]] # field[p[2]]
    BY <1>1, <1>2 DEF Decided, IsInjective
<1>4. field[p[1]] \in ToSet(field) /\ field[p[2]] \in ToSet(field)
    BY <1>1 DEF ToSet
<1>5. decided[p] \in {"A", "B", "escalate"}
    BY DEF Decided, RoundType
<1> QED  BY <1>1, <1>2, <1>3, <1>4, <1>5

(* Two variants meet once.                                                 *)
LEMMA MeetOnce ==
    ASSUME Decided, NEW p \in DOMAIN decided, NEW q \in DOMAIN decided,
           {field[p[1]], field[p[2]]} = {field[q[1]], field[q[2]]}
    PROVE  p = q
<1>1. /\ p = <<p[1], p[2]>> /\ p[1] \in DOMAIN field /\ p[2] \in DOMAIN field
      /\ q = <<q[1], q[2]>> /\ q[1] \in DOMAIN field /\ q[2] \in DOMAIN field
      /\ p[1] \in Nat /\ p[2] \in Nat /\ q[1] \in Nat /\ q[2] \in Nat
      /\ p[1] < p[2] /\ q[1] < q[2]
    BY PairIndices
<1>2. \/ field[p[1]] = field[q[1]] /\ field[p[2]] = field[q[2]]
      \/ field[p[1]] = field[q[2]] /\ field[p[2]] = field[q[1]]
    OBVIOUS
<1>3. CASE field[p[1]] = field[q[1]] /\ field[p[2]] = field[q[2]]
  <2>1. p[1] = q[1] /\ p[2] = q[2]
      BY <1>1, <1>3 DEF Decided, IsInjective
  <2> QED  BY <1>1, <2>1
<1>4. CASE field[p[1]] = field[q[2]] /\ field[p[2]] = field[q[1]]
  <2>1. p[1] = q[2] /\ p[2] = q[1]
      BY <1>1, <1>4 DEF Decided, IsInjective
  <2> QED  BY <1>1, <2>1
<1> QED  BY <1>2, <1>3, <1>4

(* Nobody beats and is beaten by the same rival, or meets itself.          *)
LEMMA BeatOneWay ==
    ASSUME Decided, NEW u, NEW x, Beat(u, x)
    PROVE  u # x /\ ~Beat(x, u)
<1>1. PICK p \in DOMAIN decided : \/ decided[p] = "A" /\ field[p[1]] = u /\ field[p[2]] = x
                                  \/ decided[p] = "B" /\ field[p[1]] = x /\ field[p[2]] = u
    BY DEF Beat
<1>2. u # x
    BY <1>1, PairIndices
<1>3. ASSUME Beat(x, u) PROVE FALSE
  <2>1. PICK q \in DOMAIN decided : \/ decided[q] = "A" /\ field[q[1]] = x /\ field[q[2]] = u
                                    \/ decided[q] = "B" /\ field[q[1]] = u /\ field[q[2]] = x
      BY <1>3 DEF Beat
  <2>2. {field[p[1]], field[p[2]]} = {field[q[1]], field[q[2]]}
      BY <1>1, <2>1
  <2>3. p = q
      BY <2>2, MeetOnce
  <2> QED  BY <1>1, <1>2, <2>1, <2>3
<1> QED  BY <1>2, <1>3

LEMMA OpponentsCount ==
    ASSUME Decided, NEW u, NEW P \in SUBSET DOMAIN decided,
           \A p \in P : u \in {field[p[1]], field[p[2]]}
    PROVE  /\ IsFiniteSet(P)
           /\ Cardinality({Other(p, u) : p \in P}) = Cardinality(P)
<1> DEFINE T == {Other(p, u) : p \in P}
           f == [p \in P |-> Other(p, u)]
<1>1. IsFiniteSet(P)
    BY PairsAreFinite, FS_Subset DEF Decided, RoundType
<1>2. ASSUME NEW p \in P, NEW q \in P, Other(p, u) = Other(q, u)
      PROVE  p = q
  <2>1. field[p[1]] # field[p[2]] /\ field[q[1]] # field[q[2]]
      BY PairIndices
  <2>2. {field[p[1]], field[p[2]]} = {u, Other(p, u)} /\ {field[q[1]], field[q[2]]} = {u, Other(q, u)}
      BY <2>1 DEF Other
  <2> QED  BY <1>2, <2>2, MeetOnce
<1>3. f \in Bijection(P, T)
    BY <1>2 DEF Bijection, Injection, Surjection, IsInjective
<1> HIDE DEF T, f
<1>4. Cardinality(T) = Cardinality(P)
    BY <1>1, <1>3, FS_Bijection DEF ExistsBijection
<1> QED  BY <1>1, <1>4 DEF T

LEMMA WinsAreWon ==
    ASSUME Decided, NEW u
    PROVE  Wins(u) = {Other(p, u) : p \in Won(u)}
<1>1. ASSUME NEW p \in Won(u)
      PROVE  Other(p, u) \in Wins(u)
  <2>1. p \in DOMAIN decided /\ IsWinner(u, p)
      BY DEF Won
  <2>2. field[p[1]] # field[p[2]] /\ field[p[1]] \in ToSet(field) /\ field[p[2]] \in ToSet(field)
      BY <2>1, PairIndices
  <2>3. CASE decided[p] = "A" /\ field[p[1]] = u
      BY <2>1, <2>2, <2>3 DEF Other, Wins, Beat
  <2>4. CASE decided[p] = "B" /\ field[p[2]] = u
      BY <2>1, <2>2, <2>4 DEF Other, Wins, Beat
  <2> QED  BY <2>1, <2>3, <2>4 DEF IsWinner
<1>2. ASSUME NEW x \in Wins(u)
      PROVE  \E p \in Won(u) : x = Other(p, u)
  <2>1. PICK p \in DOMAIN decided : \/ decided[p] = "A" /\ field[p[1]] = u /\ field[p[2]] = x
                                    \/ decided[p] = "B" /\ field[p[1]] = x /\ field[p[2]] = u
      BY DEF Wins, Beat
  <2>2. field[p[1]] # field[p[2]]
      BY PairIndices
  <2>3. p \in Won(u) /\ x = Other(p, u)
      BY <2>1, <2>2 DEF Won, IsWinner, Other
  <2> QED  BY <2>3
<1> QED  BY <1>1, <1>2

LEMMA TiesAreDrawn ==
    ASSUME Decided, NEW u \in ToSet(field)
    PROVE  Ties(u) = {Other(p, u) : p \in Drawn(u)}
<1>1. ASSUME NEW p \in Drawn(u)
      PROVE  Other(p, u) \in Ties(u)
  <2> DEFINE x == Other(p, u)
  <2>1. p \in DOMAIN decided /\ decided[p] = "escalate" /\ u \in {field[p[1]], field[p[2]]}
      BY DEF Drawn
  <2>2. /\ field[p[1]] # field[p[2]] /\ field[p[1]] \in ToSet(field) /\ field[p[2]] \in ToSet(field)
      BY <2>1, PairIndices
  <2>3. x \in ToSet(field) /\ x # u /\ {field[p[1]], field[p[2]]} = {u, x}
      BY <2>1, <2>2 DEF Other
  <2> HIDE DEF x
  <2>4. ASSUME NEW q \in DOMAIN decided, {field[q[1]], field[q[2]]} = {u, x}
        PROVE  decided[q] = "escalate"
    <3>1. q = p
        BY <2>1, <2>3, <2>4, MeetOnce
    <3> QED  BY <2>1, <3>1
  <2>5. ~Beat(u, x) /\ ~Beat(x, u)
      BY <2>4 DEF Beat
  <2> QED  BY <2>3, <2>5 DEF Ties, x
<1>2. ASSUME NEW x \in Ties(u)
      PROVE  \E p \in Drawn(u) : x = Other(p, u)
  <2>1. x \in ToSet(field) /\ x # u /\ ~Beat(u, x) /\ ~Beat(x, u)
      BY DEF Ties
  <2>2. PICK i \in DOMAIN field : field[i] = u
      BY DEF ToSet
  <2>3. PICK j \in DOMAIN field : field[j] = x
      BY <2>1 DEF ToSet
  <2>4. i \in Nat /\ j \in Nat /\ i # j
      BY <2>1, <2>2, <2>3, Survivors DEF Decided
  <2>5. PICK p \in DOMAIN decided : \/ field[p[1]] = u /\ field[p[2]] = x
                                    \/ field[p[1]] = x /\ field[p[2]] = u
    <3>1. CASE i < j
      <4>1. <<i, j>> \in DOMAIN decided
          BY <3>1 DEF Decided, PairsOf
      <4> QED  BY <2>2, <2>3, <4>1
    <3>2. CASE j < i
      <4>1. <<j, i>> \in DOMAIN decided
          BY <3>2 DEF Decided, PairsOf
      <4> QED  BY <2>2, <2>3, <4>1
    <3> QED  BY <2>4, <3>1, <3>2
  <2>6. decided[p] # "A" /\ decided[p] # "B"
      BY <2>1, <2>5 DEF Beat
  <2>7. decided[p] = "escalate"
      BY <2>6, PairIndices
  <2>8. p \in Drawn(u) /\ x = Other(p, u)
      BY <2>1, <2>5, <2>7 DEF Drawn, Other
  <2> QED  BY <2>8
<1> QED  BY <1>1, <1>2

(* A point is a win, or a rival it is safe from: two for a win, one for a  *)
(* draw.                                                                   *)
LEMMA PointsCount ==
    ASSUME Decided, NEW u \in ToSet(field)
    PROVE  /\ IsFiniteSet(Wins(u)) /\ Cardinality(Wins(u)) \in Nat
           /\ IsFiniteSet(Safe(u)) /\ Cardinality(Safe(u)) \in Nat
           /\ Points(u) = Cardinality(Wins(u)) + Cardinality(Safe(u))
<1>1. IsFiniteSet(ToSet(field))
    BY SeqFacts DEF Decided, RoundType
<1>2. Wins(u) \in SUBSET ToSet(field) /\ Ties(u) \in SUBSET ToSet(field) /\ Safe(u) \in SUBSET ToSet(field)
    BY DEF Wins, Ties, Safe
<1>3. /\ IsFiniteSet(Wins(u)) /\ Cardinality(Wins(u)) \in Nat
      /\ IsFiniteSet(Ties(u)) /\ Cardinality(Ties(u)) \in Nat
      /\ IsFiniteSet(Safe(u)) /\ Cardinality(Safe(u)) \in Nat
    BY <1>1, <1>2, FS_Subset, FS_CardinalityType
<1>4. Cardinality(Won(u)) = Cardinality(Wins(u))
  <2>1. Won(u) \in SUBSET DOMAIN decided /\ \A p \in Won(u) : u \in {field[p[1]], field[p[2]]}
      BY DEF Won, IsWinner
  <2> QED  BY <2>1, WinsAreWon, OpponentsCount
<1>5. Cardinality(Drawn(u)) = Cardinality(Ties(u))
  <2>1. Drawn(u) \in SUBSET DOMAIN decided /\ \A p \in Drawn(u) : u \in {field[p[1]], field[p[2]]}
      BY DEF Drawn
  <2> QED  BY <2>1, TiesAreDrawn, OpponentsCount
<1>6. Safe(u) = Wins(u) \cup Ties(u) /\ Wins(u) \cap Ties(u) = {}
    BY BeatOneWay DEF Safe, Wins, Ties
<1>7. Cardinality(Safe(u)) = Cardinality(Wins(u)) + Cardinality(Ties(u))
  <2>1. Cardinality(Wins(u) \cup Ties(u)) =
           Cardinality(Wins(u)) + Cardinality(Ties(u)) - Cardinality(Wins(u) \cap Ties(u))
      BY <1>3, FS_Union
  <2>2. Cardinality(Wins(u) \cap Ties(u)) = 0
      BY <1>6, FS_EmptySet
  <2> QED  BY <1>3, <1>6, <2>1, <2>2
<1> QED  BY <1>3, <1>4, <1>5, <1>7 DEF Points

(* Who does as well as a rival against all others and beat it is ahead.    *)
LEMMA AheadOfRival ==
    ASSUME Decided, NEW v \in ToSet(field), NEW w \in ToSet(field), Beat(w, v),
           \A x \in ToSet(field) \ {v, w} :
              (Beat(v, x) => Beat(w, x)) /\ (Beat(x, w) => Beat(x, v))
    PROVE  Points(v) \in Nat /\ Points(w) \in Nat /\ Points(v) < Points(w)
<1>1. v # w /\ ~Beat(v, w) /\ ~Beat(v, v) /\ ~Beat(w, w)
    BY BeatOneWay
<1>2. Wins(v) \in SUBSET (Wins(w) \ {v}) /\ v \in Wins(w)
    BY <1>1 DEF Wins
<1>3. Safe(v) \in SUBSET (Safe(w) \ {v}) /\ v \in Safe(w)
    BY <1>1 DEF Safe
<1>4. ASSUME NEW S, NEW T, IsFiniteSet(T), Cardinality(T) \in Nat, Cardinality(S) \in Nat,
             S \in SUBSET (T \ {v}), v \in T
      PROVE  Cardinality(S) < Cardinality(T)
  <2>1. IsFiniteSet(T \ {v}) /\ Cardinality(T \ {v}) = Cardinality(T) - 1
      BY <1>4, FS_RemoveElement
  <2>2. Cardinality(S) <= Cardinality(T \ {v})
      BY <1>4, <2>1, FS_Subset
  <2> QED  BY <1>4, <2>1, <2>2
<1>5. Cardinality(Wins(v)) < Cardinality(Wins(w)) /\ Cardinality(Safe(v)) < Cardinality(Safe(w))
    BY <1>2, <1>3, <1>4, PointsCount
<1> QED  BY <1>5, PointsCount

(* The standings respect the panel: who beat every other is first, and     *)
(* nobody stands above a rival that beat it and did at least as well       *)
(* against every third.                                                    *)
THEOREM StandingsAreThePanels == Spec => []StandingsFollowPanel
<1>1. RoundInv => StandingsFollowPanel
  <2> SUFFICES ASSUME RoundInv, NEW i \in DOMAIN ranked, NEW j \in DOMAIN ranked
               PROVE  /\ (\A k \in DOMAIN ranked \ {i} : Beat(ranked[i], ranked[k])) => i = 1
                      /\ i < j /\ Beat(ranked[j], ranked[i]) =>
                            \E k \in DOMAIN ranked \ {i, j} :
                               \/ Beat(ranked[i], ranked[k]) /\ ~Beat(ranked[j], ranked[k])
                               \/ Beat(ranked[k], ranked[j]) /\ ~Beat(ranked[k], ranked[i])
      BY DEF StandingsFollowPanel
  <2>1. pc = "admit"
      BY NothingListed DEF RoundInv, StageInv
  <2>2. Decided /\ ToSet(ranked) = ToSet(field)
      BY <2>1 DEF RoundInv, RankedInv, FieldInv, Decided
  <2>3. ASSUME NEW k \in DOMAIN ranked, NEW l \in DOMAIN ranked, k < l
        PROVE  ~(Points(ranked[k]) < Points(ranked[l]))
    <3>1. Above(ranked[k], ranked[l])
        BY <2>1, <2>3 DEF RoundInv, RankedInv
    <3>2. Points(ranked[k]) \in Nat /\ Points(ranked[l]) \in Nat
        BY PointsAreNatural DEF RoundInv
    <3> QED  BY <3>1, <3>2 DEF Above
  <2>4. \A k \in DOMAIN ranked : ranked[k] \in ToSet(field)
      BY <2>2 DEF ToSet
  <2>5. \A x \in ToSet(field) : \E k \in DOMAIN ranked : ranked[k] = x
      BY <2>2 DEF ToSet
  <2>6. ASSUME \A k \in DOMAIN ranked \ {i} : Beat(ranked[i], ranked[k]), i # 1
        PROVE  FALSE
    <3>1. 1 \in DOMAIN ranked /\ 1 < i
        BY <2>6, SeqFacts DEF RoundInv, RoundType
    <3>2. \A x \in ToSet(field) : x # ranked[i] => Beat(ranked[i], x) /\ ~Beat(x, ranked[i])
        BY <2>2, <2>5, <2>6, BeatOneWay
    <3>3. Beat(ranked[i], ranked[1])
        BY <2>6, <3>1
    <3>4. Points(ranked[1]) < Points(ranked[i])
        BY <2>2, <2>4, <3>1, <3>2, <3>3, AheadOfRival
    <3> QED  BY <2>3, <3>1, <3>4
  <2>7. ASSUME i < j, Beat(ranked[j], ranked[i]),
               \A k \in DOMAIN ranked \ {i, j} :
                  /\ Beat(ranked[i], ranked[k]) => Beat(ranked[j], ranked[k])
                  /\ Beat(ranked[k], ranked[j]) => Beat(ranked[k], ranked[i])
        PROVE  FALSE
    <3>1. \A x \in ToSet(field) \ {ranked[i], ranked[j]} :
             (Beat(ranked[i], x) => Beat(ranked[j], x)) /\ (Beat(x, ranked[j]) => Beat(x, ranked[i]))
        BY <2>5, <2>7
    <3>2. Points(ranked[i]) < Points(ranked[j])
        BY <2>2, <2>4, <2>7, <3>1, AheadOfRival
    <3> QED  BY <2>3, <2>7, <3>2
  <2> QED  BY <2>6, <2>7
<1> QED  BY <1>1, RoundInvariant, PTL

-----------------------------------------------------------------------------
(* The grid of the briefs                                                  *)

LEMMA CellFields ==
    ASSUME NEW c \in Grid
    PROVE  c[1] \in Bin /\ c[2] \in Bin /\ c[3] \in Bin /\ c = <<c[1], c[2], c[3]>>
BY DEF Grid

LEMMA Digits ==
    ASSUME NEW n \in Nat \ {0}, NEW x \in Nat, NEW y \in 0..(n - 1),
           NEW a \in Nat, NEW b \in 0..(n - 1), x * n + y = a * n + b
    PROVE  x = a /\ y = b
<1>1. x * n \in Nat /\ a * n \in Nat
    OBVIOUS
<1>2. ASSUME x < a PROVE FALSE
  <2>1. (a - x) * n = a * n - x * n /\ (a - x) * n >= n
      BY <1>2
  <2> QED  BY <1>1, <2>1
<1>3. ASSUME x > a PROVE FALSE
  <2>1. (x - a) * n = x * n - a * n /\ (x - a) * n >= n
      BY <1>3
  <2> QED  BY <1>1, <2>1
<1>4. x = a
    BY <1>2, <1>3
<1> QED  BY <1>1, <1>4

LEMMA IndexIsAPlace ==
    /\ \A c \in Grid : Index(c) \in 0..((Resolution * Resolution + Resolution) * Resolution + Resolution)
    /\ \A c, d \in Grid : Index(c) = Index(d) => c = d
<1> DEFINE n == Resolution
<1>1. n \in Nat \ {0} /\ \A b \in Bin : b \in 0..(n - 1) /\ b \in Nat /\ b <= n
    BY ResolutionAssumption DEF Bin
<1>2. \A c \in Grid : c[1] \in Bin /\ c[2] \in Bin /\ c[3] \in Bin /\ c = <<c[1], c[2], c[3]>>
    BY CellFields
<1> HIDE DEF n
<1>3. \A x, y \in Nat : x <= y => x * n <= y * n /\ x * n \in Nat /\ y * n \in Nat
    BY <1>1
<1>4. ASSUME NEW c \in Grid
      PROVE  /\ c[1] * n + c[2] \in Nat
             /\ (c[1] * n + c[2]) * n + c[3] \in 0..((n * n + n) * n + n)
  <2>1. c[1] * n \in Nat /\ c[1] * n <= n * n /\ n * n \in Nat
      BY <1>1, <1>2, <1>3
  <2>2. c[1] * n + c[2] \in Nat /\ c[1] * n + c[2] <= n * n + n /\ n * n + n \in Nat
      BY <1>1, <1>2, <2>1
  <2>3. /\ (c[1] * n + c[2]) * n \in Nat /\ (n * n + n) * n \in Nat
        /\ (c[1] * n + c[2]) * n <= (n * n + n) * n
      BY <1>3, <2>2
  <2> QED  BY <1>1, <1>2, <2>2, <2>3
<1>5. ASSUME NEW c \in Grid, NEW d \in Grid,
             (c[1] * n + c[2]) * n + c[3] = (d[1] * n + d[2]) * n + d[3]
      PROVE  c = d
  <2>1. c[1] * n + c[2] = d[1] * n + d[2] /\ c[3] = d[3]
      BY <1>1, <1>2, <1>4, <1>5, Digits
  <2>2. c[1] = d[1] /\ c[2] = d[2]
      BY <1>1, <1>2, <2>1, Digits
  <2> QED  BY <1>2, <2>1, <2>2
<1> QED  BY <1>4, <1>5 DEF Index, n

LEMMA GridIsFinite ==
    /\ IsFiniteSet(Grid) /\ Cardinality(Grid) \in Nat
    /\ \A S \in SUBSET Grid : IsFiniteSet(S) /\ Cardinality(S) \in Nat
<1> DEFINE n == (Resolution * Resolution + Resolution) * Resolution + Resolution
           f == [c \in Grid |-> Index(c)]
<1>1. n \in Nat
    BY ResolutionAssumption
<1>2. f \in Injection(Grid, 0..n)
    BY IndexIsAPlace DEF Injection, IsInjective
<1> HIDE DEF n, f
<1>3. IsFiniteSet(0..n)
    BY <1>1, FS_Interval
<1>4. IsFiniteSet(Grid)
    BY <1>2, <1>3, FS_Injection
<1> QED  BY <1>4, FS_Subset, FS_CardinalityType

LEMMA IndexIsNatural ==
    ASSUME NEW c \in Grid
    PROVE  Index(c) \in Nat
BY IndexIsAPlace, ResolutionAssumption

(* The first cell of a set.                                                *)
LEMMA FirstIs ==
    ASSUME NEW S \in SUBSET Grid, S # {}
    PROVE  First(S) \in S /\ \A d \in S : Index(First(S)) <= Index(d)
<1> DEFINE places == {Index(c) : c \in S}
<1>1. places \subseteq Nat /\ places # {}
    BY IndexIsNatural
<1>2. PICK k \in places : \A n \in places : k <= n
    BY <1>1, LeastNatural
<1>3. PICK c \in S : k = Index(c)
    BY <1>2
<1>4. \A d \in S : Index(d) \in places
    OBVIOUS
<1>5. \A d \in S : Index(c) <= Index(d)
    BY <1>2, <1>3, <1>4
<1> QED  BY <1>5 DEF First

LEMMA LeastIs ==
    ASSUME NEW S \in SUBSET Nat, S # {}
    PROVE  Min(S) \in S /\ \A n \in S : Min(S) <= n
<1>1. \E m \in S : \A n \in S : m <= n
    BY LeastNatural
<1> QED  BY <1>1 DEF Min

LEMMA Squares ==
    ASSUME NEW n \in Nat, NEW x \in 0..n, NEW y \in 0..n
    PROVE  /\ (x - y) * (x - y) \in 0..(n * n)
           /\ (x - y) * (x - y) = (y - x) * (y - x)
           /\ (x - y) * (x - y) = 0 <=> x = y
<1>1. ASSUME NEW a \in Nat, a <= n
      PROVE  a * a \in 0..(n * n) /\ (a * a = 0 <=> a = 0)
    BY <1>1
<1>2. (x - y) * (x - y) = (y - x) * (y - x)
    OBVIOUS
<1>3. CASE x >= y
  <2>1. x - y \in Nat /\ x - y <= n
      BY <1>3
  <2> QED  BY <1>1, <1>2, <2>1
<1>4. CASE x < y
  <2>1. y - x \in Nat /\ y - x <= n
      BY <1>4
  <2> QED  BY <1>1, <1>2, <2>1
<1> QED  BY <1>3, <1>4

LEMMA Distances ==
    ASSUME NEW c \in Grid, NEW d \in Grid
    PROVE  /\ Squared(c, d) \in Length /\ Squared(c, d) \in Nat
           /\ Squared(c, d) = Squared(d, c)
           /\ Squared(c, d) = 0 <=> c = d
<1> DEFINE n == Resolution - 1
           m == n * n
           sq(x, y) == (x - y) * (x - y)
<1>1. n \in Nat /\ Bin = 0..n
    BY ResolutionAssumption DEF Bin
<1>2. /\ c[1] \in Bin /\ c[2] \in Bin /\ c[3] \in Bin /\ c = <<c[1], c[2], c[3]>>
      /\ d[1] \in Bin /\ d[2] \in Bin /\ d[3] \in Bin /\ d = <<d[1], d[2], d[3]>>
    BY CellFields
<1> HIDE DEF n
<1>3. \A x, y \in Bin : sq(x, y) \in 0..m /\ sq(x, y) = sq(y, x) /\ (sq(x, y) = 0 <=> x = y)
    BY <1>1, Squares
<1>4. /\ Squared(c, d) = sq(c[1], d[1]) + sq(c[2], d[2]) + sq(c[3], d[3])
      /\ Squared(d, c) = sq(d[1], c[1]) + sq(d[2], c[2]) + sq(d[3], c[3])
    BY DEF Squared
<1>5. m \in Nat /\ Length = 0..(m + m + m)
  <2>1. Length = 0..(3 * n * n)
      BY DEF Length, n
  <2>2. n * n \in Nat /\ 3 * n * n = n * n + n * n + n * n
      BY <1>1
  <2> QED  BY <2>1, <2>2
<1> HIDE DEF m, sq
<1>6. /\ sq(c[1], d[1]) \in 0..m /\ sq(c[2], d[2]) \in 0..m /\ sq(c[3], d[3]) \in 0..m
      /\ sq(c[1], d[1]) = sq(d[1], c[1]) /\ sq(c[2], d[2]) = sq(d[2], c[2])
      /\ sq(c[3], d[3]) = sq(d[3], c[3])
      /\ sq(c[1], d[1]) = 0 <=> c[1] = d[1]
      /\ sq(c[2], d[2]) = 0 <=> c[2] = d[2]
      /\ sq(c[3], d[3]) = 0 <=> c[3] = d[3]
    BY <1>2, <1>3
<1>7. Squared(c, d) \in Length /\ Squared(c, d) \in Nat
    BY <1>4, <1>5, <1>6
<1>8. Squared(c, d) = Squared(d, c)
    BY <1>4, <1>6
<1>9. Squared(c, d) = 0 <=> c = d
  <2>1. \A i, j, k \in 0..m : i + j + k = 0 <=> i = 0 /\ j = 0 /\ k = 0
      BY <1>5
  <2>2. Squared(c, d) = 0 <=> sq(c[1], d[1]) = 0 /\ sq(c[2], d[2]) = 0 /\ sq(c[3], d[3]) = 0
      BY <1>4, <1>6, <2>1
  <2> QED  BY <1>2, <1>6, <2>2
<1> QED  BY <1>7, <1>8, <1>9

(* The greatest member of a finite set of naturals.                        *)
LEMMA GreatestIs ==
    ASSUME NEW S \in SUBSET Nat, IsFiniteSet(S), S # {}
    PROVE  \E m \in S : \A n \in S : n <= m
<1> DEFINE R == {p \in S \X S : p[1] < p[2]}
<1>1. Orders(R, S)
    BY IndicesOrder
<1>2. \A x, y \in S : <<x, y>> \in R => x < y
    OBVIOUS
<1> HIDE DEF R
<1>3. PICK m \in S : \A x \in S \ {m} : <<x, m>> \in R
    BY <1>1, HasLast
<1>4. m \in Nat /\ \A x \in S : x \in Nat /\ (x # m => x < m)
    BY <1>2, <1>3
<1> QED  BY <1>4

LEMMA FurthestIs ==
    ASSUME NEW S \in SUBSET Grid, S # {}, NEW far \in [Grid -> Nat]
    PROVE  FurthestOf(S, far) \in S
<1> DEFINE lengths == {far[c] : c \in S}
           best == {c \in S : \A d \in S : far[d] <= far[c]}
<1>1. IsFiniteSet(lengths)
  <2> DEFINE f == [c \in S |-> far[c]]
  <2>1. f \in Surjection(S, lengths)
      BY DEF Surjection
  <2> HIDE DEF f, lengths
  <2> QED  BY <2>1, GridIsFinite, FS_Surjection
<1>2. lengths \in SUBSET Nat /\ lengths # {}
    OBVIOUS
<1>3. PICK k \in lengths : \A n \in lengths : n <= k
  <2> HIDE DEF lengths
  <2> QED  BY <1>1, <1>2, GreatestIs
<1>4. PICK c \in S : k = far[c]
    OBVIOUS
<1>5. \A d \in S : far[d] \in lengths
    OBVIOUS
<1>6. c \in best
    BY <1>3, <1>4, <1>5
<1>7. best \in SUBSET Grid /\ best # {} /\ best \subseteq S
    BY <1>6
<1> QED  BY <1>7, FirstIs DEF FurthestOf

LEMMA NearestIs ==
    ASSUME NEW c \in Grid, NEW S \in SUBSET Grid, S # {}
    PROVE  /\ Nearest(c, S) \in Nat
           /\ \A d \in S : Nearest(c, S) <= Squared(c, d)
<1> DEFINE lengths == {Squared(c, d) : d \in S}
<1>1. lengths \in SUBSET Nat /\ lengths # {}
    BY Distances
<1>2. \A d \in S : Squared(c, d) \in lengths
    OBVIOUS
<1>3. Nearest(c, S) = Min(lengths)
    BY DEF Nearest
<1> HIDE DEF lengths
<1>4. Min(lengths) \in lengths /\ \A k \in lengths : Min(lengths) <= k
    BY <1>1, LeastIs
<1> QED  BY <1>1, <1>2, <1>3, <1>4

-----------------------------------------------------------------------------
(* Comparing sets of briefs                                                *)

PairsAt(cells, l) == {p \in cells \X cells : Squared(p[1], p[2]) = l}

LEMMA PairsAtAreFinite ==
    ASSUME NEW S \in SUBSET Grid, NEW l
    PROVE  IsFiniteSet(PairsAt(S, l)) /\ Cardinality(PairsAt(S, l)) \in Nat
<1>1. IsFiniteSet(S \X S)
    BY GridIsFinite, FS_Product
<1> QED  BY <1>1, FS_Subset, FS_CardinalityType DEF PairsAt

LEMMA ProfileIs ==
    ASSUME NEW S \in SUBSET Grid
    PROVE  /\ Profile(S) \in [Length -> Nat]
           /\ \A l \in Length : Profile(S)[l] = Cardinality(PairsAt(S, l)) \div 2
<1>1. \A l \in Length : Profile(S)[l] = Cardinality(PairsAt(S, l)) \div 2
    BY DEF Profile, PairsAt
<1>2. \A l \in Length : Cardinality(PairsAt(S, l)) \div 2 \in Nat
    BY PairsAtAreFinite
<1>3. Profile(S) = [l \in Length |-> Profile(S)[l]]
    BY DEF Profile
<1> QED  BY <1>1, <1>2, <1>3

LEMMA SpreadsFurtherOrders ==
    /\ \A p \in [Length -> Nat] : ~SpreadsFurther(p, p)
    /\ \A p, q \in [Length -> Nat] : p = q \/ SpreadsFurther(p, q) \/ SpreadsFurther(q, p)
    /\ \A p, q, r \in [Length -> Nat] :
          SpreadsFurther(p, q) /\ SpreadsFurther(q, r) => SpreadsFurther(p, r)
<1>1. Length \subseteq Nat
    BY DEF Length
<1>2. \A p \in [Length -> Nat] : ~SpreadsFurther(p, p)
    BY DEF SpreadsFurther
<1>3. ASSUME NEW p \in [Length -> Nat], NEW q \in [Length -> Nat], p # q
      PROVE  SpreadsFurther(p, q) \/ SpreadsFurther(q, p)
  <2> DEFINE D == {l \in Length : p[l] # q[l]}
  <2>1. p = [l \in Length |-> p[l]] /\ q = [l \in Length |-> q[l]]
      OBVIOUS
  <2>2. D \subseteq Nat /\ D # {}
      BY <1>1, <1>3, <2>1
  <2>3. PICK l \in D : \A m \in D : l <= m
      BY <2>2, LeastNatural
  <2>4. \A m \in Length : m < l => p[m] = q[m]
      BY <1>1, <2>3
  <2>5. p[l] < q[l] \/ q[l] < p[l]
      BY <2>3
  <2> QED  BY <2>4, <2>5 DEF SpreadsFurther
<1>4. ASSUME NEW p \in [Length -> Nat], NEW q \in [Length -> Nat], NEW r \in [Length -> Nat],
             SpreadsFurther(p, q), SpreadsFurther(q, r)
      PROVE  SpreadsFurther(p, r)
  <2>1. PICK l \in Length : p[l] < q[l] /\ \A m \in Length : m < l => p[m] = q[m]
      BY <1>4 DEF SpreadsFurther
  <2>2. PICK k \in Length : q[k] < r[k] /\ \A m \in Length : m < k => q[m] = r[m]
      BY <1>4 DEF SpreadsFurther
  <2>3. l \in Nat /\ k \in Nat
      BY <1>1
  <2>4. CASE l <= k
    <3>1. \A m \in Length : m < l => p[m] = r[m]
        BY <1>1, <2>1, <2>2, <2>3, <2>4
    <3>2. p[l] < r[l]
      <4>1. q[l] <= r[l]
          BY <2>2, <2>3, <2>4
      <4> QED  BY <2>1, <4>1
    <3> QED  BY <3>1, <3>2 DEF SpreadsFurther
  <2>5. CASE k < l
    <3>1. \A m \in Length : m < k => p[m] = r[m]
        BY <1>1, <2>1, <2>2, <2>3, <2>5
    <3>2. p[k] < r[k]
        BY <2>1, <2>2, <2>5
    <3> QED  BY <3>1, <3>2 DEF SpreadsFurther
  <2> QED  BY <2>3, <2>4, <2>5
<1> QED  BY <1>2, <1>3, <1>4

(* The first cell in which the two differ is a cell of the second.         *)
LEMMA LaterIs ==
    ASSUME NEW a \in SUBSET Grid, NEW b \in SUBSET Grid
    PROVE  Later(a, b) <=> \E x \in b \ a : \A z \in Grid : Index(z) < Index(x) => (z \in a <=> z \in b)
<1> DEFINE D == (a \ b) \cup (b \ a)
<1>1. D \in SUBSET Grid /\ (D # {} <=> a # b)
    OBVIOUS
<1>2. ASSUME Later(a, b)
      PROVE  \E x \in b \ a : \A z \in Grid : Index(z) < Index(x) => (z \in a <=> z \in b)
  <2>1. D # {} /\ First(D) \in b
      BY <1>1, <1>2 DEF Later
  <2> DEFINE x == First(D)
  <2>2. x \in D /\ \A d \in D : Index(x) <= Index(d)
      BY <1>1, <2>1, FirstIs
  <2>3. \A z \in D : ~(Index(z) < Index(x))
      BY <1>1, <2>2, IndexIsNatural
  <2> HIDE DEF x
  <2> QED  BY <2>1, <2>2, <2>3 DEF x
<1>3. ASSUME NEW x \in b \ a, \A z \in Grid : Index(z) < Index(x) => (z \in a <=> z \in b)
      PROVE  Later(a, b)
  <2>1. x \in D /\ D # {}
      OBVIOUS
  <2>2. First(D) \in D /\ Index(First(D)) <= Index(x)
      BY <1>1, <2>1, FirstIs
  <2>3. ~(Index(First(D)) < Index(x))
      BY <1>1, <1>3, <2>2
  <2>4. Index(First(D)) = Index(x)
      BY <1>1, <2>1, <2>2, <2>3, IndexIsNatural
  <2>5. First(D) = x
      BY <1>1, <2>1, <2>2, <2>4, IndexIsAPlace
  <2> QED  BY <1>1, <2>1, <2>5 DEF Later
<1> QED  BY <1>2, <1>3

LEMMA LaterOrders ==
    /\ \A a \in SUBSET Grid : ~Later(a, a)
    /\ \A a, b \in SUBSET Grid : a = b \/ Later(a, b) \/ Later(b, a)
    /\ \A a, b, c \in SUBSET Grid : Later(a, b) /\ Later(b, c) => Later(a, c)
<1>1. \A a \in SUBSET Grid : ~Later(a, a)
    BY DEF Later
<1>2. ASSUME NEW a \in SUBSET Grid, NEW b \in SUBSET Grid, a # b
      PROVE  Later(a, b) \/ Later(b, a)
  <2> DEFINE D == (a \ b) \cup (b \ a)
  <2>1. D \in SUBSET Grid /\ D # {}
      BY <1>2
  <2>2. First(D) \in a \/ First(D) \in b
      BY <2>1, FirstIs
  <2>3. D = (b \ a) \cup (a \ b)
      OBVIOUS
  <2> QED  BY <1>2, <2>2, <2>3 DEF Later
<1>3. ASSUME NEW a \in SUBSET Grid, NEW b \in SUBSET Grid, NEW c \in SUBSET Grid,
             Later(a, b), Later(b, c)
      PROVE  Later(a, c)
  <2>1. PICK x \in b \ a : \A z \in Grid : Index(z) < Index(x) => (z \in a <=> z \in b)
      BY <1>3, LaterIs
  <2>2. PICK y \in c \ b : \A z \in Grid : Index(z) < Index(y) => (z \in b <=> z \in c)
      BY <1>3, LaterIs
  <2>3. /\ Index(x) \in Nat /\ Index(y) \in Nat /\ Index(x) # Index(y)
        /\ \A z \in Grid : Index(z) \in Nat
      BY IndexIsAPlace, IndexIsNatural
  <2>4. CASE Index(x) < Index(y)
    <3>1. x \in c \ a
        BY <2>1, <2>2, <2>4
    <3>2. \A z \in Grid : Index(z) < Index(x) => (z \in a <=> z \in c)
        BY <2>1, <2>2, <2>3, <2>4
    <3> QED  BY <3>1, <3>2, LaterIs
  <2>5. CASE Index(y) < Index(x)
    <3>1. y \in c \ a
        BY <2>1, <2>2, <2>5
    <3>2. \A z \in Grid : Index(z) < Index(y) => (z \in a <=> z \in c)
        BY <2>1, <2>2, <2>3, <2>5
    <3> QED  BY <3>1, <3>2, LaterIs
  <2> QED  BY <2>3, <2>4, <2>5
<1> QED  BY <1>1, <1>2, <1>3

(* Of a finite number of sets one is best, and it is the one that _improved*)
(* takes.                                                                  *)
LEMMA BestIs ==
    ASSUME NEW B \in SUBSET SUBSET Grid, B # {}
    PROVE  (CHOOSE s \in B : \A t \in B \ {s} :
                \/ SpreadsFurther(Profile(s), Profile(t))
                \/ Profile(s) = Profile(t) /\ Later(s, t)) \in B
<1> DEFINE R == {q \in B \X B : \/ SpreadsFurther(Profile(q[1]), Profile(q[2]))
                                \/ Profile(q[1]) = Profile(q[2]) /\ Later(q[1], q[2])}
<1>1. \A s, t \in B : <<s, t>> \in R <=> \/ SpreadsFurther(Profile(s), Profile(t))
                                         \/ Profile(s) = Profile(t) /\ Later(s, t)
    OBVIOUS
<1>2. IsFiniteSet(B)
    BY GridIsFinite, FS_SUBSET, FS_Subset
<1>3. \A s \in B : s \in SUBSET Grid /\ Profile(s) \in [Length -> Nat]
    BY ProfileIs
<1> HIDE DEF R
<1>4. Orders(R, B)
  <2>1. \A s \in B : <<s, s>> \notin R
      BY <1>1, <1>3, SpreadsFurtherOrders, LaterOrders
  <2>2. \A s, t \in B : s = t \/ <<s, t>> \in R \/ <<t, s>> \in R
      BY <1>1, <1>3, SpreadsFurtherOrders, LaterOrders
  <2>3. \A s, t, u \in B : <<s, t>> \in R /\ <<t, u>> \in R => <<s, u>> \in R
    <3> SUFFICES ASSUME NEW s \in B, NEW t \in B, NEW u \in B, <<s, t>> \in R, <<t, u>> \in R
                 PROVE  <<s, u>> \in R
        OBVIOUS
    <3>1. CASE SpreadsFurther(Profile(s), Profile(t)) /\ SpreadsFurther(Profile(t), Profile(u))
        BY <1>1, <1>3, <3>1, SpreadsFurtherOrders
    <3>2. CASE Profile(s) = Profile(t) \/ Profile(t) = Profile(u)
        BY <1>1, <1>3, <3>2, LaterOrders
    <3> QED  BY <1>1, <3>1, <3>2
  <2> QED  BY <2>1, <2>2, <2>3 DEF Orders
<1>5. PICK s \in B : \A t \in B \ {s} : <<s, t>> \in R
    BY <1>2, <1>4, HasFirst
<1>6. \A t \in B \ {s} : \/ SpreadsFurther(Profile(s), Profile(t))
                         \/ Profile(s) = Profile(t) /\ Later(s, t)
    BY <1>1, <1>5
<1> QED  BY <1>6


-----------------------------------------------------------------------------
(* The briefs of a round                                                   *)

(* Between being asked for and being handed out, the cells chosen are some *)
(* of the pool, which has room for all that are wanted.                    *)
AimInv ==
    /\ wanted \in Asked \cup {0}
    /\ chosen \subseteq Grid /\ avoid \subseteq Grid
    /\ pc = "aim" =>
          /\ wanted \in Asked
          /\ chosen \subseteq pool /\ chosen # {}
          /\ Cardinality(chosen) <= wanted /\ wanted <= Cardinality(pool)

LEMMA CellsAreOnTheGrid ==
    ASSUME NEW v \in Variant
    PROVE  CellOf(v) \in Grid
<1> DEFINE axis(i) == Smaller((AxesOf[v][i] * Resolution) \div Unit, Resolution - 1)
<1>1. \A i \in 1..3 : axis(i) \in Bin
  <2> TAKE i \in 1..3
  <2>1. AxesOf[v][i] \in 0..Unit /\ Resolution \in Nat /\ Unit \in Nat \ {0}
      BY AxesAssumption, ResolutionAssumption, UnitAssumption
  <2>2. AxesOf[v][i] * Resolution \in Nat
      BY <2>1
  <2>3. \A z \in Nat : z \div Unit \in Nat
      BY <2>1
  <2>4. (AxesOf[v][i] * Resolution) \div Unit \in Nat
      BY <2>2, <2>3
  <2> QED  BY <2>4, ResolutionAssumption DEF Smaller, Bin
<1>2. CellOf(v) = [i \in 1..3 |-> axis(i)]
    BY DEF CellOf
<1> HIDE DEF axis
<1>3. CellOf(v) = <<axis(1), axis(2), axis(3)>>
    BY <1>2
<1> QED  BY <1>1, <1>3 DEF Grid

LEMMA LengthsAreNatural ==
    /\ FromCentre \in [Grid -> Nat]
    /\ chosen \subseteq Grid /\ chosen # {} => FromChosen \in [Grid -> Nat]
<1>1. ASSUME NEW c \in Grid
      PROVE  FromCentre[c] \in Nat
  <2> DEFINE n == Resolution - 1
             off(i) == 2 * c[i] - n
  <2>1. FromCentre[c] = off(1) * off(1) + off(2) * off(2) + off(3) * off(3)
      BY DEF FromCentre, Squared
  <2>2. off(1) \in Int /\ off(2) \in Int /\ off(3) \in Int
      BY CellFields, ResolutionAssumption DEF Bin
  <2> HIDE DEF off
  <2>3. \A x \in Int : x * x \in Nat
    <3> TAKE x \in Int
    <3>1. CASE x >= 0
        BY <3>1
    <3>2. CASE x < 0
      <4>1. -x \in Nat /\ (-x) * (-x) \in Nat /\ (-x) * (-x) = x * x
          BY <3>2
      <4> QED  BY <4>1
    <3> QED  BY <3>1, <3>2
  <2>4. off(1) * off(1) \in Nat /\ off(2) * off(2) \in Nat /\ off(3) * off(3) \in Nat
      BY <2>2, <2>3
  <2> QED  BY <2>1, <2>4
<1>2. FromCentre = [c \in Grid |-> FromCentre[c]]
    BY DEF FromCentre
<1>3. FromCentre \in [Grid -> Nat]
    BY <1>1, <1>2
<1>4. ASSUME chosen \subseteq Grid, chosen # {}
      PROVE  FromChosen \in [Grid -> Nat]
    BY <1>4, NearestIs DEF FromChosen
<1> QED  BY <1>3, <1>4

LEMMA PoolHasRoom ==
    ASSUME NEW n \in Asked, NEW taken \in SUBSET Grid
    PROVE  PoolFor(n, taken) \subseteq Grid /\ n <= Cardinality(PoolFor(n, taken)) /\ n \in Nat /\ n # 0
<1>1. n \in Nat /\ n # 0 /\ n <= Cardinality(Grid) /\ Cardinality(Grid) \in Nat
    BY AskedAssumption, GridIsFinite
<1>2. Cardinality(Grid \ taken) \in Nat
    BY GridIsFinite
<1> QED  BY <1>1, <1>2 DEF PoolFor

LEMMA AimBegins ==
    ASSUME RoundInv, AimInv, Brief
    PROVE  AimInv'
<1>1. PICK n \in Asked : \E taken \in IF rounds = 0 THEN SUBSET Grid ELSE {Held} : BeginAim(n, taken)
    BY DEF Brief
<1>2. PICK taken \in IF rounds = 0 THEN SUBSET Grid ELSE {Held} : BeginAim(n, taken)
    BY <1>1
<1>3. taken \in SUBSET Grid
  <2>1. Held \subseteq Grid
      BY CellsAreOnTheGrid DEF Held, Cell
  <2> QED  BY <2>1
<1> DEFINE cells == PoolFor(n, taken)
<1>4. cells \in SUBSET Grid /\ n <= Cardinality(cells) /\ n \in Nat /\ n # 0
    BY <1>3, PoolHasRoom
<1>5. wanted' = n /\ avoid' = taken /\ pool' = cells
    BY <1>2 DEF BeginAim, pool
<1>6. chosen' = IF n = Cardinality(cells) THEN cells ELSE {FurthestOf(cells, FromCentre)}
    BY <1>2 DEF BeginAim
<1> HIDE DEF cells
<1>7. cells # {}
    BY <1>4, FS_EmptySet
<1>8. chosen' \subseteq cells /\ chosen' # {} /\ Cardinality(chosen') <= n
  <2>1. CASE n = Cardinality(cells)
      BY <1>4, <1>6, <1>7, <2>1
  <2>2. CASE n # Cardinality(cells)
    <3>1. FurthestOf(cells, FromCentre) \in cells
        BY <1>4, <1>7, FurthestIs, LengthsAreNatural
    <3>2. Cardinality({FurthestOf(cells, FromCentre)}) = 1
        BY FS_Singleton
    <3> QED  BY <1>4, <1>6, <2>2, <3>1, <3>2
  <2> QED  BY <2>1, <2>2
<1> QED  BY <1>3, <1>4, <1>5, <1>8 DEF AimInv

LEMMA AimGrows ==
    ASSUME AimInv, pc = "aim", pc' = pc, TakeFurthest
    PROVE  AimInv'
<1> DEFINE x == FurthestOf(pool \ chosen, FromChosen)
<1>1. /\ wanted' = wanted /\ avoid' = avoid /\ pool' = pool
      /\ chosen' = chosen \cup {x} /\ Cardinality(chosen) < wanted
    BY DEF TakeFurthest, Greedy, pool
<1>2. /\ wanted \in Asked /\ avoid \subseteq Grid /\ chosen \subseteq pool /\ chosen # {}
      /\ wanted <= Cardinality(pool) /\ chosen \subseteq Grid
    BY DEF AimInv
<1>3. pool \subseteq Grid /\ wanted \in Nat
    BY <1>2, PoolHasRoom DEF pool
<1>4. IsFiniteSet(chosen) /\ Cardinality(chosen) \in Nat /\ Cardinality(pool) \in Nat
    BY <1>2, <1>3, GridIsFinite
<1>5. pool \ chosen # {}
  <2>1. pool # chosen
      BY <1>1, <1>2, <1>3, <1>4
  <2> QED  BY <1>2, <2>1
<1>6. x \in pool \ chosen
    BY <1>2, <1>3, <1>5, FurthestIs, LengthsAreNatural
<1> HIDE DEF x
<1>7. Cardinality(chosen') = Cardinality(chosen) + 1
    BY <1>1, <1>4, <1>6, FS_AddElement
<1> QED  BY <1>1, <1>2, <1>3, <1>4, <1>6, <1>7 DEF AimInv

LEMMA SwappedAre ==
    ASSUME pool \subseteq Grid, chosen \subseteq pool, NEW s \in Swapped(chosen)
    PROVE  s \subseteq pool /\ s # {} /\ Cardinality(s) = Cardinality(chosen)
<1>1. PICK out \in chosen, in \in pool \ chosen : s = (chosen \ {out}) \cup {in}
    BY DEF Swapped
<1>2. IsFiniteSet(chosen) /\ Cardinality(chosen) \in Nat
    BY GridIsFinite
<1>3. Cardinality(chosen \ {out}) = Cardinality(chosen) - 1 /\ IsFiniteSet(chosen \ {out})
    BY <1>2, FS_RemoveElement
<1>4. Cardinality(s) = Cardinality(chosen \ {out}) + 1
    BY <1>1, <1>3, FS_AddElement
<1> QED  BY <1>1, <1>2, <1>3, <1>4

LEMMA AimExchanges ==
    ASSUME AimInv, pc = "aim", pc' = pc, Exchange
    PROVE  AimInv'
<1>1. /\ wanted' = wanted /\ avoid' = avoid /\ pool' = pool /\ Better # {}
    BY DEF Exchange, pool
<1>2. /\ wanted \in Asked /\ avoid \subseteq Grid /\ chosen \subseteq pool
      /\ wanted <= Cardinality(pool) /\ Cardinality(chosen) <= wanted
    BY DEF AimInv
<1>3. pool \subseteq Grid
    BY <1>2, PoolHasRoom DEF AimInv, pool
<1>4. \A s \in Better : s \subseteq pool /\ s # {} /\ Cardinality(s) = Cardinality(chosen)
    BY <1>2, <1>3, SwappedAre DEF Better
<1>5. Better \in SUBSET SUBSET Grid
    BY <1>3, <1>4
<1>6. chosen' \in Better
    BY <1>1, <1>5, BestIs DEF Exchange
<1>7. chosen' \subseteq pool /\ chosen' # {} /\ Cardinality(chosen') = Cardinality(chosen)
    BY <1>4, <1>6
<1> QED  BY <1>1, <1>2, <1>3, <1>7 DEF AimInv

LEMMA AimRests ==
    ASSUME AimInv, pc' = pc \/ pc' # "aim", UNCHANGED aim
    PROVE  AimInv'
BY DEF AimInv, aim, pool

LEMMA AimStarts ==
    ASSUME Init
    PROVE  AimInv
BY DEF Init, AimInv

LEMMA AimKept ==
    ASSUME RoundInv, AimInv, [Next]_vars
    PROVE  AimInv'
<1>1. CASE Brief
    BY <1>1, AimBegins
<1>2. CASE Aim
    BY <1>2, AimGrows, AimExchanges DEF Aim
<1>3. CASE BeginRound
    BY <1>3 DEF BeginRound, AimInv
<1>4. CASE Regulate \/ TakeField \/ Compare \/ Rank \/ Admit \/ Record \/ Raise \/ Pick
  <2>1. (pc' = pc \/ pc' # "aim") /\ UNCHANGED aim
      BY <1>4 DEF Regulate, TakeField, Compare, Rank, Admit, Record, Raise, Pick
  <2> QED  BY <2>1, AimRests
<1>5. CASE UNCHANGED vars
    BY <1>5, AimRests DEF vars
<1> QED  BY <1>1, <1>2, <1>3, <1>4, <1>5 DEF Next

(* The invariant of the briefs holds along with that of the round.         *)
THEOREM AimInvariant == Spec => []AimInv
<1>1. Init => AimInv
    BY AimStarts
<1>2. RoundInv /\ AimInv /\ [Next]_vars => AimInv'
    BY AimKept
<1> QED  BY <1>1, <1>2, RoundInvariant, PTL DEF Spec

(* Every variable has the shape the code gives it: run_round's locals, the *)
(* archive and the exemplars hold variants of the candidates, the field    *)
(* keeps its cap once it is taken, and a brief is a cell of the grid.      *)
THEOREM RoundTypeCorrect == Spec => []TypeOK
<1>1. RoundInv /\ AimInv => TypeOK
    BY DEF RoundInv, RoundType, ArchiveType, AimInv, TypeOK
<1> QED  BY <1>1, RoundInvariant, AimInvariant, PTL


LEMMA DiagonalCounts ==
    ASSUME NEW S \in SUBSET Grid
    PROVE  Cardinality(PairsAt(S, 0)) = Cardinality(S)
<1> DEFINE f == [c \in S |-> <<c, c>>]
<1>1. \A c, d \in S : Squared(c, d) = 0 <=> c = d
    BY Distances
<1>2. PairsAt(S, 0) = {<<c, c>> : c \in S}
    BY <1>1 DEF PairsAt
<1>3. f \in Bijection(S, PairsAt(S, 0))
    BY <1>2 DEF Bijection, Injection, Surjection, IsInjective
<1>4. ExistsBijection(S, PairsAt(S, 0))
    BY <1>3 DEF ExistsBijection
<1> QED  BY <1>4, GridIsFinite, FS_Bijection

LEMMA ClosestIs ==
    ASSUME NEW S \in SUBSET Grid, Pairs(S) # {}
    PROVE  /\ \E q \in Pairs(S) : Squared(q[1], q[2]) = Closest(S)
           /\ \A q \in Pairs(S) : Closest(S) <= Squared(q[1], q[2])
<1> DEFINE lengths == {Squared(q[1], q[2]) : q \in Pairs(S)}
<1>1. lengths \in SUBSET Nat /\ lengths # {}
    BY Distances DEF Pairs
<1>2. Closest(S) = Min(lengths)
    BY DEF Closest
<1>3. \A q \in Pairs(S) : Squared(q[1], q[2]) \in lengths
    OBVIOUS
<1>4. \A l \in lengths : \E q \in Pairs(S) : Squared(q[1], q[2]) = l
    OBVIOUS
<1> HIDE DEF lengths
<1>5. Min(lengths) \in lengths /\ \A k \in lengths : Min(lengths) <= k
    BY <1>1, LeastIs
<1> QED  BY <1>2, <1>3, <1>4, <1>5

(* The exchange argument: of a closest pair, a cell that could be moved    *)
(* further from all the others would have been.                            *)
LEMMA WouldBeExchanged ==
    ASSUME pool \subseteq Grid, chosen \subseteq pool,
           NEW p \in Pairs(chosen), NEW passed \in pool \ chosen,
           Squared(p[1], p[2]) = Closest(chosen),
           ~(Nearest(passed, chosen \ {p[1]}) <= Closest(chosen))
    PROVE  Better # {}
<1> DEFINE m == Closest(chosen)
           left == chosen \ {p[1]}
           s == left \cup {passed}
           back == <<p[2], p[1]>>
<1>1. /\ p[1] \in chosen /\ p[2] \in chosen /\ p[1] # p[2] /\ p = <<p[1], p[2]>>
      /\ p[1] \in Grid /\ p[2] \in Grid /\ passed \in Grid
      /\ chosen \in SUBSET Grid /\ left \in SUBSET Grid /\ left # {} /\ s \in SUBSET Grid
    BY DEF Pairs
<1>2. m \in Length /\ m \in Nat /\ m # 0
    BY <1>1, Distances
<1>3. \A q \in Pairs(chosen) : m <= Squared(q[1], q[2])
    BY <1>1, ClosestIs
<1>4. \A c, d \in chosen : c # d => m <= Squared(c, d)
  <2> TAKE c, d \in chosen
  <2>1. ASSUME c # d PROVE <<c, d>> \in Pairs(chosen)
      BY <2>1 DEF Pairs
  <2> QED  BY <1>3, <2>1
<1>5. \A d \in left : Squared(passed, d) \in Nat /\ m < Squared(passed, d)
  <2> TAKE d \in left
  <2>1. Nearest(passed, left) \in Nat /\ Nearest(passed, left) <= Squared(passed, d)
      BY <1>1, NearestIs
  <2>2. Squared(passed, d) \in Nat
      BY <1>1, Distances
  <2> QED  BY <1>2, <2>1, <2>2
<1>6. s \in Swapped(chosen)
    BY <1>1 DEF Swapped
<1>7. Cardinality(s) = Cardinality(chosen)
    BY <1>6, SwappedAre
<1>8. ASSUME NEW c \in s, NEW d \in s, c # d
      PROVE  /\ Squared(c, d) \in Nat /\ m <= Squared(c, d)
             /\ Squared(c, d) = m => c \in left /\ d \in left
  <2>1. Squared(c, d) \in Nat /\ Squared(c, d) = Squared(d, c)
      BY <1>1, Distances
  <2>2. CASE c \in left /\ d \in left
      BY <1>4, <1>8, <2>1, <2>2
  <2>3. CASE c = passed /\ d \in left
      BY <1>2, <1>5, <2>1, <2>3
  <2>4. CASE d = passed /\ c \in left
      BY <1>2, <1>5, <2>1, <2>4
  <2> QED  BY <1>8, <2>2, <2>3, <2>4
<1> HIDE DEF m, left, s
<1>9. ASSUME NEW l \in Length, l < m
      PROVE  Cardinality(PairsAt(s, l)) = Cardinality(PairsAt(chosen, l))
  <2>1. l \in Nat
      BY DEF Length
  <2>2. CASE l = 0
      BY <1>1, <1>7, <2>2, DiagonalCounts
  <2>3. CASE l # 0
    <3>1. ASSUME NEW c \in Grid, NEW d \in Grid, Squared(c, d) = l
          PROVE  c # d
        BY <2>3, <3>1, Distances
    <3>2. PairsAt(s, l) = {}
      <4> SUFFICES ASSUME NEW c \in s, NEW d \in s, Squared(c, d) = l PROVE FALSE
          BY DEF PairsAt
      <4>1. c # d
          BY <1>1, <3>1
      <4>2. m <= Squared(c, d)
          BY <1>8, <4>1
      <4> QED  BY <1>2, <1>9, <2>1, <4>2
    <3>3. PairsAt(chosen, l) = {}
      <4> SUFFICES ASSUME NEW c \in chosen, NEW d \in chosen, Squared(c, d) = l PROVE FALSE
          BY DEF PairsAt
      <4>1. c # d
          BY <1>1, <3>1
      <4>2. m <= Squared(c, d)
          BY <1>4, <4>1
      <4> QED  BY <1>2, <1>9, <2>1, <4>2
    <3> QED  BY <3>2, <3>3
  <2> QED  BY <2>2, <2>3
<1>10. PairsAt(s, m) \subseteq (PairsAt(chosen, m) \ {p}) \ {back}
  <2> SUFFICES ASSUME NEW c \in s, NEW d \in s, Squared(c, d) = m
               PROVE  <<c, d>> \in (PairsAt(chosen, m) \ {p}) \ {back}
      BY DEF PairsAt
  <2>1. c # d
      BY <1>1, <1>2, Distances
  <2>2. c \in left /\ d \in left
      BY <1>8, <2>1
  <2>3. c \in chosen /\ d \in chosen /\ c # p[1] /\ d # p[1]
      BY <2>2 DEF left
  <2>4. <<c, d>> # p /\ <<c, d>> # back
      BY <1>1, <2>3
  <2> QED  BY <2>3, <2>4 DEF PairsAt
<1>11. p \in PairsAt(chosen, m) /\ back \in PairsAt(chosen, m) \ {p}
  <2>1. Squared(p[2], p[1]) = m /\ Squared(p[1], p[2]) = m
      BY <1>1, Distances DEF m
  <2>2. back # p
      BY <1>1
  <2> QED  BY <1>1, <2>1, <2>2 DEF PairsAt
<1>12. Cardinality(PairsAt(s, m)) + 2 <= Cardinality(PairsAt(chosen, m))
  <2> DEFINE P == PairsAt(chosen, m)
  <2>1. IsFiniteSet(P) /\ Cardinality(P) \in Nat
      BY <1>1, PairsAtAreFinite
  <2> HIDE DEF P
  <2>2. IsFiniteSet(P \ {p}) /\ Cardinality(P \ {p}) = Cardinality(P) - 1
      BY <1>11, <2>1, FS_RemoveElement DEF P
  <2>3. /\ IsFiniteSet((P \ {p}) \ {back})
        /\ Cardinality((P \ {p}) \ {back}) = Cardinality(P \ {p}) - 1
      BY <1>11, <2>2, FS_RemoveElement DEF P
  <2>4. Cardinality(PairsAt(s, m)) <= Cardinality((P \ {p}) \ {back})
      BY <1>10, <2>3, FS_Subset DEF P
  <2>5. Cardinality(PairsAt(s, m)) \in Nat
      BY <1>1, PairsAtAreFinite
  <2> QED  BY <2>1, <2>2, <2>3, <2>4, <2>5 DEF P
<1>13. Profile(s)[m] < Profile(chosen)[m]
  <2>1. \A a, b \in Nat : a + 2 <= b => a \div 2 < b \div 2
      OBVIOUS
  <2>2. Cardinality(PairsAt(s, m)) \in Nat /\ Cardinality(PairsAt(chosen, m)) \in Nat
      BY <1>1, PairsAtAreFinite
  <2> QED  BY <1>1, <1>2, <1>12, <2>1, <2>2, ProfileIs
<1>14. \A l \in Length : l < m => Profile(s)[l] = Profile(chosen)[l]
    BY <1>1, <1>9, ProfileIs
<1>15. SpreadsFurther(Profile(s), Profile(chosen))
    BY <1>2, <1>13, <1>14 DEF SpreadsFurther
<1> QED  BY <1>6, <1>15 DEF Better

(* The briefs a round gets: as many distinct cells as were asked for, none *)
(* of them to be avoided unless too few others are left, and of two at the *)
(* closest distance neither could be moved further from all the others     *)
(* (seed_cells).                                                           *)
THEOREM BriefsAreSpread == Spec => []BriefsSpread
<1>1. AimInv => BriefsSpread
  <2> SUFFICES ASSUME AimInv, pc = "aim", Aimed PROVE Spread
      BY DEF BriefsSpread
  <2>1. /\ wanted \in Asked /\ avoid \in SUBSET Grid /\ chosen \subseteq pool
        /\ Cardinality(chosen) <= wanted
      BY DEF AimInv
  <2>2. pool \subseteq Grid /\ wanted \in Nat
      BY <2>1, PoolHasRoom DEF pool
  <2>3. Cardinality(chosen) \in Nat /\ Cardinality(Grid \ avoid) \in Nat
      BY <2>1, <2>2, GridIsFinite
  <2>4. Cardinality(chosen) = wanted
      BY <2>1, <2>2, <2>3 DEF Aimed, Greedy
  <2>5. chosen \cap avoid # {} => Cardinality(Grid \ avoid) < wanted
      BY <2>1, <2>2, <2>3 DEF pool, PoolFor
  <2>6. ASSUME NEW p \in Pairs(chosen), NEW passed \in pool \ chosen,
               Squared(p[1], p[2]) = Closest(chosen)
        PROVE  Nearest(passed, chosen \ {p[1]}) <= Closest(chosen)
      BY <2>1, <2>2, <2>6, WouldBeExchanged DEF Aimed
  <2> QED  BY <2>4, <2>5, <2>6 DEF Spread
<1> QED  BY <1>1, AimInvariant, PTL
=============================================================================
