------------------------- MODULE PublicationProofs -------------------------
(***************************************************************************)
(* From a pick to the live site, for every fragment and every number of    *)
(* picks, commits, deploys, rollbacks and releases kept.                   *)
(*                                                                         *)
(* The gate: an element's locator ends in its count among the siblings of  *)
(* its tag, and the counts of the elements that are open know of every     *)
(* child there is (GateInv).  The open elements are the start tags that    *)
(* still want their end tags, in the order they came, so that the rest     *)
(* nests; and in a sound fragment those are the ones whose end tags are    *)
(* still to be fed (ExactInv).                                             *)
(* That what is served went through the gate needs no care of the          *)
(* administrator's (IInv).  That the live release is complete does: under  *)
(* Calm the job and the rollback tool never meet, so that the one script   *)
(* that runs is at the same commit as the directories it works on          *)
(* (CalmInv).                                                              *)
(***************************************************************************)
EXTENDS Publication, FiniteSetTheorems, SequenceTheorems, WellFoundedInduction, TLAPS

(* The build of commit s went through: its promoted file loads.            *)
Exported(s) == s \in DOMAIN commits /\ Loads(commits[s])

(* A file is torn, or promote wrote it for a pick the gate accepted, and   *)
(* the runner, incoming and the releases hold only what was exported.      *)
GatedInv ==
    /\ file \in gated \cup {None, Torn}
    /\ promoting = "writing" => picks \in gated
    /\ \A s \in DOMAIN commits : commits[s] \in gated \cup {None, Torn}
    /\ upload # None => Exported(upload)
    /\ incoming.built # None => Exported(incoming.built)
    /\ \A s \in Sha : releases[s].built # None => Exported(releases[s].built)

(* Scripts and releases have the names of commits.                         *)
NamedInv ==
    /\ \A a \in Actor : ~Idle(a) => script[a].sha \in DOMAIN commits
    /\ \A s \in Sha : releases[s] # Empty => s \in DOMAIN commits

IInv == SiteTypeOK /\ GatedInv /\ NamedInv

(* The job's script between taking incoming and the end of pruning.        *)
Moved == script["ci"].pc \in {"mkdir", "ln", "rename", "prune"}

(* The job and the administrator are never both at work, and the           *)
(* administrator finds nothing staged.                                     *)
AloneInv ==
    /\ ~Idle("admin") => upload = None /\ incoming = Empty
    /\ ~Idle("ci") => upload # None /\ script["ci"].sha = upload

(* What the job's script works on is the upload it was started for.        *)
UploadInv ==
    /\ incoming # Empty => incomingIs
    /\ script["ci"].pc \in {"test", "rm", "mv"} =>
          incoming = [built |-> upload, whole |-> TRUE, stamp |-> deploys]
    /\ script["ci"].pc = "mv" => releases[upload] = Empty
    /\ Moved => releases[upload] = [built |-> upload, whole |-> TRUE, stamp |-> deploys]

(* The administrator's script re-points the links to a release on disk.    *)
RollbackInv ==
    /\ script["admin"].pc \in {"idle", "test", "ln", "rename", "prune"}
    /\ ~Idle("admin") => releases[script["admin"].sha] # Empty

LinkInv ==
    \A a \in Actor :
       /\ script[a].pc = "rename" => tmp = script[a].sha
       /\ script[a].pc = "prune" => current = script[a].sha

(* Every release on disk is complete, of its own commit, and of a deploy   *)
(* that has begun.                                                         *)
DiskInv ==
    \A s \in Sha : releases[s] # Empty =>
        releases[s].whole /\ releases[s].built = s /\ releases[s].stamp <= deploys

(* Since the last pruning nothing was added that could push one out.       *)
KeptInv == ~Moved => \A s \in Sha : releases[s] # Empty => s \in Newest

LiveInv ==
    current # None =>
       \/ releases[current] # Empty
       \/ script["ci"].pc = "mv" /\ upload = current

CalmInv == AloneInv /\ UploadInv /\ RollbackInv /\ LinkInv /\ DiskInv /\ KeptInv /\ LiveInv

-----------------------------------------------------------------------------
(* The gate: locators are told apart by their counts                       *)

Trunk(i) == IF i = 0 THEN <<>> ELSE open[i].locator

(* An open element has its depth's locator, which some element has.        *)
GrownInv ==
    \A i \in 1..Len(open) :
       /\ Len(open[i].locator) = i
       /\ \E j \in DOMAIN elements : elements[j].locator = open[i].locator

(* Every element's parent is the fragment or an element.                   *)
RootedInv ==
    \A j \in DOMAIN elements :
       /\ elements[j].locator # <<>>
       /\ \/ Front(elements[j].locator) = <<>>
          \/ \E k \in DOMAIN elements : elements[k].locator = Front(elements[j].locator)

(* The children of an open element have been counted.                      *)
CountedInv ==
    \A i \in 0..Len(open), j \in DOMAIN elements :
       Front(elements[j].locator) = Trunk(i) =>
          Last(elements[j].locator)[2] <= counts[i + 1][Last(elements[j].locator)[1]]

(* What a verdict blames, and what it may not.                             *)
BlameInv ==
    verdict # "none" =>
       /\ todo = <<>>
       /\ \A i \in DOMAIN elements :
             Offends(elements[i]) => \E v \in violations : v.locator = elements[i].locator
       /\ ~moved /\ NoneCleaned =>
             \A v \in violations, i \in DOMAIN elements :
                v.locator = elements[i].locator => Offends(elements[i])

GateInv ==
    GateTypeOK /\ GrownInv /\ RootedInv /\ CountedInv /\ LocatorsDiffer /\ BlameInv

LEMMA LargestOf ==
    ASSUME NEW n \in Nat, NEW S, S \subseteq 0..n, S # {}
    PROVE  Largest(S) \in S /\ \A j \in S : j <= Largest(S)
<1> DEFINE R == {n - j : j \in S}
<1>1. R \subseteq Nat
  <2>1. \A j \in S : j \in 0..n
      OBVIOUS
  <2>2. \A j \in 0..n : n - j \in Nat
      OBVIOUS
  <2> QED  BY <2>1, <2>2
<1>2. R # {}
    OBVIOUS
<1>3. PICK m \in R : \A k \in R : ~(<<k, m>> \in OpToRel(<, Nat))
    BY <1>1, <1>2, WFMin, NatLessThanWellFounded, Zenon
<1>4. PICK i \in S : m = n - i
    OBVIOUS
<1>5. ASSUME NEW j \in S PROVE j <= i
  <2>1. n - j \in R
      OBVIOUS
  <2>2. ~(n - j < n - i)
      BY <1>1, <1>3, <1>4, <2>1 DEF OpToRel
  <2> QED  BY <1>4, <2>2
<1> QED  BY <1>5 DEF Largest

(* A prefix of a sequence.                                                 *)
LEMMA Prefix ==
    ASSUME NEW S, NEW s \in Seq(S), NEW d \in 0..Len(s)
    PROVE  /\ SubSeq(s, 1, d) \in Seq(S)
           /\ Len(SubSeq(s, 1, d)) = d
           /\ \A i \in 1..d : SubSeq(s, 1, d)[i] = s[i]
<1>1. d \in Nat /\ \A i \in 1..d : s[i] \in S
    OBVIOUS
<1>2. /\ SubSeq(s, 1, d) \in Seq(S)
      /\ Len(SubSeq(s, 1, d)) = (IF 1 <= d THEN d - 1 + 1 ELSE 0)
      /\ \A i \in 1..(d - 1 + 1) : SubSeq(s, 1, d)[i] = s[1 + i - 1]
    BY <1>1, SubSeqProperties
<1>3. Len(SubSeq(s, 1, d)) = d
    BY <1>1, <1>2
<1>4. \A i \in 1..d : SubSeq(s, 1, d)[i] = s[i]
    BY <1>1, <1>2
<1> QED  BY <1>2, <1>3, <1>4

LEMMA KeptIsADepth ==
    ASSUME GateTypeOK, NEW tag
    PROVE  Kept(tag) \in 0..Len(open)
<1> DEFINE S == {0} \cup {i \in DOMAIN open : tag \notin ClosedByStart[open[i].tag]}
<1>1. Len(open) \in Nat /\ S \subseteq 0..Len(open) /\ S # {}
    BY DEF GateTypeOK
<1>2. Largest(S) \in S
    BY <1>1, LargestOf
<1> QED  BY <1>1, <1>2 DEF Kept

(* Cutting the open elements back to a depth keeps what lies below it.     *)
LEMMA Cut ==
    ASSUME GateTypeOK, NEW d \in 0..Len(open)
    PROVE  /\ SubSeq(open, 1, d) \in Seq(Frame)
           /\ Len(SubSeq(open, 1, d)) = d
           /\ \A i \in 1..d : SubSeq(open, 1, d)[i] = open[i]
           /\ CountsDownTo(d) \in Seq(Count)
           /\ Len(CountsDownTo(d)) = d + 1
           /\ \A i \in 1..(d + 1) : CountsDownTo(d)[i] = counts[i]
<1>1. /\ open \in Seq(Frame) /\ counts \in Seq(Count) /\ Len(counts) = Len(open) + 1
      /\ Len(open) \in Nat
    BY DEF GateTypeOK
<1>2. d + 1 \in 0..Len(counts)
    BY <1>1
<1> QED  BY <1>1, <1>2, Prefix DEF CountsDownTo

LEMMA CutKeepsTheRest ==
    ASSUME GateInv, NEW d \in 0..Len(open), open' = SubSeq(open, 1, d),
           counts' = CountsDownTo(d), UNCHANGED elements
    PROVE  /\ open' \in Seq(Frame)
           /\ counts' \in Seq(Count)
           /\ Len(counts') = Len(open') + 1
           /\ GrownInv' /\ RootedInv' /\ CountedInv' /\ LocatorsDiffer'
<1>1. /\ open' \in Seq(Frame) /\ counts' \in Seq(Count)
      /\ Len(open') = d /\ Len(counts') = d + 1 /\ Len(open) \in Nat
      /\ \A i \in 1..d : open'[i] = open[i]
      /\ \A i \in 1..(d + 1) : counts'[i] = counts[i]
    BY Cut DEF GateInv, GateTypeOK
<1>2. GrownInv'
    BY <1>1 DEF GateInv, GrownInv
<1>3. RootedInv' /\ LocatorsDiffer'
    BY DEF GateInv, RootedInv, LocatorsDiffer
<1>4. \A i \in 0..d : Trunk(i)' = Trunk(i)
    BY <1>1 DEF Trunk
<1>5. CountedInv'
    BY <1>1, <1>4 DEF GateInv, CountedInv
<1> QED  BY <1>1, <1>2, <1>3, <1>5

(* A locator is its parent's and the last part.                            *)
LEMMA LocatorSplits ==
    ASSUME NEW l \in Locator, NEW x \in Tag \X Nat
    PROVE  /\ Append(l, x) \in Locator
           /\ Len(Append(l, x)) = Len(l) + 1
           /\ Append(l, x) # <<>>
           /\ Front(Append(l, x)) = l
           /\ Last(Append(l, x)) = x
<1>1. /\ Append(l, x) \in Seq(Tag \X Nat) /\ Len(Append(l, x)) = Len(l) + 1
      /\ Append(l, x) # <<>> /\ l \in Seq(Tag \X Nat) /\ Len(l) \in Nat
      /\ \A i \in 1..Len(l) : Append(l, x)[i] = l[i]
      /\ Append(l, x)[Len(l) + 1] = x
    BY AppendProperties DEF Locator
<1>2. Front(Append(l, x)) = l
  <2>1. Front(Append(l, x)) = SubSeq(Append(l, x), 1, Len(l))
      BY <1>1 DEF Front
  <2>2. \A i \in 1..Len(l) : Append(l, x)[i] \in Tag \X Nat
      BY <1>1
  <2>3. /\ SubSeq(Append(l, x), 1, Len(l)) \in Seq(Tag \X Nat)
        /\ Len(SubSeq(Append(l, x), 1, Len(l))) = (IF 1 <= Len(l) THEN Len(l) - 1 + 1 ELSE 0)
        /\ \A i \in 1..(Len(l) - 1 + 1) :
              SubSeq(Append(l, x), 1, Len(l))[i] = Append(l, x)[1 + i - 1]
      BY <1>1, <2>2, SubSeqProperties
  <2>4. \A i \in 1..Len(l) : SubSeq(Append(l, x), 1, Len(l))[i] = l[i]
      BY <1>1, <2>3
  <2>5. Len(SubSeq(Append(l, x), 1, Len(l))) = Len(l)
      BY <1>1, <2>3
  <2> HIDE DEF Front
  <2> QED  BY <1>1, <2>1, <2>3, <2>4, <2>5, SeqEqual
<1> QED  BY <1>1, <1>2 DEF Last, Locator

LEMMA TokensComeOneByOne ==
    ASSUME GateTypeOK, todo # <<>>
    PROVE  Head(todo) \in Token /\ Tail(todo) \in Seq(Token)
BY HeadTailProperties DEF GateTypeOK

LEMMA HandleStartKeepsGateInv ==
    ASSUME GateInv, HandleStart
    PROVE  GateInv'
<1> DEFINE token == Head(todo)
           tag == token.tag
           depth == Kept(tag)
           nth == CountsDownTo(depth)[depth + 1][tag] + 1
           locator == Append(Trunk(depth), <<tag, nth>>)
           counted == [CountsDownTo(depth) EXCEPT ![depth + 1][tag] = nth]
           element == [tag |-> tag, span |-> token.span, attr |-> token.attr,
                       locator |-> locator]
<1>1. GateTypeOK
    BY DEF GateInv
<1>2. /\ token \in [kind : {"start", "startend"}, tag : Tag, span : Span, attr : Attribute]
      /\ Tail(todo) \in Seq(Token)
    BY <1>1, TokensComeOneByOne DEF HandleStart, Token
<1>3. /\ depth \in 0..Len(open) /\ depth \in Nat /\ Len(open) \in Nat /\ tag \in Tag
      /\ Len(counts) = Len(open) + 1 /\ counts \in Seq(Count)
    BY <1>1, <1>2, KeptIsADepth DEF GateTypeOK
<1>4. /\ nth = counts[depth + 1][tag] + 1 /\ nth \in Nat
      /\ counts[depth + 1] \in Count
  <2>1. depth + 1 \in 1..Len(counts) /\ depth + 1 \in 1..(depth + 1)
      BY <1>3
  <2>2. counts[depth + 1] \in Count
      BY <1>3, <2>1
  <2>3. CountsDownTo(depth)[depth + 1] = counts[depth + 1]
      BY <1>1, <1>3, <2>1, Cut
  <2>4. counts[depth + 1][tag] \in Nat
      BY <1>3, <2>2 DEF Count
  <2> QED  BY <2>2, <2>3, <2>4
<1>5. /\ Trunk(depth) \in Locator /\ Len(Trunk(depth)) = depth
  <2>1. CASE depth = 0
      BY <2>1 DEF Trunk, Locator
  <2>2. CASE depth # 0
    <3>1. depth \in 1..Len(open) /\ Trunk(depth) = open[depth].locator
        BY <1>3, <2>2 DEF Trunk
    <3>2. open \in Seq(Frame)
        BY <1>1 DEF GateTypeOK
    <3>3. open[depth] \in Frame
        BY <3>1, <3>2
    <3> QED  BY <3>1, <3>3 DEF Frame, GateInv, GrownInv
  <2> QED  BY <2>1, <2>2
<1>6. /\ locator \in Locator /\ Len(locator) = depth + 1 /\ locator # <<>>
      /\ Front(locator) = Trunk(depth) /\ Last(locator) = <<tag, nth>>
  <2>1. <<tag, nth>> \in Tag \X Nat
      BY <1>3, <1>4
  <2> HIDE DEF tag, nth, depth
  <2> QED  BY <1>5, <2>1, LocatorSplits
<1>7. /\ elements' = Append(elements, element)
      /\ todo' = Tail(todo)
      /\ \/ open' = SubSeq(open, 1, depth) /\ counts' = counted
         \/ /\ open' = Append(SubSeq(open, 1, depth), [tag |-> tag, locator |-> locator])
            /\ counts' = Append(counted, Nothing)
      /\ UNCHANGED <<fragment, faults, moved, verdict, violations>>
    BY DEF HandleStart, Trunk
<1>8. element \in Element
    BY <1>2, <1>6 DEF Element
<1>9. /\ counted \in Seq(Count) /\ Len(counted) = depth + 1
      /\ counted[depth + 1][tag] = nth
      /\ \A i \in 1..(depth + 1), t \in Tag : counts[i][t] <= counted[i][t]
  <2>1. /\ CountsDownTo(depth) \in Seq(Count) /\ Len(CountsDownTo(depth)) = depth + 1
        /\ \A i \in 1..(depth + 1) : CountsDownTo(depth)[i] = counts[i]
      BY <1>1, <1>3, Cut
  <2>2. [counts[depth + 1] EXCEPT ![tag] = nth] \in Count
      BY <1>3, <1>4 DEF Count
  <2> HIDE DEF tag, nth, depth
  <2>3. /\ Len(counted) = depth + 1
        /\ \A i \in 1..(depth + 1) :
              counted[i] = IF i = depth + 1 THEN [counts[depth + 1] EXCEPT ![tag] = nth]
                           ELSE counts[i]
      BY <1>3, <2>1
  <2>4. \A i \in 1..(depth + 1) : counts[i] \in Count
      BY <1>3
  <2>5. counted \in Seq(Count)
    <3>1. DOMAIN counted = 1..(depth + 1) /\ depth + 1 \in Nat
        BY <1>3, <2>1
    <3>2. \A i \in 1..(depth + 1) : counted[i] \in Count
        BY <2>2, <2>3, <2>4
    <3>3. counted = [i \in 1..(depth + 1) |-> counted[i]]
        BY <2>1, <3>1
    <3> HIDE DEF counted
    <3> QED  BY <3>1, <3>2, <3>3
  <2>6. ASSUME NEW i \in 1..(depth + 1), NEW t \in Tag
        PROVE  counts[i][t] <= counted[i][t]
    <3>1. counts[i] \in [Tag -> Nat] /\ counts[i][t] \in Nat
        BY <2>4 DEF Count
    <3>2. CASE i = depth + 1 /\ t = tag
        BY <1>3, <1>4, <2>3, <3>1, <3>2
    <3>3. CASE i = depth + 1 /\ t # tag
        BY <2>3, <3>1, <3>3
    <3>4. CASE i # depth + 1
        BY <2>3, <3>1, <3>4
    <3> QED  BY <3>2, <3>3, <3>4
  <2>7. counted[depth + 1][tag] = nth
    <3>1. counts[depth + 1] \in [Tag -> Nat] /\ depth + 1 \in 1..(depth + 1)
        BY <1>3, <1>4 DEF Count
    <3> QED  BY <1>3, <2>3, <3>1
  <2> HIDE DEF counted
  <2> QED  BY <2>3, <2>5, <2>6, <2>7
<1> DEFINE pushed == [tag |-> tag, locator |-> locator]
<1>10. /\ open' \in Seq(Frame) /\ counts' \in Seq(Count)
       /\ Len(open') \in {depth, depth + 1} /\ Len(counts') = Len(open') + 1
       /\ \A i \in 1..depth : open'[i] = open[i]
       /\ Len(open') = depth + 1 => open'[depth + 1] = pushed
       /\ \A i \in 1..(depth + 1) : counts'[i] = counted[i]
  <2>1. /\ SubSeq(open, 1, depth) \in Seq(Frame)
        /\ Len(SubSeq(open, 1, depth)) = depth
        /\ \A i \in 1..depth : SubSeq(open, 1, depth)[i] = open[i]
      BY <1>1, <1>3, Cut
  <2>2. pushed \in Frame /\ Nothing \in Count
      BY <1>3, <1>6 DEF Nothing, Frame, Count
  <2> HIDE DEF counted, pushed, locator, depth, tag
  <2>3. CASE open' = SubSeq(open, 1, depth) /\ counts' = counted
      BY <1>3, <1>9, <2>1, <2>3
  <2>4. CASE /\ open' = Append(SubSeq(open, 1, depth), pushed)
             /\ counts' = Append(counted, Nothing)
    <3> DEFINE below == SubSeq(open, 1, depth)
    <3>1. below \in Seq(Frame) /\ Len(below) = depth /\ open' = Append(below, pushed)
        BY <2>1, <2>4
    <3> HIDE DEF below
    <3>2. /\ open' \in Seq(Frame) /\ Len(open') = Len(below) + 1
          /\ \A i \in 1..Len(below) : open'[i] = below[i]
          /\ open'[Len(below) + 1] = pushed
        BY <2>2, <3>1, AppendProperties
    <3>3. counted \in Seq(Count) /\ counts' = Append(counted, Nothing)
        BY <1>9, <2>4
    <3>4. /\ counts' \in Seq(Count) /\ Len(counts') = Len(counted) + 1
          /\ \A i \in 1..Len(counted) : counts'[i] = counted[i]
        BY <2>2, <3>3, AppendProperties
    <3>5. \A i \in 1..depth : open'[i] = open[i]
        BY <2>1, <3>1, <3>2 DEF below
    <3> QED  BY <1>3, <1>9, <3>1, <3>2, <3>4, <3>5
  <2>5. QED  BY <1>7, <2>3, <2>4 DEF pushed
<1>11. /\ elements \in Seq(Element) /\ elements' \in Seq(Element) /\ Len(elements) \in Nat
       /\ DOMAIN elements = 1..Len(elements)
       /\ DOMAIN elements' = DOMAIN elements \cup {Len(elements) + 1}
       /\ Len(elements) + 1 \notin DOMAIN elements
       /\ \A j \in DOMAIN elements : elements'[j] = elements[j]
       /\ elements'[Len(elements) + 1] = element
  <2>1. elements \in Seq(Element)
      BY <1>1 DEF GateTypeOK
  <2> HIDE DEF element
  <2>2. /\ elements' \in Seq(Element) /\ Len(elements') = Len(elements) + 1
        /\ \A j \in 1..Len(elements) : elements'[j] = elements[j]
        /\ elements'[Len(elements) + 1] = element
    <3>1. elements' = Append(elements, element)
        BY <1>7
    <3>2. element \in Element
        BY <1>8
    <3> QED  BY <2>1, <3>1, <3>2, AppendProperties
  <2>3. /\ DOMAIN elements = 1..Len(elements) /\ DOMAIN elements' = 1..Len(elements')
        /\ Len(elements) \in Nat
      BY <2>1, <2>2
  <2> QED  BY <2>1, <2>2, <2>3
<1>12. element.locator = locator
    OBVIOUS
<1>13. \A j \in DOMAIN elements : elements[j].locator # locator
  <2> SUFFICES ASSUME NEW j \in DOMAIN elements, elements[j].locator = locator PROVE FALSE
      OBVIOUS
  <2> HIDE DEF locator, nth, depth, tag
  <2>1. Last(locator)[2] <= counts[depth + 1][Last(locator)[1]]
      BY <1>3, <1>6 DEF GateInv, CountedInv
  <2>2. nth <= counts[depth + 1][tag]
      BY <1>6, <2>1
  <2>3. counts[depth + 1][tag] \in Nat
      BY <1>3, <1>4 DEF Count
  <2> QED  BY <1>4, <2>2, <2>3
<1> HIDE DEF token, tag, depth, nth, locator, counted, element
<1>14. GateTypeOK'
    BY <1>1, <1>2, <1>7, <1>10, <1>11 DEF GateTypeOK
<1>15. GrownInv'
  <2> SUFFICES ASSUME NEW i \in 1..Len(open')
               PROVE  /\ Len(open'[i].locator) = i
                      /\ \E j \in DOMAIN elements' : elements'[j].locator = open'[i].locator
      BY DEF GrownInv
  <2>1. CASE i \in 1..depth
    <3>1. i \in 1..Len(open) /\ open'[i] = open[i]
        BY <1>3, <1>10, <2>1
    <3>2. PICK j \in DOMAIN elements : elements[j].locator = open[i].locator
        BY <3>1 DEF GateInv, GrownInv
    <3>3. j \in DOMAIN elements' /\ elements'[j] = elements[j]
        BY <1>11
    <3> QED  BY <3>1, <3>2, <3>3 DEF GateInv, GrownInv
  <2>2. CASE i = depth + 1
    <3>1. open'[i].locator = locator
        BY <1>3, <1>10, <2>2
    <3> QED  BY <1>6, <1>11, <1>12, <2>2, <3>1
  <2> QED  BY <1>3, <1>10, <2>1, <2>2
<1>16. RootedInv'
  <2> SUFFICES ASSUME NEW j \in DOMAIN elements'
               PROVE  /\ elements'[j].locator # <<>>
                      /\ \/ Front(elements'[j].locator) = <<>>
                         \/ \E k \in DOMAIN elements' :
                               elements'[k].locator = Front(elements'[j].locator)
      BY DEF RootedInv
  <2>1. CASE j \in DOMAIN elements
      BY <1>11, <2>1 DEF GateInv, RootedInv
  <2>2. CASE j = Len(elements) + 1
    <3>1. elements'[j].locator = locator
        BY <1>11, <1>12, <2>2
    <3>2. CASE depth = 0
        BY <1>6, <3>1, <3>2 DEF Trunk
    <3>3. CASE depth # 0
      <4>1. depth \in 1..Len(open) /\ Trunk(depth) = open[depth].locator
          BY <1>3, <3>3 DEF Trunk
      <4>2. \E k \in DOMAIN elements : elements[k].locator = open[depth].locator
          BY <4>1 DEF GateInv, GrownInv
      <4> QED  BY <1>6, <1>11, <3>1, <4>1, <4>2
    <3> QED  BY <3>2, <3>3
  <2> QED  BY <1>11, <2>1, <2>2
<1>17. CountedInv'
  <2> SUFFICES ASSUME NEW i \in 0..Len(open'), NEW j \in DOMAIN elements',
                      Front(elements'[j].locator) = Trunk(i)'
               PROVE  Last(elements'[j].locator)[2]
                         <= counts'[i + 1][Last(elements'[j].locator)[1]]
      BY DEF CountedInv
  <2>1. CASE i \in 0..depth
    <3>1. Trunk(i)' = Trunk(i) /\ i \in 0..Len(open) /\ counts'[i + 1] = counted[i + 1]
      <4>1. i \in 0..Len(open) /\ i + 1 \in 1..(depth + 1) /\ (i # 0 => i \in 1..depth)
          BY <1>3, <2>1
      <4>2. i # 0 => open'[i] = open[i]
          BY <1>10, <4>1
      <4>3. counts'[i + 1] = counted[i + 1]
          BY <1>10, <4>1
      <4>4. Trunk(i)' = Trunk(i)
          BY <4>2 DEF Trunk
      <4> QED  BY <4>1, <4>3, <4>4
    <3>2. CASE j \in DOMAIN elements
      <4> DEFINE last == Last(elements[j].locator)
      <4>1. last[2] <= counts[i + 1][last[1]]
          BY <1>11, <3>1, <3>2 DEF GateInv, CountedInv
      <4>2. last \in Tag \X Nat
        <5> DEFINE l == elements[j].locator
        <5>1. elements[j] \in Element
            BY <1>11, <3>2
        <5>2. l \in Seq(Tag \X Nat) /\ l # <<>>
            BY <3>2, <5>1 DEF Element, Locator, GateInv, RootedInv
        <5> HIDE DEF l
        <5>3. Len(l) \in 1..Len(l)
            BY <5>2
        <5>4. l[Len(l)] \in Tag \X Nat
            BY <5>2, <5>3
        <5> QED  BY <5>4 DEF Last, l
      <4>3. counts[i + 1][last[1]] <= counted[i + 1][last[1]]
          BY <1>3, <1>9, <2>1, <4>2
      <4>4. counts[i + 1][last[1]] \in Nat /\ counted[i + 1][last[1]] \in Nat
        <5>1. i + 1 \in 1..Len(counts) /\ i + 1 \in 1..Len(counted)
            BY <1>3, <1>9, <2>1
        <5>2. counts[i + 1] \in Count /\ counted[i + 1] \in Count
            BY <1>3, <1>9, <5>1
        <5> QED  BY <4>2, <5>2 DEF Count
      <4>5. last[2] <= counted[i + 1][last[1]]
          BY <4>1, <4>2, <4>3, <4>4
      <4> QED  BY <1>11, <3>1, <3>2, <4>5
    <3>3. CASE j = Len(elements) + 1
      <4>1. elements'[j].locator = locator
          BY <1>11, <1>12, <3>3
      <4>2. Trunk(i) = Trunk(depth)
          BY <1>6, <3>1, <4>1
      <4>3. Len(Trunk(i)) = i
          BY <1>1, <1>3, <2>1 DEF Trunk, GateInv, GrownInv
      <4>4. i = depth
          BY <1>5, <4>2, <4>3
      <4> QED  BY <1>4, <1>6, <1>9, <3>1, <4>1, <4>4
    <3> QED  BY <1>11, <3>2, <3>3
  <2>2. CASE i = depth + 1
    <3>1. Trunk(i)' = locator
        BY <1>3, <1>10, <2>2 DEF Trunk
    <3>2. CASE j \in DOMAIN elements
      <4>1. Front(elements[j].locator) = locator
          BY <1>11, <3>1, <3>2
      <4>2. \E k \in DOMAIN elements : elements[k].locator = locator
          BY <1>6, <3>2, <4>1 DEF GateInv, RootedInv
      <4> QED  BY <1>13, <4>2
    <3>3. CASE j = Len(elements) + 1
      <4>1. Trunk(depth) = locator
          BY <1>6, <1>11, <1>12, <3>1, <3>3
      <4> QED  BY <1>3, <1>5, <1>6, <4>1
    <3> QED  BY <1>11, <3>2, <3>3
  <2> QED  BY <1>3, <1>10, <2>1, <2>2
<1>18. LocatorsDiffer'
    BY <1>11, <1>12, <1>13 DEF LocatorsDiffer, GateInv
<1>19. BlameInv'
    BY <1>7 DEF BlameInv, GateInv, HandleStart
<1> QED  BY <1>14, <1>15, <1>16, <1>17, <1>18, <1>19 DEF GateInv

LEMMA HandleEndKeepsGateInv ==
    ASSUME GateInv, HandleEnd
    PROVE  GateInv'
<1> DEFINE tag == Head(todo).tag
           named == {i \in DOMAIN open : open[i].tag = tag}
<1>1. GateTypeOK
    BY DEF GateInv
<1>2. /\ todo' = Tail(todo) /\ Tail(todo) \in Seq(Token) /\ verdict = "none"
      /\ UNCHANGED <<fragment, elements, moved, verdict, violations>>
    BY <1>1, TokensComeOneByOne DEF HandleEnd, GateInv, BlameInv
<1>3. BlameInv'
    BY <1>2 DEF BlameInv
<1>4. CASE tag \in Void \/ named = {}
  <2>1. UNCHANGED <<open, counts>> /\ faults' \subseteq Faults
      BY <1>1, <1>4 DEF HandleEnd, GateTypeOK, Faults
  <2>2. GateTypeOK'
      BY <1>1, <1>2, <2>1 DEF GateTypeOK
  <2>3. GrownInv' /\ RootedInv' /\ CountedInv' /\ LocatorsDiffer'
      BY <1>2, <2>1 DEF GateInv, GrownInv, RootedInv, CountedInv, LocatorsDiffer, Trunk
  <2> QED  BY <1>3, <2>2, <2>3 DEF GateInv
<1>5. CASE ~(tag \in Void \/ named = {})
  <2> DEFINE depth == Largest(named)
  <2>1. Len(open) \in Nat /\ named \subseteq 0..Len(open) /\ DOMAIN open = 1..Len(open)
      BY <1>1 DEF GateTypeOK
  <2>2. depth \in 1..Len(open)
      BY <1>5, <2>1, LargestOf
  <2>3. /\ open' = SubSeq(open, 1, depth - 1) /\ counts' = CountsDownTo(depth - 1)
        /\ faults' \subseteq Faults
      BY <1>1, <1>5 DEF HandleEnd, GateTypeOK, Faults
  <2> HIDE DEF depth
  <2>4. depth - 1 \in 0..Len(open)
      BY <2>1, <2>2
  <2>5. /\ open' \in Seq(Frame) /\ counts' \in Seq(Count)
        /\ Len(counts') = Len(open') + 1
        /\ GrownInv' /\ RootedInv' /\ CountedInv' /\ LocatorsDiffer'
      BY <1>2, <2>3, <2>4, CutKeepsTheRest
  <2>6. GateTypeOK'
      BY <1>1, <1>2, <2>3, <2>5 DEF GateTypeOK
  <2> QED  BY <1>3, <2>5, <2>6 DEF GateInv
<1> QED  BY <1>4, <1>5

LEMMA OthersKeepGateInv ==
    ASSUME GateInv, HandleData \/ HandleDecl \/ UNCHANGED gate
    PROVE  GateInv'
<1>1. GateTypeOK
    BY DEF GateInv
<1>2. /\ todo' \in Seq(Token) /\ faults' \subseteq Faults
      /\ UNCHANGED <<fragment, open, counts, elements, moved, verdict, violations>>
    BY <1>1, TokensComeOneByOne DEF HandleData, HandleDecl, gate, GateTypeOK, Faults
<1>3. verdict = "none" \/ todo' = todo
    BY DEF HandleData, HandleDecl, gate, GateInv, BlameInv
<1>4. GateTypeOK'
    BY <1>1, <1>2 DEF GateTypeOK
<1>5. GrownInv' /\ RootedInv' /\ CountedInv' /\ LocatorsDiffer'
    BY <1>2 DEF GateInv, GrownInv, RootedInv, CountedInv, LocatorsDiffer, Trunk
<1>6. BlameInv'
    BY <1>2, <1>3 DEF GateInv, BlameInv, NoneCleaned
<1> QED  BY <1>4, <1>5, <1>6 DEF GateInv

LEMMA CloseKeepsGateInv ==
    ASSUME GateInv, Close
    PROVE  GateInv'
<1>1. GateTypeOK
    BY DEF GateInv
<1>2. 0 \in 0..Len(open) /\ SubSeq(open, 1, 0) = <<>>
    BY <1>1, SubSeqEmpty DEF GateTypeOK
<1>3. /\ open' = SubSeq(open, 1, 0) /\ counts' = CountsDownTo(0) /\ faults' \subseteq Faults
      /\ UNCHANGED <<fragment, todo, elements, moved, verdict, violations>>
    BY <1>1, <1>2 DEF Close, GateTypeOK, Faults
<1>4. /\ open' \in Seq(Frame) /\ counts' \in Seq(Count)
      /\ Len(counts') = Len(open') + 1
      /\ GrownInv' /\ RootedInv' /\ CountedInv' /\ LocatorsDiffer'
    BY <1>2, <1>3, CutKeepsTheRest
<1>5. GateTypeOK'
    BY <1>1, <1>3, <1>4 DEF GateTypeOK
<1>6. BlameInv'
    BY <1>3 DEF GateInv, BlameInv, NoneCleaned
<1> QED  BY <1>4, <1>5, <1>6 DEF GateInv

(* What is outside the policy is never met by a survivor of its tag.       *)
LEMMA StrippedBlames ==
    ASSUME NEW moves, NEW met, NEW differ, Aligned(moves, met, differ),
           NEW i \in DOMAIN elements,
           elements[i].tag \notin Allowed \/ elements[i].attr = "dropped"
    PROVE  \E v \in Stripped(moves, met, differ) : v.locator = elements[i].locator
<1>1. ~Untouched(moves)
    BY DEF Untouched, Survives
<1>2. \E v \in Unaligned(met, differ) : v.locator = elements[i].locator
  <2>1. CASE i \notin met
    <3>1. Found("disallowed-tag", elements[i].locator) \in Unaligned(met, differ)
        BY <2>1 DEF Unaligned
    <3> QED  BY <3>1 DEF Found
  <2>2. CASE i \in met
    <3>1. i \in differ
        BY <2>2 DEF Aligned
    <3>2. Found("disallowed-attribute", elements[i].locator) \in Unaligned(met, differ)
        BY <3>1 DEF Unaligned
    <3> QED  BY <3>2 DEF Found
  <2> QED  BY <2>1, <2>2
<1> QED  BY <1>1, <1>2 DEF Stripped

LEMMA AttributesBlame ==
    ASSUME GateTypeOK, NEW i \in DOMAIN elements,
           elements[i].attr \notin {"fine", "dropped"}
    PROVE  \E v \in UnknownClasses \cup BadUrls \cup BadHtmx : v.locator = elements[i].locator
<1> DEFINE at == elements[i].locator
           attr == elements[i].attr
<1>1. attr \in Attribute /\ at \in Bearers(attr)
  <2>1. elements \in Seq(Element)
      BY DEF GateTypeOK
  <2>2. elements[i] \in Element
      BY <2>1
  <2> QED  BY <2>2 DEF Element, Bearers
<1>2. CASE attr = "class"
  <2>1. Found("unknown-class", at) \in UnknownClasses
      BY <1>1, <1>2 DEF UnknownClasses
  <2> QED  BY <2>1 DEF Found
<1>3. CASE attr = "url"
  <2>1. Found("disallowed-url", at) \in BadUrls
      BY <1>1, <1>3 DEF BadUrls
  <2> QED  BY <2>1 DEF Found
<1>4. CASE attr = "hx-on"
  <2>1. Found("disallowed-attribute", at) \in BadHtmx
      BY <1>1, <1>4 DEF BadHtmx
  <2> QED  BY <2>1 DEF Found
<1>5. CASE attr = "hx-twice"
  <2>1. Found("invalid-attribute-value", at) \in BadHtmx
      BY <1>1, <1>5 DEF BadHtmx
  <2> QED  BY <2>1 DEF Found
<1>6. CASE attr \in {"hx-unknown", "hx-url", "hx-value"}
  <2>1. attr \in DOMAIN KindFor
      BY <1>6 DEF KindFor
  <2>2. Found(KindFor[attr], at) \in BadHtmx
      BY <1>1, <2>1 DEF BadHtmx
  <2> QED  BY <2>2 DEF Found
<1> QED  BY <1>1, <1>2, <1>3, <1>4, <1>5, <1>6 DEF Attribute

LEMMA SpansBlame ==
    ASSUME GateTypeOK, NEW i \in DOMAIN elements,
           Len(elements[i].locator) = 1, elements[i].span # "slug"
    PROVE  \E v \in Unspanned : v.locator = elements[i].locator
<1>1. elements[i].span \in {"none", "bad"}
  <2>1. elements \in Seq(Element)
      BY DEF GateTypeOK
  <2>2. elements[i] \in Element
      BY <2>1
  <2> QED  BY <2>2 DEF Element, Span
<1>2. elements[i].locator \in RootsWith(elements[i].span)
    BY DEF RootsWith, Roots
<1>3. CASE elements[i].span = "none"
  <2>1. Found("missing-span-id", elements[i].locator) \in Unspanned
      BY <1>2, <1>3 DEF Unspanned
  <2> QED  BY <2>1 DEF Found
<1>4. CASE elements[i].span = "bad"
  <2>1. Found("invalid-attribute-value", elements[i].locator) \in Unspanned
      BY <1>2, <1>4 DEF Unspanned
  <2> QED  BY <2>1 DEF Found
<1> QED  BY <1>1, <1>3, <1>4

(* Where nh3 took no element away with what it held, every element it left *)
(* is met by itself: the first that were not would have been due.          *)
LEMMA SurvivorsMeet ==
    ASSUME GateTypeOK, NoneCleaned, NEW met \in SUBSET DOMAIN elements, InStep(met)
    PROVE  \A i \in DOMAIN elements :
              elements[i].tag \in Allowed => i \in met /\ i \in Due(i, met)
<1> DEFINE good == {i \in DOMAIN elements : elements[i].tag \in Allowed}
           Bad == {i \in DOMAIN elements : (i \in met) # (i \in good)}
<1>1. DOMAIN elements \subseteq Nat
  <2>1. elements \in Seq(Element)
      BY DEF GateTypeOK
  <2> QED  BY <2>1
<1>2. \A j \in DOMAIN elements : Survives(elements[j]) <=> j \in good
    BY DEF NoneCleaned, Survives
<1>3. ASSUME NEW i \in DOMAIN elements, met \cap 1..(i - 1) = good \cap 1..(i - 1)
      PROVE  i \in good => i \in Due(i, met)
  <2> SUFFICES ASSUME i \in good PROVE i \in Due(i, met)
      OBVIOUS
  <2> DEFINE before == good \cap 1..(i - 1)
  <2>1. i \in Nat /\ i \notin before
      BY <1>1
  <2>2. IsFiniteSet(before) /\ Cardinality(before) \in Nat
    <3>1. IsFiniteSet(1..(i - 1))
        BY <2>1, FS_Interval
    <3>2. before \subseteq 1..(i - 1)
        OBVIOUS
    <3> QED  BY <3>1, <3>2, FS_Subset, FS_CardinalityType
  <2>3. {j \in 1..i : Survives(elements[j])} = before \cup {i}
    <3>1. \A j \in 1..i : j \in DOMAIN elements
      <4>1. elements \in Seq(Element)
          BY DEF GateTypeOK
      <4> QED  BY <4>1
    <3>2. \A j \in 1..i : j = i \/ j \in 1..(i - 1)
        BY <2>1
    <3>3. \A j \in 1..(i - 1) : j \in 1..i
        BY <2>1
    <3>4. i \in 1..i
      <4>1. elements \in Seq(Element)
          BY DEF GateTypeOK
      <4> QED  BY <4>1
    <3> QED  BY <1>2, <3>1, <3>2, <3>3, <3>4
  <2>4. Cardinality(before \cup {i}) = Cardinality(before) + 1
      BY <2>1, <2>2, FS_AddElement
  <2>5. i \in Survivor(Cardinality(before) + 1)
      BY <1>2, <2>3, <2>4 DEF Survivor
  <2> QED  BY <1>3, <2>5 DEF Due
<1>4. Bad = {}
  <2> SUFFICES ASSUME Bad # {} PROVE FALSE
      OBVIOUS
  <2>1. PICK i \in Bad : \A j \in Bad : ~(<<j, i>> \in OpToRel(<, Nat))
    <3>1. Bad \subseteq Nat
        BY <1>1
    <3> QED  BY <3>1, WFMin, NatLessThanWellFounded, Zenon
  <2>2. i \in DOMAIN elements /\ i \in Nat
      BY <1>1
  <2>3. met \cap 1..(i - 1) = good \cap 1..(i - 1)
    <3> SUFFICES ASSUME NEW j \in 1..(i - 1), j \in DOMAIN elements
                 PROVE  j \in met <=> j \in good
        OBVIOUS
    <3>1. j \in Nat /\ j < i
        BY <2>2
    <3>2. j \notin Bad
        BY <2>1, <2>2, <3>1 DEF OpToRel
    <3> QED  BY <3>2
  <2>4. CASE i \in good
    <3>1. i \in Due(i, met)
        BY <1>3, <2>2, <2>3, <2>4
    <3>2. i \in met
        BY <2>2, <3>1 DEF InStep
    <3> QED  BY <2>4, <3>2
  <2>5. CASE i \in met /\ i \notin good
    <3>1. PICK j \in Due(i, met) : elements[j].tag = elements[i].tag
        BY <2>2, <2>5 DEF InStep
    <3>2. elements[j].tag \in Allowed
        BY <3>1 DEF Due, Survivor, Survives
    <3> QED  BY <2>2, <2>5, <3>1, <3>2
  <2> QED  BY <2>4, <2>5
<1>5. ASSUME NEW i \in DOMAIN elements, i \in good
      PROVE  i \in met /\ i \in Due(i, met)
  <2>1. met = good
      BY <1>4
  <2>2. met \cap 1..(i - 1) = good \cap 1..(i - 1)
      BY <2>1
  <2> HIDE DEF good
  <2> QED  BY <1>3, <1>5, <2>1, <2>2
<1> QED  BY <1>5

(* So that only what is outside the policy is blamed for being stripped.   *)
LEMMA StrippedSpares ==
    ASSUME GateTypeOK, LocatorsDiffer, NoneCleaned, NEW met \in SUBSET DOMAIN elements,
           NEW differ, Aligned(FALSE, met, differ),
           NEW v \in Stripped(FALSE, met, differ), NEW i \in DOMAIN elements,
           v.locator = elements[i].locator
    PROVE  Offends(elements[i])
<1>1. InStep(met)
    BY DEF Aligned
<1>2. \A j \in DOMAIN elements :
         elements[j].tag \in Allowed => j \in met /\ j \in Due(j, met)
    BY <1>1, SurvivorsMeet
<1>3. \A j \in differ : j \in DOMAIN elements /\ elements[j].attr = "dropped"
    BY <1>2 DEF Aligned
<1>4. CASE v \in Unaligned(met, differ)
  <2>1. CASE \E j \in DOMAIN elements \ met : v = Found("disallowed-tag", elements[j].locator)
    <3>1. PICK j \in DOMAIN elements \ met : v.locator = elements[j].locator
        BY <2>1 DEF Found
    <3>2. j = i
        BY <3>1 DEF LocatorsDiffer
    <3> QED  BY <1>2, <3>1, <3>2 DEF Offends
  <2>2. CASE \E j \in differ : v = Found("disallowed-attribute", elements[j].locator)
    <3>1. PICK j \in differ : v.locator = elements[j].locator
        BY <2>2 DEF Found
    <3>2. j = i
        BY <1>3, <3>1 DEF LocatorsDiffer
    <3> QED  BY <1>3, <3>1, <3>2 DEF Offends
  <2> QED  BY <1>4, <2>1, <2>2 DEF Unaligned
<1>5. CASE v \notin Unaligned(met, differ)
  <2>1. ~Untouched(FALSE) /\ Unaligned(met, differ) = {}
      BY <1>5 DEF Stripped
  <2>2. PICK j \in DOMAIN elements : ~Survives(elements[j]) \/ elements[j].attr = "dropped"
      BY <2>1 DEF Untouched
  <2>3. elements[j].tag \notin Allowed \/ elements[j].attr = "dropped"
      BY <2>2 DEF Survives, NoneCleaned
  <2>4. j \notin met \/ j \in differ
      BY <2>3 DEF Aligned
  <2> QED  BY <2>1, <2>4 DEF Unaligned
<1> QED  BY <1>4, <1>5

LEMMA OthersSpare ==
    ASSUME GateInv,
           NEW v \in UnknownClasses \cup BadUrls \cup BadHtmx \cup Structure \cup Unspanned,
           NEW i \in DOMAIN elements, v.locator = elements[i].locator
    PROVE  Offends(elements[i])
<1>1. v.locator # Root
    BY DEF GateInv, RootedInv, Root
<1>2. CASE \E attr : attr # "fine" /\ v.locator \in Bearers(attr)
  <2>1. PICK j \in DOMAIN elements : elements[j].attr # "fine" /\ v.locator = elements[j].locator
      BY <1>2 DEF Bearers
  <2>2. j = i
      BY <2>1 DEF GateInv, LocatorsDiffer
  <2> QED  BY <2>1, <2>2 DEF Offends
<1>3. CASE v \in UnknownClasses \cup BadUrls
  <2>1. v.locator \in Bearers("class") \/ v.locator \in Bearers("url")
      BY <1>3 DEF UnknownClasses, BadUrls, Found
  <2> QED  BY <1>2, <2>1
<1>4. CASE v \in BadHtmx
  <2>1. DOMAIN KindFor = {"hx-unknown", "hx-url", "hx-value"}
      BY DEF KindFor
  <2>2. CASE v.locator \in Bearers("hx-on") \cup Bearers("hx-twice")
      BY <1>2, <2>2
  <2>3. CASE v.locator \notin Bearers("hx-on") \cup Bearers("hx-twice")
    <3>1. PICK attr \in DOMAIN KindFor :
             v \in {Found(KindFor[attr], at) : at \in Bearers(attr)}
        BY <1>4, <2>3 DEF BadHtmx, Found
    <3>2. v.locator \in Bearers(attr)
        BY <3>1 DEF Found
    <3> QED  BY <1>2, <2>1, <3>2
  <2> QED  BY <2>2, <2>3
<1>5. CASE v \in Structure
    BY <1>1, <1>5 DEF Structure, Found
<1>6. CASE v \in Unspanned
  <2>1. v.locator \in RootsWith("none") \/ v.locator \in RootsWith("bad")
      BY <1>1, <1>6 DEF Unspanned, Found
  <2>2. PICK j \in Roots : elements[j].span # "slug" /\ v.locator = elements[j].locator
      BY <2>1 DEF RootsWith
  <2>3. j = i
      BY <2>2 DEF GateInv, LocatorsDiffer, Roots
  <2> QED  BY <2>2, <2>3 DEF Offends, Roots
<1> QED  BY <1>3, <1>4, <1>5, <1>6

LEMMA CheckKeepsGateInv ==
    ASSUME GateInv, Check
    PROVE  GateInv'
<1>1. GateTypeOK
    BY DEF GateInv
<1>2. PICK met \in SUBSET DOMAIN elements, differ \in SUBSET DOMAIN elements :
         Aligned(moved', met, differ) /\ violations' = Findings(moved', met, differ)
    BY DEF Check
<1>3. /\ todo = <<>> /\ verdict' \in {"accepted", "rejected"} /\ moved' \in BOOLEAN
      /\ UNCHANGED <<fragment, todo, open, counts, elements, faults>>
    BY DEF Check
<1>4. GateTypeOK'
    BY <1>1, <1>3 DEF GateTypeOK
<1>5. GrownInv' /\ RootedInv' /\ CountedInv' /\ LocatorsDiffer'
    BY <1>3 DEF GateInv, GrownInv, RootedInv, CountedInv, LocatorsDiffer, Trunk
<1>6. ASSUME NEW i \in DOMAIN elements, Offends(elements[i])
      PROVE  \E v \in violations' : v.locator = elements[i].locator
  <2>1. CASE elements[i].tag \notin Allowed \/ elements[i].attr = "dropped"
      BY <1>2, <2>1, StrippedBlames DEF Findings
  <2>2. CASE elements[i].attr \notin {"fine", "dropped"}
      BY <1>1, <1>2, <2>2, AttributesBlame DEF Findings
  <2>3. CASE Len(elements[i].locator) = 1 /\ elements[i].span # "slug"
      BY <1>1, <1>2, <2>3, SpansBlame DEF Findings
  <2> QED  BY <1>6, <2>1, <2>2, <2>3 DEF Offends
<1>7. ASSUME ~moved', NoneCleaned, NEW v \in violations', NEW i \in DOMAIN elements,
             v.locator = elements[i].locator
      PROVE  Offends(elements[i])
  <2>1. moved' = FALSE
      BY <1>3, <1>7
  <2>2. CASE v \in Stripped(FALSE, met, differ)
      BY <1>1, <1>2, <1>7, <2>1, <2>2, StrippedSpares DEF GateInv
  <2>3. CASE v \notin Stripped(FALSE, met, differ)
      BY <1>2, <1>7, <2>1, <2>3, OthersSpare DEF Findings
  <2> QED  BY <2>2, <2>3
<1>8. BlameInv'
    BY <1>3, <1>6, <1>7 DEF BlameInv, NoneCleaned
<1> QED  BY <1>4, <1>5, <1>8 DEF GateInv

LEMMA GateNextKeepsGateInv == GateInv /\ GateNext => GateInv'
BY HandleStartKeepsGateInv, HandleEndKeepsGateInv, OthersKeepGateInv, CloseKeepsGateInv,
   CheckKeepsGateInv DEF GateNext

LEMMA FedGateInv ==
    ASSUME NEW f \in Seq(Token), GateInit(f)
    PROVE  GateInv
<1>1. /\ open = <<>> /\ elements = <<>> /\ counts = <<Nothing>> /\ Len(counts) = 1
      /\ Nothing \in Count /\ DOMAIN elements = {} /\ Len(open) = 0
    BY DEF GateInit, Nothing, Count
<1>2. moved \in BOOLEAN
    BY DEF GateInit
<1>3. GateTypeOK
    BY <1>1, <1>2 DEF GateInit, GateTypeOK
<1> QED  BY <1>1, <1>3 DEF GateInv, GrownInv, RootedInv, CountedInv, LocatorsDiffer,
                           BlameInv, GateInit

LEMMA FeedKeepsGateInv ==
    ASSUME NEW offered \in SUBSET Seq(Token), Feed(offered)
    PROVE  GateInv'
<1>1. /\ open' = <<>> /\ elements' = <<>> /\ counts' = <<Nothing>> /\ Len(counts') = 1
      /\ Nothing \in Count /\ DOMAIN elements' = {} /\ Len(open') = 0
    BY DEF Feed, Nothing, Count
<1>2. moved' \in BOOLEAN
    BY DEF Feed
<1>3. GateTypeOK'
    BY <1>1, <1>2 DEF Feed, GateTypeOK
<1> QED  BY <1>1, <1>3 DEF GateInv, GrownInv, RootedInv, CountedInv, LocatorsDiffer,
                           BlameInv, Feed

-----------------------------------------------------------------------------
(* The gate: what it accepts                                               *)

(* The tokens that were fed.                                               *)
Fed == Len(fragment) - Len(todo)

(* What is to be fed is the rest of the fragment.                          *)
FedInv ==
    /\ Len(todo) <= Len(fragment)
    /\ \A x \in 1..Len(todo) : todo[x] = fragment[Fed + x]

(* A verdict says whether the finished walk found a violation.             *)
VerdictInv ==
    verdict # "none" =>
       /\ todo = <<>> /\ open = <<>>
       /\ Repaired => moved
       /\ \E met, differ : violations = Findings(moved, met, differ)
       /\ verdict = "accepted" <=> violations = {}

(* Element j is that of token i.                                           *)
Of(j, i) ==
    /\ elements[j].tag = fragment[i].tag
    /\ elements[j].span = fragment[i].span
    /\ elements[j].attr = fragment[i].attr

(* Every tag that opens is an element, and the faults of single tokens are *)
(* noted.                                                                  *)
TokenInv ==
    /\ \A i \in 1..Fed :
          /\ Opens(fragment[i]) => \E j \in DOMAIN elements : Of(j, i)
          /\ fragment[i].kind = "decl" => "declaration" \in faults
          /\ fragment[i].kind = "end" /\ fragment[i].tag \in Void => "stray" \in faults
    /\ \A j \in DOMAIN elements : \E i \in 1..Fed : Opens(fragment[i]) /\ Of(j, i)
    /\ \A k \in DOMAIN open :
          \E i \in 1..Fed : Opens(fragment[i]) /\ fragment[i].tag = open[k].tag

(* The open elements that need an end tag.                                 *)
Pending == {k \in DOMAIN open : open[k].tag \notin Optional}

(* at[k] is the start tag of the open element k, and end[s] the end tag of *)
(* a start tag that is done with.                                          *)
Follows(at) ==
    /\ at \in [Pending -> Starts]
    /\ \A k \in Pending : at[k] <= Fed /\ fragment[at[k]].tag = open[k].tag
    /\ \A k, l \in Pending : k < l => at[k] < at[l]

Pairs(at, done, end) ==
    /\ done \in SUBSET Starts /\ end \in [done -> Ends]
    /\ \A s \in done : s < end[s] /\ end[s] <= Fed /\ fragment[s].tag = fragment[end[s]].tag
    /\ \A s \in Starts : s <= Fed => s \in done \/ \E k \in Pending : at[k] = s
    /\ \A e \in Ends : e <= Fed => \E s \in done : end[s] = e
    /\ \A s, t \in done : end[s] = end[t] => s = t
    /\ \A s, t \in done : s < t /\ t < end[s] => end[t] < end[s]
    /\ \A k \in Pending : at[k] \notin done /\ \A s \in done : s < at[k] => end[s] < at[k]

(* Token i is inside an element that is open or done with.                 *)
Around(at, done, end, i) ==
    \/ \E k \in Pending : at[k] < i
    \/ \E s \in done : s < i /\ i < end[s]

(* A text or a tag outside of every element is noted.                      *)
Noted(at, done, end) ==
    NoneOptional => \A i \in 1..Fed :
       /\ fragment[i].kind = "text" => "loose-text" \in faults \/ Around(at, done, end, i)
       /\ Opens(fragment[i]) =>
             \/ Around(at, done, end, i)
             \/ \E j \in DOMAIN elements : Of(j, i) /\ Len(elements[j].locator) = 1

(* While no fault of structure was found, the required tags nest.          *)
NestInv ==
    faults \cap {"unclosed", "stray", "mismatched"} = {} =>
       \E at, done, end : Follows(at) /\ Pairs(at, done, end) /\ Noted(at, done, end)

(* In a sound fragment the open elements are those that end later.         *)
Awaits(at, end) ==
    /\ at \in [DOMAIN open -> Starts]
    /\ \A k \in DOMAIN open : /\ at[k] <= Fed /\ Fed < end[at[k]]
                              /\ fragment[at[k]].tag = open[k].tag
    /\ \A k, l \in DOMAIN open : k < l => at[k] < at[l]
    /\ \A s \in Starts : s <= Fed /\ Fed < end[s] => \E k \in DOMAIN open : at[k] = s

Ordered(end) ==
    /\ NoneOptional
    /\ end \in Bijection(Starts, Ends) /\ Matches(end)
    /\ \A i \in DOMAIN fragment : InOrder(i, end)

(* In a sound fragment no fault is found.                                  *)
SoundInv ==
    \A end : Ordered(end) =>
       /\ faults = {}
       /\ \E at : Awaits(at, end)
       /\ \A j \in DOMAIN elements : Len(elements[j].locator) = 1 =>
             \E i \in 1..Fed : Opens(fragment[i]) /\ Of(j, i) /\ ~Enclosed(i, end)

(* The verdict is exact: NestInv is for "accepted means sound", SoundInv   *)
(* for "sound means accepted".                                             *)
ExactInv == FedInv /\ VerdictInv /\ TokenInv /\ NestInv /\ SoundInv

(* A token is fed.                                                         *)
LEMMA TokenIsFed ==
    ASSUME GateTypeOK, FedInv, todo # <<>>, todo' = Tail(todo), fragment' = fragment
    PROVE  /\ Fed \in Nat /\ Fed' = Fed + 1 /\ Fed + 1 \in DOMAIN fragment
           /\ fragment[Fed + 1] = Head(todo) /\ Head(todo) \in Token
           /\ FedInv'
<1>1. /\ todo \in Seq(Token) /\ fragment \in Seq(Token) /\ Len(todo) \in Nat
      /\ Len(fragment) \in Nat /\ DOMAIN fragment = 1..Len(fragment)
  BY DEF GateTypeOK
<1>2. Len(todo) # 0
  BY <1>1, EmptySeq
<1>3. /\ Head(todo) = todo[1] /\ Head(todo) \in Token /\ Tail(todo) \in Seq(Token)
      /\ Len(Tail(todo)) = Len(todo) - 1
      /\ \A x \in 1..Len(Tail(todo)) : Tail(todo)[x] = todo[x + 1]
  BY <1>1, HeadTailProperties
<1>4. Len(todo) <= Len(fragment) /\ \A x \in 1..Len(todo) : todo[x] = fragment[Fed + x]
  BY DEF FedInv
<1>5. Fed \in Nat /\ Fed' = Fed + 1 /\ Fed + 1 \in 1..Len(fragment)
  BY <1>1, <1>2, <1>3, <1>4 DEF Fed
<1>6. fragment[Fed + 1] = Head(todo)
  BY <1>1, <1>2, <1>3, <1>4
<1>7. Len(todo') <= Len(fragment')
  BY <1>1, <1>2, <1>3, <1>4
<1>8. ASSUME NEW x \in 1..Len(todo')
      PROVE  todo'[x] = fragment'[Fed' + x]
  <2>1. x + 1 \in 1..Len(todo) /\ todo'[x] = todo[x + 1]
    BY <1>1, <1>3
  <2>2. Fed + (x + 1) = Fed' + x
    BY <1>5
  <2> QED
    BY <1>4, <2>1, <2>2
<1> QED
  BY <1>1, <1>3, <1>5, <1>6, <1>7, <1>8 DEF FedInv

(* The required tags are tokens of the fragment.                           *)
LEMMA PlacesAre ==
    ASSUME GateTypeOK
    PROVE  /\ DOMAIN fragment = 1..Len(fragment) /\ Len(fragment) \in Nat
           /\ Starts \subseteq DOMAIN fragment /\ Ends \subseteq DOMAIN fragment
           /\ \A i : i \in Starts <=> /\ i \in DOMAIN fragment /\ fragment[i].kind = "start"
                                      /\ fragment[i].tag \notin Void \cup Optional
           /\ \A i : i \in Ends <=> /\ i \in DOMAIN fragment /\ fragment[i].kind = "end"
                                    /\ fragment[i].tag \notin Void \cup Optional
           /\ DOMAIN open = 1..Len(open) /\ Len(open) \in Nat
  BY DEF GateTypeOK, Starts, Ends, Needy

(* What is said of the fragment alone stays so while it is walked.         *)
LEMMA FragmentStays ==
    ASSUME fragment' = fragment
    PROVE  /\ Starts' = Starts /\ Ends' = Ends /\ NoneOptional' = NoneOptional
           /\ \A end : Ordered(end)' <=> Ordered(end)
           /\ \A i, end : Enclosed(i, end)' <=> Enclosed(i, end)
<1>1. Starts' = Starts /\ Ends' = Ends
  BY DEF Starts, Ends, Needy
<1>2. NoneOptional' = NoneOptional
  BY DEF NoneOptional
<1>3. \A i, end : Enclosed(i, end)' <=> Enclosed(i, end)
  BY <1>1 DEF Enclosed
<1>4. \A i, end : InOrder(i, end)' <=> InOrder(i, end)
  BY <1>3 DEF InOrder
<1>5. \A end : Matches(end)' <=> Matches(end)
  BY <1>1 DEF Matches
<1>6. \A end : Ordered(end)' <=> Ordered(end)
  BY <1>1, <1>2, <1>4, <1>5 DEF Ordered
<1> QED
  BY <1>1, <1>2, <1>3, <1>6

(* In a fragment without optional tags every open element needs its end.   *)
LEMMA AllPending ==
    ASSUME GateTypeOK, FedInv, TokenInv, NoneOptional
    PROVE  Pending = DOMAIN open
<1> SUFFICES ASSUME NEW k \in DOMAIN open PROVE open[k].tag \notin Optional
  BY DEF Pending
<1>1. PICK i \in 1..Fed : Opens(fragment[i]) /\ fragment[i].tag = open[k].tag
  BY DEF TokenInv
<1>2. i \in DOMAIN fragment
  BY DEF GateTypeOK, FedInv, Fed
<1> QED
  BY <1>1, <1>2 DEF NoneOptional, Opens

(* A step that neither opens nor closes an element that needs its end.     *)
LEMMA NestStays ==
    ASSUME GateTypeOK, FedInv, FedInv', GateTypeOK', fragment' = fragment, Pending' = Pending,
           \A k \in Pending : open'[k] = open[k],
           Fed' = Fed \/ (Fed' = Fed + 1 /\ Fed + 1 \notin Starts \cup Ends),
           NEW at, NEW done, NEW end, Follows(at), Pairs(at, done, end)
    PROVE  Follows(at)' /\ Pairs(at, done, end)'
<1>1. Starts' = Starts /\ Ends' = Ends
  BY FragmentStays
<1>2. Starts \subseteq Nat /\ Ends \subseteq Nat /\ Fed \in Nat /\ Fed' \in Nat
  <2>1. Starts \subseteq Nat /\ Ends \subseteq Nat
    BY PlacesAre
  <2>2. Fed \in Nat
    BY DEF FedInv, Fed, GateTypeOK
  <2>3. Fed' \in Nat
    BY <2>2
  <2> QED
    BY <2>1, <2>2, <2>3
<1>3. \A s \in Starts \cup Ends : s <= Fed' <=> s <= Fed
  <2> SUFFICES ASSUME NEW s \in Starts \cup Ends PROVE s <= Fed' <=> s <= Fed
    OBVIOUS
  <2>1. s \in Nat
    BY <1>2
  <2>2. CASE Fed' = Fed
    BY <2>2
  <2>3. CASE Fed' = Fed + 1 /\ Fed + 1 \notin Starts \cup Ends
    BY <1>2, <2>1, <2>3
  <2> QED
    BY <2>2, <2>3
<1>4. Follows(at)'
  BY <1>1, <1>2, <1>3 DEF Follows
<1>5. Pairs(at, done, end)'
  <2>1. done \in SUBSET Starts /\ end \in [done -> Ends]
    BY DEF Pairs
  <2>2. \A s \in done : s < end[s] /\ end[s] <= Fed' /\ fragment[s].tag = fragment[end[s]].tag
    BY <1>3, <2>1 DEF Pairs
  <2>3. \A s \in Starts : s <= Fed' => s \in done \/ \E k \in Pending : at[k] = s
    BY <1>3 DEF Pairs
  <2>4. \A e \in Ends : e <= Fed' => \E s \in done : end[s] = e
    BY <1>3 DEF Pairs
  <2> QED
    BY <1>1, <2>1, <2>2, <2>3, <2>4 DEF Pairs
<1> QED
  BY <1>4, <1>5

(* A step that opens or closes no element and brings no required tag.      *)
LEMMA AwaitsStays ==
    ASSUME GateTypeOK, FedInv, FedInv', GateTypeOK', fragment' = fragment,
           open' = open,
           Fed' = Fed \/ (Fed' = Fed + 1 /\ Fed + 1 \notin Starts \cup Ends),
           NEW end, Ordered(end), NEW at, Awaits(at, end)
    PROVE  Awaits(at, end)'
<1>1. Starts' = Starts /\ Ends' = Ends
  BY FragmentStays
<1>2. Starts \subseteq Nat /\ Ends \subseteq Nat /\ Fed \in Nat /\ Fed' \in Nat
  <2>1. Starts \subseteq Nat /\ Ends \subseteq Nat
    BY PlacesAre
  <2>2. Fed \in Nat
    BY DEF FedInv, Fed, GateTypeOK
  <2>3. Fed' \in Nat
    BY <2>2
  <2> QED
    BY <2>1, <2>2, <2>3
<1>3. end \in [Starts -> Ends]
  BY DEF Ordered, Bijection, Injection
<1>4. \A s \in Starts : (s <= Fed' <=> s <= Fed) /\ (Fed' < end[s] <=> Fed < end[s])
  <2> SUFFICES ASSUME NEW s \in Starts
               PROVE  (s <= Fed' <=> s <= Fed) /\ (Fed' < end[s] <=> Fed < end[s])
    OBVIOUS
  <2>1. end[s] \in Ends /\ end[s] \in Nat /\ s \in Nat
    BY <1>2, <1>3
  <2> QED
    BY <1>2, <2>1
<1> QED
  BY <1>1, <1>4 DEF Awaits

(* The quiet handlers: a text and a declaration.                           *)
LEMMA QuietToken ==
    ASSUME GateInv, ExactInv, GateTypeOK', HandleData \/ HandleDecl
    PROVE  ExactInv'
<1> DEFINE i == Fed + 1
<1>1. GateTypeOK /\ FedInv /\ VerdictInv /\ TokenInv /\ NestInv /\ SoundInv
  BY DEF GateInv, ExactInv
<1>2. /\ todo # <<>> /\ todo' = Tail(todo) /\ Head(todo).kind \in {"text", "decl"}
      /\ UNCHANGED <<fragment, open, counts, elements, moved, verdict, violations>>
      /\ faults \subseteq faults'
      /\ faults' \cap {"unclosed", "stray", "mismatched"}
            = faults \cap {"unclosed", "stray", "mismatched"}
  BY DEF HandleData, HandleDecl
<1>3. /\ Fed \in Nat /\ Fed' = i /\ i \in DOMAIN fragment
      /\ fragment[i] = Head(todo) /\ fragment[i] \in Token /\ FedInv'
  BY <1>1, <1>2, TokenIsFed
<1>4. i \notin Starts \cup Ends /\ ~Opens(fragment[i]) /\ fragment[i].kind # "end"
  BY <1>2, <1>3, <1>1, PlacesAre DEF Opens
<1>5. \A x \in 1..Fed' : x \in 1..Fed \/ x = i
  BY <1>3
<1>6. 1..Fed \subseteq 1..Fed'
  BY <1>3
<1>7. VerdictInv'
  BY <1>1, <1>2 DEF VerdictInv
<1>8. \A j, x : Of(j, x)' <=> Of(j, x)
  BY <1>2 DEF Of
<1>9. TokenInv'
  <2>1. fragment[i].kind = "decl" => "declaration" \in faults'
    BY <1>2, <1>3 DEF HandleData, HandleDecl
  <2> QED
    BY <1>1, <1>2, <1>4, <1>5, <1>6, <1>8, <2>1 DEF TokenInv
<1>10. Pending' = Pending
  BY <1>2 DEF Pending
<1>11. NestInv'
  <2> SUFFICES ASSUME faults' \cap {"unclosed", "stray", "mismatched"} = {}
               PROVE  \E at, done, end :
                         Follows(at)' /\ Pairs(at, done, end)' /\ Noted(at, done, end)'
    BY DEF NestInv
  <2>1. PICK at, done, end : Follows(at) /\ Pairs(at, done, end) /\ Noted(at, done, end)
    BY <1>1, <1>2 DEF NestInv
  <2>2. Follows(at)' /\ Pairs(at, done, end)'
    BY <1>1, <1>2, <1>3, <1>4, <1>10, <2>1, NestStays
  <2>3. Noted(at, done, end)'
    <3> SUFFICES ASSUME NoneOptional, NEW x \in 1..Fed'
                 PROVE  /\ fragment[x].kind = "text" =>
                              "loose-text" \in faults' \/ Around(at, done, end, x)'
                        /\ Opens(fragment[x]) =>
                              \/ Around(at, done, end, x)'
                              \/ \E j \in DOMAIN elements :
                                    Of(j, x)' /\ Len(elements[j].locator) = 1
      BY <1>2, FragmentStays DEF Noted
    <3>1. Around(at, done, end, x)' <=> Around(at, done, end, x)
      BY <1>10 DEF Around
    <3>2. CASE x \in 1..Fed
      BY <1>2, <1>8, <2>1, <3>1, <3>2 DEF Noted
    <3>3. CASE x = i
      <4>1. CASE open = <<>>
        BY <1>2, <1>3, <1>4, <3>3, <4>1 DEF HandleData, HandleDecl
      <4>2. CASE open # <<>>
        <5>1. 1 \in DOMAIN open
          BY <1>1, <4>2, EmptySeq DEF GateTypeOK
        <5>2. 1 \in Pending
          BY <1>1, <5>1, AllPending
        <5>3. at[1] \in Starts /\ at[1] <= Fed
          BY <2>1, <5>2 DEF Follows
        <5>4. at[1] < i
          BY <1>1, <1>3, <5>3, PlacesAre
        <5> QED
          BY <1>4, <3>1, <3>3, <5>2, <5>4 DEF Around
      <4> QED
        BY <4>1, <4>2
    <3> QED
      BY <1>5, <3>2, <3>3
  <2> QED
    BY <2>2, <2>3
<1>12. SoundInv'
  <2> SUFFICES ASSUME NEW end, Ordered(end)
               PROVE  /\ faults' = {}
                      /\ \E at : Awaits(at, end)'
                      /\ \A j \in DOMAIN elements : Len(elements[j].locator) = 1 =>
                            \E x \in 1..Fed' : Opens(fragment[x]) /\ Of(j, x)'
                                               /\ ~Enclosed(x, end)'
    BY <1>2, FragmentStays DEF SoundInv
  <2>1. /\ faults = {}
        /\ \A j \in DOMAIN elements : Len(elements[j].locator) = 1 =>
              \E x \in 1..Fed : Opens(fragment[x]) /\ Of(j, x) /\ ~Enclosed(x, end)
    BY <1>1 DEF SoundInv
  <2>2. PICK at : Awaits(at, end)
    BY <1>1 DEF SoundInv
  <2>3. Awaits(at, end)'
    BY <1>1, <1>2, <1>3, <1>4, <2>2, AwaitsStays
  <2>4. faults' = {}
    <3>1. InOrder(i, end)
      BY <1>3 DEF Ordered
    <3>2. Head(todo).kind = "text" /\ Enclosed(i, end)
      BY <1>2, <1>3, <3>1 DEF InOrder
    <3>3. PICK s \in Starts : s < i /\ i < end[s]
      BY <3>2 DEF Enclosed
    <3>4. s \in Nat /\ end[s] \in Nat
      BY <1>1, PlacesAre DEF Ordered, Bijection, Injection
    <3>5. s <= Fed /\ Fed < end[s]
      BY <1>3, <3>3, <3>4
    <3>6. PICK k \in DOMAIN open : at[k] = s
      BY <2>2, <3>5 DEF Awaits
    <3>7. open # <<>>
      BY <3>6
    <3> QED
      BY <2>1, <3>2, <3>7 DEF HandleData, HandleDecl
  <2> QED
    BY <1>2, <1>6, <1>8, <2>1, <2>3, <2>4, FragmentStays
<1> QED
  BY <1>3, <1>7, <1>9, <1>11, <1>12 DEF ExactInv

(* close()                                                                 *)
LEMMA CloseKeepsExact ==
    ASSUME GateInv, ExactInv, GateTypeOK', Close
    PROVE  ExactInv'
<1>1. GateTypeOK /\ FedInv /\ VerdictInv /\ TokenInv /\ NestInv /\ SoundInv
  BY DEF GateInv, ExactInv
<1>2. /\ todo = <<>> /\ open # <<>> /\ open' = <<>> /\ verdict' = "none"
      /\ UNCHANGED <<fragment, todo, elements>>
      /\ faults \subseteq faults'
      /\ "unclosed" \notin faults' => Pending = {} /\ faults' = faults
  BY DEF Close, Pending
<1>3. Fed' = Fed /\ Fed = Len(fragment) /\ Fed \in Nat
  BY <1>1, <1>2 DEF Fed, GateTypeOK
<1>4. FedInv' /\ VerdictInv'
  BY <1>1, <1>2, <1>3 DEF FedInv, VerdictInv
<1>5. \A j, x : Of(j, x)' <=> Of(j, x)
  BY <1>2 DEF Of
<1>6. TokenInv'
  BY <1>1, <1>2, <1>3, <1>5 DEF TokenInv
<1>7. Pending' = {} /\ DOMAIN open' = {}
  BY <1>2 DEF Pending
<1>8. NestInv'
  <2> SUFFICES ASSUME faults' \cap {"unclosed", "stray", "mismatched"} = {}
               PROVE  \E at, done, end :
                         Follows(at)' /\ Pairs(at, done, end)' /\ Noted(at, done, end)'
    BY DEF NestInv
  <2>1. Pending = {} /\ faults' = faults
    BY <1>2
  <2>2. PICK at, done, end : Follows(at) /\ Pairs(at, done, end) /\ Noted(at, done, end)
    BY <1>1, <2>1 DEF NestInv
  <2>3. Follows(at)' /\ Pairs(at, done, end)'
    <3>1. Starts' = Starts /\ Ends' = Ends
      BY <1>2, FragmentStays
    <3>2. Follows(at)'
      BY <1>7, <2>1, <2>2, <3>1 DEF Follows
    <3>3. Pairs(at, done, end)'
      BY <1>2, <1>3, <1>7, <2>1, <2>2, <3>1 DEF Pairs
    <3> QED
      BY <3>2, <3>3
  <2>4. \A x : Around(at, done, end, x)' <=> Around(at, done, end, x)
    BY <1>7, <2>1 DEF Around
  <2>5. Noted(at, done, end)'
    BY <1>2, <1>3, <1>5, <2>1, <2>2, <2>4, FragmentStays DEF Noted
  <2> QED
    BY <2>3, <2>5
<1>9. SoundInv'
  <2> SUFFICES ASSUME NEW end, Ordered(end)
               PROVE  FALSE
    BY <1>2, FragmentStays DEF SoundInv
  <2>1. PICK at : Awaits(at, end)
    BY <1>1 DEF SoundInv
  <2>2. 1 \in DOMAIN open
    BY <1>1, <1>2, EmptySeq DEF GateTypeOK
  <2>3. at[1] \in Starts /\ Fed < end[at[1]]
    BY <2>1, <2>2 DEF Awaits
  <2>4. end[at[1]] \in 1..Len(fragment)
    BY <1>1, <2>3, PlacesAre DEF Ordered, Bijection, Injection
  <2> QED
    BY <1>3, <2>3, <2>4
<1> QED
  BY <1>4, <1>6, <1>8, <1>9 DEF ExactInv

(* What the walk has shown does not depend on the verdict.                 *)
LEMMA ExactStays ==
    ASSUME ExactInv, UNCHANGED <<fragment, todo, open, elements, faults>>
    PROVE  FedInv' /\ TokenInv' /\ NestInv' /\ SoundInv'
<1>1. FedInv /\ TokenInv /\ NestInv /\ SoundInv
  BY DEF ExactInv
<1>2. Fed' = Fed
  BY DEF Fed
<1>3. FedInv'
  BY <1>1, <1>2 DEF FedInv
<1>4. \A j, x : Of(j, x)' <=> Of(j, x)
  BY DEF Of
<1>5. TokenInv'
  BY <1>1, <1>2, <1>4 DEF TokenInv
<1>6. Pending' = Pending /\ Starts' = Starts /\ Ends' = Ends /\ (NoneOptional' <=> NoneOptional)
  BY FragmentStays DEF Pending
<1>7. \A at, done, end, x : Around(at, done, end, x)' <=> Around(at, done, end, x)
  BY <1>6 DEF Around
<1>8. \A at : Follows(at)' <=> Follows(at)
  BY <1>2, <1>6 DEF Follows
<1>9. \A at, done, end : Pairs(at, done, end)' <=> Pairs(at, done, end)
  BY <1>2, <1>6 DEF Pairs
<1>10. \A at, done, end : Noted(at, done, end)' <=> Noted(at, done, end)
  BY <1>2, <1>4, <1>6, <1>7 DEF Noted
<1>11. NestInv'
  BY <1>1, <1>8, <1>9, <1>10 DEF NestInv
<1>12. \A at, end : Awaits(at, end)' <=> Awaits(at, end)
  BY <1>2, <1>6 DEF Awaits
<1>13. SoundInv'
  BY <1>1, <1>2, <1>4, <1>12, FragmentStays DEF SoundInv
<1> QED
  BY <1>3, <1>5, <1>11, <1>13

(* The findings are of the elements and the faults alone.                  *)
LEMMA FindingsStay ==
    ASSUME UNCHANGED <<elements, faults>>, NEW moves, NEW met, NEW differ
    PROVE  Findings(moves, met, differ)' = Findings(moves, met, differ)
<1>1. elements' = elements /\ faults' = faults
  OBVIOUS
<1>2. Structure' = Structure
  BY <1>1 DEF Structure
<1>3. Untouched(moves)' = Untouched(moves) /\ Unaligned(met, differ)' = Unaligned(met, differ)
  BY <1>1 DEF Untouched, Survives, Unaligned
<1>4. Stripped(moves, met, differ)' = Stripped(moves, met, differ)
  BY <1>1, <1>3 DEF Stripped
<1>5. \A attr : Bearers(attr)' = Bearers(attr)
  BY <1>1 DEF Bearers
<1>6. UnknownClasses' = UnknownClasses /\ BadUrls' = BadUrls /\ BadHtmx' = BadHtmx
  BY <1>5 DEF UnknownClasses, BadUrls, BadHtmx, KindFor
<1>7. Unspanned' = Unspanned
  BY <1>1 DEF Unspanned, Roots, RootsWith
<1> QED
  BY <1>2, <1>4, <1>6, <1>7 DEF Findings

(* check()'s verdict.                                                      *)
LEMMA CheckKeepsExact ==
    ASSUME ExactInv, Check
    PROVE  ExactInv'
<1>1. FedInv' /\ TokenInv' /\ NestInv' /\ SoundInv'
  BY ExactStays DEF Check
<1>2. PICK met, differ : violations' = Findings(moved', met, differ)
  BY DEF Check
<1>3. PICK moves : moves = moved'
  OBVIOUS
<1>4. Findings(moves, met, differ)' = Findings(moves, met, differ)
  BY FindingsStay DEF Check
<1>5. Repaired' => moved'
  BY DEF Check, Repaired
<1>6. violations' = Findings(moves, met, differ)'
  BY <1>2, <1>3, <1>4
<1>7. \E m, d : (violations = Findings(moved, m, d))'
  BY <1>3, <1>6
<1>8. VerdictInv'
  BY <1>5, <1>7 DEF VerdictInv, Check
<1> QED
  BY <1>1, <1>8 DEF ExactInv

(* A new walker.                                                           *)
LEMMA NewWalkIsExact ==
    ASSUME fragment \in Seq(Token), todo = fragment, open = <<>>, elements = <<>>,
           faults = {}, verdict = "none"
    PROVE  ExactInv
<1>1. Fed = 0 /\ Len(fragment) \in Nat
  BY DEF Fed
<1>2. FedInv /\ VerdictInv /\ TokenInv
  BY <1>1 DEF FedInv, VerdictInv, TokenInv
<1>3. DOMAIN open = {} /\ Pending = {}
  BY DEF Pending
<1>4. \A s \in Starts \cup Ends : ~(s <= 0)
  BY DEF Starts, Ends, Needy
<1> DEFINE none == [k \in {} |-> 0]
<1>5. Follows(none) /\ Pairs(none, {}, none) /\ Noted(none, {}, none)
  BY <1>1, <1>3, <1>4 DEF Follows, Pairs, Noted
<1>6. NestInv
  BY <1>5 DEF NestInv
<1>7. \A end : Awaits(none, end)
  BY <1>1, <1>3, <1>4 DEF Awaits
<1>8. SoundInv
  BY <1>7 DEF SoundInv
<1> QED
  BY <1>2, <1>6, <1>8 DEF ExactInv

LEMMA FedAnew ==
    ASSUME fragment' \in Seq(Token), todo' = fragment', open' = <<>>, elements' = <<>>,
           faults' = {}, verdict' = "none"
    PROVE  ExactInv'
<1>1. Fed' = 0 /\ Len(fragment') \in Nat
  BY DEF Fed
<1>2. FedInv' /\ VerdictInv' /\ TokenInv'
  BY <1>1 DEF FedInv, VerdictInv, TokenInv
<1>3. DOMAIN open' = {} /\ Pending' = {}
  BY DEF Pending
<1>4. \A s \in Starts' \cup Ends' : ~(s <= 0)
  BY DEF Starts, Ends, Needy
<1> DEFINE none == [k \in {} |-> 0]
<1>5. Follows(none)' /\ Pairs(none, {}, none)' /\ Noted(none, {}, none)'
  BY <1>1, <1>3, <1>4 DEF Follows, Pairs, Noted
<1>6. NestInv'
  BY <1>5 DEF NestInv
<1>7. \A end : Awaits(none, end)'
  BY <1>1, <1>3, <1>4 DEF Awaits
<1>8. SoundInv'
  BY <1>7 DEF SoundInv
<1> QED
  BY <1>2, <1>6, <1>8 DEF ExactInv

(* What handle_starttag does to the open elements: those above d go, whose *)
(* end tags are optional, and the new one comes if it has an end.          *)
Started(d, i) ==
    /\ \A k \in DOMAIN open : k > d => open[k].tag \in Optional
    /\ \A k \in 1..d : k \in DOMAIN open /\ open'[k] = open[k]
    /\ \/ /\ Len(open') = d
          /\ fragment[i].kind = "startend" \/ fragment[i].tag \in Void
       \/ /\ Len(open') = d + 1 /\ open'[d + 1].tag = fragment[i].tag
          /\ fragment[i].kind = "start" /\ fragment[i].tag \notin Void

LEMMA ClosesOptional ==
    ASSUME GateTypeOK, NEW tag \in Tag, NEW k \in DOMAIN open, k > Kept(tag)
    PROVE  open[k].tag \in Optional
<1> DEFINE S == {0} \cup {i \in DOMAIN open : tag \notin ClosedByStart[open[i].tag]}
<1>1. Len(open) \in Nat /\ S \subseteq 0..Len(open) /\ S # {} /\ open[k] \in Frame
  BY DEF GateTypeOK
<1>2. \A j \in S : j <= Largest(S)
  BY <1>1, LargestOf
<1>3. Largest(S) = Kept(tag) /\ Kept(tag) \in 0..Len(open)
  BY KeptIsADepth DEF Kept
<1>4. k \notin S
  <2>1. k \in Nat /\ Kept(tag) \in Nat /\ \A j \in S : j <= Kept(tag)
    BY <1>1, <1>2, <1>3
  <2> HIDE DEF S
  <2> QED
    BY <2>1
<1>5. open[k].tag \in Tag /\ ClosedByStart[open[k].tag] # {}
  BY <1>1, <1>4 DEF Frame
<1> QED
  BY <1>5, TagAssumption

LEMMA StartStep ==
    ASSUME GateInv, GateTypeOK', FedInv, HandleStart
    PROVE  /\ \E d \in 0..Len(open) :
                 Started(d, Fed + 1) /\ Len(elements'[Len(elements) + 1].locator) = d + 1
           /\ \E j, i : j = Len(elements) + 1 /\ i = Fed + 1 /\ Of(j, i)'
           /\ DOMAIN elements' = DOMAIN elements \cup {Len(elements) + 1}
           /\ \A j \in DOMAIN elements : elements'[j] = elements[j]
<1> DEFINE i == Fed + 1
           tag == Head(todo).tag
           d == Kept(tag)
<1>1. GateTypeOK
  BY DEF GateInv
<1>2. /\ Fed \in Nat /\ i \in DOMAIN fragment /\ fragment[i] = Head(todo)
      /\ fragment' = fragment /\ Head(todo) \in Token
  BY <1>1, TokenIsFed DEF HandleStart
<1>3. Head(todo).kind \in {"start", "startend"} /\ tag \in Tag
  BY <1>2 DEF HandleStart, Token
<1>4. d \in 0..Len(open) /\ Len(open) \in Nat /\ DOMAIN open = 1..Len(open)
  BY <1>1, KeptIsADepth DEF GateTypeOK
<1>5. /\ SubSeq(open, 1, d) \in Seq(Frame) /\ Len(SubSeq(open, 1, d)) = d
      /\ \A k \in 1..d : SubSeq(open, 1, d)[k] = open[k]
  BY <1>1, <1>4, Cut
<1>6. PICK locator :
         /\ locator = Append(IF d = 0 THEN <<>> ELSE open[d].locator,
                             <<tag, CountsDownTo(d)[d + 1][tag] + 1>>)
         /\ elements' = Append(elements, [tag |-> tag, span |-> Head(todo).span,
                                          attr |-> Head(todo).attr, locator |-> locator])
         /\ IF Head(todo).kind = "startend" \/ tag \in Void
              THEN open' = SubSeq(open, 1, d)
              ELSE open' = Append(SubSeq(open, 1, d), [tag |-> tag, locator |-> locator])
  BY DEF HandleStart
<1> HIDE DEF d, tag
<1>7. Started(d, i)
  <2>1. \A k \in DOMAIN open : k > d => open[k].tag \in Optional
    BY <1>1, <1>3, ClosesOptional DEF d
  <2>2. CASE Head(todo).kind = "startend" \/ tag \in Void
    BY <1>2, <1>4, <1>5, <1>6, <2>1, <2>2 DEF Started, tag
  <2>3. CASE ~(Head(todo).kind = "startend" \/ tag \in Void)
    <3>1. open' = Append(SubSeq(open, 1, d), [tag |-> tag, locator |-> locator])
      BY <1>6, <2>3
    <3>2. /\ Len(open') = d + 1 /\ open'[d + 1] = [tag |-> tag, locator |-> locator]
          /\ \A k \in 1..d : open'[k] = SubSeq(open, 1, d)[k]
      BY <1>4, <1>5, <3>1
    <3> QED
      BY <1>2, <1>3, <1>4, <1>5, <2>1, <2>3, <3>2 DEF Started, tag
  <2> QED
    BY <2>2, <2>3
<1>8. elements \in Seq(Element) /\ elements' \in Seq(Element)
  BY <1>1 DEF GateTypeOK
<1>9. /\ DOMAIN elements' = DOMAIN elements \cup {Len(elements) + 1}
      /\ \A j \in DOMAIN elements : elements'[j] = elements[j]
      /\ elements'[Len(elements) + 1] =
            [tag |-> tag, span |-> Head(todo).span, attr |-> Head(todo).attr,
             locator |-> locator]
  BY <1>6, <1>8
<1>10. \E j, x : j = Len(elements) + 1 /\ x = i /\ Of(j, x)'
  <2>1. PICK j, x : j = Len(elements) + 1 /\ x = i
    OBVIOUS
  <2>2. Of(j, x)'
    BY <1>2, <1>9, <2>1 DEF Of, tag
  <2> QED
    BY <2>1, <2>2
<1>11. Len(locator) = d + 1
  <2>1. CASE d = 0
    BY <1>6, <2>1
  <2>2. CASE d # 0
    <3>1. d \in 1..Len(open) /\ open \in Seq(Frame)
      BY <1>1, <1>4, <2>2 DEF GateTypeOK
    <3>2. open[d] \in Frame /\ Len(open[d].locator) = d
      BY <3>1 DEF GateInv, GrownInv
    <3>3. open[d].locator \in Seq(Tag \X Nat)
      BY <3>2 DEF Frame, Locator
    <3> QED
      BY <1>6, <2>2, <3>2, <3>3
  <2> QED
    BY <2>1, <2>2
<1> QED
  BY <1>4, <1>7, <1>9, <1>10, <1>11

(* handle_starttag and handle_startendtag.                                 *)
LEMMA StartKeepsExact ==
    ASSUME GateInv, ExactInv, GateTypeOK', HandleStart
    PROVE  ExactInv'
<1> DEFINE i == Fed + 1
           new == Len(elements) + 1
<1>1. GateTypeOK /\ FedInv /\ VerdictInv /\ TokenInv /\ NestInv /\ SoundInv
  BY DEF GateInv, ExactInv
<1>2. /\ todo # <<>> /\ todo' = Tail(todo) /\ Head(todo).kind \in {"start", "startend"}
      /\ UNCHANGED <<fragment, faults, moved, verdict, violations>>
  BY DEF HandleStart
<1>3. /\ Fed \in Nat /\ Fed' = i /\ i \in DOMAIN fragment
      /\ fragment[i] = Head(todo) /\ fragment[i] \in Token /\ FedInv'
  BY <1>1, <1>2, TokenIsFed
<1>4. i \notin Ends /\ Opens(fragment[i])
  BY <1>1, <1>2, <1>3, PlacesAre DEF Opens
<1>5. \A x \in 1..Fed' : x \in 1..Fed \/ x = i
  BY <1>3
<1>6. 1..Fed \subseteq 1..Fed' /\ i \in 1..Fed'
  BY <1>3
<1>7. PICK d \in 0..Len(open) :
         Started(d, i) /\ Len(elements'[Len(elements) + 1].locator) = d + 1
  BY <1>1, StartStep
<1>8. /\ DOMAIN elements' = DOMAIN elements \cup {new}
      /\ \A j \in DOMAIN elements : elements'[j] = elements[j]
  BY <1>1, StartStep
<1>9. PICK n, z : n = new /\ z = i /\ Of(n, z)'
  BY <1>1, StartStep
<1>10. \A j \in DOMAIN elements : \A x : Of(j, x)' <=> Of(j, x)
  BY <1>2, <1>8 DEF Of
<1>11. /\ d \in Nat /\ Len(open) \in Nat /\ Len(open') \in Nat
       /\ \A k : k \in DOMAIN open <=> k \in 1..Len(open)
       /\ \A k : k \in DOMAIN open' <=> k \in 1..Len(open')
  <2>1. open \in Seq(Frame) /\ open' \in Seq(Frame)
    BY <1>1 DEF GateTypeOK
  <2> QED
    BY <2>1
<1>12. \A k \in DOMAIN open : k > d => open[k].tag \in Optional
  BY <1>7 DEF Started
<1>13. \A k \in 1..d : k \in DOMAIN open /\ open'[k] = open[k]
  BY <1>7 DEF Started
<1>14. \/ Len(open') = d /\ (fragment[i].kind = "startend" \/ fragment[i].tag \in Void)
       \/ /\ Len(open') = d + 1 /\ open'[d + 1].tag = fragment[i].tag
          /\ fragment[i].kind = "start" /\ fragment[i].tag \notin Void
  BY <1>7 DEF Started
<1>15. Len(open') = d \/ Len(open') = d + 1
  BY <1>14
<1>16. Fed \in Nat /\ i \in Nat /\ i = Fed + 1 /\ Fed' = i
  BY <1>3
<1>17. d \in Nat
  OBVIOUS
<1>18. Len(elements'[new].locator) = d + 1
  BY <1>7
<1> HIDE DEF i, new
<1>19. VerdictInv'
  BY <1>1, <1>2 DEF VerdictInv
<1>20. TokenInv'
  <2>1. ASSUME NEW x \in 1..Fed'
        PROVE  /\ Opens(fragment[x]) => \E j \in DOMAIN elements' : Of(j, x)'
               /\ fragment[x].kind = "decl" => "declaration" \in faults
               /\ fragment[x].kind = "end" /\ fragment[x].tag \in Void => "stray" \in faults
    <3>1. CASE x \in 1..Fed
      BY <1>1, <1>8, <1>10, <3>1 DEF TokenInv
    <3>2. CASE x = i
      <4>1. n \in DOMAIN elements' /\ Of(n, x)'
        BY <1>8, <1>9, <3>2
      <4>2. fragment[x].kind \notin {"decl", "end"}
        BY <1>2, <1>3, <3>2
      <4> QED
        BY <4>1, <4>2
    <3> QED
      BY <1>5, <3>1, <3>2
  <2>2. ASSUME NEW j \in DOMAIN elements'
        PROVE  \E x \in 1..Fed' : Opens(fragment[x]) /\ Of(j, x)'
    <3>1. CASE j \in DOMAIN elements
      BY <1>1, <1>6, <1>10, <3>1 DEF TokenInv
    <3>2. CASE j = new
      BY <1>4, <1>6, <1>9, <3>2
    <3> QED
      BY <1>8, <3>1, <3>2
  <2>3. ASSUME NEW k \in DOMAIN open'
        PROVE  \E x \in 1..Fed' : Opens(fragment[x]) /\ fragment[x].tag = open'[k].tag
    <3>1. CASE k <= d
      <4>1. k \in DOMAIN open /\ open'[k] = open[k]
        <5>1. k \in 1..d
          BY <1>11, <3>1
        <5> QED
          BY <1>13, <5>1
      <4> QED
        BY <1>1, <1>6, <4>1 DEF TokenInv
    <3>2. CASE ~(k <= d)
      <4>1. open'[k].tag = fragment[i].tag
        <5>1. k \in 1..Len(open') /\ k > d
          BY <1>11, <3>2
        <5>2. k = d + 1 /\ Len(open') = d + 1
          BY <1>11, <1>15, <5>1
        <5> QED
          BY <1>11, <1>14, <5>2
      <4> QED
        BY <1>4, <1>6, <4>1
    <3> QED
      BY <3>1, <3>2
  <2> QED
    BY <1>2, <2>1, <2>2, <2>3 DEF TokenInv
<1>21. Pending \subseteq 1..d /\ Pending \subseteq Nat
  <2> SUFFICES ASSUME NEW k \in Pending PROVE k \in 1..d /\ k \in Nat
    OBVIOUS
  <2>1. k \in 1..Len(open) /\ ~(k > d)
    BY <1>11, <1>12 DEF Pending
  <2> QED
    BY <1>11, <2>1
<1>22. \A k \in Pending : open'[k] = open[k]
  BY <1>21, <1>13
<1>23. i \in Starts => Len(open') = d + 1 /\ open'[d + 1].tag = fragment[i].tag
  BY <1>1, <1>14, PlacesAre
<1>24. Pending' = IF i \in Starts THEN Pending \cup {d + 1} ELSE Pending
  <2>1. \A k \in 1..d : k \in Pending' <=> k \in Pending
    <3> SUFFICES ASSUME NEW k \in 1..d PROVE k \in Pending' <=> k \in Pending
      OBVIOUS
    <3>1. k \in DOMAIN open /\ k \in DOMAIN open' /\ open'[k] = open[k]
      BY <1>11, <1>13, <1>14
    <3> QED
      BY <3>1 DEF Pending
  <2>2. \A k \in Pending' : k \in 1..d \/ k = d + 1
    <3> SUFFICES ASSUME NEW k \in Pending' PROVE k \in 1..d \/ k = d + 1
      OBVIOUS
    <3>1. k \in 1..Len(open')
      BY <1>11 DEF Pending
    <3> QED
      BY <1>11, <1>15, <3>1
  <2>3. d + 1 \in Pending' <=> i \in Starts
    <3>1. CASE Len(open') = d
      <4>1. fragment[i].kind = "startend" \/ fragment[i].tag \in Void
        BY <1>11, <1>14, <3>1
      <4>2. i \notin Starts
        BY <1>1, <4>1, PlacesAre
      <4>3. d + 1 \notin DOMAIN open'
        BY <1>11, <3>1
      <4> QED
        BY <4>2, <4>3 DEF Pending
    <3>2. CASE Len(open') # d
      <4>1. /\ Len(open') = d + 1 /\ open'[d + 1].tag = fragment[i].tag
            /\ fragment[i].kind = "start" /\ fragment[i].tag \notin Void
        BY <1>14, <3>2
      <4>2. d + 1 \in DOMAIN open'
        BY <1>11, <4>1
      <4>3. i \in Starts <=> fragment[i].tag \notin Optional
        BY <1>1, <1>3, <4>1, PlacesAre
      <4> QED
        BY <4>1, <4>2, <4>3 DEF Pending
    <3> QED
      BY <3>1, <3>2
  <2>4. CASE i \in Starts
    BY <1>21, <2>1, <2>2, <2>3, <2>4
  <2>5. CASE i \notin Starts
    <3>1. \A k : k \in Pending' <=> k \in Pending
      BY <1>21, <2>1, <2>2, <2>3, <2>5
    <3> QED
      BY <2>5, <3>1
  <2> QED
    BY <2>4, <2>5
<1>25. NestInv'
  <2> SUFFICES ASSUME faults \cap {"unclosed", "stray", "mismatched"} = {}
               PROVE  \E at, done, end :
                         Follows(at)' /\ Pairs(at, done, end)' /\ Noted(at, done, end)'
    BY <1>2 DEF NestInv
  <2>1. PICK at, done, end : Follows(at) /\ Pairs(at, done, end) /\ Noted(at, done, end)
    BY <1>1 DEF NestInv
  <2>2. \A k \in Pending : at[k] \in Starts /\ at[k] \in Nat /\ at[k] <= Fed
    BY <1>1, <2>1, PlacesAre DEF Follows
  <2>3. /\ Starts' = Starts /\ Ends' = Ends /\ Starts \subseteq Nat /\ Ends \subseteq Nat
        /\ NoneOptional' <=> NoneOptional
    BY <1>1, <1>2, PlacesAre, FragmentStays
  <2>4. \E new_at : /\ Follows(new_at)' /\ Pairs(new_at, done, end)'
                    /\ \A k \in Pending : k \in Pending' /\ new_at[k] = at[k]
    <3>1. CASE i \in Starts
      <4>1. PICK on : on = [k \in Pending' |-> IF k = d + 1 THEN i ELSE at[k]]
        OBVIOUS
      <4>2. Pending' = Pending \cup {d + 1} /\ d + 1 \notin Pending
        BY <1>11, <1>21, <1>24, <3>1
      <4>3. on[d + 1] = i /\ \A k \in Pending : k \in Pending' /\ on[k] = at[k]
        BY <4>1, <4>2
      <4>4. on \in [Pending' -> Starts]
        BY <2>2, <3>1, <4>1, <4>2
      <4>5. Follows(on)'
        <5>1. \A k \in Pending' : on[k] <= i /\ fragment[on[k]].tag = open'[k].tag
          <6>1. on[d + 1] <= i /\ fragment[on[d + 1]].tag = open'[d + 1].tag
            BY <1>16, <1>23, <3>1, <4>3
          <6>2. \A k \in Pending : on[k] <= i /\ fragment[on[k]].tag = open'[k].tag
            BY <1>16, <1>22, <2>1, <2>2, <4>3 DEF Follows
          <6> QED
            BY <4>2, <6>1, <6>2
        <5>2. ASSUME NEW k \in Pending', NEW l \in Pending', k < l
              PROVE  on[k] < on[l]
          <6>1. k \in Pending
            BY <1>11, <1>21, <4>2, <5>2
          <6>2. CASE l \in Pending
            BY <2>1, <4>3, <5>2, <6>1, <6>2 DEF Follows
          <6>3. CASE l = d + 1
            BY <1>16, <2>2, <4>3, <6>1, <6>3
          <6> QED
            BY <4>2, <6>2, <6>3
        <5> QED
          <6>1. fragment' = fragment /\ Starts' = Starts
            BY <1>2, <2>3
          <6>2. \A k \in Pending' : on[k] <= Fed' /\ fragment'[on[k]].tag = open'[k].tag
            BY <1>16, <5>1, <6>1
          <6> QED
            BY <4>4, <5>2, <6>1, <6>2 DEF Follows
      <4>6. Pairs(on, done, end)'
        <5>1. done \in SUBSET Starts /\ end \in [done -> Ends]
          BY <2>1 DEF Pairs
        <5>2. \A s \in done : /\ s < end[s] /\ end[s] <= Fed /\ end[s] <= i /\ end[s] < i
                              /\ s \in Nat /\ s < i
                              /\ fragment[s].tag = fragment[end[s]].tag
          <6> SUFFICES ASSUME NEW s \in done
                       PROVE  /\ s < end[s] /\ end[s] <= Fed /\ end[s] <= i /\ end[s] < i
                              /\ s \in Nat /\ s < i
                              /\ fragment[s].tag = fragment[end[s]].tag
            OBVIOUS
          <6>1. s \in Nat /\ end[s] \in Nat
            BY <2>3, <5>1
          <6> QED
            BY <1>16, <2>1, <6>1 DEF Pairs
        <5>3. ASSUME NEW s \in Starts, s <= i
              PROVE  s \in done \/ \E k \in Pending' : on[k] = s
          <6>1. CASE s = i
            BY <4>2, <4>3, <6>1
          <6>2. CASE s # i
            <7>1. s <= Fed
              BY <1>16, <2>3, <5>3, <6>2
            <7> QED
              BY <2>1, <4>3, <7>1 DEF Pairs
          <6> QED
            BY <6>1, <6>2
        <5>4. ASSUME NEW e \in Ends, e <= i
              PROVE  \E s \in done : end[s] = e
          <6>1. e <= Fed
            BY <1>16, <1>4, <2>3, <5>4
          <6> QED
            BY <2>1, <6>1 DEF Pairs
        <5>5. ASSUME NEW k \in Pending'
              PROVE  on[k] \notin done /\ \A s \in done : s < on[k] => end[s] < on[k]
          <6>1. CASE k \in Pending
            BY <2>1, <4>3, <6>1 DEF Pairs
          <6>2. CASE k = d + 1
            BY <1>16, <4>3, <5>2, <6>2
          <6> QED
            BY <4>2, <6>1, <6>2
        <5>6. /\ \A s, t \in done : end[s] = end[t] => s = t
              /\ \A s, t \in done : s < t /\ t < end[s] => end[t] < end[s]
          BY <2>1 DEF Pairs
        <5> QED
          BY <1>2, <1>3, <2>3, <5>1, <5>2, <5>3, <5>4, <5>5, <5>6 DEF Pairs
      <4> QED
        BY <4>3, <4>5, <4>6
    <3>2. CASE i \notin Starts
      <4>1. Pending' = Pending /\ Fed + 1 \notin Starts \cup Ends
        BY <1>4, <1>24, <1>16, <3>2
      <4>2. Follows(at)' /\ Pairs(at, done, end)'
        <5>1. Fed' = Fed + 1 /\ Pending' = Pending
          BY <1>16, <4>1
        <5>2. FedInv' /\ fragment' = fragment
          BY <1>2, <1>3
        <5> QED
          BY <1>1, <1>22, <2>1, <4>1, <5>1, <5>2, NestStays
      <4> QED
        BY <4>1, <4>2
    <3> QED
      BY <3>1, <3>2
  <2>5. PICK on : /\ Follows(on)' /\ Pairs(on, done, end)'
                  /\ \A k \in Pending : k \in Pending' /\ on[k] = at[k]
    BY <2>4
  <2>6. Noted(on, done, end)'
    <3> SUFFICES ASSUME NoneOptional, NEW x \in 1..Fed'
                 PROVE  /\ fragment[x].kind = "text" =>
                              "loose-text" \in faults \/ Around(on, done, end, x)'
                        /\ Opens(fragment[x]) =>
                              \/ Around(on, done, end, x)'
                              \/ \E j \in DOMAIN elements' :
                                    Of(j, x)' /\ Len(elements'[j].locator) = 1
      BY <1>2, <2>3 DEF Noted
    <3>1. Around(at, done, end, x) => Around(on, done, end, x)'
      BY <2>5 DEF Around
    <3>2. CASE x \in 1..Fed
      BY <1>8, <1>10, <2>1, <3>1, <3>2 DEF Noted
    <3>3. CASE x = i
      <4>1. fragment[x].kind # "text"
        BY <1>2, <1>3, <3>3
      <4>2. CASE d = 0
        <5>1. n \in DOMAIN elements' /\ Of(n, x)' /\ Len(elements'[n].locator) = 1
          BY <1>7, <1>8, <1>9, <3>3, <4>2 DEF new
        <5> QED
          BY <4>1, <5>1
      <4>3. CASE d # 0
        <5>1. d \in Pending
          BY <1>1, <1>11, <4>3, AllPending
        <5>2. at[d] < x
          BY <1>16, <2>2, <3>3, <5>1
        <5> QED
          BY <3>1, <4>1, <5>1, <5>2 DEF Around
      <4> QED
        BY <4>2, <4>3
    <3> QED
      BY <1>5, <3>2, <3>3
  <2> QED
    BY <2>5, <2>6
<1>26. SoundInv'
  <2> SUFFICES ASSUME NEW end, Ordered(end)
               PROVE  /\ faults = {}
                      /\ \E at : Awaits(at, end)'
                      /\ \A j \in DOMAIN elements' : Len(elements'[j].locator) = 1 =>
                            \E x \in 1..Fed' : Opens(fragment[x]) /\ Of(j, x)'
                                               /\ ~Enclosed(x, end)
    BY <1>2, FragmentStays DEF SoundInv
  <2>1. /\ faults = {}
        /\ \A j \in DOMAIN elements : Len(elements[j].locator) = 1 =>
              \E x \in 1..Fed : Opens(fragment[x]) /\ Of(j, x) /\ ~Enclosed(x, end)
    BY <1>1 DEF SoundInv
  <2>2. PICK at : Awaits(at, end)
    BY <1>1 DEF SoundInv
  <2>3. /\ end \in [Starts -> Ends] /\ Starts \subseteq Nat /\ Ends \subseteq Nat
        /\ Starts' = Starts /\ Ends' = Ends /\ NoneOptional /\ Matches(end)
    BY <1>1, <1>2, PlacesAre, FragmentStays DEF Ordered, Bijection, Injection
  <2>4. \A s \in Starts : i < end[s] <=> Fed < end[s]
    <3> SUFFICES ASSUME NEW s \in Starts PROVE i < end[s] <=> Fed < end[s]
      OBVIOUS
    <3>1. end[s] \in Nat /\ end[s] # i
      BY <1>4, <2>3
    <3> QED
      BY <1>16, <3>1
  <2>5. d = Len(open) /\ Pending = 1..d
    <3>1. Pending = DOMAIN open
      BY <1>1, <2>3, AllPending
    <3>2. Len(open) <= d
      BY <1>11, <1>21, <3>1
    <3> QED
      BY <1>11, <3>1, <3>2
  <2>6. \A k \in 1..d : /\ at[k] \in Starts /\ at[k] \in Nat /\ at[k] <= Fed /\ at[k] < i
                        /\ i < end[at[k]] /\ fragment[at[k]].tag = open'[k].tag
    <3> SUFFICES ASSUME NEW k \in 1..d
                 PROVE  /\ at[k] \in Starts /\ at[k] \in Nat /\ at[k] <= Fed /\ at[k] < i
                        /\ i < end[at[k]] /\ fragment[at[k]].tag = open'[k].tag
      OBVIOUS
    <3>1. /\ at[k] \in Starts /\ at[k] <= Fed /\ Fed < end[at[k]]
          /\ fragment[at[k]].tag = open[k].tag
      BY <1>11, <2>2, <2>5 DEF Awaits
    <3>2. open'[k] = open[k]
      BY <1>22, <2>5
    <3> QED
      <4>1. at[k] \in Nat
        BY <2>3, <3>1
      <4>2. at[k] < i
        BY <1>16, <3>1, <4>1
      <4> QED
        BY <2>4, <3>1, <3>2, <4>1, <4>2
  <2>7. \A s \in Starts : s <= i /\ i < end[s] => s = i \/ \E k \in 1..d : at[k] = s
    <3> SUFFICES ASSUME NEW s \in Starts, s <= i, i < end[s], s # i
                 PROVE  \E k \in 1..d : at[k] = s
      OBVIOUS
    <3>1. s <= Fed /\ Fed < end[s]
      BY <1>16, <2>3, <2>4
    <3> QED
      BY <1>11, <2>2, <2>5, <3>1 DEF Awaits
  <2>8. \E on : Awaits(on, end)'
    <3>1. CASE i \in Starts
      <4>1. PICK on : on = [k \in DOMAIN open' |-> IF k = d + 1 THEN i ELSE at[k]]
        OBVIOUS
      <4>2. DOMAIN open' = 1..(d + 1)
        BY <1>11, <1>23, <3>1
      <4>3. on[d + 1] = i /\ (\A k \in 1..d : on[k] = at[k])
            /\ \A k \in DOMAIN open' : k \in 1..d \/ k = d + 1
        BY <1>11, <4>1, <4>2
      <4>4. on \in [DOMAIN open' -> Starts]
        BY <2>6, <3>1, <4>1, <4>2
      <4>5. i <= i /\ i < end[i]
        BY <1>16, <2>3, <3>1 DEF Matches
      <4>6. \A k \in DOMAIN open' : /\ on[k] <= i /\ i < end[on[k]]
                                    /\ fragment[on[k]].tag = open'[k].tag
        <5> SUFFICES ASSUME NEW k \in DOMAIN open'
                     PROVE  /\ on[k] <= i /\ i < end[on[k]]
                            /\ fragment[on[k]].tag = open'[k].tag
          OBVIOUS
        <5>1. CASE k \in 1..d
          BY <1>16, <2>6, <4>3, <5>1
        <5>2. CASE k = d + 1
          BY <1>23, <3>1, <4>3, <4>5, <5>2
        <5> QED
          BY <4>3, <5>1, <5>2
      <4>7. ASSUME NEW k \in DOMAIN open', NEW l \in DOMAIN open', k < l
            PROVE  on[k] < on[l]
        <5>1. k \in 1..d
          BY <1>11, <4>2, <4>3, <4>7
        <5>2. CASE l \in 1..d
          BY <1>11, <2>2, <2>5, <4>3, <4>7, <5>1, <5>2 DEF Awaits
        <5>3. CASE l = d + 1
          BY <2>6, <4>3, <5>1, <5>3
        <5> QED
          BY <4>3, <5>2, <5>3
      <4>8. \A s \in Starts : s <= i /\ i < end[s] => \E k \in DOMAIN open' : on[k] = s
        BY <1>11, <2>7, <4>2, <4>3
      <4>9. Awaits(on, end)'
        BY <1>2, <1>16, <2>3, <4>4, <4>6, <4>7, <4>8 DEF Awaits
      <4> QED
        BY <4>9
    <3>2. CASE i \notin Starts
      <4>1. Pending' = 1..d /\ Len(open') = d
        <5>1. Pending' = 1..d
          BY <1>24, <2>5, <3>2
        <5>2. Len(open') # d + 1
          <6> SUFFICES ASSUME Len(open') = d + 1 PROVE FALSE
            OBVIOUS
          <6>1. fragment[i].kind = "start" /\ fragment[i].tag \notin Void
            BY <1>11, <1>14
          <6>2. fragment[i].tag \notin Optional
            BY <1>3, <2>3, <6>1 DEF NoneOptional
          <6> QED
            BY <1>1, <1>3, <3>2, <6>1, <6>2, PlacesAre
        <5> QED
          BY <1>14, <5>1, <5>2
      <4>2. DOMAIN open' = 1..d /\ DOMAIN open = 1..d
        BY <1>11, <2>5, <4>1
      <4>3. at \in [DOMAIN open' -> Starts]
        BY <2>2, <4>2 DEF Awaits
      <4>4. \A k, l \in DOMAIN open' : k < l => at[k] < at[l]
        BY <2>2, <4>2 DEF Awaits
      <4>5. \A s \in Starts : s <= i /\ i < end[s] => \E k \in DOMAIN open' : at[k] = s
        BY <2>7, <3>2, <4>2
      <4>6. Awaits(at, end)'
        BY <1>2, <1>16, <2>3, <2>6, <4>2, <4>3, <4>4, <4>5 DEF Awaits
      <4> QED
        BY <4>6
    <3> QED
      BY <3>1, <3>2
  <2>9. ASSUME NEW j \in DOMAIN elements', Len(elements'[j].locator) = 1
        PROVE  \E x \in 1..Fed' : Opens(fragment[x]) /\ Of(j, x)' /\ ~Enclosed(x, end)
    <3>1. CASE j \in DOMAIN elements
      BY <1>6, <1>8, <1>10, <2>1, <2>9, <3>1
    <3>2. CASE j = new
      <4>1. d = 0
        <5>1. d + 1 = 1
          BY <1>18, <2>9, <3>2
        <5> QED
          BY <1>17, <5>1
      <4>2. ~Enclosed(i, end)
        <5> SUFFICES ASSUME NEW s \in Starts, s < i, i < end[s] PROVE FALSE
          BY DEF Enclosed
        <5>1. s <= i /\ s # i
          BY <1>16, <2>3
        <5> QED
          BY <2>7, <4>1, <5>1
      <4> QED
        BY <1>4, <1>6, <1>9, <3>2, <4>2
    <3> QED
      BY <1>8, <3>1, <3>2
  <2> QED
    BY <2>1, <2>8, <2>9
<1> QED
  BY <1>3, <1>19, <1>20, <1>25, <1>26 DEF ExactInv

(* handle_endtag: a stray tag, or the top of the open elements goes.       *)
LEMMA EndKeepsExact ==
    ASSUME GateInv, ExactInv, GateTypeOK', HandleEnd
    PROVE  ExactInv'
<1> DEFINE i == Fed + 1
           tag == Head(todo).tag
           named == {k \in DOMAIN open : open[k].tag = tag}
           stray == tag \in Void \/ named = {}
           depth == Largest(named)
<1>1. GateTypeOK /\ FedInv /\ VerdictInv /\ TokenInv /\ NestInv /\ SoundInv
  BY DEF GateInv, ExactInv
<1>2. /\ todo # <<>> /\ todo' = Tail(todo) /\ Head(todo).kind = "end"
      /\ UNCHANGED <<fragment, elements, moved, verdict, violations>>
      /\ faults \subseteq faults'
  BY DEF HandleEnd
<1>3. stray => "stray" \in faults' /\ open' = open
  BY DEF HandleEnd
<1>4. ~stray => /\ open' = SubSeq(open, 1, depth - 1)
                /\ Forced(depth) = {} => faults' = faults
                /\ Forced(depth) # {} => "mismatched" \in faults'
  BY DEF HandleEnd
<1>5. FedInv' /\ i \in DOMAIN fragment /\ fragment[i] = Head(todo) /\ fragment[i] \in Token
  BY <1>1, <1>2, TokenIsFed
<1>6. Fed \in Nat /\ i \in Nat /\ i = Fed + 1 /\ Fed' = i
  BY <1>1, <1>2, TokenIsFed
<1>7. /\ Len(open) \in Nat /\ Len(open') \in Nat
      /\ \A k : k \in DOMAIN open <=> k \in 1..Len(open)
      /\ \A k : k \in DOMAIN open' <=> k \in 1..Len(open')
  BY <1>1 DEF GateTypeOK
<1>8. ~stray => /\ depth \in DOMAIN open /\ depth \in Nat /\ open[depth].tag = tag
                /\ \A k \in named : k <= depth
  <2> SUFFICES ASSUME ~stray
               PROVE  /\ depth \in DOMAIN open /\ depth \in Nat /\ open[depth].tag = tag
                      /\ \A k \in named : k <= depth
    OBVIOUS
  <2>1. named \subseteq 0..Len(open) /\ named # {}
    BY <1>7
  <2>2. depth \in named /\ \A k \in named : k <= depth
    BY <1>7, <2>1, LargestOf
  <2> QED
    BY <1>7, <2>2
<1>9. ~stray => /\ Len(open') = depth - 1
                /\ \A k \in 1..(depth - 1) : k \in DOMAIN open /\ open'[k] = open[k]
  <2> SUFFICES ASSUME ~stray
               PROVE  /\ Len(open') = depth - 1
                      /\ \A k \in 1..(depth - 1) : k \in DOMAIN open /\ open'[k] = open[k]
    OBVIOUS
  <2>1. depth \in 1..Len(open) /\ depth - 1 \in 0..Len(open)
    BY <1>7, <1>8
  <2>2. /\ Len(SubSeq(open, 1, depth - 1)) = depth - 1
        /\ \A k \in 1..(depth - 1) : SubSeq(open, 1, depth - 1)[k] = open[k]
    BY <1>1, <2>1, Cut
  <2>3. \A k \in 1..(depth - 1) : k \in DOMAIN open
    BY <1>7, <2>1
  <2> QED
    BY <1>4, <2>2, <2>3
<1>10. fragment[i].kind = "end" /\ fragment[i].tag = tag
  BY <1>2, <1>5
<1>11. i \notin Starts /\ ~Opens(fragment[i])
  BY <1>1, <1>10, PlacesAre DEF Opens
<1>12. i \in Ends <=> tag \notin Void /\ tag \notin Optional
  BY <1>1, <1>5, <1>10, PlacesAre
<1>13. Forced(depth) = {k \in DOMAIN open : k > depth /\ open[k].tag \notin Optional}
  BY DEF Forced
<1>14. stray \/ ~stray
  OBVIOUS
<1>15. named = {k \in DOMAIN open : open[k].tag = tag}
  OBVIOUS
<1>16. stray <=> tag \in Void \/ named = {}
  OBVIOUS
<1> HIDE DEF i, tag, named, stray, depth
<1>17. \A x \in 1..Fed' : x \in 1..Fed \/ x = i
  BY <1>6
<1>18. 1..Fed \subseteq 1..Fed'
  BY <1>6
<1>19. VerdictInv'
  BY <1>1, <1>2 DEF VerdictInv
<1>20. \A j, x : Of(j, x)' <=> Of(j, x)
  BY <1>2 DEF Of
<1>21. \A k \in DOMAIN open' : k \in DOMAIN open /\ open'[k] = open[k]
  BY <1>3, <1>7, <1>9, <1>14
<1>22. TokenInv'
  <2>1. fragment[i].tag \in Void => "stray" \in faults'
    BY <1>3, <1>10, <1>16
  <2>2. ASSUME NEW x \in 1..Fed'
        PROVE  /\ Opens(fragment[x]) => \E j \in DOMAIN elements : Of(j, x)
               /\ fragment[x].kind = "decl" => "declaration" \in faults'
               /\ fragment[x].kind = "end" /\ fragment[x].tag \in Void => "stray" \in faults'
    <3>1. CASE x \in 1..Fed
      BY <1>1, <1>2, <3>1 DEF TokenInv
    <3>2. CASE x = i
      BY <1>10, <1>11, <2>1, <3>2
    <3> QED
      BY <1>17, <3>1, <3>2
  <2>3. \A j \in DOMAIN elements : \E x \in 1..Fed' : Opens(fragment[x]) /\ Of(j, x)
    BY <1>1, <1>18 DEF TokenInv
  <2>4. \A k \in DOMAIN open' :
           \E x \in 1..Fed' : Opens(fragment[x]) /\ fragment[x].tag = open'[k].tag
    BY <1>1, <1>18, <1>21 DEF TokenInv
  <2> QED
    BY <1>2, <1>20, <2>2, <2>3, <2>4 DEF TokenInv
<1>23. Starts' = Starts /\ Ends' = Ends /\ Starts \subseteq Nat /\ Ends \subseteq Nat
       /\ (NoneOptional' <=> NoneOptional)
  BY <1>1, <1>2, PlacesAre, FragmentStays
<1>24. NestInv'
  <2> SUFFICES ASSUME faults' \cap {"unclosed", "stray", "mismatched"} = {}
               PROVE  \E at, done, end :
                         Follows(at)' /\ Pairs(at, done, end)' /\ Noted(at, done, end)'
    BY DEF NestInv
  <2>1. ~stray /\ Forced(depth) = {} /\ faults' = faults
    <3>1. "stray" \notin faults' /\ "mismatched" \notin faults'
      OBVIOUS
    <3> QED
      BY <1>3, <1>4, <3>1
  <2>2. PICK at, done, end : Follows(at) /\ Pairs(at, done, end) /\ Noted(at, done, end)
    BY <1>1, <2>1 DEF NestInv
  <2>3. \A k \in Pending : k \in Nat /\ k <= depth
    <3> SUFFICES ASSUME NEW k \in Pending PROVE k \in Nat /\ k <= depth
      OBVIOUS
    <3>1. k \in DOMAIN open /\ open[k].tag \notin Optional
      BY DEF Pending
    <3>2. ~(k > depth)
      BY <1>13, <2>1, <3>1
    <3>3. k \in Nat
      BY <1>7, <3>1
    <3> QED
      BY <1>8, <2>1, <3>2, <3>3
  <2>4. \A k : k \in Pending' <=> k \in Pending /\ k # depth
    <3> SUFFICES ASSUME NEW k PROVE k \in Pending' <=> k \in Pending /\ k # depth
      OBVIOUS
    <3>1. ASSUME k \in Pending'
          PROVE  k \in Pending /\ k # depth
      <4>1. k \in DOMAIN open' /\ open'[k].tag \notin Optional
        BY <3>1 DEF Pending
      <4>2. k \in Pending
        BY <1>21, <4>1 DEF Pending
      <4>3. k \in 1..(depth - 1)
        BY <1>7, <1>9, <2>1, <4>1
      <4> QED
        BY <1>8, <2>1, <4>2, <4>3
    <3>2. ASSUME k \in Pending, k # depth
          PROVE  k \in Pending'
      <4>1. k \in 1..Len(open) /\ open[k].tag \notin Optional
        BY <1>7, <3>2 DEF Pending
      <4>2. k \in 1..(depth - 1)
        BY <1>7, <1>8, <2>1, <2>3, <3>2, <4>1
      <4>3. k \in DOMAIN open' /\ open'[k] = open[k]
        BY <1>7, <1>9, <2>1, <4>2
      <4> QED
        BY <4>1, <4>3 DEF Pending
    <3> QED
      BY <3>1, <3>2
  <2>5. tag \notin Void
    BY <1>16, <2>1
  <2>6. \A k \in Pending : at[k] \in Starts /\ at[k] \in Nat /\ at[k] <= Fed
    BY <1>23, <2>2 DEF Follows
  <2>7. CASE tag \in Optional
    <3>1. depth \notin Pending
      BY <1>8, <2>1, <2>7 DEF Pending
    <3>2. Pending' = Pending /\ \A k \in Pending : open'[k] = open[k]
      <4>1. \A k : k \in Pending' <=> k \in Pending
        BY <2>4, <3>1
      <4>2. \A k \in Pending' : open'[k] = open[k]
        BY <1>21 DEF Pending
      <4> QED
        BY <4>1, <4>2
    <3>3. Fed' = Fed + 1 /\ Fed + 1 \notin Starts \cup Ends
      BY <1>6, <1>11, <1>12, <2>7
    <3>4. fragment' = fragment
      BY <1>2
    <3>5. Follows(at)' /\ Pairs(at, done, end)'
      BY <1>1, <1>5, <2>2, <3>2, <3>3, <3>4, NestStays
    <3>6. ~NoneOptional
      BY <1>5, <1>10, <2>7 DEF NoneOptional
    <3>7. Noted(at, done, end)'
      BY <1>23, <3>6 DEF Noted
    <3> QED
      BY <3>5, <3>7
  <2>8. CASE tag \notin Optional
    <3>1. depth \in Pending /\ i \in Ends
      BY <1>8, <1>12, <2>1, <2>5, <2>8 DEF Pending
    <3>2. PICK a : a = at[depth]
      OBVIOUS
    <3>3. PICK fore : fore = [k \in Pending' |-> at[k]]
      OBVIOUS
    <3>4. PICK gone : gone = done \cup {a}
      OBVIOUS
    <3>5. PICK last : last = [s \in gone |-> IF s = a THEN i ELSE end[s]]
      OBVIOUS
    <3>6. /\ a \in Starts /\ a \in Nat /\ a <= Fed /\ a < i
          /\ fragment[a].tag = tag /\ a \notin done
      <4>1. a \in Starts /\ a \in Nat /\ a <= Fed
        BY <2>6, <3>1, <3>2
      <4>2. a < i
        BY <1>6, <4>1
      <4>3. fragment[a].tag = open[depth].tag /\ a \notin done
        BY <2>2, <3>1, <3>2 DEF Follows, Pairs
      <4> QED
        BY <1>8, <2>1, <4>1, <4>2, <4>3
    <3>7. /\ \A k \in Pending' : /\ k \in Pending /\ fore[k] = at[k]
                                 /\ at[k] < a /\ at[k] <= i
          /\ fore \in [Pending' -> Starts]
      <4>1. \A k \in Pending' : k \in Pending /\ fore[k] = at[k]
        BY <2>4, <3>3
      <4>2. ASSUME NEW k \in Pending'
            PROVE  at[k] < a /\ at[k] <= i
        <5>1. k \in Pending /\ k < depth
          BY <1>8, <2>1, <2>3, <2>4
        <5>2. at[k] < a
          BY <2>2, <3>1, <3>2, <5>1 DEF Follows
        <5>3. at[k] \in Nat /\ at[k] <= Fed
          BY <2>6, <5>1
        <5> QED
          BY <1>6, <5>2, <5>3
      <4>3. fore \in [Pending' -> Starts]
        BY <2>6, <3>3, <4>1
      <4> QED
        BY <4>1, <4>2, <4>3
    <3>8. Follows(fore)'
      <4>1. \A k \in Pending' : fore[k] <= Fed' /\ fragment'[fore[k]].tag = open'[k].tag
        <5> SUFFICES ASSUME NEW k \in Pending'
                     PROVE  fore[k] <= Fed' /\ fragment'[fore[k]].tag = open'[k].tag
          OBVIOUS
        <5>1. fragment[at[k]].tag = open[k].tag
          BY <2>2, <3>7 DEF Follows
        <5>2. open'[k] = open[k]
          BY <1>21 DEF Pending
        <5> QED
          BY <1>2, <1>6, <3>7, <5>1, <5>2
      <4>2. \A k, l \in Pending' : k < l => fore[k] < fore[l]
        BY <2>2, <3>7 DEF Follows
      <4> QED
        BY <1>23, <3>7, <4>1, <4>2 DEF Follows
    <3>9. /\ gone \in SUBSET Starts /\ last \in [gone -> Ends]
          /\ last[a] = i
          /\ \A s \in done : s \in gone /\ last[s] = end[s]
          /\ \A s \in gone : s \in done \/ s = a
      <4>1. done \in SUBSET Starts /\ end \in [done -> Ends]
        BY <2>2 DEF Pairs
      <4> QED
        BY <3>1, <3>4, <3>5, <3>6, <4>1
    <3>10. \A s \in done : /\ s \in Nat /\ end[s] \in Nat /\ s < end[s] /\ end[s] <= Fed
                           /\ end[s] < i /\ fragment[s].tag = fragment[end[s]].tag
      <4> SUFFICES ASSUME NEW s \in done
                   PROVE  /\ s \in Nat /\ end[s] \in Nat /\ s < end[s] /\ end[s] <= Fed
                          /\ end[s] < i /\ fragment[s].tag = fragment[end[s]].tag
        OBVIOUS
      <4>1. s \in Starts /\ end[s] \in Ends
        BY <2>2 DEF Pairs
      <4>2. s < end[s] /\ end[s] <= Fed /\ fragment[s].tag = fragment[end[s]].tag
        BY <2>2 DEF Pairs
      <4>3. s \in Nat /\ end[s] \in Nat
        BY <1>23, <4>1
      <4>4. end[s] < i
        BY <1>6, <4>2, <4>3
      <4> QED
        BY <4>2, <4>3, <4>4
    <3>11. Pairs(fore, gone, last)'
      <4>1. ASSUME NEW s \in gone
            PROVE  s < last[s] /\ last[s] <= i /\ fragment[s].tag = fragment[last[s]].tag
        <5>1. CASE s = a
          BY <1>6, <1>10, <3>6, <3>9, <5>1
        <5>2. CASE s \in done
          BY <1>6, <3>9, <3>10, <5>2
        <5> QED
          BY <3>9, <5>1, <5>2
      <4>2. ASSUME NEW s \in Starts, s <= i
            PROVE  s \in gone \/ \E k \in Pending' : fore[k] = s
        <5>1. s <= Fed
          BY <1>6, <1>11, <1>23, <4>2
        <5>2. s \in done \/ \E k \in Pending : at[k] = s
          BY <2>2, <5>1 DEF Pairs
        <5>3. CASE s \in done
          BY <3>9, <5>3
        <5>4. CASE s \notin done
          <6>1. PICK k \in Pending : at[k] = s
            BY <5>2, <5>4
          <6>2. CASE k = depth
            BY <3>2, <3>4, <6>1, <6>2
          <6>3. CASE k # depth
            BY <2>4, <3>7, <6>1, <6>3
          <6> QED
            BY <6>2, <6>3
        <5> QED
          BY <5>3, <5>4
      <4>3. ASSUME NEW e \in Ends, e <= i
            PROVE  \E s \in gone : last[s] = e
        <5>1. CASE e = i
          BY <3>4, <3>9, <5>1
        <5>2. CASE e # i
          <6>1. e <= Fed
            BY <1>6, <1>23, <4>3, <5>2
          <6>2. PICK s \in done : end[s] = e
            BY <2>2, <6>1 DEF Pairs
          <6> QED
            BY <3>9, <6>2
        <5> QED
          BY <5>1, <5>2
      <4>4. ASSUME NEW s \in gone, NEW t \in gone, last[s] = last[t]
            PROVE  s = t
        <5>1. CASE s \in done /\ t \in done
          BY <2>2, <3>9, <4>4, <5>1 DEF Pairs
        <5>2. CASE s = a /\ t \in done
          BY <1>6, <3>9, <3>10, <4>4, <5>2
        <5>3. CASE t = a /\ s \in done
          BY <1>6, <3>9, <3>10, <4>4, <5>3
        <5> QED
          BY <3>9, <5>1, <5>2, <5>3
      <4>5. ASSUME NEW s \in gone, NEW t \in gone, s < t, t < last[s]
            PROVE  last[t] < last[s]
        <5>1. CASE s \in done /\ t \in done
          BY <2>2, <3>9, <4>5, <5>1 DEF Pairs
        <5>2. CASE s = a /\ t \in done
          BY <3>9, <3>10, <5>2
        <5>3. CASE t = a /\ s \in done
          <6>1. s < at[depth] => end[s] < at[depth]
            BY <2>2, <3>1, <5>3 DEF Pairs
          <6> QED
            BY <3>2, <3>6, <3>9, <3>10, <4>5, <5>3, <6>1
        <5>4. CASE s = a /\ t = a
          BY <3>6, <4>5, <5>4
        <5> QED
          BY <3>9, <5>1, <5>2, <5>3, <5>4
      <4>6. ASSUME NEW k \in Pending'
            PROVE  fore[k] \notin gone /\ \A s \in gone : s < fore[k] => last[s] < fore[k]
        <5>1. at[k] \notin done /\ \A s \in done : s < at[k] => end[s] < at[k]
          BY <2>2, <3>7 DEF Pairs
        <5>2. at[k] \in Nat /\ at[k] < a /\ fore[k] = at[k]
          BY <2>6, <3>7
        <5>3. at[k] # a /\ ~(a < at[k])
          BY <3>6, <5>2
        <5> QED
          BY <3>9, <5>1, <5>2, <5>3
      <4>7. Starts' = Starts /\ Ends' = Ends /\ fragment' = fragment /\ Fed' = i
        BY <1>2, <1>6, <1>23
      <4> QED
        BY <3>9, <4>1, <4>2, <4>3, <4>4, <4>5, <4>6, <4>7 DEF Pairs
    <3>12. Noted(fore, gone, last)'
      <4> SUFFICES ASSUME NoneOptional, NEW x \in 1..Fed'
                   PROVE  /\ fragment[x].kind = "text" =>
                                "loose-text" \in faults \/ Around(fore, gone, last, x)'
                          /\ Opens(fragment[x]) =>
                                \/ Around(fore, gone, last, x)'
                                \/ \E j \in DOMAIN elements :
                                      Of(j, x) /\ Len(elements[j].locator) = 1
        BY <1>2, <1>20, <1>23, <2>1 DEF Noted
      <4>1. CASE x = i
        BY <1>10, <1>11, <4>1
      <4>2. CASE x \in 1..Fed
        <5>1. Around(at, done, end, x) => Around(fore, gone, last, x)'
          <6>1. ASSUME NEW k \in Pending, at[k] < x
                PROVE  Around(fore, gone, last, x)'
            <7>1. CASE k = depth
              <8>1. a < x /\ x < i
                BY <1>6, <3>2, <4>2, <6>1, <7>1
              <8>2. a \in gone
                BY <3>4
              <8> QED
                BY <3>9, <8>1, <8>2 DEF Around
            <7>2. CASE k # depth
              BY <2>4, <3>7, <6>1, <7>2 DEF Around
            <7> QED
              BY <7>1, <7>2
          <6>2. ASSUME NEW s \in done, s < x, x < end[s]
                PROVE  Around(fore, gone, last, x)'
            BY <3>9, <6>2 DEF Around
          <6> QED
            BY <6>1, <6>2 DEF Around
        <5> QED
          BY <2>2, <4>2, <5>1 DEF Noted
      <4> QED
        BY <1>17, <4>1, <4>2
    <3> QED
      BY <3>8, <3>11, <3>12
  <2> QED
    BY <2>7, <2>8
<1>25. SoundInv'
  <2> SUFFICES ASSUME NEW end, Ordered(end)
               PROVE  /\ faults' = {}
                      /\ \E at : Awaits(at, end)'
                      /\ \A j \in DOMAIN elements : Len(elements[j].locator) = 1 =>
                            \E x \in 1..Fed' : Opens(fragment[x]) /\ Of(j, x)
                                               /\ ~Enclosed(x, end)
    BY <1>2, <1>20, FragmentStays DEF SoundInv
  <2>1. PICK at : Awaits(at, end)
    BY <1>1 DEF SoundInv
  <2>2. faults = {}
    BY <1>1 DEF SoundInv
  <2>3. /\ end \in [Starts -> Ends] /\ NoneOptional /\ Matches(end)
        /\ \A s, t \in Starts : end[s] = end[t] => s = t
        /\ \A e \in Ends : \E s \in Starts : end[s] = e
    BY DEF Ordered, Bijection, Injection, Surjection, IsInjective
  <2>4. tag \notin Void /\ i \in Ends
    <3>1. InOrder(i, end)
      BY <1>5 DEF Ordered
    <3>2. tag \notin Void
      BY <1>10, <3>1 DEF InOrder
    <3>3. tag \notin Optional
      BY <1>5, <1>10, <2>3 DEF NoneOptional
    <3> QED
      BY <1>12, <3>2, <3>3
  <2>5. PICK s \in Starts : end[s] = i
    BY <2>3, <2>4
  <2>6. s \in Nat /\ s < i /\ s <= Fed /\ Fed < end[s] /\ fragment[s].tag = tag
    <3>1. s < i /\ fragment[s].tag = tag
      BY <1>10, <2>3, <2>5 DEF Matches
    <3>2. s \in Nat
      BY <1>23
    <3> QED
      BY <1>6, <2>5, <3>1, <3>2
  <2>7. PICK top \in DOMAIN open : at[top] = s
    BY <2>1, <2>6 DEF Awaits
  <2>8. top \in named
    BY <1>15, <2>1, <2>6, <2>7 DEF Awaits
  <2>9. \A l \in DOMAIN open : ~(top < l)
    <3> SUFFICES ASSUME NEW l \in DOMAIN open, top < l PROVE FALSE
      OBVIOUS
    <3>1. at[l] \in Starts /\ at[l] <= Fed /\ Fed < end[at[l]] /\ s < at[l]
      BY <2>1, <2>7 DEF Awaits
    <3>2. at[l] \in Nat /\ end[at[l]] \in Nat
      BY <1>23, <2>3, <3>1
    <3>3. at[l] < end[s]
      BY <1>6, <2>5, <3>1, <3>2
    <3>4. end[at[l]] < end[s]
      BY <2>3, <3>1, <3>3 DEF Matches
    <3> QED
      BY <1>6, <2>5, <3>1, <3>2, <3>4
  <2>10. ~stray /\ depth = top /\ top \in Nat /\ \A l \in DOMAIN open : l \in Nat /\ l <= top
    <3>1. ~stray
      BY <1>16, <2>4, <2>8
    <3>2. top \in Nat /\ \A l \in DOMAIN open : l \in Nat
      BY <1>7
    <3>3. \A l \in DOMAIN open : l <= top
      BY <2>9, <3>2
    <3>4. depth \in DOMAIN open /\ depth \in Nat /\ top <= depth
      BY <1>8, <2>8, <3>1
    <3>5. depth <= top
      BY <3>3, <3>4
    <3> QED
      BY <3>1, <3>2, <3>3, <3>4, <3>5
  <2>11. Forced(depth) = {}
    <3> SUFFICES ASSUME NEW k \in DOMAIN open, k > depth PROVE FALSE
      BY <1>13
    <3> QED
      BY <2>10
  <2>12. faults' = {}
    BY <1>4, <2>2, <2>10, <2>11
  <2>13. \A k : k \in DOMAIN open' <=> k \in DOMAIN open /\ k # top
    <3> SUFFICES ASSUME NEW k PROVE k \in DOMAIN open' <=> k \in DOMAIN open /\ k # top
      OBVIOUS
    <3>1. k \in DOMAIN open' <=> k \in 1..(top - 1)
      BY <1>7, <1>9, <2>10
    <3>2. k \in DOMAIN open <=> k \in 1..top
      BY <1>7, <2>10
    <3> QED
      BY <2>10, <3>1, <3>2
  <2>14. PICK on : on = [k \in DOMAIN open' |-> at[k]]
    OBVIOUS
  <2>15. \A k \in DOMAIN open' : on[k] = at[k] /\ k \in DOMAIN open /\ k # top
    BY <2>13, <2>14
  <2>16. on \in [DOMAIN open' -> Starts]
    BY <2>1, <2>14, <2>15 DEF Awaits
  <2>17. ASSUME NEW k \in DOMAIN open'
         PROVE  /\ on[k] <= i /\ i < end[on[k]] /\ fragment[on[k]].tag = open'[k].tag
    <3>1. /\ at[k] \in Starts /\ at[k] <= Fed /\ Fed < end[at[k]]
          /\ fragment[at[k]].tag = open[k].tag
      BY <2>1, <2>15 DEF Awaits
    <3>2. at[k] \in Nat /\ end[at[k]] \in Nat
      BY <1>23, <2>3, <3>1
    <3>3. end[at[k]] # i
      <4> SUFFICES ASSUME end[at[k]] = i PROVE FALSE
        OBVIOUS
      <4>1. at[k] = at[top]
        BY <2>3, <2>5, <2>7, <3>1
      <4>2. k \in DOMAIN open /\ k < top
        BY <2>10, <2>15
      <4>3. at[k] < at[top]
        BY <2>1, <4>2 DEF Awaits
      <4> QED
        BY <3>2, <4>1, <4>3
    <3>4. open'[k] = open[k]
      BY <1>21
    <3> QED
      BY <1>6, <2>15, <3>1, <3>2, <3>3, <3>4
  <2>18. \A k, l \in DOMAIN open' : k < l => on[k] < on[l]
    BY <2>1, <2>15 DEF Awaits
  <2>19. ASSUME NEW t \in Starts, t <= i, i < end[t]
         PROVE  \E k \in DOMAIN open' : on[k] = t
    <3>1. t \in Nat /\ end[t] \in Nat /\ t # i
      BY <1>11, <1>23, <2>3
    <3>2. t <= Fed /\ Fed < end[t]
      BY <1>6, <2>19, <3>1
    <3>3. PICK k \in DOMAIN open : at[k] = t
      BY <2>1, <3>2 DEF Awaits
    <3>4. k # top
      <4> SUFFICES ASSUME k = top PROVE FALSE
        OBVIOUS
      <4>1. end[t] = i
        BY <2>5, <2>7, <3>3
      <4> QED
        BY <1>6, <2>19, <4>1
    <3> QED
      BY <2>13, <2>15, <3>3, <3>4
  <2>20. Fed' = i /\ fragment' = fragment /\ Starts' = Starts
    BY <1>2, <1>6, <1>23
  <2>21. Awaits(on, end)'
    BY <2>16, <2>17, <2>18, <2>19, <2>20 DEF Awaits
  <2>22. \A j \in DOMAIN elements : Len(elements[j].locator) = 1 =>
            \E x \in 1..Fed' : Opens(fragment[x]) /\ Of(j, x) /\ ~Enclosed(x, end)
    BY <1>1, <1>18 DEF SoundInv
  <2> QED
    BY <2>12, <2>21, <2>22
<1> QED
  BY <1>5, <1>19, <1>22, <1>24, <1>25 DEF ExactInv

(* A shortest locator is a root's.                                         *)
LEMMA SomeRoot ==
    ASSUME GateInv, elements # <<>>
    PROVE  Roots # {}
<1> DEFINE Depths == {Len(elements[j].locator) : j \in DOMAIN elements}
<1>1. elements \in Seq(Element)
  BY DEF GateInv, GateTypeOK
<1>2. \A j \in DOMAIN elements :
         elements[j].locator \in Seq(Tag \X Nat) /\ Len(elements[j].locator) \in Nat
  <2> SUFFICES ASSUME NEW j \in DOMAIN elements
               PROVE  /\ elements[j].locator \in Seq(Tag \X Nat)
                      /\ Len(elements[j].locator) \in Nat
    OBVIOUS
  <2>1. elements[j] \in Element
    BY <1>1
  <2> QED
    BY <2>1 DEF Element, Locator
<1>3. DOMAIN elements # {}
  <2>1. Len(elements) \in Nat /\ Len(elements) # 0
    BY <1>1, EmptySeq
  <2>2. 1 \in 1..Len(elements)
    BY <2>1
  <2>3. DOMAIN elements = 1..Len(elements)
    BY <1>1
  <2> QED
    BY <2>2, <2>3
<1>4. Depths \subseteq Nat /\ Depths # {}
  BY <1>2, <1>3
<1>5. PICK m \in Depths : \A k \in Depths : ~(<<k, m>> \in OpToRel(<, Nat))
  BY <1>4, WFMin, NatLessThanWellFounded, Zenon
<1>6. PICK j \in DOMAIN elements : m = Len(elements[j].locator)
  OBVIOUS
<1>7. \A k \in DOMAIN elements : ~(Len(elements[k].locator) < Len(elements[j].locator))
  <2> SUFFICES ASSUME NEW k \in DOMAIN elements
               PROVE  ~(Len(elements[k].locator) < Len(elements[j].locator))
    OBVIOUS
  <2>1. Len(elements[k].locator) \in Depths
    OBVIOUS
  <2> QED
    BY <1>2, <1>5, <1>6, <2>1 DEF OpToRel
<1> DEFINE l == elements[j].locator
<1>8. l \in Seq(Tag \X Nat) /\ Len(l) \in Nat /\ l # <<>>
  BY <1>2 DEF GateInv, RootedInv
<1>9. Len(l) # 0
  BY <1>8, EmptySeq
<1>10. Len(Front(l)) = Len(l) - 1
  <2>1. Len(l) - 1 \in 0..Len(l)
    BY <1>8, <1>9
  <2> HIDE DEF l
  <2>2. Len(SubSeq(l, 1, Len(l) - 1)) = Len(l) - 1
    BY <1>8, <2>1, Prefix
  <2> QED
    BY <2>2 DEF Front
<1>11. Front(l) = <<>>
  <2> SUFFICES ASSUME Front(l) # <<>> PROVE FALSE
    OBVIOUS
  <2>1. PICK k \in DOMAIN elements : elements[k].locator = Front(l)
    BY DEF GateInv, RootedInv
  <2>2. Len(elements[k].locator) = Len(l) - 1
    BY <1>10, <2>1
  <2> QED
    BY <1>7, <1>8, <2>2
<1>12. Len(l) = 1
  <2>1. Len(l) - 1 = 0
    BY <1>10, <1>11
  <2> QED
    BY <1>8, <2>1
<1> QED
  BY <1>12 DEF Roots

(* What the gate accepts nests, and is sound if no end tag is optional.    *)
LEMMA AcceptedIsSound ==
    ASSUME GateInv, ExactInv, verdict = "accepted"
    PROVE  Nested /\ ~Repaired /\ ~moved /\ (NoneOptional => Sound)
<1>1. GateTypeOK /\ FedInv /\ VerdictInv /\ TokenInv /\ NestInv /\ BlameInv
  BY DEF GateInv, ExactInv
<1>2. /\ todo = <<>> /\ open = <<>> /\ (Repaired => moved)
      /\ Structure = {} /\ Unspanned = {} /\ violations = {} /\ ~moved
  <2>1. PICK met, differ : Findings(moved, met, differ) = {}
    BY <1>1 DEF VerdictInv
  <2>2. Stripped(moved, met, differ) = {} /\ Structure = {} /\ Unspanned = {}
    BY <2>1 DEF Findings
  <2>3. Untouched(moved)
    BY <2>2 DEF Stripped
  <2> QED
    BY <1>1, <2>2, <2>3 DEF VerdictInv, Untouched
<1>3. Fed = Len(fragment) /\ DOMAIN fragment = 1..Fed
  BY <1>1, <1>2 DEF Fed, GateTypeOK
<1>4. faults \cap {"unclosed", "stray", "mismatched", "declaration"} = {}
  BY <1>2 DEF Structure
<1>5. "loose-text" \notin faults /\ Roots # {} /\ \A j \in Roots : elements[j].span = "slug"
  BY <1>1, <1>2, SpansBlame DEF Unspanned, Roots
<1>6. Pending = {}
  BY <1>2 DEF Pending
<1>7. PICK at, done, end : Follows(at) /\ Pairs(at, done, end) /\ Noted(at, done, end)
  BY <1>1, <1>4 DEF NestInv
<1>8. Starts \subseteq 1..Fed /\ Ends \subseteq 1..Fed
  BY <1>1, <1>3, PlacesAre
<1>9. done = Starts
  <2>1. \A s \in Starts : s <= Fed
    BY <1>1, <1>3, <1>8, PlacesAre
  <2> QED
    BY <1>6, <1>7, <2>1 DEF Pairs
<1>10. end \in Bijection(Starts, Ends)
  <2>1. end \in [Starts -> Ends] /\ \A s, t \in Starts : end[s] = end[t] => s = t
    BY <1>7, <1>9 DEF Pairs
  <2>2. \A e \in Ends : e <= Fed
    BY <1>1, <1>3, <1>8, PlacesAre
  <2>3. \A e \in Ends : \E s \in Starts : end[s] = e
    BY <1>7, <1>9, <2>2 DEF Pairs
  <2> QED
    BY <2>1, <2>3 DEF Bijection, Injection, Surjection, IsInjective
<1>11. Matches(end)
  BY <1>7, <1>9 DEF Pairs, Matches
<1>12. ASSUME NoneOptional
       PROVE  Sound
  <2>1. \E i \in DOMAIN fragment : Opens(fragment[i])
    BY <1>1, <1>3, <1>5 DEF TokenInv, Roots
  <2>2. \A i : Around(at, done, end, i) => Enclosed(i, end)
    BY <1>6, <1>9 DEF Around, Enclosed
  <2>3. ASSUME NEW i \in DOMAIN fragment
        PROVE  InOrder(i, end)
    <3>1. fragment[i].kind # "decl"
      BY <1>1, <1>3, <1>4 DEF TokenInv
    <3>2. fragment[i].kind = "end" => fragment[i].tag \notin Void
      BY <1>1, <1>3, <1>4 DEF TokenInv
    <3>3. fragment[i].kind = "text" => Enclosed(i, end)
      BY <1>3, <1>5, <1>7, <1>12, <2>2 DEF Noted
    <3>4. ASSUME Opens(fragment[i])
          PROVE  /\ fragment[i].tag \in Allowed /\ fragment[i].attr = "fine"
                 /\ Enclosed(i, end) \/ fragment[i].span = "slug"
      <4>1. PICK j \in DOMAIN elements : Of(j, i)
        BY <1>1, <1>3, <3>4 DEF TokenInv
      <4>2. elements[j].tag \in Allowed /\ elements[j].attr = "fine"
        BY <1>1, <1>2 DEF BlameInv, Offends
      <4>3. Enclosed(i, end) \/ fragment[i].span = "slug"
        BY <1>3, <1>5, <1>7, <1>12, <2>2, <3>4 DEF Noted, Of, Roots
      <4> QED
        BY <4>1, <4>2, <4>3 DEF Of
    <3> QED
      BY <3>1, <3>2, <3>3, <3>4 DEF InOrder
  <2> QED
    BY <1>10, <1>11, <2>1, <2>3 DEF Sound
<1> QED
  BY <1>2, <1>10, <1>11, <1>12 DEF Nested

(* Of a sound fragment without optional tags nothing is violated.          *)
LEMMA SoundIsAccepted ==
    ASSUME GateInv, ExactInv, verdict # "none", NoneOptional, Sound, ~moved
    PROVE  verdict = "accepted"
<1>1. GateTypeOK /\ FedInv /\ VerdictInv /\ TokenInv /\ SoundInv
  BY DEF GateInv, ExactInv
<1>2. /\ todo = <<>> /\ open = <<>>
      /\ \E met, differ : violations = Findings(moved, met, differ)
      /\ verdict = "accepted" <=> violations = {}
  BY <1>1 DEF VerdictInv
<1>3. DOMAIN fragment = 1..Fed
  BY <1>1, <1>2 DEF Fed, GateTypeOK
<1>4. PICK end : Ordered(end)
  BY DEF Sound, Ordered
<1>5. /\ faults = {}
      /\ \A j \in DOMAIN elements : Len(elements[j].locator) = 1 =>
            \E i \in 1..Fed : Opens(fragment[i]) /\ Of(j, i) /\ ~Enclosed(i, end)
  BY <1>1, <1>4 DEF SoundInv
<1>6. \A i \in 1..Fed : InOrder(i, end)
  BY <1>3, <1>4 DEF Ordered
<1>7. \A j \in DOMAIN elements : elements[j].tag \in Allowed /\ elements[j].attr = "fine"
  BY <1>1, <1>6 DEF TokenInv, InOrder, Of
<1>8. Structure = {}
  BY <1>5 DEF Structure
<1>9. \A met, differ : Stripped(moved, met, differ) = {}
  BY <1>7, TagAssumption DEF Stripped, Untouched, Survives
<1>10. \A attr : attr # "fine" => Bearers(attr) = {}
  BY <1>7 DEF Bearers
<1>11. UnknownClasses = {} /\ BadUrls = {}
  BY <1>10 DEF UnknownClasses, BadUrls
<1>12. BadHtmx = {}
  <2>1. DOMAIN KindFor = {"hx-unknown", "hx-url", "hx-value"}
    BY DEF KindFor
  <2>2. \A attr \in DOMAIN KindFor : {Found(KindFor[attr], at) : at \in Bearers(attr)} = {}
    BY <1>10, <2>1
  <2>3. Bearers("hx-on") = {} /\ Bearers("hx-twice") = {}
    BY <1>10
  <2> QED
    BY <2>2, <2>3 DEF BadHtmx
<1>13. Unspanned = {}
  <2>1. elements # <<>>
    <3>1. PICK i \in DOMAIN fragment : Opens(fragment[i])
      BY DEF Sound
    <3>2. PICK j \in DOMAIN elements : Of(j, i)
      BY <1>1, <1>3, <3>1 DEF TokenInv
    <3> QED
      BY <3>2
  <2>2. Roots # {}
    BY <2>1, SomeRoot
  <2>3. \A j \in Roots : elements[j].span = "slug"
    BY <1>5, <1>6 DEF Roots, InOrder, Of
  <2> QED
    BY <1>5, <2>2, <2>3 DEF Unspanned, RootsWith
<1>14. \A met, differ : Findings(moved, met, differ) = {}
  BY <1>8, <1>9, <1>11, <1>12, <1>13 DEF Findings
<1> QED
  BY <1>2, <1>14

(* The steps around the gate leave it alone.                               *)
LEMMA OthersKeepExact ==
    ASSUME ExactInv, UNCHANGED gate
    PROVE  ExactInv'
<1>1. FedInv' /\ TokenInv' /\ NestInv' /\ SoundInv'
  BY ExactStays DEF gate
<1>2. \A met, differ : Findings(moved, met, differ)' = Findings(moved, met, differ)
  BY FindingsStay DEF gate
<1>3. VerdictInv'
  BY <1>2 DEF ExactInv, VerdictInv, gate, Repaired
<1> QED
  BY <1>1, <1>3 DEF ExactInv

(* Every step of the walk.                                                 *)
LEMMA GateNextKeepsExact ==
    ASSUME GateInv, ExactInv, GateInv', GateNext
    PROVE  ExactInv'
<1>1. GateTypeOK'
  BY DEF GateInv
<1> QED
  BY <1>1, StartKeepsExact, EndKeepsExact, QuietToken, CloseKeepsExact, CheckKeepsExact
     DEF GateNext

(* A new pick is walked from the start.                                    *)
LEMMA FeedKeepsExact ==
    ASSUME NEW offered \in SUBSET Seq(Token), Feed(offered)
    PROVE  ExactInv'
  BY FedAnew DEF Feed

-----------------------------------------------------------------------------
(* What promote, the job and the scripts keep                              *)

USE PublicationAssumption DEF None

LEMMA EmptyRelease == Empty \in Release /\ Empty.built = None
BY DEF Empty, Release

LEMMA CommitsAreShas == SiteTypeOK => DOMAIN commits \subseteq Sha /\ Len(commits) \in Nat
BY DEF SiteTypeOK, Sha

(* A commit adds to the history and changes nothing that is in it.         *)
LEMMA CommitEffect ==
    ASSUME SiteTypeOK, Commit
    PROVE  /\ commits' \in Seq(Content)
           /\ Len(commits') <= Commits
           /\ DOMAIN commits \subseteq DOMAIN commits'
           /\ \A s \in DOMAIN commits' : s \notin DOMAIN commits => commits'[s] = file
           /\ \A s \in DOMAIN commits : commits'[s] = commits[s]
<1>1. commits \in Seq(Content) /\ file \in Content /\ commits' = Append(commits, file)
    BY DEF Commit, SiteTypeOK
<1>2. /\ commits' \in Seq(Content)
      /\ Len(commits') = Len(commits) + 1
      /\ \A i \in 1..Len(commits) : commits'[i] = commits[i]
      /\ commits'[Len(commits) + 1] = file
    BY <1>1, AppendProperties
<1>3. DOMAIN commits = 1..Len(commits) /\ DOMAIN commits' = 1..Len(commits')
      /\ Len(commits) \in Nat
    BY <1>1, <1>2
<1> QED  BY <1>2, <1>3 DEF Commit

(* What only the fragment and its promotion touch.                         *)
deployment == <<commits, deploys, rollbacks, upload, incoming, incomingIs, releases, tmp,
                current, script>>

LEMMA PromotionKeepsIInv ==
    ASSUME IInv, BeginPromotion \/ Walk \/ DecidePromotion \/ WriteFile \/ UNCHANGED vars
    PROVE  IInv'
<1> USE DEF IInv
<1>1. UNCHANGED deployment
    BY DEF BeginPromotion, Walk, DecidePromotion, WriteFile, vars, site, deployment
<1>2. SiteTypeOK' /\ file' \in gated' \cup {None, Torn} /\ gated \subseteq gated'
      /\ (promoting' = "writing" => picks' \in gated')
  <2>1. CASE BeginPromotion
      BY <2>1 DEF BeginPromotion, SiteTypeOK, GatedInv
  <2>2. CASE Walk
      BY <2>2 DEF Walk, site, SiteTypeOK, GatedInv
  <2>3. CASE DecidePromotion
      BY <2>3 DEF DecidePromotion, Promotable, SiteTypeOK, GatedInv, Content
  <2>4. CASE WriteFile
      BY <2>4 DEF WriteFile, SiteTypeOK, GatedInv, Content
  <2>5. CASE UNCHANGED vars
      BY <2>5 DEF vars, site, SiteTypeOK, GatedInv
  <2> QED  BY <2>1, <2>2, <2>3, <2>4, <2>5
<1>3. GatedInv'
    BY <1>1, <1>2 DEF GatedInv, deployment, Exported
<1>4. NamedInv'
    BY <1>1 DEF NamedInv, deployment, Idle
<1> QED  BY <1>2, <1>3, <1>4

LEMMA CommitKeepsIInv == IInv /\ Commit => IInv'
<1> SUFFICES ASSUME IInv, Commit PROVE IInv'
    OBVIOUS
<1> USE DEF IInv
<1>1. SiteTypeOK'
    BY CommitEffect DEF Commit, SiteTypeOK
<1>2. \A s : Exported(s) => Exported(s)'
    BY CommitEffect DEF Exported
<1>3. GatedInv'
    BY <1>2, CommitEffect DEF GatedInv, Commit
<1>4. NamedInv'
    BY CommitEffect DEF NamedInv, Commit, Idle
<1> QED  BY <1>1, <1>3, <1>4

(* Nothing that the job and the scripts do touches the repository.         *)
LEMMA ExportedStays ==
    ASSUME UNCHANGED commits
    PROVE  \A s : Exported(s)' <=> Exported(s)
BY DEF Exported

LEMMA JobKeepsIInv ==
    ASSUME IInv, Build \/ BeginUpload \/ EndUpload \/ CutUpload \/ RollBack
    PROVE  IInv'
<1> USE DEF IInv
<1>1. CASE Build
  <2>1. SiteTypeOK'
      BY <1>1 DEF Build, SiteTypeOK
  <2>2. GatedInv'
      BY <1>1, ExportedStays DEF Build, GatedInv, Exported
  <2>3. NamedInv'
      BY <1>1 DEF Build, NamedInv, Idle
  <2> QED  BY <2>1, <2>2, <2>3
<1>2. CASE BeginUpload
  <2>1. SiteTypeOK'
      BY <1>2, CommitsAreShas DEF BeginUpload, SiteTypeOK, Release
  <2>2. GatedInv'
      BY <1>2, ExportedStays DEF BeginUpload, GatedInv
  <2>3. NamedInv'
      BY <1>2 DEF BeginUpload, NamedInv, Idle
  <2> QED  BY <2>1, <2>2, <2>3
<1>3. CASE EndUpload
  <2>1. SiteTypeOK'
      BY <1>3 DEF EndUpload, SiteTypeOK, Release, Actor, Command
  <2>2. incoming'.built = incoming.built
      BY <1>3 DEF EndUpload, SiteTypeOK, Release
  <2>3. GatedInv'
      BY <1>3, <2>2, ExportedStays DEF EndUpload, GatedInv
  <2>4. NamedInv'
      BY <1>3 DEF EndUpload, NamedInv, Idle, SiteTypeOK, Actor
  <2> QED  BY <2>1, <2>3, <2>4
<1>4. CASE CutUpload
  <2>1. SiteTypeOK'
      BY <1>4 DEF CutUpload, SiteTypeOK
  <2>2. GatedInv'
      BY <1>4, ExportedStays DEF CutUpload, GatedInv
  <2>3. NamedInv'
      BY <1>4 DEF CutUpload, NamedInv, Idle
  <2> QED  BY <2>1, <2>2, <2>3
<1>5. CASE RollBack
  <2>1. SiteTypeOK'
      BY <1>5 DEF RollBack, SiteTypeOK, NamedInv, Actor, Command
  <2>2. GatedInv'
      BY <1>5, ExportedStays DEF RollBack, GatedInv
  <2>3. NamedInv'
      BY <1>5 DEF RollBack, NamedInv, Idle, SiteTypeOK, Actor
  <2> QED  BY <2>1, <2>2, <2>3
<1> QED  BY <1>1, <1>2, <1>3, <1>4, <1>5

(* A command of the script goes to the next command, for the same commit.  *)
LEMMA GoToEffect ==
    ASSUME SiteTypeOK, NEW a \in Actor, NEW where \in Command, GoTo(a, where)
    PROVE  /\ UNCHANGED <<promoting, picks, gated, file, commits, deploys, rollbacks>>
           /\ script' \in [Actor -> [pc : Command, sha : {None} \cup DOMAIN commits]]
           /\ script'[a].pc = where
           /\ \A b \in Actor : script'[b].sha = script[b].sha
           /\ \A b \in Actor : b # a => script'[b] = script[b]
           /\ upload' = IF a = "ci" /\ where = "idle" THEN None ELSE upload
BY DEF GoTo, SiteTypeOK

(* The commands touch releases as follows.                                 *)
Emptied(s) == releases'[s] = Empty
Left(s) == releases'[s] = releases[s]

LEMMA ActivateKeepsIInv ==
    ASSUME IInv, NEW a \in Actor, Activate(a)
    PROVE  IInv'
<1> USE DEF IInv
<1>1. PICK where \in Command : GoTo(a, where) /\ ~Idle(a)
    BY DEF Activate, TestIncoming, RemoveRelease, MoveIncoming, MakeIncoming, LinkTmp,
           RenameTmp, Prune, Command, At, Idle
<1>2. script[a].sha \in DOMAIN commits
    BY <1>1 DEF NamedInv
<1>3. /\ {tmp', current'} \subseteq {None} \cup DOMAIN commits
      /\ incoming' \in {incoming, Empty}
      /\ incomingIs' \in BOOLEAN
    BY <1>2 DEF Activate, TestIncoming, RemoveRelease, MoveIncoming, MakeIncoming, LinkTmp,
                RenameTmp, Prune, SiteTypeOK
<1>4. /\ releases' \in [Sha -> Release]
      /\ \A s \in Sha : \/ Emptied(s) \/ Left(s)
                        \/ releases'[s] = incoming /\ s = script[a].sha
  <2>1. CASE RemoveRelease(a)
      BY <2>1, EmptyRelease DEF RemoveRelease, SiteTypeOK, Emptied, Left
  <2>2. CASE MoveIncoming(a)
      BY <2>2 DEF MoveIncoming, SiteTypeOK, Emptied, Left
  <2>3. CASE Prune(a)
      BY <2>3, EmptyRelease DEF Prune, SiteTypeOK, Emptied, Left
  <2>4. CASE UNCHANGED releases
      BY <2>4 DEF SiteTypeOK, Left
  <2> QED  BY <2>1, <2>2, <2>3, <2>4
              DEF Activate, TestIncoming, MakeIncoming, LinkTmp, RenameTmp
<1>5. SiteTypeOK'
    BY <1>1, <1>3, <1>4, GoToEffect, EmptyRelease DEF SiteTypeOK
<1>6. GatedInv'
    BY <1>1, <1>3, <1>4, GoToEffect, EmptyRelease, ExportedStays
    DEF GatedInv, Emptied, Left
<1>7. NamedInv'
    BY <1>1, <1>2, <1>4, GoToEffect DEF NamedInv, Idle, Emptied, Left
<1> QED  BY <1>5, <1>6, <1>7

LEMMA InitIInv == Init => IInv
<1> SUFFICES ASSUME Init PROVE IInv
    OBVIOUS
<1>1. commits = <<>> /\ commits \in Seq(Content) /\ DOMAIN commits = {} /\ Len(commits) = 0
    BY DEF Init
<1>2. SiteTypeOK
    BY <1>1, EmptyRelease DEF Init, SiteTypeOK, Content, Pick, Command
<1>3. GatedInv
    BY <1>1, EmptyRelease DEF Init, GatedInv
<1>4. NamedInv
    BY <1>1 DEF Init, NamedInv, Idle
<1> QED  BY <1>2, <1>3, <1>4 DEF IInv

THEOREM SiteInvariant == Spec => []IInv
<1>1. IInv /\ [Next]_vars => IInv'
    BY PromotionKeepsIInv, CommitKeepsIInv, JobKeepsIInv, ActivateKeepsIInv DEF Next
<1> QED  BY InitIInv, <1>1, PTL DEF Spec

(* Every variable of the promotion, of the deploys and of the releases     *)
(* keeps its type; in particular the links name commits.                   *)
THEOREM SiteTypeCorrect == Spec => []SiteTypeOK
<1>1. IInv => SiteTypeOK
    BY DEF IInv
<1> QED  BY <1>1, SiteInvariant, PTL

(* Whatever the administrator and the job do to one another, a release on  *)
(* disk was built from a commit whose promoted file is a whole file that   *)
(* promote wrote for a pick the gate accepted, or from one without a       *)
(* promoted fragment (promote.py, promoted.rs).                            *)
THEOREM ServedPicksWereGated == Spec => []ServedWasGated
<1>1. IInv => ServedWasGated
    BY DEF IInv, GatedInv, Exported, Loads, ServedWasGated
<1> QED  BY <1>1, SiteInvariant, PTL

-----------------------------------------------------------------------------
(* Pruning                                                                 *)

Newer(s) == {t \in Sha : releases[t].stamp > releases[s].stamp}

LEMMA NewestMeans == \A s \in Sha : s \in Newest <=> Cardinality(Newer(s)) < KEEP
BY DEF Newest, Newer

LEMMA NewerIsFinite == \A s : IsFiniteSet(Newer(s)) /\ Cardinality(Newer(s)) \in Nat
<1> TAKE s
<1>1. IsFiniteSet(Sha)
    BY FS_Interval DEF Sha
<1>2. IsFiniteSet(Newer(s))
    BY <1>1, FS_Subset DEF Newer
<1> QED  BY <1>2, FS_CardinalityType

(* Taking releases away pushes none of those that stay out.                *)
LEMMA FewerStayNewest ==
    ASSUME SiteTypeOK, \A t \in Sha : Emptied(t) \/ Left(t),
           NEW s \in Sha, s \in Newest, Left(s)
    PROVE  s \in Newest'
<1>1. Newer(s)' \subseteq Newer(s)
    BY DEF Newer, Emptied, Left, Empty, SiteTypeOK, Release
<1>2. /\ IsFiniteSet(Newer(s)') /\ Cardinality(Newer(s)') \in Nat
      /\ Cardinality(Newer(s)) \in Nat
      /\ Cardinality(Newer(s)') <= Cardinality(Newer(s))
    BY <1>1, NewerIsFinite, FS_Subset, FS_CardinalityType
<1>3. Cardinality(Newer(s)) < KEEP
    BY NewestMeans
<1>4. Cardinality(Newer(s)') < KEEP
    BY <1>2, <1>3
<1> QED  BY <1>4 DEF Newest, Newer

(* The release of the latest deploy is among those that stay.              *)
LEMMA LatestIsNewest ==
    ASSUME SiteTypeOK, NEW s \in Sha, \A t \in Sha : releases[t].stamp <= releases[s].stamp
    PROVE  s \in Newest
<1>1. Newer(s) = {}
    BY DEF Newer, SiteTypeOK, Release
<1>2. Cardinality(Newer(s)) = 0
    BY <1>1, FS_EmptySet
<1> QED  BY <1>2, NewestMeans

-----------------------------------------------------------------------------
(* What calm keeps                                                         *)

LEMMA InitCalmInv == Init => CalmInv
<1> SUFFICES ASSUME Init PROVE CalmInv
    OBVIOUS
<1>1. AloneInv /\ UploadInv /\ RollbackInv /\ LinkInv /\ LiveInv
    BY DEF Init, AloneInv, UploadInv, RollbackInv, LinkInv, LiveInv, Idle, Moved, Actor, Empty
<1>2. DiskInv /\ KeptInv
    BY DEF Init, DiskInv, KeptInv
<1> QED  BY <1>1, <1>2 DEF CalmInv

LEMMA PromotionKeepsCalmInv ==
    ASSUME CalmInv, BeginPromotion \/ Walk \/ DecidePromotion \/ WriteFile \/ Commit
                       \/ UNCHANGED vars
    PROVE  CalmInv'
<1>1. UNCHANGED <<deploys, upload, incoming, incomingIs, releases, tmp, current, script>>
    BY DEF BeginPromotion, Walk, DecidePromotion, WriteFile, Commit, vars, site
<1>2. (AloneInv /\ UploadInv /\ RollbackInv /\ LinkInv)'
    BY <1>1 DEF CalmInv, AloneInv, UploadInv, RollbackInv, LinkInv, Idle, Moved
<1>3. (DiskInv /\ KeptInv /\ LiveInv)'
    BY <1>1 DEF CalmInv, DiskInv, KeptInv, LiveInv, Moved, Newest
<1> QED  BY <1>2, <1>3 DEF CalmInv

LEMMA BuildKeepsCalmInv ==
    ASSUME Calm, IInv, CalmInv, Build
    PROVE  CalmInv'
<1> USE DEF CalmInv
<1>1. /\ Idle("ci") /\ Idle("admin") /\ upload' # None /\ deploys' = deploys + 1
      /\ UNCHANGED <<incoming, incomingIs, releases, tmp, current, script>>
    BY CommitsAreShas DEF Build, IInv, Sha
<1>2. AloneInv'
    BY <1>1 DEF AloneInv, Idle
<1>3. UploadInv'
    BY <1>1 DEF UploadInv, Idle, Moved
<1>4. RollbackInv' /\ LinkInv'
    BY <1>1 DEF RollbackInv, LinkInv, Idle
<1>5. DiskInv'
    BY <1>1 DEF DiskInv, IInv, SiteTypeOK, Release
<1>6. KeptInv'
    BY <1>1 DEF KeptInv, Moved, Newest
<1>7. LiveInv'
    BY <1>1 DEF LiveInv, Idle
<1> QED  BY <1>2, <1>3, <1>4, <1>5, <1>6, <1>7

LEMMA UploadKeepsCalmInv ==
    ASSUME Calm, IInv, CalmInv, BeginUpload \/ CutUpload
    PROVE  CalmInv'
<1> USE DEF CalmInv
<1>1. /\ Idle("ci") /\ Idle("admin")
      /\ UNCHANGED <<deploys, releases, tmp, current, script>>
    BY DEF BeginUpload, CutUpload, AloneInv
<1>2. AloneInv'
    BY <1>1 DEF AloneInv, Idle
<1>3. UploadInv'
    BY <1>1 DEF UploadInv, Idle, Moved, BeginUpload, CutUpload
<1>4. RollbackInv' /\ LinkInv'
    BY <1>1 DEF RollbackInv, LinkInv, Idle
<1>5. DiskInv'
    BY <1>1 DEF DiskInv
<1>6. KeptInv'
    BY <1>1 DEF KeptInv, Moved, Newest
<1>7. LiveInv'
    BY <1>1 DEF LiveInv, Idle
<1> QED  BY <1>2, <1>3, <1>4, <1>5, <1>6, <1>7

LEMMA EndUploadKeepsCalmInv ==
    ASSUME Calm, IInv, CalmInv, EndUpload
    PROVE  CalmInv'
<1> USE DEF CalmInv
<1>1. /\ Idle("ci") /\ Idle("admin") /\ upload # None
      /\ UNCHANGED <<deploys, releases, tmp, current, upload, incomingIs>>
    BY DEF EndUpload, AloneInv
<1>2. /\ script'["ci"].pc = "test" /\ script'["ci"].sha = upload
      /\ script'["admin"] = script["admin"]
    BY DEF EndUpload, IInv, SiteTypeOK, Actor
<1>3. incoming' = [built |-> upload, whole |-> TRUE, stamp |-> deploys] /\ incoming # Empty
  <2>1. incoming \in [built : {None} \cup Sha, whole : BOOLEAN, stamp : 0..MaxDeploys]
      BY DEF IInv, SiteTypeOK, Release
  <2>2. incoming' = [incoming EXCEPT !.whole = TRUE] /\ incoming.built = upload
        /\ incoming.stamp = deploys
      BY DEF EndUpload
  <2>3. incoming # Empty
      BY <1>1, <2>2, EmptyRelease
  <2> QED  BY <2>1, <2>2, <2>3
<1>4. AloneInv'
    BY <1>1, <1>2 DEF AloneInv, Idle
<1>5. UploadInv'
    BY <1>1, <1>2, <1>3 DEF UploadInv, Moved
<1>6. RollbackInv' /\ LinkInv'
    BY <1>1, <1>2 DEF RollbackInv, LinkInv, Idle, Actor
<1>7. DiskInv'
    BY <1>1 DEF DiskInv
<1>8. KeptInv'
    BY <1>1, <1>2 DEF KeptInv, Moved, Idle, Newest
<1>9. LiveInv'
    BY <1>1, <1>2 DEF LiveInv, Idle
<1> QED  BY <1>4, <1>5, <1>6, <1>7, <1>8, <1>9

LEMMA RollBackKeepsCalmInv ==
    ASSUME Calm, IInv, CalmInv, RollBack
    PROVE  CalmInv'
<1> USE DEF CalmInv
<1>1. /\ Idle("ci") /\ Idle("admin") /\ upload = None /\ incoming = Empty
      /\ UNCHANGED <<deploys, releases, tmp, current, upload, incoming, incomingIs>>
    BY DEF RollBack, AloneInv
<1>2. /\ script'["admin"].pc = "test" /\ releases[script'["admin"].sha] # Empty
      /\ script'["ci"] = script["ci"]
    BY DEF RollBack, IInv, SiteTypeOK, Actor
<1>3. AloneInv'
    BY <1>1, <1>2 DEF AloneInv, Idle
<1>4. UploadInv'
    BY <1>1, <1>2 DEF UploadInv, Moved
<1>5. RollbackInv' /\ LinkInv'
    BY <1>1, <1>2 DEF RollbackInv, LinkInv, Idle, Actor
<1>6. DiskInv'
    BY <1>1 DEF DiskInv
<1>7. KeptInv'
    BY <1>1, <1>2 DEF KeptInv, Moved, Newest
<1>8. LiveInv'
    BY <1>1, <1>2 DEF LiveInv
<1> QED  BY <1>3, <1>4, <1>5, <1>6, <1>7, <1>8

LEMMA IdleScriptsAreDone ==
    ASSUME IInv, CalmInv
    PROVE  /\ ~Idle("ci") => Idle("admin") /\ upload \in Sha
           /\ ~Idle("admin") => Idle("ci") /\ script["admin"].sha \in Sha
           /\ \A a \in Actor : ~Idle(a) => script[a].sha \in Sha
<1>1. DOMAIN commits \subseteq Sha
    BY CommitsAreShas DEF IInv
<1> QED  BY <1>1 DEF CalmInv, AloneInv, IInv, NamedInv, Actor

(* The commands of the job's script.                                       *)
LEMMA JobScriptKeepsCalmInv ==
    ASSUME IInv, CalmInv, Activate("ci")
    PROVE  CalmInv'
<1> DEFINE ci == script["ci"].pc
           next == script'["ci"].pc
<1>1. SiteTypeOK /\ "ci" \in Actor /\ "admin" \in Actor
    BY DEF IInv, Actor
<1>2. PICK where \in Command : GoTo("ci", where) /\ ~Idle("ci")
    BY DEF Activate, TestIncoming, RemoveRelease, MoveIncoming, MakeIncoming, LinkTmp,
           RenameTmp, Prune, Command, At, Idle
<1>3. Idle("admin") /\ upload \in Sha /\ script["ci"].sha = upload /\ upload # None
    BY <1>2, IdleScriptsAreDone DEF CalmInv, AloneInv
<1>4. /\ next = where /\ script'["ci"].sha = upload /\ script'["admin"] = script["admin"]
      /\ UNCHANGED deploys
      /\ upload' = IF where = "idle" THEN None ELSE upload
    BY <1>1, <1>2, <1>3, GoToEffect
<1>5. AloneInv'
    BY <1>3, <1>4 DEF AloneInv, Idle
<1>6. RollbackInv'
    BY <1>3, <1>4 DEF RollbackInv, CalmInv, Idle
<1>7. CASE TestIncoming("ci")
  <2>1. incoming # Empty /\ incomingIs /\ ci = "test"
    <3>1. ci = "test"
        BY <1>7 DEF TestIncoming, At
    <3>2. incoming.built = upload
        BY <3>1 DEF CalmInv, UploadInv
    <3> QED  BY <1>3, <3>1, <3>2, EmptyRelease DEF CalmInv, UploadInv
  <2>2. GoTo("ci", "rm") /\ UNCHANGED <<incoming, incomingIs, releases, tmp, current>>
      BY <1>7, <2>1 DEF TestIncoming
  <2>3. next = "rm" /\ upload' = upload
      BY <1>1, <2>2, GoToEffect DEF Command
  <2>4. UploadInv'
      BY <1>4, <2>1, <2>2, <2>3 DEF UploadInv, CalmInv, Moved
  <2>5. LinkInv'
      BY <1>3, <1>4, <2>2, <2>3 DEF LinkInv, CalmInv, Actor, Idle
  <2>6. DiskInv' /\ KeptInv'
      BY <1>4, <2>1, <2>2 DEF DiskInv, KeptInv, CalmInv, Moved, Newest
  <2>7. LiveInv'
      BY <2>1, <2>2 DEF LiveInv, CalmInv
  <2> QED  BY <1>5, <1>6, <2>4, <2>5, <2>6, <2>7 DEF CalmInv
<1>8. CASE RemoveRelease("ci")
  <2>1. ci = "rm" /\ GoTo("ci", "mv") /\ UNCHANGED <<incoming, incomingIs, tmp, current>>
      BY <1>8 DEF RemoveRelease, At
  <2>2. next = "mv" /\ upload' = upload
      BY <1>1, <2>1, GoToEffect DEF Command
  <2>3. Emptied(upload) /\ \A s \in Sha : s # upload => Left(s)
      BY <1>1, <1>3, <1>8 DEF RemoveRelease, SiteTypeOK, Emptied, Left
  <2>4. UploadInv'
      BY <1>4, <2>1, <2>2, <2>3 DEF UploadInv, CalmInv, Moved, Emptied
  <2>5. LinkInv'
      BY <1>3, <1>4, <2>1, <2>2 DEF LinkInv, CalmInv, Actor, Idle
  <2>6. DiskInv'
      BY <1>4, <2>3 DEF DiskInv, CalmInv, Emptied, Left
  <2>7. KeptInv'
    <3>1. \A s \in Sha : Emptied(s) \/ Left(s)
        BY <2>3
    <3>2. \A s \in Sha : releases'[s] # Empty => Left(s) /\ s \in Newest
        BY <2>1, <3>1 DEF KeptInv, CalmInv, Moved, Emptied, Left
    <3> QED  BY <1>1, <3>1, <3>2, FewerStayNewest DEF KeptInv
  <2>8. LiveInv'
    <3>1. current # None => current \in Sha
        BY <1>1, CommitsAreShas DEF SiteTypeOK
    <3> QED  BY <2>1, <2>2, <2>3, <3>1 DEF LiveInv, CalmInv, Left
  <2> QED  BY <1>5, <1>6, <2>4, <2>5, <2>6, <2>7, <2>8 DEF CalmInv
<1>9. CASE MoveIncoming("ci")
  <2>1. /\ ci = "mv" /\ incomingIs /\ releases[upload] = Empty
        /\ incoming = [built |-> upload, whole |-> TRUE, stamp |-> deploys]
    <3>1. ci = "mv"
        BY <1>9 DEF MoveIncoming, At
    <3>2. incoming.built = upload
        BY <3>1 DEF CalmInv, UploadInv
    <3> QED  BY <1>3, <3>1, <3>2, EmptyRelease DEF CalmInv, UploadInv
  <2>2. GoTo("ci", "mkdir") /\ incoming' = Empty /\ UNCHANGED <<tmp, current>>
      BY <1>9, <2>1 DEF MoveIncoming
  <2>3. next = "mkdir" /\ upload' = upload
      BY <1>1, <2>2, GoToEffect DEF Command
  <2>4. releases'[upload] = incoming /\ \A s \in Sha : s # upload => Left(s)
      BY <1>1, <1>3, <1>9, <2>1 DEF MoveIncoming, SiteTypeOK, Left
  <2>5. UploadInv'
      BY <1>4, <2>1, <2>2, <2>3, <2>4 DEF UploadInv, CalmInv, Moved
  <2>6. LinkInv'
      BY <1>3, <1>4, <2>2, <2>3 DEF LinkInv, CalmInv, Actor, Idle
  <2>7. DiskInv'
      BY <1>1, <1>4, <2>1, <2>4 DEF DiskInv, CalmInv, Left, SiteTypeOK
  <2>8. KeptInv'
      BY <2>3 DEF KeptInv, Moved
  <2>9. LiveInv'
    <3>1. current # None => current \in Sha
        BY <1>1, CommitsAreShas DEF SiteTypeOK
    <3>2. incoming # Empty
        BY <1>3, <2>1, EmptyRelease
    <3> QED  BY <2>2, <2>4, <3>1, <3>2 DEF LiveInv, CalmInv, Left
  <2> QED  BY <1>5, <1>6, <2>5, <2>6, <2>7, <2>8, <2>9 DEF CalmInv
<1>10. CASE MakeIncoming("ci") \/ LinkTmp("ci")
  <2>1. /\ Moved /\ Moved' /\ upload' = upload /\ next # "prune"
        /\ UNCHANGED <<incoming, releases, current>>
        /\ next = "rename" => tmp' = upload
      BY <1>1, <1>3, <1>10, GoToEffect DEF MakeIncoming, LinkTmp, At, Moved, Command
  <2>2. UploadInv'
    <3>1. incomingIs' = TRUE \/ incomingIs' = incomingIs
        BY <1>10 DEF MakeIncoming, LinkTmp
    <3> QED  BY <1>4, <2>1, <3>1 DEF UploadInv, CalmInv, Moved
  <2>3. LinkInv'
      BY <1>3, <1>4, <2>1 DEF LinkInv, CalmInv, Actor, Idle
  <2>4. DiskInv' /\ KeptInv'
      BY <1>4, <2>1 DEF DiskInv, KeptInv, CalmInv
  <2>5. LiveInv'
      BY <2>1 DEF LiveInv, CalmInv, Moved
  <2> QED  BY <1>5, <1>6, <2>2, <2>3, <2>4, <2>5 DEF CalmInv
<1>11. CASE RenameTmp("ci")
  <2>1. ci = "rename" /\ tmp = upload
      BY <1>1, <1>3, <1>11 DEF RenameTmp, At, CalmInv, LinkInv
  <2>2. /\ GoTo("ci", "prune") /\ current' = upload
        /\ UNCHANGED <<incoming, incomingIs, releases>>
      BY <1>3, <1>11, <2>1 DEF RenameTmp
  <2>3. next = "prune" /\ upload' = upload
      BY <1>1, <2>2, GoToEffect DEF Command
  <2>4. UploadInv'
      BY <1>4, <2>1, <2>2, <2>3 DEF UploadInv, CalmInv, Moved
  <2>5. LinkInv'
      BY <1>3, <1>4, <2>2, <2>3 DEF LinkInv, CalmInv, Actor, Idle
  <2>6. DiskInv' /\ KeptInv'
      BY <1>4, <2>2, <2>3 DEF DiskInv, KeptInv, CalmInv, Moved
  <2>7. LiveInv'
    <3>1. releases[upload].built = upload
        BY <2>1 DEF UploadInv, CalmInv, Moved
    <3> QED  BY <1>3, <2>2, <3>1, EmptyRelease DEF LiveInv
  <2> QED  BY <1>5, <1>6, <2>4, <2>5, <2>6, <2>7 DEF CalmInv
<1>12. CASE Prune("ci")
  <2>1. /\ ci = "prune" /\ current = upload /\ GoTo("ci", "idle")
        /\ UNCHANGED <<incoming, incomingIs, tmp, current>>
      BY <1>1, <1>3, <1>12 DEF Prune, At, CalmInv, LinkInv
  <2>2. next = "idle" /\ upload' = None
      BY <1>1, <2>1, GoToEffect DEF Command
  <2>3. /\ \A s \in Sha : Emptied(s) \/ Left(s)
        /\ \A s \in Sha : s \in Newest => Left(s)
        /\ \A s \in Sha : releases'[s] # Empty => s \in Newest /\ Left(s)
      BY <1>12 DEF Prune, Emptied, Left
  <2>4. UploadInv'
      BY <2>1, <2>2 DEF UploadInv, CalmInv, Moved
  <2>5. LinkInv'
      BY <1>3, <1>4, <2>1, <2>2 DEF LinkInv, CalmInv, Actor, Idle
  <2>6. DiskInv'
      BY <1>4, <2>3 DEF DiskInv, CalmInv, Left
  <2>7. KeptInv'
      BY <1>1, <2>3, FewerStayNewest DEF KeptInv
  <2>8. LiveInv'
    <3>1. releases[upload].stamp = deploys /\ releases[upload].built = upload
        BY <2>1 DEF CalmInv, UploadInv, Moved
    <3>2. \A t \in Sha : releases[t].stamp <= deploys
        BY <1>1 DEF CalmInv, DiskInv, Empty, SiteTypeOK
    <3>3. Left(upload)
        BY <1>1, <1>3, <2>3, <3>1, <3>2, LatestIsNewest
    <3> QED  BY <1>3, <2>1, <3>1, <3>3, EmptyRelease DEF LiveInv, Left
  <2> QED  BY <1>5, <1>6, <2>4, <2>5, <2>6, <2>7, <2>8 DEF CalmInv
<1> QED  BY <1>7, <1>8, <1>9, <1>10, <1>11, <1>12 DEF Activate

(* The commands of the administrator's script.                             *)
LEMMA RollbackScriptKeepsCalmInv ==
    ASSUME IInv, CalmInv, Activate("admin")
    PROVE  CalmInv'
<1> DEFINE admin == script["admin"].pc
           next == script'["admin"].pc
           sha == script["admin"].sha
<1>1. SiteTypeOK /\ "ci" \in Actor /\ "admin" \in Actor
    BY DEF IInv, Actor
<1>2. PICK where \in Command : GoTo("admin", where) /\ ~Idle("admin")
    BY DEF Activate, TestIncoming, RemoveRelease, MoveIncoming, MakeIncoming, LinkTmp,
           RenameTmp, Prune, Command, At, Idle
<1>3. /\ Idle("ci") /\ ~Moved /\ sha \in Sha /\ sha # None /\ upload = None
      /\ incoming = Empty /\ releases[sha] # Empty
      /\ admin \in {"test", "ln", "rename", "prune"}
    BY <1>2, IdleScriptsAreDone DEF CalmInv, AloneInv, RollbackInv, Idle, Moved, Sha
<1>4. /\ next = where /\ script'["admin"].sha = sha /\ script'["ci"] = script["ci"]
      /\ UNCHANGED <<deploys, upload>>
    BY <1>1, <1>2, GoToEffect
<1>5. \A s \in Sha : releases[s] # Empty => s \in Newest
    BY <1>3 DEF CalmInv, KeptInv
<1>6. /\ UNCHANGED <<incoming, incomingIs>>
      /\ \A s \in Sha : Left(s)
      /\ where \in {"ln", "rename", "prune", "idle"}
      /\ where = "rename" => tmp' = sha
      /\ where = "prune" => current' = sha
      /\ current' \in {current, sha}
  <2>1. CASE TestIncoming("admin")
    <3>1. GoTo("admin", "ln") /\ UNCHANGED <<incoming, incomingIs, releases, current>>
        BY <1>3, <2>1 DEF TestIncoming
    <3>2. where = "ln"
        BY <1>1, <1>4, <3>1, GoToEffect DEF Command
    <3> QED  BY <3>1, <3>2 DEF Left
  <2>2. CASE LinkTmp("admin")
    <3>1. where = "rename"
        BY <1>1, <1>4, <2>2, GoToEffect DEF LinkTmp, Command
    <3> QED  BY <2>2, <3>1 DEF LinkTmp, Left
  <2>3. CASE RenameTmp("admin")
    <3>1. tmp = sha
        BY <1>1, <2>3 DEF RenameTmp, At, CalmInv, LinkInv
    <3>2. /\ GoTo("admin", "prune") /\ current' = sha
          /\ UNCHANGED <<incoming, incomingIs, releases>>
        BY <1>3, <2>3, <3>1 DEF RenameTmp
    <3>3. where = "prune"
        BY <1>1, <1>4, <3>2, GoToEffect DEF Command
    <3> QED  BY <3>2, <3>3 DEF Left
  <2>4. CASE Prune("admin")
    <3>1. where = "idle"
        BY <1>1, <1>4, <2>4, GoToEffect DEF Prune, Command
    <3>2. \A s \in Sha : Left(s)
        BY <1>5, <2>4 DEF Prune, Left
    <3> QED  BY <2>4, <3>1, <3>2 DEF Prune
  <2> QED  BY <1>3, <2>1, <2>2, <2>3, <2>4
           DEF Activate, RemoveRelease, MoveIncoming, MakeIncoming, At
<1>7. AloneInv' /\ UploadInv'
    BY <1>3, <1>4, <1>6 DEF AloneInv, UploadInv, CalmInv, Idle, Moved
<1>8. RollbackInv' /\ LinkInv'
    BY <1>3, <1>4, <1>6 DEF RollbackInv, LinkInv, CalmInv, Idle, Actor, Left
<1>9. DiskInv'
    BY <1>4, <1>6 DEF DiskInv, CalmInv, Left
<1>10. KeptInv'
    BY <1>1, <1>5, <1>6, FewerStayNewest DEF KeptInv, Left
<1>11. LiveInv'
  <2>1. current # None => current \in Sha
      BY <1>1, CommitsAreShas DEF SiteTypeOK
  <2> QED  BY <1>3, <1>4, <1>6, <2>1 DEF LiveInv, CalmInv, Idle, Left
<1> QED  BY <1>7, <1>8, <1>9, <1>10, <1>11 DEF CalmInv

THEOREM CalmInvariant ==
    ASSUME Calm
    PROVE  Spec => []CalmInv
<1>1. IInv /\ CalmInv /\ [Next]_vars => CalmInv'
    BY PromotionKeepsCalmInv, BuildKeepsCalmInv, UploadKeepsCalmInv,
       EndUploadKeepsCalmInv, RollBackKeepsCalmInv, JobScriptKeepsCalmInv,
       RollbackScriptKeepsCalmInv
    DEF Next, Actor
<1> QED  BY InitCalmInv, <1>1, SiteInvariant, PTL DEF Spec

(* If the administrator rolls back only while no deploy is under way and   *)
(* nothing is staged, the live release is there and complete, except while *)
(* an activation of that very commit has taken it out; in particular no    *)
(* pruning takes it, however few are kept and however old it is            *)
(* (ui-servo-activate).                                                    *)
THEOREM LiveReleaseIsComplete ==
    ASSUME Calm
    PROVE  Spec => []LiveIsComplete
<1>1. IInv /\ CalmInv => LiveIsComplete
  <2> SUFFICES ASSUME IInv, CalmInv, current # None PROVE LiveIsComplete
      BY DEF LiveIsComplete
  <2>1. current \in Sha
      BY CommitsAreShas DEF IInv, SiteTypeOK
  <2>2. CASE releases[current] # Empty
      BY <2>1, <2>2 DEF CalmInv, DiskInv, LiveIsComplete
  <2>3. CASE script["ci"].pc = "mv" /\ upload = current
    <3>1. script["ci"] = [pc |-> "mv", sha |-> current]
        BY <2>3 DEF CalmInv, AloneInv, Idle, IInv, SiteTypeOK, Actor
    <3> QED  BY <3>1 DEF LiveIsComplete, Actor
  <2> QED  BY <2>2, <2>3 DEF CalmInv, LiveInv
<1> QED  BY <1>1, SiteInvariant, CalmInvariant, PTL

(* Under the same condition a release holds what was built from the commit *)
(* that names it, which is what a rollback counts on; the run that drops   *)
(* the condition violates it.                                              *)
THEOREM ReleasesAreTheirCommits ==
    ASSUME Calm
    PROVE  Spec => []ReleaseIsItsCommit
<1>1. IInv /\ CalmInv => ReleaseIsItsCommit
    BY EmptyRelease DEF CalmInv, DiskInv, ReleaseIsItsCommit
<1> QED  BY <1>1, SiteInvariant, CalmInvariant, PTL

THEOREM GateInvariant == Spec => []GateInv
<1>1. Init => GateInv
    BY FedGateInv, OfferedAssumption DEF Init
<1>2. ASSUME IInv, GateInv, [Next]_vars
      PROVE  GateInv'
  <2>1. CASE BeginPromotion
    <3>1. Offered[picks + 1] \in SUBSET Seq(Token)
        BY <2>1, OfferedAssumption DEF BeginPromotion, Pick
    <3> QED  BY <2>1, <3>1, FeedKeepsGateInv DEF BeginPromotion
  <2>2. CASE DecidePromotion
    <3>1. {<<>>} \in SUBSET Seq(Token)
        OBVIOUS
    <3> QED  BY <2>2, <3>1, FeedKeepsGateInv DEF DecidePromotion
  <2>3. CASE Walk
      BY <1>2, <2>3, GateNextKeepsGateInv DEF Walk
  <2>4. CASE UNCHANGED gate
      BY <1>2, <2>4, OthersKeepGateInv
  <2> QED  BY <1>2, <2>1, <2>2, <2>3, <2>4
           DEF Next, vars, WriteFile, Commit, Build, BeginUpload, EndUpload, CutUpload,
               RollBack, Activate, TestIncoming, RemoveRelease, MoveIncoming, MakeIncoming,
               LinkTmp, RenameTmp, Prune, GoTo
<1> QED  BY <1>1, <1>2, SiteInvariant, PTL DEF Spec

(* Every variable of the walk and of the site keeps its type.              *)
THEOREM PublicationTypeCorrect == Spec => []TypeOK
<1>1. GateInv /\ IInv => TypeOK
    BY DEF GateInv, IInv, TypeOK
<1> QED  BY <1>1, GateInvariant, SiteInvariant, PTL

(* Whatever a fragment is made of, no two of its elements have the same    *)
(* locator, and a verdict names every element that is outside the policy,  *)
(* and nothing else where nh3 read the fragment as the walker did and took *)
(* no element away with what it held (handle_starttag,                     *)
(* _stripped_violations).                                                  *)
THEOREM OffendersAreBlamed == Spec => []OffenderIsBlamed
<1>1. GateInv => OffenderIsBlamed
    BY DEF GateInv, BlameInv, OffenderIsBlamed
<1> QED  BY <1>1, GateInvariant, PTL

(* ExactInv of the walk, through promotions and everything around them.    *)
THEOREM ExactInvariant == Spec => []ExactInv
<1>1. Init => ExactInv
  <2> SUFFICES ASSUME Init PROVE ExactInv
    OBVIOUS
  <2>1. PICK f \in Offered[1] : GateInit(f)
    BY DEF Init
  <2>2. f \in Seq(Token)
    BY OfferedAssumption, PublicationAssumption
  <2> QED
    BY <2>1, <2>2, NewWalkIsExact DEF GateInit
<1>2. ASSUME GateInv, GateInv', ExactInv, [Next]_vars
      PROVE  ExactInv'
  <2>1. CASE BeginPromotion
    <3>1. Offered[picks + 1] \in SUBSET Seq(Token)
      BY <2>1, OfferedAssumption DEF BeginPromotion, Pick
    <3> QED
      BY <2>1, <3>1, FeedKeepsExact DEF BeginPromotion
  <2>2. CASE DecidePromotion
    <3>1. {<<>>} \in SUBSET Seq(Token)
      OBVIOUS
    <3> QED
      BY <2>2, <3>1, FeedKeepsExact DEF DecidePromotion
  <2>3. CASE Walk
    BY <1>2, <2>3, GateNextKeepsExact DEF Walk
  <2>4. CASE UNCHANGED gate
    BY <1>2, <2>4, OthersKeepExact
  <2> QED
    BY <1>2, <2>1, <2>2, <2>3, <2>4
       DEF Next, vars, WriteFile, Commit, Build, BeginUpload, EndUpload, CutUpload,
           RollBack, Activate, TestIncoming, RemoveRelease, MoveIncoming, MakeIncoming,
           LinkTmp, RenameTmp, Prune, GoTo
<1> QED
  BY <1>1, <1>2, GateInvariant, PTL DEF Spec

(* Of whatever length and nesting, a fragment the gate accepts has its     *)
(* required tags nested and nothing nh3 would nest or join otherwise, and  *)
(* one without optional tags is accepted exactly if it is sound and nh3    *)
(* reads it as the walker does (check).                                    *)
THEOREM GateVerdictsAreExact == Spec => []GateIsExact
<1>1. GateInv /\ ExactInv => GateIsExact
  <2> SUFFICES ASSUME GateInv, ExactInv, verdict # "none"
               PROVE  /\ verdict = "accepted" => Nested /\ ~Repaired
                      /\ NoneOptional => (verdict = "accepted" <=> Sound /\ ~moved)
    BY DEF GateIsExact
  <2> QED
    BY AcceptedIsSound, SoundIsAccepted
<1> QED
  BY <1>1, GateInvariant, ExactInvariant, PTL
=============================================================================
