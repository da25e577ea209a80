---------------------------- MODULE FragmentGate ----------------------------
(***************************************************************************)
(* Nh3Sanitizer.check (ui_servo/adapters/nh3_sanitizer.py): one walk over  *)
(* the tokens of a fragment, a handler per token, and the verdict on what  *)
(* the walk found.                                                         *)
(*                                                                         *)
(* A token is a start tag, a self-closed tag, an end tag, a text or a      *)
(* declaration.  Of a start tag the model keeps its tag, its span id and   *)
(* what is wrong with its other attributes: nothing ("fine"), something    *)
(* nh3 drops or rewrites ("dropped"), or something only the class, URL or  *)
(* htmx checks refuse, named after what it is; of a text, whether it       *)
(* quotes the attribute data-span-id.                                      *)
(* nh3 and html.parser are external.  nh3 deletes what is outside the      *)
(* policy, and it parses as a browser does, so that it may nest or join    *)
(* what the walker keeps apart (`moved`): whether it does is its choice,   *)
(* except where HTML leaves it none (Repaired).                            *)
(***************************************************************************)
EXTENDS Integers, SequencesExt

CONSTANTS Tag,
          Void,           \* VOID_ELEMENTS
          ClosedByStart,  \* ClosedByStart[t]: start tags that close an open t
          EndedBy,        \* EndedBy[t]: start tags at which HTML ends an open t
          Optional,       \* OPTIONAL_END_TAGS
          Allowed,        \* ALLOWED_TAGS
          CleanContent    \* CLEAN_CONTENT_TAGS

ASSUME TagAssumption ==
    /\ Void \cup Optional \cup Allowed \cup CleanContent \subseteq Tag
    /\ ClosedByStart \in [Tag -> SUBSET Tag]
    /\ \A t \in Tag : ClosedByStart[t] # {} => t \in Optional
    /\ Allowed \cap CleanContent = {}
ASSUME EndedByAssumption == EndedBy \in [Tag -> SUBSET Tag]

Span == {"slug", "none", "bad"}

Attribute == {"fine", "dropped", "class", "url", "hx-on", "hx-twice", "hx-unknown",
              "hx-url", "hx-value"}

Token ==
    [kind : {"start", "startend"}, tag : Tag, span : Span, attr : Attribute]
    \cup [kind : {"end"}, tag : Tag]
    \cup [kind : {"text"}, quotes : BOOLEAN]
    \cup [kind : {"decl"}]

(* The way from the root to an element: tags, each with its position among *)
(* the siblings of that tag.                                               *)
Locator == Seq(Tag \X Nat)

VARIABLES
    fragment,   \* the tokens
    todo,       \* the tokens still to be fed
    open,       \* _open: tags and locators
    counts,     \* _counts: one count of tags per open element, and the root's
    elements,   \* elements
    faults,     \* which of the defect lists is not empty
    moved,      \* nh3 nests or joins some tokens otherwise than the walker
    verdict,    \* of check: "none", "accepted" or "rejected"
    violations  \* [kind, locator]

gate == <<fragment, todo, open, counts, elements, faults, moved, verdict,
          violations>>

Nothing == [t \in Tag |-> 0]

(* A walker that is to be fed f.                                           *)
GateInit(f) ==
    /\ fragment = f
    /\ todo = f
    /\ open = <<>>
    /\ counts = <<Nothing>>
    /\ elements = <<>>
    /\ faults = {}
    /\ moved = FALSE
    /\ verdict = "none"
    /\ violations = {}

(* A new walker is fed one of `offered`.                                   *)
Feed(offered) ==
    /\ fragment' \in offered
    /\ todo' = fragment'
    /\ open' = <<>>
    /\ counts' = <<Nothing>>
    /\ elements' = <<>>
    /\ faults' = {}
    /\ moved' = FALSE
    /\ verdict' = "none"
    /\ violations' = {}

-----------------------------------------------------------------------------
(* The handlers                                                            *)

Largest(S) == CHOOSE i \in S : \A j \in S : j <= i

(* _auto_close_for: how many open elements are left.                       *)
Kept(tag) == Largest({0} \cup {i \in DOMAIN open : tag \notin ClosedByStart[open[i].tag]})

CountsDownTo(depth) == SubSeq(counts, 1, depth + 1)

HandleStart ==
    /\ todo # <<>> /\ Head(todo).kind \in {"start", "startend"}
    /\ LET token == Head(todo)
           depth == Kept(token.tag)
           nth == CountsDownTo(depth)[depth + 1][token.tag] + 1
           parent == IF depth = 0 THEN <<>> ELSE open[depth].locator
           locator == Append(parent, <<token.tag, nth>>)
           counted == [CountsDownTo(depth) EXCEPT ![depth + 1][token.tag] = nth]
       IN  /\ elements' = Append(elements, [tag |-> token.tag, span |-> token.span,
                                            attr |-> token.attr, locator |-> locator])
           /\ IF token.kind = "startend" \/ token.tag \in Void
                THEN /\ open' = SubSeq(open, 1, depth)
                     /\ counts' = counted
                ELSE /\ open' = Append(SubSeq(open, 1, depth),
                                       [tag |-> token.tag, locator |-> locator])
                     /\ counts' = Append(counted, Nothing)
    /\ todo' = Tail(todo)
    /\ UNCHANGED <<fragment, faults, moved, verdict, violations>>

(* Elements above `depth` that an end tag further down closes by force.    *)
Forced(depth) == {i \in DOMAIN open : i > depth /\ open[i].tag \notin Optional}

HandleEnd ==
    /\ todo # <<>> /\ Head(todo).kind = "end"
    /\ LET tag == Head(todo).tag
           named == {i \in DOMAIN open : open[i].tag = tag}
       IN  IF tag \in Void \/ named = {}
             THEN faults' = faults \cup {"stray"} /\ UNCHANGED <<open, counts>>
             ELSE LET depth == Largest(named)
                  IN  /\ faults' = IF Forced(depth) = {} THEN faults
                                   ELSE faults \cup {"mismatched"}
                      /\ open' = SubSeq(open, 1, depth - 1)
                      /\ counts' = CountsDownTo(depth - 1)
    /\ todo' = Tail(todo)
    /\ UNCHANGED <<fragment, elements, moved, verdict, violations>>

HandleData ==
    /\ todo # <<>> /\ Head(todo).kind = "text"
    /\ faults' = IF open = <<>> THEN faults \cup {"loose-text"} ELSE faults
    /\ todo' = Tail(todo)
    /\ UNCHANGED <<fragment, open, counts, elements, moved, verdict, violations>>

HandleDecl ==
    /\ todo # <<>> /\ Head(todo).kind = "decl"
    /\ faults' = faults \cup {"declaration"}
    /\ todo' = Tail(todo)
    /\ UNCHANGED <<fragment, open, counts, elements, moved, verdict, violations>>

-----------------------------------------------------------------------------
(* The verdict                                                             *)

Found(kind, locator) == [kind |-> kind, locator |-> locator]

Root == <<>>

Within(inner, outer) ==
    Len(outer) < Len(inner) /\ SubSeq(inner, 1, Len(outer)) = outer

(* What nh3 leaves.                                                        *)
Survives(e) ==
    /\ e.tag \in Allowed
    /\ \A i \in DOMAIN elements :
          elements[i].tag \in CleanContent => ~Within(e.locator, elements[i].locator)

(* The n-th element of what nh3 leaves.                                    *)
Survivor(n) ==
    {i \in DOMAIN elements :
        /\ Survives(elements[i])
        /\ Cardinality({j \in 1..i : Survives(elements[j])}) = n}

(* What nh3 joins or nests otherwise than the walker: two texts, which are *)
(* read apart at a bare "<" or a comment, come back as one, and what       *)
(* follows a self-closed tag that is not void becomes its content, for     *)
(* nh3 takes no notice of the slash.                                       *)
Repaired ==
    \E i \in DOMAIN fragment :
       /\ i + 1 \in DOMAIN fragment
       /\ LET token == fragment[i]
              next == fragment[i + 1]
          IN  \/ token.kind = "text" /\ next.kind = "text"
              \/ /\ token.kind = "startend" /\ token.tag \notin Void
                 /\ \/ next.kind = "text"
                    \/ next.kind \in {"start", "startend"} /\ next.tag \notin EndedBy[token.tag]

(* Mutated: an element is compared with the survivor at its own place.     *)
DueInPlace(i, met) == Survivor(i)

(* The two documents are walked in step: an element meets the next of the  *)
(* survivors if that has its tag.  `met` are the elements that did.        *)
Due(i, met) == Survivor(Cardinality(met \cap 1..(i - 1)) + 1)

InStep(met) ==
    \A i \in DOMAIN elements :
       i \in met <=> \E j \in Due(i, met) : elements[j].tag = elements[i].tag

(* Which elements meet one of nh3's of their tag, and which of those meet  *)
(* one with other attributes.                                              *)
Aligned(moves, met, differ) ==
    /\ differ \subseteq met
    /\ \A i \in met : /\ elements[i].tag \in Allowed
                      /\ elements[i].attr = "dropped" => i \in differ
    /\ ~moves => /\ InStep(met)
                 /\ \A i \in differ : elements[i].attr = "dropped" \/ i \notin Due(i, met)

(* walker.tokens = after.tokens                                            *)
Untouched(moves) ==
    /\ ~moves
    /\ \A i \in DOMAIN elements : Survives(elements[i]) /\ elements[i].attr # "dropped"

Unaligned(met, differ) ==
    {Found("disallowed-tag", elements[i].locator) : i \in DOMAIN elements \ met}
    \cup {Found("disallowed-attribute", elements[i].locator) : i \in differ}

(* Mutated: a difference no element shows is let through.                  *)
StrippedInStep(moves, met, differ) ==
    IF Untouched(moves) THEN {} ELSE Unaligned(met, differ)

(* _stripped_violations: a difference that no element shows is put to the  *)
(* first root.                                                             *)
Stripped(moves, met, differ) ==
    IF Untouched(moves) THEN {}
    ELSE IF Unaligned(met, differ) # {} THEN Unaligned(met, differ)
    ELSE {Found("disallowed-tag", IF elements = <<>> THEN Root ELSE elements[1].locator)}

Structure ==
    IF faults \cap {"unclosed", "stray", "mismatched", "declaration"} = {} THEN {}
    ELSE {Found("malformed-fragment", Root)}

Bearers(attr) == {elements[i].locator : i \in {j \in DOMAIN elements : elements[j].attr = attr}}

(* _class_violations                                                       *)
UnknownClasses == {Found("unknown-class", at) : at \in Bearers("class")}

(* _url_scheme_violations, of a single URL, a srcset or a list of URLs.    *)
BadUrls == {Found("disallowed-url", at) : at \in Bearers("url")}

(* _kind_for: what HtmxAttributes has against a value.                     *)
KindFor == [attr \in {"hx-unknown", "hx-url", "hx-value"} |->
               CASE attr = "hx-unknown" -> "unknown-attribute"
                 [] attr = "hx-url" -> "disallowed-url"
                 [] attr = "hx-value" -> "invalid-attribute-value"]

(* _htmx_violations: inline JavaScript, one attribute in two spellings     *)
(* that disagree, and what the schema refuses.                             *)
BadHtmx ==
    {Found("disallowed-attribute", at) : at \in Bearers("hx-on")}
    \cup {Found("invalid-attribute-value", at) : at \in Bearers("hx-twice")}
    \cup UNION {{Found(KindFor[attr], at) : at \in Bearers(attr)} : attr \in DOMAIN KindFor}

Roots == {i \in DOMAIN elements : Len(elements[i].locator) = 1}

RootsWith(span) == {elements[i].locator : i \in {j \in Roots : elements[j].span = span}}

(* _span_id_violations                                                     *)
Unspanned ==
    (IF "loose-text" \in faults \/ Roots = {} THEN {Found("missing-span-id", Root)} ELSE {})
    \cup {Found("missing-span-id", at) : at \in RootsWith("none")}
    \cup {Found("invalid-attribute-value", at) : at \in RootsWith("bad")}

(* close()                                                                 *)
Close ==
    /\ todo = <<>> /\ verdict = "none" /\ open # <<>>
    /\ faults' = IF \E i \in DOMAIN open : open[i].tag \notin Optional
                   THEN faults \cup {"unclosed"} ELSE faults
    /\ open' = <<>>
    /\ counts' = CountsDownTo(0)
    /\ UNCHANGED <<fragment, todo, elements, moved, verdict, violations>>

(* The five groups of violations of check().                               *)
Findings(moves, met, differ) ==
    Structure \cup Stripped(moves, met, differ) \cup UnknownClasses \cup BadUrls \cup BadHtmx
        \cup Unspanned

Check ==
    /\ todo = <<>> /\ verdict = "none" /\ open = <<>>
    /\ \E moves \in BOOLEAN, met, differ \in SUBSET DOMAIN elements :
          /\ Repaired => moves
          /\ Aligned(moves, met, differ)
          /\ moved' = moves
          /\ violations' = Findings(moves, met, differ)
    /\ verdict' = IF violations' = {} THEN "accepted" ELSE "rejected"
    /\ UNCHANGED <<fragment, todo, open, counts, elements, faults>>

GateNext == HandleStart \/ HandleEnd \/ HandleData \/ HandleDecl \/ Close \/ Check

-----------------------------------------------------------------------------
(* Properties                                                              *)

(* Every variable has the shape the code gives it.                         *)
Element == [tag : Tag, span : Span, attr : Attribute, locator : Locator]

Frame == [tag : Tag, locator : Locator]

Count == [Tag -> Nat]

Faults == {"unclosed", "stray", "mismatched", "declaration", "loose-text"}

GateTypeOK ==
    /\ {fragment, todo} \subseteq Seq(Token)
    /\ open \in Seq(Frame)
    /\ counts \in Seq(Count)
    /\ Len(counts) = Len(open) + 1
    /\ elements \in Seq(Element)
    /\ faults \subseteq Faults
    /\ moved \in BOOLEAN
    /\ verdict \in {"none", "accepted", "rejected"}

Opens(token) == token.kind \in {"start", "startend"}

(* The start tags that need an end tag, and the end tags that need a start *)
(* tag.                                                                    *)
Needy(kind) ==
    {i \in DOMAIN fragment : fragment[i].kind = kind /\ fragment[i].tag \notin Void \cup Optional}

Starts == Needy("start")
Ends == Needy("end")

(* The reference: each start tag has its end tag further on, each end tag  *)
(* is of one start tag, and what starts inside an element ends inside it.  *)
Matches(end) ==
    /\ \A s \in Starts : s < end[s] /\ fragment[s].tag = fragment[end[s]].tag
    /\ \A s, t \in Starts : s < t /\ t < end[s] => end[t] < end[s]

Nested == \E end \in Bijection(Starts, Ends) : Matches(end)

(* The i-th token is inside an element.                                    *)
Enclosed(i, end) == \E s \in Starts : s < i /\ i < end[s]

(* What the i-th token of a fragment without optional tags must be.        *)
InOrder(i, end) ==
    LET token == fragment[i]
    IN  /\ token.kind # "decl"
        /\ token.kind = "end" => token.tag \notin Void
        /\ token.kind = "text" => Enclosed(i, end)
        /\ Opens(token) => /\ token.tag \in Allowed /\ token.attr = "fine"
                           /\ Enclosed(i, end) \/ token.span = "slug"

Sound ==
    /\ \E i \in DOMAIN fragment : Opens(fragment[i])
    /\ \E end \in Bijection(Starts, Ends) :
          Matches(end) /\ \A i \in DOMAIN fragment : InOrder(i, end)

(* No end tag of the fragment could be left out.                           *)
NoneOptional ==
    \A i \in DOMAIN fragment :
       fragment[i].kind \in {"start", "startend", "end"} => fragment[i].tag \notin Optional

(* The gate accepts nothing whose required tags do not nest and nothing    *)
(* that nh3 has to nest or join otherwise than the walker did; and of the  *)
(* fragments that leave no end tag out it accepts exactly the sound ones   *)
(* (nested, inside the policy, every root with a span id and no text       *)
(* outside) that nh3 reads as the walker does (check).                     *)
GateIsExact ==
    verdict # "none" =>
       /\ verdict = "accepted" => Nested /\ ~Repaired
       /\ NoneOptional => (verdict = "accepted" <=> Sound /\ ~moved)

(* No two elements have the same locator (handle_starttag).                *)
LocatorsDiffer ==
    \A i, j \in DOMAIN elements : elements[i].locator = elements[j].locator => i = j

Offends(e) ==
    \/ e.tag \notin Allowed
    \/ e.attr # "fine"
    \/ Len(e.locator) = 1 /\ e.span # "slug"

NoneCleaned == \A i \in DOMAIN elements : elements[i].tag \notin CleanContent

(* A rejection names every element that is itself outside the policy, at a *)
(* locator no other element has, however much of the fragment nh3 took     *)
(* away around it; and no element that is not, as long as nh3 took no      *)
(* element away with what it held and read the rest as the walker did      *)
(* (_stripped_violations, handle_starttag).                                *)
OffenderIsBlamed ==
    /\ LocatorsDiffer
    /\ verdict # "none" =>
          /\ \A i \in DOMAIN elements :
                Offends(elements[i]) => \E v \in violations : v.locator = elements[i].locator
          /\ ~moved /\ NoneCleaned =>
                \A v \in violations, i \in DOMAIN elements :
                   v.locator = elements[i].locator => Offends(elements[i])
=============================================================================
