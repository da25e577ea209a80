---------------------------- MODULE MCPublication ----------------------------
(***************************************************************************)
(* The first pick is any fragment of up to four tokens over a div, a span, *)
(* a paragraph, an image, a template and an iframe, or a longer one around *)
(* a template, or two elements with whatever attributes; the later pick is *)
(* one of a few that fare differently.                                     *)
(***************************************************************************)
EXTENDS Publication

Start(kind, tag, span, attr) == [kind |-> kind, tag |-> tag, span |-> span, attr |-> attr]
End(tag) == [kind |-> "end", tag |-> tag]
Words == [kind |-> "text", quotes |-> FALSE]

MCTag == {"div", "span", "p", "img", "template", "iframe"}
MCClosedByStart == [t \in MCTag |-> IF t = "p" THEN {"p", "div"} ELSE {}]
MCEndedBy == MCClosedByStart

Div == Start("start", "div", "slug", "fine")

Tokens ==
    {Div, Start("start", "div", "none", "dropped"), Start("start", "p", "slug", "fine"),
     Start("start", "p", "none", "class"), Start("startend", "div", "bad", "fine"),
     Start("start", "span", "slug", "fine"), Start("start", "img", "slug", "fine"),
     Start("start", "template", "slug", "fine"), Start("start", "iframe", "slug", "fine"), Words, [kind |-> "decl"]}
    \cup {End(t) : t \in MCTag}

Inside ==
    {Start("startend", "img", "slug", "fine"), Start("start", "img", "none", "dropped"),
     Start("start", "template", "slug", "fine"), End("template")}

Longer == {<<Div>> \o f \o <<End("div")>> : f \in UNION {[1..n -> Inside] : n \in 3..5}}

Refusable == {"fine", "class", "url", "hx-on", "hx-twice", "hx-unknown", "hx-url", "hx-value"}

Attributed ==
    {<<Div, Start("startend", "img", "none", a), Start("startend", "div", "none", b), End("div")>> :
        a, b \in Refusable}

Plain == <<Div, Words, End("div")>>
Quoting == <<Div, [kind |-> "text", quotes |-> TRUE], End("div")>>

MCOffered ==
    << UNION {[1..n -> Tokens] : n \in 0..4} \cup Longer \cup Attributed, {Plain, Quoting, <<Div>>} >>
=============================================================================
