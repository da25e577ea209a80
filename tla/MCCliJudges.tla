---------------------------- MODULE MCCliJudges ----------------------------
(***************************************************************************)
(* Four judges of three families on three pairs, one of them asked about   *)
(* in both orders; another has an author on the roster, and in the third   *)
(* the markup of a candidate names a model family.                         *)
(***************************************************************************)
EXTENDS CliJudges

CONSTANTS x, y, z, c1, c2, c3, c4

MCRoster == <<x, y, z, y>>

MCTransport == [f \in Family |-> CASE f = x -> "claude" [] f = y -> "codex" [] f = z -> "gemini"]

MCBuilderOf == [c \in Candidate |-> CASE c = c1 -> NoBuilder [] c = c2 -> NoBuilder [] c = c3 -> x [] c = c4 -> y]

MCTelltale == {c4, "named"}

MCPairs == {<<c1, c2>>, <<c2, c1>>, <<c1, c3>>, <<c1, c4>>}
=============================================================================
