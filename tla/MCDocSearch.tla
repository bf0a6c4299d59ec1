----------------------------- MODULE MCDocSearch -----------------------------
(* Three small files; "re" is too short to be a token, "retry" is one and a  *)
(* prefix of another.                                                        *)
EXTENDS DocSearch

Text(tokens) == [tokens |-> tokens, size |-> "short"]
Entry(kind, ext, readable, lines) == [kind |-> kind, ext |-> ext, readable |-> readable, lines |-> lines]
File(lines) == Entry("file", ".md", TRUE, lines)

One   == <<Text({"retry"}), Text({"retrying", "pool"})>>
Two   == <<Text({"pool"}), Text({"retrying"}), Text({"retry"})>>
Three == <<[tokens |-> {"pool"}, size |-> "long"], Text({"reset"})>>
Whale == <<[tokens |-> {"retry"}, size |-> "huge"]>>

MCTrees ==
  {<<>>,
   <<File(One), File(Two), File(Three)>>,
   <<File(Two), Entry("file", ".md", FALSE, One)>>,
   <<Entry("skipped dir", "", TRUE, <<>>), Entry("link", ".md", TRUE, One), Entry("file", ".go", TRUE, One),
     Entry("file", ".txt", TRUE, One), File(<<>>), File(Whale), File(Two)>>}

MCQueries == {<<>>, <<"retry">>, <<"re">>, <<"reset", "pool">>}
MCPrefixPairs == {<<"retrying", "retry">>} \cup {<<t, "re">> : t \in {"retry", "retrying", "reset"}}
MCVersions == {<<>>, <<Text({"reset"}), Text({"retry"})>>, Whale}
==============================================================================
