--------------------------- MODULE MCRequestBuild ---------------------------
(* Ports up to 31, longs up to 127: every text of up to four symbols behind    *)
(* the ':', and URLs that are wrong before it; for one good URL, groups    *)
(* with every length of key and value on either side of a doubling.        *)
EXTENDS RequestBuild

MCUrlChar == {"http", "https", ":", "//", "h", "0", "1", "3", "8", "f", "x", "-", " "}
MCScheme == <<"http", ":", "//">>
MCPorts == BoundedSeq({"0", "1", "3", "8", "f", "x", "-", " "}, 4)
MCGood == MCScheme \o <<"h", ":", "1", "3">>
MCUrls ==
  {MCScheme \o <<"h", ":">> \o p : p \in MCPorts} \cup
  {<<"https", ":", "//", "h", ":", "1">>, <<"h", ":", "1">>, <<"http">>,
   MCScheme, MCScheme \o <<"h">>, MCScheme \o <<":", "1">>, MCScheme \o <<"h", ":", "1", ":", "3">>}

MCChar == {"a", "b", "n", "quote", "backslash", "newline"}
MCEscape == [c \in {"quote", "backslash", "newline"} |->
               IF c = "newline" THEN <<"n">> ELSE <<c>>]
MCEntry ==
  [key : {<<"a">>, <<"b", "a">>, <<"a", "b", "a">>},
   value : {[n \in 1 .. k |-> "b"] : k \in 0 .. 6}
             \cup {<<"a", "quote">>, <<"backslash">>, <<"newline", "b">>}]
MCGroups == UNION {[1 .. n -> MCEntry] : n \in 1 .. 2} \cup
  {<<e, e, f>> : e, f \in {g \in MCEntry : Len(g.key) = 1}}

MCCases ==
  {[url |-> MCGood, group |-> g] : g \in MCGroups} \cup
  {[url |-> u, group |-> <<[key |-> <<"a">>, value |-> <<"b">>]>>] : u \in MCUrls}
=============================================================================
