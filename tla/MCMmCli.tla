------------------------------ MODULE MCMmCli ------------------------------
(* Two terminals.  A config fits in stdio's buffer, as it does in the      *)
(* program; the larger API does not.                                       *)
EXTENDS MmCli, FileUsers

MCSymmetry == Permutations(Proc)
MCBlank == {"nl", " "}
MCOrder == <<"nul", "nl", " ", "=", "buy", "help", "sell", "url", "userpass",
             "base", "rel", "u1", "u2", "p1", "p2">>
MCRank == [s \in {MCOrder[i] : i \in DOMAIN MCOrder} |->
             CHOOSE i \in DOMAIN MCOrder : MCOrder[i] = s]
MCUrl == <<"url">>
MCUserpass == <<"userpass">>
MCHelpKey == <<"help">>
\* With its key it fills line[], and the newline is lost.
MCLongUrl == <<"u2", "u2", "u2">>
MCValidUrl == {<<"u1">>, <<"u2">>, MCLongUrl \o <<"userpass", "=", "p2">>}

MCCommands ==
  LET run(method, args) == [method |-> method, args |-> args] IN
  {run(CONFIG, <<<<"u1">>, <<"p1", " ">>>>), run(CONFIG, <<<<"u2">>, <<"p2">>>>),
   run(CONFIG, <<MCLongUrl, <<"p2">>>>),
   run(REFRESH, <<>>), run(<<"buy">>, <<"x">>)}

\* Every way through main(), the wrong command lines included.
MCAllCommands ==
  LET run(method, args) == [method |-> method, args |-> args] IN
  {run(CONFIG, <<<<"u1">>, <<>>>>), run(CONFIG, <<<<>>, <<>>>>),
   run(CONFIG, <<>>), run(REFRESH, <<>>), run(REFRESH, <<"x">>), run(HELP, <<>>),
   run(<<"buy">>, <<HELP>>), run(<<"buy">>, <<"x", "x">>), run(<<"url">>, <<>>)}

MCApis ==
  LET e(key, names) == [key |-> <<key>>, value |-> names] IN
  {<<e("help", <<"base">>), e("sell", <<>>), e("buy", <<"base">>)>>,
   <<e("buy", <<"rel", "base">>)>>}
MCSmallApis == {<<[key |-> <<"buy">>, value |-> <<"base">>]>>}
=============================================================================
