----------------------------- MODULE MCApiHelp -----------------------------
(* Every short list of parameters, every short text of several lines, and  *)
(* lines like those of the server; the longest fill line[] when they are   *)
(* saved, and are cut.                                                     *)
EXTENDS ApiHelp

MCChar == {"a", "b", "c", ",", "[", "]", "<", ">", "=", " ", "(", ")", "#", "/", "nl"}
MCOrder == <<"NUL", "nl", " ", "#", "(", ")", ",", "/", "<", "=", ">", "[", "]",
             "a", "b", "c">>
MCRank == [c \in {MCOrder[i] : i \in DOMAIN MCOrder} |->
             CHOOSE i \in DOMAIN MCOrder : MCOrder[i] = c]
MCParams == BoundedSeq({"a", ",", "[", "]", "<", ">", "=", " "}, 4)
MCLines == BoundedSeq({"a", "(", ")", "#", "/", " ", "nl"}, 5)
MCServer ==
  LET a == <<"a">>  tail == <<")", " ", "(", "nl", "b", "(", "c", ",", "b">> IN
  {<<"a", "(", " ">> \o x \o <<",", " ">> \o y \o tail :
     x, y \in {a, <<"a", "=">>, <<"a", "=", "[", "]">>, <<"[", "a", "=", "b", "]">>,
               <<"a", "[", "]">>, <<"<", "a", " ", "b", ">">>, <<"a", " ", "=", "b">>,
               <<"a", "[", "]", "=", "b">>, <<"[", " ", "a", "[", "]", " ", "]">>}}
MCTexts ==
  {<<"a", "(">> \o x : x \in MCParams} \cup MCLines \cup MCServer \cup
  {<<"a", "=", "b", "(", "c", ")">>, <<" ", "a", "(", "b", ",", "/", "/", ")", "nl", "#", "a", "(">>}
=============================================================================
