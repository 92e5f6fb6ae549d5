---------------------------- MODULE MCFileUsers ----------------------------
(* Two processes and one file; two groups that stdio's buffer holds, one   *)
(* longer than the other, one with blanks that it does not, and one with a *)
(* line of just LineMax symbols and a line that is cut.                    *)
EXTENDS FileUsers

MCSymmetry == Permutations(Proc)

MCBlank == {"nl", " "}
MCOrder == <<"nul", "nl", " ", "=", "a", "b", "v">>
MCRank == [s \in {MCOrder[i] : i \in DOMAIN MCOrder} |->
             CHOOSE i \in DOMAIN MCOrder : MCOrder[i] = s]
MCGroups ==
  LET e(key, value) == [key |-> <<key>>, value |-> value] IN
  {<<e("a", <<"v">>)>>,
   <<e("b", <<>>), e("a", <<>>)>>,                         \* not sorted
   <<e("b", <<" ", "v", " ">>), e("b", <<>>)>>,            \* a key twice
   <<e("a", <<"v", "=", "v">>), e("b", [n \in 1 .. 6 |-> "v"])>>}
=============================================================================
