-------------------------- MODULE MCPropertyGroup --------------------------
(* Groups that stay within their first block, and groups that outgrow it   *)
(* twice; the entries put replace, repeat and extend.                      *)
EXTENDS PropertyGroup

MCKey == {"buy", "help", "stop"}
MCValue == {"", "x"}
MCInitial == [parse |-> 1, api |-> 2, params |-> 2]
MCInputs == BoundedSeq([key : {"buy", "help"}, value : MCValue], 5)
MCExtra == <<[key |-> "stop", value |-> "x"], [key |-> "help", value |-> ""],
             [key |-> "stop", value |-> ""]>>
=============================================================================
