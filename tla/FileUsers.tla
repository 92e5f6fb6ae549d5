----------------------------- MODULE FileUsers -----------------------------
(* Processes that load and save any groups, in any order, at any time.     *)
EXTENDS PropertyFile

CONSTANT Groups

ASSUME GroupsAssumption ==
  Groups \subseteq Seq([key : Seq(Symbol), value : Seq(Symbol)])

User(p) ==
  \/ \E f \in Path : StartLoad(p, f)
  \/ \E f \in Path, g \in Groups : StartSave(p, f, g)
  \/ FileStep(p)
  \/ Kill(p)

FileNext == \E p \in Proc : User(p)

(* What any user of load_properties and save_properties does to the files. *)
(* The invocations of MmCli are shown to be such users: they load and save *)
(* one after the other, and save only what a user gave or a server listed. *)
FileSpec == FileInit /\ [][FileNext]_fileVars
=============================================================================
