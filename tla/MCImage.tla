------------------------------- MODULE MCImage -------------------------------
(* Every command, every table of users and every table of devices of up to  *)
(* three entries in a call of its own, and calls that are interrupted.      *)
EXTENDS MCImageData, Image

OneCall ==
  [wrappers |-> {RiscV}, ways |-> {ByName}, envs |-> {NoDate}, commands |-> {Command1},
   users |-> {FewUsers}, devices |-> {FewDevices}, calls |-> 1, faults |-> 0, edits |-> 0,
   there |-> TRUE]
AllPlans == [n \in {"commands", "environments", "users", "devices", "calls"} |->
  CASE n = "commands" -> [OneCall EXCEPT !.wrappers = {RiscV, Arm, Mips}, !.commands = AllCommands]
    [] n = "environments" -> [OneCall EXCEPT !.wrappers = {RiscV, Arm, Mips}, !.ways = {ByName, ByPath},
                                !.envs = Environments, !.commands = UpTo(1, Words)]
    [] n = "users" -> [OneCall EXCEPT !.users = AllUsers]
    [] n = "devices" -> [OneCall EXCEPT !.devices = AllDevices]
    [] OTHER -> [OneCall EXCEPT !.users = {FewUsers, OtherUsers}, !.calls = 3, !.faults = 2,
                   !.edits = 1, !.there = FALSE]]

MCPlans == AllPlans
MCSkeleton == AllSkeleton
MCPasswd == AllPasswd
MCGroup == AllGroup
MCNumeralOf == [t \in {"0", "33"} |-> IF t = "0" THEN 0 ELSE 33]
MCPrograms == <<[name |-> "fann", lib |-> "fann"], [name |-> "litert", lib |-> "litert"],
                [name |-> "onnx", lib |-> "onnx"]>>
MCLibs == <<"fann", "litert", "onnx">>
=============================================================================
