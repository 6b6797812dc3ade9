------------------------------- MODULE MCLock -------------------------------
(***************************************************************************)
(* The frame task, which writes, checks and flushes, and a host task that  *)
(* makes every other call, closes and reopens the framework, on an         *)
(* instance of two parameters whose init callback pushes one of them.      *)
(***************************************************************************)
EXTENDS ParamLock

MCJobs == [frame |-> {"write", "check", "flush"},
           host  |-> Calls \ {"write", "flush"}]
MCValues == [p \in Lids |-> IF p = 0 THEN {0, 1} ELSE {0}]
MCInitValues == [p \in Lids |-> IF p = 0 THEN {0} ELSE {0, 1}]
MCDefault == [p \in Lids |-> 0]
=============================================================================
