----------------------------- MODULE MCPersist ------------------------------
(***************************************************************************)
(* An App module whose table holds one id twice, and an IP instance.  The  *)
(* table has four slots, one fewer than there are entries, and three ids   *)
(* collide at the last of them.  In MCHashSize the table has eight slots,  *)
(* more than its slot indices can count.                                   *)
(***************************************************************************)
EXTENDS ParamPersist, TLC

MCId    == [luma |-> "l", luma2 |-> "l", name |-> "n", gain |-> "g",
            fps |-> "f"]
MCHash  == [l |-> 3, n |-> 11, g |-> 7, f |-> 1]
MCKind  == [auto_exp |-> "app", sensor |-> "ip"]
MCTable == [auto_exp |-> <<"luma", NoEntry, "luma2", "name">>,
            sensor |-> <<"gain", "gain", "fps">>]
MCValues  == [e \in Entries |-> IF e = "gain" THEN {0, 1} ELSE {Default[e]}]
MCDefault == [e \in Entries |-> 0]
BankSymmetry == Permutations(Banks)
=============================================================================
