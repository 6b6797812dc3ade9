-------------------------------- MODULE MCApp -------------------------------
(***************************************************************************)
(* One App module shaped like auto exposure: a number with a range, an     *)
(* enumeration and a command, with an apply and an exec callback.          *)
(***************************************************************************)
EXTENDS ParamProperties

MCTable      == [m \in Modules |-> <<"luma", "mode", "calibrate">>]
MCOwner      == [p \in Params |-> "auto_exp"]
MCKind       == [m \in Modules |-> "app"]
MCLid        == [luma |-> 0, mode |-> 1, calibrate |-> 2]
MCFlags      == [luma |-> {"persist"}, mode |-> {}, calibrate |-> {"exec"}]
MCDefault    == [p \in Params |-> 0]
MCAccepts    == [luma |-> Values, mode |-> {0, 2}, calibrate |-> Values]
MCInitLimits == [p \in Params |-> [on |-> p = "luma", min |-> 1, max |-> 2]]
MCInitPush   == [m \in Modules |-> {"luma", "mode"}]
MCOrder      == [m \in Modules |-> 0]
=============================================================================
