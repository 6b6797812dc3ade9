-------------------------------- MODULE MCIp --------------------------------
(***************************************************************************)
(* One IP instance shaped like the image sensor: an ordinary parameter, an *)
(* EXEC command and a read-only parameter, with a driver and an exec_cb.   *)
(***************************************************************************)
EXTENDS ParamProperties

MCTable      == [m \in Modules |-> <<"exposure", "shutdown", "luma">>]
MCOwner      == [p \in Params |-> "sensor"]
MCKind       == [m \in Modules |-> "ip"]
MCLid        == [exposure |-> 0, shutdown |-> 1, luma |-> 2]
MCFlags      == [exposure |-> {"persist"}, shutdown |-> {"exec"},
                 luma |-> {"readonly"}]
MCDefault    == [p \in Params |-> 0]
MCAccepts    == [p \in Params |-> Values]
MCInitLimits == [p \in Params |-> [on |-> FALSE, min |-> 0, max |-> 0]]
MCInitPush   == [m \in Modules |-> {"exposure"}]
MCOrder      == [m \in Modules |-> 0]

\* The instance has the layout WriteBackSpec is about.
ASSUME LayoutAssumption == Aligned /\ TablesFit
=============================================================================
