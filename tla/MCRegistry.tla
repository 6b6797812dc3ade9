----------------------------- MODULE MCRegistry -----------------------------
(***************************************************************************)
(* Three IP instances, one of them with more slots than a dirty map has    *)
(* bits, and two App modules, one of them missing from MODULE_INIT_ORDER;  *)
(* tables with empty slots; a hash table too small for all of them.        *)
(***************************************************************************)
EXTENDS ParamProperties

MCTable == [sensor |-> <<"gain">>, wide |-> <<"w0", NoEntry, "w2">>,
            huge |-> <<"h0", NoEntry, NoEntry, NoEntry>>,
            auto_exp |-> <<"luma", NoEntry, "speed">>, misc |-> <<"extra">>]
MCOwner == [gain |-> "sensor", w0 |-> "wide", w2 |-> "wide", h0 |-> "huge",
            luma |-> "auto_exp", speed |-> "auto_exp", extra |-> "misc"]
MCKind  == [sensor |-> "ip", wide |-> "ip", huge |-> "ip",
            auto_exp |-> "app", misc |-> "app"]
MCOrder == [sensor |-> 0, wide |-> 1, huge |-> 1, auto_exp |-> 2,
            misc |-> 3]
MCLid   == [gain |-> 0, w0 |-> 0, w2 |-> 2, h0 |-> 0, luma |-> 0, speed |-> 2,
            extra |-> 0]
MCFlags == [p \in Params |-> IF p \in {"gain", "w0", "luma"} THEN {"persist"} ELSE {}]
MCDefault    == [p \in Params |-> 0]
MCAccepts    == [p \in Params |-> Values]
MCInitLimits == [p \in Params |-> [on |-> FALSE, min |-> 0, max |-> 0]]
MCInitPush   == [m \in Modules |-> IF m = "sensor" THEN {"gain"} ELSE {}]
=============================================================================
