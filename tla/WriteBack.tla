----------------------------- MODULE WriteBack ------------------------------
(***************************************************************************)
(* What the IP subsystem promises its callers, without the flags, maps and *)
(* lists it is built from: a write-back cache in front of the registers of *)
(* a driver.  A value put in the cache is owed to the register until it    *)
(* has been delivered, the cache goes back to its default or the framework *)
(* is closed.                                                              *)
(***************************************************************************)
CONSTANTS
  Params,    \* the parameters
  Commands,  \* those that are EXEC commands
  Values,    \* what a parameter or a register may hold
  Default    \* Default[p]: the value a reset puts in the cache

VARIABLES
  cache,    \* cache[p]: the cached value
  reg,      \* reg[p]: what p's register last received
  owed,     \* parameters whose cached value must still reach the register
  open      \* the framework accepts calls

vars == <<cache, reg, owed, open>>

Init ==
  /\ cache = Default
  /\ reg \in [Params -> Values]
  /\ owed = {}
  /\ open = FALSE

\* New values enter the cache (param_write, param_load) and are owed.
Put ==
  /\ cache' \in [Params -> Values]
  /\ {p \in Params : cache'[p] # cache[p]} \subseteq owed'
  /\ owed \subseteq owed'
  /\ UNCHANGED <<reg, open>>

\* Cached values reach registers (param_flush, an init callback); only what
\* was delivered stops being owed, but it may stay owed and go out again.
Deliver ==
  /\ \A p \in Params : reg'[p] \in {reg[p], cache[p]}
  /\ owed' \subseteq owed
  /\ \A p \in owed \ owed' : reg'[p] = cache[p]
  /\ UNCHANGED <<cache, open>>

\* One parameter through cache and register at once (param_write_immediate).
Through(p) ==
  /\ \E v \in Values :
       /\ cache' = [cache EXCEPT ![p] = v]
       /\ reg' = [reg EXCEPT ![p] = v]
  /\ owed' = owed \ {p}
  /\ open' = open

\* Caches go back to their defaults (param_reset): what is forgotten is owed
\* no more, and no register hears of it.
Reset ==
  /\ \A p \in Params : cache'[p] \in {cache[p], Default[p]}
  /\ cache' \in [Params -> Values]
  /\ owed' \subseteq owed
  /\ \A p \in owed \ owed' : cache'[p] = Default[p]
  /\ \A p \in owed' : cache'[p] = cache[p]
  /\ UNCHANGED <<reg, open>>

\* The framework opens and closes (param_init, param_deinit).  What is owed on
\* closing is given up, or all of it stays owed: param_deinit does not find an
\* instance that was registered before the framework was opened again.
Open  == open' = TRUE /\ UNCHANGED <<cache, reg, owed>>
Close == open' = FALSE /\ owed' \in {{}, owed} /\ UNCHANGED <<cache, reg>>

\* The driver is reached around the cache (ip_control).
Around(p) ==
  /\ \E v \in Values : reg' = [reg EXCEPT ![p] = v]
  /\ UNCHANGED <<cache, owed, open>>

\* A command runs.  It has no value to deliver, so whether it counts as owed
\* is left open.
Command(p) ==
  /\ p \in Commands
  /\ \E v \in Values : reg' = [reg EXCEPT ![p] = v]
  /\ owed \ {p} \subseteq owed' /\ owed' \subseteq owed \cup {p}
  /\ UNCHANGED <<cache, open>>

Next ==
  \/ Put \/ Deliver \/ Reset \/ Open \/ Close
  \/ \E p \in Params : Through(p) \/ Around(p) \/ Command(p)

Spec == Init /\ [][Next]_vars
=============================================================================
