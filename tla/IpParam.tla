------------------------------- MODULE IpParam ------------------------------
(***************************************************************************)
(* The IP subsystem (ip_param_manager.c): the entry operations of          *)
(* ip_vtable, the module operations of ip_module_vtable and the driver     *)
(* access.  An IP instance tracks its dirty parameters twice: one byte per *)
(* entry, and one bit of dirty_map per local id.                           *)
(***************************************************************************)
EXTENDS ParamState

\* ip_find: the entry's module is registered (with ip_module_vtable).
HasInstance(p) == Owner[p] \in Listed

HasDriver(p) == HasInstance(p) /\ Owner[p] \in Wired

\* ip_param_write: cache and entry flag; the hardware waits for a flush.
ip_param_write(p, v) ==
  /\ "exec" \notin Flags[p]
  /\ HasInstance(p)
  /\ cache' = [cache EXCEPT ![p] = v]
  /\ mark_entries({p})
  /\ UNCHANGED hw

ip_param_write_errors(p) ==
  IF "exec" \in Flags[p] THEN {"READONLY"}
  ELSE IF ~HasInstance(p) THEN {"NOT_FOUND"} ELSE {}

\* ip_write_immediate, ordinary parameter: write_cb, then cache and flag.
ip_write_immediate(p, v) ==
  /\ "exec" \notin Flags[p]
  /\ HasDriver(p)
  /\ hw' = [hw EXCEPT ![Owner[p]][Lid[p]] = v]
  /\ cache' = [cache EXCEPT ![p] = v]
  /\ clear_entries({p})

ip_write_immediate_errors(p) ==
  IF ~HasDriver(p) THEN {"NOT_FOUND"} ELSE {"IO"}

-----------------------------------------------------------------------------
(* Module operations. *)

\* Fault: a module that is dirty already is taken to have the bit.
ip_module_mark_dirty_once(m, lid) ==
  /\ mod_dirty' = mod_dirty \cup {m}
  /\ dirty_map' = IF m \in mod_dirty THEN dirty_map
                  ELSE [dirty_map EXCEPT ![m] = @ \cup {lid}]

\* Fault: the last bit of the map is not used.
ip_module_mark_dirty_short(m, lid) ==
  /\ mod_dirty' = mod_dirty \cup {m}
  /\ dirty_map' = IF lid + 1 < DirtyMapBits
                  THEN [dirty_map EXCEPT ![m] = @ \cup {lid}] ELSE dirty_map

\* ip_module_mark_dirty
ip_module_mark_dirty(m, lid) ==
  /\ mod_dirty' = mod_dirty \cup {m}
  /\ dirty_map' = IF lid < DirtyMapBits
                  THEN [dirty_map EXCEPT ![m] = @ \cup {lid}] ELSE dirty_map

\* Fault: the module flag goes whatever bits are left.
clear_bits_and_flag(m, bits) ==
  /\ dirty_map' = [dirty_map EXCEPT ![m] = @ \ bits]
  /\ mod_dirty' = mod_dirty \ {m}

\* Clear bits of the map, and the module flag when none is left.
clear_bits(m, bits) ==
  /\ dirty_map' = [dirty_map EXCEPT ![m] = @ \ bits]
  /\ mod_dirty' = IF dirty_map[m] \subseteq bits THEN mod_dirty \ {m}
                                                 ELSE mod_dirty

\* ip_module_clear_dirty
ip_module_clear_dirty(m, lid) ==
  IF lid < DirtyMapBits THEN clear_bits(m, {lid})
                        ELSE UNCHANGED <<mod_dirty, dirty_map>>

\* The bit ip_param_reset clears with ~(1ULL << lid).  A shift by 64 or more
\* is undefined: the mask may be empty or the shift taken modulo 64.
reset_bits(lid) ==
  IF lid < DirtyMapBits THEN {{lid}} ELSE {{}, {lid % DirtyMapBits}}

\* Fault: the loop ends one slot early.
Sendable_short(m) == {i \in DOMAIN Table[m] : /\ i - 1 \in dirty_map[m]
                                              /\ Table[m][i] # NoEntry
                                              /\ m \in Wired
                                              /\ i < Len(Table[m])}

\* ip_module_flush writes table slot i when bit i - 1 is set, skips an empty
\* slot, and skips everything when there is no write_cb.
Sendable(m) == {i \in DOMAIN Table[m] : /\ i - 1 \in dirty_map[m]
                                        /\ Table[m][i] # NoEntry
                                        /\ m \in Wired}
=============================================================================
