------------------------------ MODULE AppParam ------------------------------
(***************************************************************************)
(* The App subsystem (app_param_manager.c): the entry operations of        *)
(* app_vtable and the module operations of app_module_vtable.              *)
(*                                                                         *)
(* An entry operation sets cache, the entry dirty flag with its count, and *)
(* what apply hands to the algorithm (hw).  A module operation sets the    *)
(* module dirty flag.  ParamManager calls one after the other, as the core *)
(* does through the two vtables.                                           *)
(***************************************************************************)
EXTENDS ParamState

\* The module is registered and has an apply callback.
HasApply(p) == Owner[p] \in Listed \cap Wired

\* What the pre_write of p's type makes of a value it gets, and which of them
\* it lets through: numbers are clamped, an enumeration accepts its list.
pre_write(p, v) == clamp(p, v)
Passes(p, v)    == pre_write(p, v) \in Accepts[p]

\* Fault: apply gets the value as it came, before the clamp.
app_write_unclamped(p, v) ==
  /\ Flags[p] \cap {"readonly", "exec"} = {}
  /\ Passes(p, v)
  /\ hw' = IF HasApply(p) THEN [hw EXCEPT ![Owner[p]][Lid[p]] = v] ELSE hw
  /\ cache' = [cache EXCEPT ![p] = pre_write(p, v)]
  /\ mark_entries({p})

\* app_write: pre_write, apply, cache_update, mark_dirty_if_needed.
app_write(p, v) ==
  LET w == pre_write(p, v) IN
  /\ Flags[p] \cap {"readonly", "exec"} = {}
  /\ Passes(p, v)
  /\ hw' = IF HasApply(p) THEN [hw EXCEPT ![Owner[p]][Lid[p]] = w] ELSE hw
  /\ cache' = [cache EXCEPT ![p] = w]
  /\ mark_entries({p})

\* The ways app_write may return an error; "IO" is apply's own refusal.
app_write_errors(p, v) ==
  IF Flags[p] \cap {"readonly", "exec"} # {} THEN {"READONLY"}
  ELSE IF ~Passes(p, v) THEN {"OUT_OF_RANGE"}
  ELSE IF HasApply(p) THEN {"IO"} ELSE {}

\* app_write_immediate: apply first, and the cache only if it accepts.
app_write_immediate(p, v) ==
  LET w == pre_write(p, v) IN
  /\ Flags[p] \cap {"readonly", "exec"} = {}
  /\ HasApply(p)
  /\ Passes(p, v)
  /\ hw' = [hw EXCEPT ![Owner[p]][Lid[p]] = w]
  /\ cache' = [cache EXCEPT ![p] = w]
  /\ clear_entries({p})

app_write_immediate_errors(p, v) ==
  IF Flags[p] \cap {"readonly", "exec"} # {} THEN {"READONLY"}
  ELSE IF ~HasApply(p) THEN {"NOT_FOUND"}
  ELSE IF ~Passes(p, v) THEN {"OUT_OF_RANGE"} ELSE {"IO"}

-----------------------------------------------------------------------------
(* Module operations; p is the entry the core passes by its local id. *)

\* app_module_mark_dirty
app_module_mark_dirty(m) ==
  /\ mod_dirty' = mod_dirty \cup {m}
  /\ UNCHANGED dirty_map

\* Fault: the rest of the table is not looked at.
app_module_clear_dirty_blind(m) ==
  /\ mod_dirty' = mod_dirty \ {m}
  /\ UNCHANGED dirty_map

\* app_module_clear_dirty: only when no entry of the table is dirty any more.
app_module_clear_dirty(m) ==
  /\ mod_dirty' = IF Entries(m) \cap dirty' = {} THEN mod_dirty \ {m}
                                                 ELSE mod_dirty
  /\ UNCHANGED dirty_map

\* app_module_init: the module flag goes, then the user's init callback reads
\* the cached values and hands them on.
app_module_init(m) ==
  /\ mod_dirty' = mod_dirty \ {m}
  /\ UNCHANGED dirty_map
=============================================================================
