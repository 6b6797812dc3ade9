----------------------------- MODULE ParamState -----------------------------
(***************************************************************************)
(* The state of the parameter manager and the small operations every other *)
(* module uses: the registry (hash table and ordered module list), the     *)
(* dirty flags with their global count, and the clamp of numeric values.   *)
(*                                                                         *)
(* Module nodes and parameter entries are static C objects: they exist     *)
(* before param_init and survive param_deinit with whatever flags and      *)
(* values they hold.  The constants describe what is fixed at compile time *)
(* (tables, flags, defaults, callbacks), the variables what changes.       *)
(*                                                                         *)
(* A parameter is identified with its entry: ids are unique, and entry p   *)
(* has id <<Owner[p], Lid[p]>>.  A value is a small integer.               *)
(***************************************************************************)
EXTENDS Integers, FiniteSets, Sequences

CONSTANTS
  Modules,       \* module nodes, App modules and IP instances
  Params,        \* parameter entries
  NoEntry,       \* a NULL slot of a table
  None,          \* a NULL node pointer
  Values,        \* the values a parameter_value_t may hold
  Kind,          \* Kind[m]: "app" or "ip", the module's vtable
  Table,         \* Table[m]: the module's table of entry pointers
  Order,         \* Order[m]: get_module_order_index of the module
  OrderCount,    \* number of ids in MODULE_INIT_ORDER
  Wired,         \* App modules with an apply, IP instances with a write_cb
  Execs,         \* modules with an exec_cb
  InitPush,      \* InitPush[m]: entries the module's init callback pushes
  Owner,         \* Owner[p]: PARAM_MODULE_ID of the entry
  Lid,           \* Lid[p]: PARAM_LOCAL_ID of the entry
  Flags,         \* Flags[p]: its PARAM_FLAG_xxx
  Default,       \* Default[p]: default_val
  Numeric,       \* App entries of type UINT, INT or FLOAT
  Accepts,       \* Accepts[p]: values validate_enum lets through
  InitLimits,    \* InitLimits[p]: has_range, min and max as compiled in
  LimitArgs,     \* bounds a caller passes to param_set_range
  Lids,          \* local ids a driver may be asked to write
  DirtyMapBits,  \* IP_DIRTY_MAP_BITS
  HashSize,      \* PARAM_HASH_SIZE
  ErrorWrap,     \* flush_error_count counts modulo this (2^16 in the code)
  Calls          \* the API calls the application makes

Stats == [module_count : Nat, param_count : Nat, persist_count : Nat,
          flush_error_count : Nat, flush_order_miss_count : Nat]

Limits == [on : BOOLEAN, min : Values, max : Values]

ASSUME ModulesAssumption ==
  /\ IsFiniteSet(Params) /\ IsFiniteSet(Modules)
  /\ None \notin Modules /\ NoEntry \notin Params
  /\ Kind \in [Modules -> {"app", "ip"}]
  /\ Order \in [Modules -> 0 .. OrderCount]
  /\ OrderCount \in Nat
  /\ Wired \subseteq Modules /\ Execs \subseteq Modules

ASSUME ParamsAssumption ==
  /\ Values \subseteq Int /\ Values # {}
  /\ Owner \in [Params -> Modules]
  /\ Lid \in [Params -> Lids]
  /\ Flags \in [Params -> SUBSET {"persist", "readonly", "exec"}]
  /\ Default \in [Params -> Values]
  /\ Accepts \in [Params -> SUBSET Values]
  /\ Numeric \subseteq Params
  /\ \A p \in Numeric : Kind[Owner[p]] = "app"
  /\ InitLimits \in [Params -> Limits]
  /\ LimitArgs \subseteq Values
  /\ InitPush \in [Modules -> SUBSET Params]
  /\ \A m \in Modules : \A p \in InitPush[m] : Owner[p] = m
  /\ \A p, q \in Params : Owner[p] = Owner[q] /\ Lid[p] = Lid[q] => p = q

ASSUME TablesAssumption ==
  /\ Table \in [Modules -> Seq(Params \cup {NoEntry})]
  /\ \A m \in Modules :
       /\ Table[m] # <<>>
       /\ \A i \in DOMAIN Table[m] :
            /\ i - 1 \in Lids
            /\ Table[m][i] \in Params => Owner[Table[m][i]] = m
            /\ \A j \in DOMAIN Table[m] :
                 Table[m][i] = Table[m][j] => i = j \/ Table[m][i] = NoEntry

ASSUME BoundsAssumption ==
  /\ Lids \subseteq Nat
  /\ DirtyMapBits \in Nat \ {0}
  /\ HashSize \in Nat \ {0}
  /\ ErrorWrap \in Nat \ {0}

VARIABLES
  initialized,   \* g_pm.initialized
  storage,       \* a storage driver is installed
  list,          \* g_pm.module_head, followed through next
  hashed,        \* entries in g_pm.hash
  stats,         \* g_pm.stats, but for dirty_count
  dirty_count,   \* g_pm.stats.dirty_count
  dirty,         \* entries whose dirty byte is 1
  mod_dirty,     \* modules whose dirty bit is 1
  dirty_map,     \* dirty_map[m]: bits set in an IP instance's map
  cache,         \* cache[p]: the entry's cached value
  limits,        \* limits[p]: its has_range, min and max
  hw,            \* hw[m][l]: what the driver or algorithm last received
  loader,        \* next node of a param_load_all in its INIT phase, or None
  call           \* the last API call that returned, and its result

registry == <<initialized, storage, list, hashed, stats>>
flags    == <<dirty, dirty_count, mod_dirty, dirty_map>>
state    == <<registry, flags, cache, limits, hw, loader>>
vars     == <<state, call>>

-----------------------------------------------------------------------------
(* Results. *)

\* The calls, with the init phase of param_load_all as one of its own.
ApiCalls == {"none", "init", "deinit", "set_storage", "register", "write",
             "write_raw", "write_immediate", "exec", "ip_control", "flush",
             "check", "save", "load", "load_all", "module_init", "reset_one",
             "reset_all", "set_range", "validate_all", "clear_stats"}

\* param_status_t, and "IO" for whatever a callback returns when it fails.
Statuses == {"OK", "INVALID_ID", "OUT_OF_RANGE", "READONLY", "TYPE_MISMATCH",
             "NOT_FOUND", "FLASH_FAIL", "ALREADY_REG", "NO_MEMORY", "BUSY", "IO"}

Results == [op : ApiCalls, ret : Statuses]

Return(op, ret) == call' = [op |-> op, ret |-> ret]

\* A call that returns before it changes anything.
Refuse(op, ret) == Return(op, ret) /\ UNCHANGED state

-----------------------------------------------------------------------------
(* The registry. *)

\* The modules param_module_find can find.
Listed == {list[i] : i \in DOMAIN list}

\* The entries of a module's table, NULL slots left out.
Entries(m) == {Table[m][i] : i \in DOMAIN Table[m]} \ {NoEntry}

\* Fault: the table is taken for full one slot early.
FirstEntries_short(m, n) ==
  {Table[m][i] : i \in {j \in DOMAIN Table[m] :
      /\ Table[m][j] # NoEntry
      /\ Cardinality({k \in 1 .. j : Table[m][k] # NoEntry}) < n}}

\* What hash_insert takes in table order before a table with n free slots
\* is full.
FirstEntries(m, n) ==
  {Table[m][i] : i \in {j \in DOMAIN Table[m] :
      /\ Table[m][j] # NoEntry
      /\ Cardinality({k \in 1 .. j : Table[m][k] # NoEntry}) <= n}}

\* Faults: a node only ever goes to the tail, or to the head.
node_insert_tail(m) == list \o <<m>>
node_insert_head(m) == <<m>> \o list

\* param_module_node_insert: after every leading node that does not come
\* later in MODULE_INIT_ORDER.
node_insert(m) ==
  LET before == Cardinality({i \in DOMAIN list :
                    \A j \in 1 .. i : Order[list[j]] <= Order[m]})
  IN SubSeq(list, 1, before) \o <<m>> \o SubSeq(list, before + 1, Len(list))

-----------------------------------------------------------------------------
(* Entry dirty flags and their count. *)

\* Fault: no guard against going below zero.
Less_unguarded(a, b) == a - b

\* The count is not taken below zero.
Less(a, b) == IF b < a THEN a - b ELSE 0

\* Fault: an entry that is dirty already is counted again.
mark_entries_again(S) ==
  /\ dirty' = dirty \cup S
  /\ dirty_count' = dirty_count + Cardinality(S)

\* mark_dirty_if_needed, for every entry of S.
mark_entries(S) ==
  /\ dirty' = dirty \cup S
  /\ dirty_count' = dirty_count + Cardinality(S \ dirty)

\* Fault: an entry that is not dirty is counted off.
clear_entries_always(S) ==
  /\ dirty' = dirty \ S
  /\ dirty_count' = Less(dirty_count, Cardinality(S))

\* param_entry_clear_dirty, for every entry of S.
clear_entries(S) ==
  /\ dirty' = dirty \ S
  /\ dirty_count' = Less(dirty_count, Cardinality(S \cap dirty))

-----------------------------------------------------------------------------
(* What an init callback of module m does: it reads cached values and hands *)
(* them to its driver or algorithm.  It may fail before it has handed over  *)
(* all of them; its result is not looked at.                                *)

run_init_cb(m) ==
  \E S \in SUBSET InitPush[m] :
    hw' = [hw EXCEPT ![m] =
             [l \in Lids |->
                IF \E p \in S : Lid[p] = l
                THEN cache[CHOOSE p \in S : Lid[p] = l]
                ELSE hw[m][l]]]

-----------------------------------------------------------------------------
(* Range clamp. *)

\* Fault: the upper bound is not looked at.
clamp_value_from_below(r, v) == IF r.on /\ v < r.min THEN r.min ELSE v

\* clamp_value_to_range: first up to min, then down to max.
clamp_value_to_range(r, v) ==
  LET low == IF v < r.min THEN r.min ELSE v
  IN IF ~r.on THEN v ELSE IF low > r.max THEN r.max ELSE low

\* The same for the value v of entry p; other types pass unchanged.
clamp(p, v) == IF p \in Numeric THEN clamp_value_to_range(limits[p], v) ELSE v
=============================================================================
