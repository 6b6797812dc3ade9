---------------------------- MODULE ParamManager ----------------------------
(***************************************************************************)
(* The core framework (param_manager.c): every public call that changes    *)
(* state is an action.  Each runs under LOCK from its first read to its    *)
(* last write, so it is one step here (a build whose LOCK excludes nothing *)
(* is another module's subject); param_load_all is the exception: it gives *)
(* the lock back before its INIT phase, which is one step per module.      *)
(*                                                                         *)
(* Callbacks into drivers, algorithms and the storage back end are outside *)
(* the framework: whether one succeeds is a nondeterministic choice, and   *)
(* one that fails has changed nothing.                                     *)
(***************************************************************************)
EXTENDS AppParam, IpParam

NoStats == [module_count |-> 0, param_count |-> 0, persist_count |-> 0,
            flush_error_count |-> 0, flush_order_miss_count |-> 0]

Init ==
  /\ initialized = FALSE /\ storage = FALSE
  /\ list = <<>> /\ hashed = {} /\ stats = NoStats
  /\ dirty = {} /\ dirty_count = 0
  /\ mod_dirty = {} /\ dirty_map = [m \in Modules |-> {}]
  /\ cache = Default /\ limits = InitLimits
  /\ \E v \in Values : hw = [m \in Modules |-> [l \in Lids |-> v]]
  /\ loader = None
  /\ call = [op |-> "none", ret |-> "OK"]

-----------------------------------------------------------------------------
(* Life cycle. *)

\* A storage driver whose init fails stays installed in a framework that is
\* not initialized.
param_init ==
  \/ initialized /\ Refuse("init", "BUSY")
  \/ \E drv, ok \in BOOLEAN :
       /\ ~initialized
       /\ drv \/ ok
       /\ storage' = drv /\ initialized' = ok
       /\ list' = <<>> /\ hashed' = {} /\ stats' = NoStats /\ dirty_count' = 0
       /\ Return("init", IF ok THEN "OK" ELSE "FLASH_FAIL")
       /\ UNCHANGED <<dirty, mod_dirty, dirty_map, cache, limits, hw, loader>>

\* ip_module_deinit empties the map; nothing clears an entry's or a module's
\* dirty flag.
param_deinit ==
  /\ initialized' = FALSE /\ storage' = FALSE
  /\ list' = <<>> /\ hashed' = {} /\ stats' = NoStats /\ dirty_count' = 0
  /\ dirty_map' = [m \in Modules |->
       IF m \in Listed /\ Kind[m] = "ip" THEN {} ELSE dirty_map[m]]
  /\ Return("deinit", "OK")
  /\ UNCHANGED <<dirty, mod_dirty, cache, limits, hw, loader>>

param_set_storage ==
  /\ \E drv \in BOOLEAN : storage' = drv
  /\ Return("set_storage", "OK")
  /\ UNCHANGED <<initialized, list, hashed, stats, flags, cache, limits, hw,
                 loader>>

-----------------------------------------------------------------------------
(* Registration.  A table that does not fit stays in the hash as far as it  *)
(* went in, and the module does not get into the list.                      *)

insert_module(m) ==
  LET room == HashSize - Cardinality(hashed)
      fits == Cardinality(Entries(m)) <= room
  IN /\ m \notin Listed /\ Entries(m) \cap hashed = {}
     /\ hashed' = hashed \cup FirstEntries(m, room)
     /\ list'   = IF fits THEN node_insert(m) ELSE list
     /\ stats'  = IF ~fits THEN stats ELSE
          [stats EXCEPT
             !.module_count = @ + 1, !.param_count = @ + Len(Table[m]),
             !.persist_count =
               @ + Cardinality({p \in Entries(m) : "persist" \in Flags[p]})]
     /\ Return("register", IF fits THEN "OK" ELSE "NO_MEMORY")
     /\ UNCHANGED <<initialized, storage, dirty_count, dirty, mod_dirty,
                    dirty_map, cache, limits, hw, loader>>

AlreadyRegistered(m) == m \in Listed \/ Entries(m) \cap hashed # {}

param_module_register(m) ==
  /\ Kind[m] = "app"
  /\ \/ ~initialized /\ Refuse("register", "NOT_FOUND")
     \/ /\ initialized /\ AlreadyRegistered(m)
        /\ Refuse("register", "ALREADY_REG")
     \/ initialized /\ insert_module(m)

\* No test of initialized here.
ip_driver_register(m) ==
  /\ Kind[m] = "ip"
  /\ \/ /\ m \notin Listed /\ Len(Table[m]) > DirtyMapBits
        /\ Refuse("register", "OUT_OF_RANGE")
     \/ /\ m \in Listed \/ Len(Table[m]) <= DirtyMapBits
        /\ AlreadyRegistered(m)
        /\ Refuse("register", "ALREADY_REG")
     \/ Len(Table[m]) <= DirtyMapBits /\ insert_module(m)

-----------------------------------------------------------------------------
(* Reading and writing: find the entry, let its vtable do the work, then    *)
(* let the module's vtable note it.                                         *)

\* A call on an id the framework cannot find.
not_found(op, p) ==
  \/ ~initialized /\ Refuse(op, "NOT_FOUND")
  \/ initialized /\ p \notin hashed /\ Refuse(op, "INVALID_ID")

Found(p) == initialized /\ p \in hashed

App(p) == Kind[Owner[p]] = "app"

mark_dirty(p) ==
  IF Owner[p] \notin Listed THEN UNCHANGED <<mod_dirty, dirty_map>>
  ELSE IF App(p) THEN app_module_mark_dirty(Owner[p])
  ELSE ip_module_mark_dirty(Owner[p], Lid[p])

clear_dirty(p) ==
  IF Owner[p] \notin Listed THEN UNCHANGED <<mod_dirty, dirty_map>>
  ELSE IF App(p) THEN app_module_clear_dirty(Owner[p])
  ELSE ip_module_clear_dirty(Owner[p], Lid[p])

entry_write(p, v) ==
  IF App(p) THEN app_write(p, v) ELSE ip_param_write(p, v)

entry_write_errors(p, v) ==
  IF App(p) THEN app_write_errors(p, v) ELSE ip_param_write_errors(p)

param_write(p, v) ==
  \/ not_found("write", p)
  \/ /\ Found(p)
     /\ \E e \in entry_write_errors(p, v) : Refuse("write", e)
  \/ /\ Found(p)
     /\ entry_write(p, v) /\ mark_dirty(p)
     /\ Return("write", "OK")
     /\ UNCHANGED <<registry, limits, loader>>

\* The exec callback of p's module, reached through a write; what it does to
\* the hardware shows in the command's own register.
HasExec(p) == Owner[p] \in Listed \cap Execs

run_exec_cb(p) ==
  \E v \in Values : hw' = [hw EXCEPT ![Owner[p]][Lid[p]] = v]

exec_errors(p) == IF HasExec(p) THEN {"IO"} ELSE {"NOT_FOUND"}

\* A payload longer than a value; an App entry is tested for READONLY first.
bad_length(p) ==
  IF App(p) /\ "readonly" \in Flags[p] THEN {} ELSE {"TYPE_MISMATCH"}

\* An EXEC entry goes to exec_cb and the module is marked dirty for it like
\* for any other entry whose write_raw returns PARAM_OK.
param_write_raw(p, v) ==
  \/ not_found("write_raw", p)
  \/ /\ Found(p)
     /\ \E e \in IF "exec" \in Flags[p] THEN exec_errors(p)
                 ELSE entry_write_errors(p, v) \cup bad_length(p) :
          Refuse("write_raw", e)
  \/ /\ Found(p)
     /\ \/ "exec" \notin Flags[p] /\ entry_write(p, v)
        \/ /\ "exec" \in Flags[p] /\ HasExec(p) /\ run_exec_cb(p)
           /\ UNCHANGED <<dirty, dirty_count, cache>>
     /\ mark_dirty(p)
     /\ Return("write_raw", "OK")
     /\ UNCHANGED <<registry, limits, loader>>

\* Only the IP subsystem routes an EXEC entry to exec_cb here.
param_write_immediate(p, v) ==
  \/ not_found("write_immediate", p)
  \/ /\ Found(p)
     /\ \E e \in IF App(p) THEN app_write_immediate_errors(p, v)
                 ELSE IF "exec" \in Flags[p] THEN exec_errors(p)
                 ELSE ip_write_immediate_errors(p) :
          Refuse("write_immediate", e)
  \/ /\ Found(p)
     /\ \/ App(p) /\ app_write_immediate(p, v)
        \/ ~App(p) /\ ip_write_immediate(p, v)
        \/ /\ ~App(p) /\ "exec" \in Flags[p] /\ HasExec(p) /\ run_exec_cb(p)
           /\ UNCHANGED <<dirty, dirty_count, cache>>
     /\ clear_dirty(p)
     /\ Return("write_immediate", "OK")
     /\ UNCHANGED <<registry, limits, loader>>

\* exec_cb runs after the lock is given back; no dirty flag is touched.
param_exec(p) ==
  \/ /\ \/ ~initialized \/ p \notin hashed \/ "exec" \notin Flags[p]
        \/ ~HasExec(p)
     /\ Refuse("exec", "NOT_FOUND")
  \/ Found(p) /\ "exec" \in Flags[p] /\ HasExec(p) /\ Refuse("exec", "IO")
  \/ /\ Found(p) /\ "exec" \in Flags[p] /\ HasExec(p)
     /\ run_exec_cb(p)
     /\ Return("exec", "OK")
     /\ UNCHANGED <<registry, flags, cache, limits, loader>>

\* ip_control: straight to write_cb, the cache and the flags know nothing.
ip_control(m, l, v) ==
  /\ Kind[m] = "ip"
  /\ \/ /\ m \notin Listed \cap Wired
        /\ Refuse("ip_control", "NOT_FOUND")
     \/ /\ m \in Listed \cap Wired
        /\ Refuse("ip_control", "IO")
     \/ /\ m \in Listed \cap Wired
        /\ hw' = [hw EXCEPT ![m][l] = v]
        /\ Return("ip_control", "OK")
        /\ UNCHANGED <<registry, flags, cache, limits, loader>>

-----------------------------------------------------------------------------
(* Flush.  stop[m] is how many slots of its table the flush of module m got *)
(* through before a callback failed: all of them when none did.             *)

Flushing == {list[i] : i \in {j \in DOMAIN list : list[j] \in mod_dirty}}

\* An App module's own flush callback runs before any slot; an IP instance
\* stops at the slot whose write_cb fails.
Stops(m) ==
  {Len(Table[m])} \cup
    IF Kind[m] = "app" THEN {0} ELSE {i - 1 : i \in Sendable(m)}

Outcomes == {stop \in [Flushing -> UNION {Stops(m) : m \in Flushing}] :
               \A m \in Flushing : stop[m] \in Stops(m)}

Failed(stop) == {m \in Flushing : stop[m] < Len(Table[m])}

\* Fault: a failed flush counts as done.
Done_always(stop) == Flushing

\* Modules whose flush got to its end.
Done(stop) == Flushing \ Failed(stop)

\* Entries write_cb accepted.
Sent(stop, m) == {Table[m][i] : i \in {j \in Sendable(m) : j <= stop[m]}}

\* Entries whose dirty flag the flush clears.
Flushed(stop) ==
  UNION {IF Kind[m] = "ip" THEN Sent(stop, m)
         ELSE IF m \in Done(stop) THEN Entries(m) ELSE {} : m \in Flushing}

flush_modules(stop) ==
  /\ hw' = [m \in Modules |-> [l \in Lids |->
       IF /\ m \in Flushing /\ Kind[m] = "ip"
          /\ l + 1 \in Sendable(m) /\ l + 1 <= stop[m]
       THEN cache[Table[m][l + 1]] ELSE hw[m][l]]]
  /\ clear_entries(Flushed(stop))
  /\ mod_dirty' = mod_dirty \ {m \in Done(stop) :
                                 Kind[m] = "app" \/ dirty_map[m] # {}}
  /\ dirty_map' = [m \in Modules |->
       IF m \in Done(stop) /\ Kind[m] = "ip"
       THEN {} ELSE dirty_map[m]]

param_flush ==
  \/ ~initialized /\ Refuse("flush", "NOT_FOUND")
  \/ /\ initialized
     /\ \E stop \in Outcomes :
          /\ flush_modules(stop)
          /\ stats' = [stats EXCEPT !.flush_error_count =
                         (@ + Cardinality(Failed(stop))) % ErrorWrap]
          /\ Return("flush", IF Failed(stop) = {} THEN "OK" ELSE "IO")
     /\ UNCHANGED <<initialized, storage, list, hashed, cache, limits, loader>>

param_check_flush_integrity ==
  LET missing == {m \in Listed : Order[m] = OrderCount} IN
  \/ ~initialized /\ Refuse("check", "NOT_FOUND")
  \/ /\ initialized
     /\ stats' = [stats EXCEPT !.flush_order_miss_count = Cardinality(missing)]
     /\ Return("check", IF missing = {} THEN "OK" ELSE "NOT_FOUND")
     /\ UNCHANGED <<initialized, storage, list, hashed, flags, cache, limits,
                    hw, loader>>

-----------------------------------------------------------------------------
(* Persistence.  What the back end holds is not modelled here: a load gives *)
(* any value, or fails; a save changes nothing the framework keeps.         *)

Persistent == {p \in hashed : "persist" \in Flags[p]}

no_storage(op) == (~initialized \/ ~storage) /\ Refuse(op, "NOT_FOUND")

\* param_save_all and param_save_one
param_save ==
  \/ no_storage("save")
  \/ /\ initialized /\ storage
     /\ \E e \in {"OK", "IO", "INVALID_ID"} : Refuse("save", e)

\* The entries of S come back with the values new: an IP entry is dirty then,
\* an App entry is not.
load_entries(S, new) ==
  LET ip == {p \in S : ~App(p)}
      reg == {p \in ip : Owner[p] \in Listed}
  IN /\ cache' = [p \in Params |-> IF p \in S THEN new[p] ELSE cache[p]]
     /\ mark_entries(ip)
     /\ mod_dirty' = mod_dirty \cup {Owner[p] : p \in reg}
     /\ dirty_map' = [m \in Modules |-> dirty_map[m] \cup
          {Lid[p] : p \in {q \in reg : Owner[q] = m /\ Lid[q] < DirtyMapBits}}]
     /\ UNCHANGED <<registry, limits, hw>>

param_load_one(p) ==
  \/ no_storage("load")
  \/ initialized /\ storage /\ p \notin hashed /\ Refuse("load", "INVALID_ID")
  \/ initialized /\ storage /\ p \in Persistent /\ Refuse("load", "IO")
  \/ /\ initialized /\ storage /\ p \in hashed
     /\ \E new \in [{p} \cap Persistent -> Values] :
          load_entries({p} \cap Persistent, new)
     /\ Return("load", "OK")
     /\ UNCHANGED loader

\* LOAD phase: an entry that fails does not keep the others from loading.  The
\* head of the list is read right after the unlock, here in the same step: a
\* module that registers between the two and becomes the head is not followed.
\* One param_load_all is in progress at a time.
param_load_all ==
  \/ no_storage("load_all")
  \/ /\ initialized /\ storage /\ loader = None
     /\ \E S \in SUBSET Persistent : \E new \in [S -> Values] :
          /\ load_entries(S, new)
          /\ Return("load_all", IF S = Persistent THEN "OK" ELSE "IO")
     /\ loader' = IF list = <<>> THEN None ELSE list[1]

\* The node after m, read from m->next without the lock.
NextNode(m) ==
  LET after == {list[i] : i \in {j \in DOMAIN list :
                                   j > 1 /\ list[j - 1] = m}}
  IN IF after = {} THEN None ELSE CHOOSE n \in after : TRUE

\* INIT phase, one module at a time, outside the lock.
load_all_init ==
  /\ loader # None
  /\ IF Kind[loader] = "app" THEN app_module_init(loader)
                             ELSE UNCHANGED <<mod_dirty, dirty_map>>
  /\ run_init_cb(loader)
  /\ loader' = NextNode(loader)
  /\ Return("module_init", "OK")
  /\ UNCHANGED <<registry, dirty, dirty_count, cache, limits>>

-----------------------------------------------------------------------------
(* Reset: the cache takes the default, neither hw nor the range follows.    *)

param_reset_one(p) ==
  \/ not_found("reset_one", p)
  \/ /\ Found(p)
     /\ cache' = [cache EXCEPT ![p] = Default[p]]
     /\ clear_entries({p})
     /\ IF App(p) \/ Owner[p] \notin Listed THEN clear_dirty(p)
        ELSE \E bits \in reset_bits(Lid[p]) : clear_bits(Owner[p], bits)
     /\ Return("reset_one", "OK")
     /\ UNCHANGED <<registry, limits, hw, loader>>

param_reset_all ==
  \/ ~initialized /\ Refuse("reset_all", "NOT_FOUND")
  \/ /\ initialized
     /\ cache' = [p \in Params |-> IF p \in hashed THEN Default[p] ELSE cache[p]]
     /\ clear_entries(hashed)
     /\ mod_dirty' = mod_dirty \ Listed
     /\ dirty_map' = [m \in Modules |->
          IF m \in Listed /\ Kind[m] = "ip" THEN {} ELSE dirty_map[m]]
     /\ Return("reset_all", "OK")
     /\ UNCHANGED <<registry, limits, hw, loader>>

-----------------------------------------------------------------------------
(* Ranges and statistics. *)

\* A bound the caller leaves NULL keeps the value the entry has.
param_set_range(p) ==
  \/ /\ ~initialized
     /\ Refuse("set_range", "NOT_FOUND")
  \/ /\ initialized /\ (p \notin hashed \/ ~App(p))
     /\ Refuse("set_range", "INVALID_ID")
  \/ /\ Found(p) /\ App(p) /\ p \notin Numeric
     /\ Refuse("set_range", "TYPE_MISMATCH")
  \/ /\ Found(p) /\ p \in Numeric
     /\ \E lo \in LimitArgs \cup {limits[p].min},
           hi \in LimitArgs \cup {limits[p].max} :
          LET r == [on |-> TRUE, min |-> lo, max |-> hi] IN
          /\ limits' = [limits EXCEPT ![p] = r]
          /\ cache' = [cache EXCEPT ![p] = clamp_value_to_range(r, @)]
     /\ Return("set_range", "OK")
     /\ UNCHANGED <<registry, flags, hw, loader>>

param_validate_all ==
  /\ initialized
  /\ cache' = [p \in Params |->
       IF \E m \in Listed : p \in Entries(m) THEN clamp(p, cache[p])
                                             ELSE cache[p]]
  /\ Return("validate_all", "OK")
  /\ UNCHANGED <<registry, flags, limits, hw, loader>>

param_clear_stats ==
  /\ initialized
  /\ dirty_count' = 0
  /\ stats' = [stats EXCEPT !.flush_error_count = 0,
                            !.flush_order_miss_count = 0]
  /\ Return("clear_stats", "OK")
  /\ UNCHANGED <<initialized, storage, list, hashed, dirty, mod_dirty,
                 dirty_map, cache, limits, hw, loader>>

-----------------------------------------------------------------------------

OnModule(m) ==
  \/ "register" \in Calls /\ (param_module_register(m) \/ ip_driver_register(m))
  \/ "ip_control" \in Calls /\ \E l \in Lids, v \in Values : ip_control(m, l, v)

OnEntry(p) ==
  \/ "write" \in Calls /\ \E v \in Values : param_write(p, v)
  \/ "write_raw" \in Calls /\ \E v \in Values : param_write_raw(p, v)
  \/ "write_immediate" \in Calls
       /\ \E v \in Values : param_write_immediate(p, v)
  \/ "exec" \in Calls /\ param_exec(p)
  \/ "load" \in Calls /\ param_load_one(p)
  \/ "reset_one" \in Calls /\ param_reset_one(p)
  \/ "set_range" \in Calls /\ param_set_range(p)

OnAll ==
  \/ "init" \in Calls /\ param_init
  \/ "deinit" \in Calls /\ param_deinit
  \/ "set_storage" \in Calls /\ param_set_storage
  \/ "flush" \in Calls /\ param_flush
  \/ "check" \in Calls /\ param_check_flush_integrity
  \/ "save" \in Calls /\ param_save
  \/ "load_all" \in Calls /\ param_load_all
  \/ load_all_init
  \/ "reset_all" \in Calls /\ param_reset_all
  \/ "validate_all" \in Calls /\ param_validate_all
  \/ "clear_stats" \in Calls /\ param_clear_stats

Next ==
  \/ \E m \in Modules : OnModule(m)
  \/ \E p \in Params : OnEntry(p)
  \/ OnAll

Spec == Init /\ [][Next]_vars
=============================================================================
