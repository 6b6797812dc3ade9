-------------------------- MODULE ParamProperties ---------------------------
(***************************************************************************)
(* What the parameter manager promises.                                    *)
(***************************************************************************)
EXTENDS ParamManager

\* Type invariant: every variable keeps to the C type or pointer it stands for.
TypeOK ==
  /\ initialized \in BOOLEAN /\ storage \in BOOLEAN
  /\ list \in Seq(Modules)
  /\ hashed \subseteq Params
  /\ stats \in Stats
  /\ dirty_count \in Nat
  /\ dirty \subseteq Params
  /\ mod_dirty \subseteq Modules
  /\ dirty_map \in [Modules -> SUBSET Nat]
  /\ cache \in [Params -> Values]
  /\ limits \in [Params -> Limits]
  /\ hw \in [Modules -> [Lids -> Values]]
  /\ loader \in Modules \cup {None}
  /\ call \in Results

-----------------------------------------------------------------------------
(* The global dirty count. *)

\* param_stats_t.dirty_count never exceeds the number of entries whose dirty
\* byte is set: each of the nine places that set or clear the byte moves the
\* count with it, and neither clear_stats, deinit nor init makes it too large.
DirtyCountBounded == dirty_count <= Cardinality(dirty)

\* dirty_count is the number of dirty parameters, as its declaration says.
\* It stays so while nobody calls param_clear_stats or param_deinit.
DirtyCountExact == dirty_count = Cardinality(dirty)

-----------------------------------------------------------------------------
(* An IP instance's dirty map and the flags above and below it. *)

\* The entry's bit is set: a flush of its module will send it.
Pending(p) == Lid[p] \in dirty_map[Owner[p]]

\* A set bit of a dirty map is never out of param_flush's reach: the framework
\* is initialized, the instance is in the list and flagged dirty, and the bit
\* is that of an entry in the hash.  Registration, deinit, reset and load all
\* have to keep the two levels together for this.
PendingBitsReachable ==
  \A m \in Modules : dirty_map[m] # {} =>
    /\ initialized /\ m \in Listed /\ Kind[m] = "ip"
    /\ m \in mod_dirty
    /\ \A l \in dirty_map[m] :
         \E p \in hashed : Owner[p] = m /\ Lid[p] = l

\* An IP entry of a registered instance whose dirty byte is set has its bit set
\* too, so that a flush leaves none of them out.  The two are set and cleared
\* in different functions.  It takes a framework that is not closed and opened
\* again: param_deinit empties the map and leaves the byte.
DirtyBytePending ==
  \A p \in dirty : ~App(p) /\ Owner[p] \in Listed => Pending(p)

IpEntries  == {p \in Params : ~App(p)}
IpCommands == {p \in IpEntries : "exec" \in Flags[p]}

WB == INSTANCE WriteBack WITH
        Params   <- IpEntries,
        Commands <- IpCommands,
        Default  <- [p \in IpEntries |-> Default[p]],
        cache    <- [p \in IpEntries |-> cache[p]],
        reg      <- [p \in IpEntries |-> hw[Owner[p]][Lid[p]]],
        owed     <- {p \in IpEntries : Pending(p)},
        open     <- initialized

\* The layout under which the next statement holds; the code does not check it.
\* Every IP entry sits in its module's table at the position its
\* local id names, within the bits of the dirty map, and its module has a
\* write_cb; and the hash has a place for every entry.
Aligned ==
  \A p \in IpEntries :
    /\ Lid[p] < DirtyMapBits
    /\ Lid[p] + 1 \in DOMAIN Table[Owner[p]]
    /\ Table[Owner[p]][Lid[p] + 1] = p
    /\ Owner[p] \in Wired

TablesFit == Cardinality(Params) <= HashSize

\* The IP subsystem is a write-back cache: whatever mixture of writes, loads,
\* flushes that fail half way, immediate writes, commands and resets it sees,
\* a cached value is owed to its register until a write_cb took that value, a
\* reset replaced it or the framework was closed.
WriteBackSpec == WB!Spec

\* A flush that reports an error leaves at least one module flagged, and an IP
\* instance among them still with bits set, so that the next flush tries again.
FailedFlushRetries ==
  [][call'.op = "flush" /\ call'.ret = "IO" =>
       \E m \in Listed : m \in mod_dirty' /\ (Kind[m] = "ip" => dirty_map'[m] # {})
    ]_vars

\* A flush that reports PARAM_OK has delivered everything an IP instance owed:
\* no bit that was set before is set after it, and the register of each holds
\* the value cached at that moment.  Modules without a flag, and modules that
\* are not listed, are passed by; none of them may have had a bit.
FlushOkDelivers ==
  [][call'.op = "flush" /\ call'.ret = "OK" =>
       \A p \in IpEntries : Pending(p) =>
         ~Pending(p)' /\ hw'[Owner[p]][Lid[p]] = cache'[p]]_vars

-----------------------------------------------------------------------------
(* App modules. *)

\* A dirty App entry of a registered module has the module flagged, without
\* which param_flush passes the module by.  The flag is one bit for the whole
\* table, set by the core and cleared in three other functions.  It takes an
\* application that never loads, for app_module_init drops the flag alone, and
\* tables that fit the hash, for an entry whose module is not listed can be
\* written and nothing flags the module then or when it is listed later.
AppDirtyFlagged ==
  \A p \in dirty : App(p) /\ Owner[p] \in Listed => Owner[p] \in mod_dirty

InRange(p, v) == limits[p].on => limits[p].min <= v /\ v <= limits[p].max

\* A numeric App parameter that changes is within its range afterwards, the
\* range a concurrent param_set_range left; a load and a reset do not clamp,
\* and a range with min above max keeps nothing in.
NumericClamped ==
  [][\A p \in Numeric :
       cache'[p] # cache[p] =>
         \/ InRange(p, cache[p])'
         \/ limits'[p].min > limits'[p].max
         \/ call'.op \in {"load", "load_all", "reset_one", "reset_all"}]_vars

\* The algorithm behind an App module has seen every value a caller writes:
\* apply gets the value that enters the cache, after the clamp, and gets none
\* that does not.  A command has a callback of its own.
AppliedValueCached ==
  [][\A p \in hashed :
       App(p) /\ HasApply(p) /\ "exec" \notin Flags[p] /\ call'.ret = "OK"
         /\ call'.op \in {"write", "write_raw", "write_immediate"}
         /\ (cache'[p] # cache[p] \/ hw'[Owner[p]][Lid[p]] # hw[Owner[p]][Lid[p]])
       => hw'[Owner[p]][Lid[p]] = cache'[p]]_vars

-----------------------------------------------------------------------------
(* The registry. *)

\* Modules are initialized and flushed in MODULE_INIT_ORDER whatever order
\* they register in: the list is sorted and holds no module twice.
ListOrdered ==
  \A i, j \in DOMAIN list : i < j =>
    list[i] # list[j] /\ Order[list[i]] <= Order[list[j]]

\* Every entry of a listed module can be found, the counts agree with the
\* list, and an entry can be found without its module only after a
\* registration ran into a full table.
RegistryConsistent ==
  /\ \A m \in Listed : Entries(m) \subseteq hashed
  /\ \A p \in hashed : Owner[p] \notin Listed => Cardinality(hashed) = HashSize
  /\ stats.module_count = Len(list)
  /\ stats.persist_count =
       Cardinality({p \in hashed : Owner[p] \in Listed /\ "persist" \in Flags[p]})

\* param_load_all initializes modules in order even when others register
\* between two init callbacks.
InitFollowsOrder ==
  [][loader # None /\ loader' \notin {None, loader}
       => Order[loader] <= Order[loader']]_vars

-----------------------------------------------------------------------------
(* What the documentation promises and the code does not keep; each is the  *)
(* subject of a run that TLC refutes (see "findings").                      *)

\* An EXEC command runs when a caller asks for it and never from a flush
\* (ip_param_manager.h:182: only param_exec, or a write_raw or write_immediate
\* routed to exec_cb, triggers it).  The code keeps this for an application that
\* does not use param_write_raw, when no command is stored.
CommandNotFlushed ==
  [][call'.op = "flush" =>
       \A p \in IpCommands : hw'[Owner[p]][Lid[p]] = hw[Owner[p]][Lid[p]]]_vars

\* A flush that fails half way clears the bits of what it has written
\* (ip_param_manager.c:259), so the map shows the parameters that are dirty
\* (ip_param_manager.h:71).
WrittenBitsCleared ==
  [][call'.op = "flush" =>
       \A p \in IpEntries : p \in dirty \ dirty' => ~Pending(p)']_vars

\* A parameter declared PARAM_FLAG_READONLY keeps the value it has whatever
\* is written to it (param_manager.h:67).
ReadOnlyKept ==
  [][call'.op \in {"write", "write_raw", "write_immediate"} =>
       \A p \in Params : "readonly" \in Flags[p] => cache'[p] = cache[p]]_vars

\* param_flush hands over every dirty parameter of the registered modules; it
\* returns PARAM_OK when all of it succeeded (param_manager.h:537).  The code
\* keeps this for an application that never calls param_load_all and closes
\* the framework only when it has no IP entries.
FlushOkLeavesClean ==
  [][call'.op = "flush" /\ call'.ret = "OK" =>
       \A p \in dirty' : Owner[p] \notin Listed]_vars
=============================================================================
