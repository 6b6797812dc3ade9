---------------------------- MODULE ParamPersist ----------------------------
(***************************************************************************)
(* Persistence (param_save_all, param_load_all and their one-entry forms)  *)
(* over the hash table and a storage back end of several banks.            *)
(*                                                                         *)
(* Both calls walk the hash slot by slot and ask the installed driver for  *)
(* every entry anew.  LOCK keeps other calls out of a walk, but            *)
(* param_set_storage and param_init take no LOCK, initialized and storage  *)
(* are tested before LOCK, and power may fail between any two entries.     *)
(* The dirty flags a load sets are ParamManager's subject; the INIT phase  *)
(* of param_load_all as well.                                              *)
(***************************************************************************)
EXTENDS ParamHash

CONSTANTS
  Banks,     \* storage drivers, each with a flash area of its own
  NoBank,    \* no driver installed
  Values,    \* Values[e]: what the entry's cache or buffer may hold
  NoValue,   \* a key the back end has never stored
  Default,   \* Default[e]: default_val
  Persist,   \* entries with PARAM_FLAG_PERSIST
  Aliased    \* BLOB and STRING entries whose default_val.ptr is cache.ptr

ASSUME PersistAssumption ==
  /\ NoBank \notin Banks
  /\ Default \in [Entries -> UNION {Values[e] : e \in Entries}]
  /\ \A e \in Entries : Default[e] \in Values[e] /\ NoValue \notin Values[e]
  /\ Persist \subseteq Entries /\ Aliased \subseteq Entries

VARIABLES
  storage,   \* g_pm.storage
  cache,     \* cache[e]: the cached value, or what cache.ptr points at
  flash,     \* flash[b][id]: what bank b holds for id
  walk       \* the param_save_all or param_load_all in progress

pvars == <<storage, cache, flash, walk>>

\* A walk waits for LOCK ("checked") or holds it ("walking") at slot at.  ok:
\* no entry failed; home: the bank that has been installed since LOCK, if it
\* was one and the same; before: what home, for a load the cache, held then.
NoWalk == [op |-> "none", pc |-> "idle", at |-> 0, ok |-> TRUE,
           home |-> NoBank, before |-> << >>]

PersistInit ==
  /\ HashInit
  /\ storage = NoBank /\ cache = Default
  /\ flash = [b \in Banks |-> [id \in Ids |-> NoValue]]
  /\ walk = NoWalk

Walking == walk.pc = "walking"

\* LOCK is free for another call.
Unlocked == ~Registering /\ ~Walking

-----------------------------------------------------------------------------
(* Life cycle. *)

\* Only a driver's init can fail.
param_init(drv) ==
  /\ init_table
  /\ drv = NoBank => initialized'
  /\ storage' = drv
  /\ walk' = [walk EXCEPT !.home = NoBank]
  /\ UNCHANGED <<cache, flash>>

param_deinit ==
  /\ Unlocked /\ deinit_table
  /\ storage' = NoBank
  /\ UNCHANGED <<cache, flash, walk>>

\* param_set_storage, at any time.
param_set_storage(drv) ==
  /\ storage' = drv
  /\ walk' = IF drv = storage THEN walk ELSE [walk EXCEPT !.home = NoBank]
  /\ UNCHANGED <<hvars, cache, flash>>

\* The flash outlives everything; a key is stored whole or not at all.
power_failure ==
  /\ lose_memory
  /\ storage' = NoBank /\ cache' = Default /\ walk' = NoWalk
  /\ UNCHANGED flash

register ==
  /\ \/ ~Walking /\ Registration
     \/ \E m \in Modules : register_ask(m)
  /\ UNCHANGED pvars

-----------------------------------------------------------------------------
(* One entry, which the caller names by its id: e is what the lookup finds. *)

Found == {hash_find(id) : id \in Ids} \ {NoEntry}

\* ip_find fails for an instance whose registration was not completed.
NoInstance(e) == \E m \in Modules \ listed :
                   Kind[m] = "ip" /\ \E i \in DOMAIN Table[m] : Table[m][i] = e

\* param_write, and the other calls that write a cache.
param_write(e, v) ==
  /\ Unlocked /\ initialized /\ ~NoInstance(e)
  /\ cache' = [cache EXCEPT ![e] = v]
  /\ UNCHANGED <<hvars, storage, flash, walk>>

\* blob_reset and string_reset copy default_val.ptr to cache.ptr, which may
\* be one buffer.
param_reset_one(e) ==
  /\ Unlocked /\ initialized
  /\ e \notin Aliased
  /\ cache' = [cache EXCEPT ![e] = Default[e]]
  /\ UNCHANGED <<hvars, storage, flash, walk>>

\* storage->save: all of the value or nothing.
store(e) == flash' = [flash EXCEPT ![storage][Id[e]] = cache[e]]

\* storage->load of a key that is there.
Stored(e) == storage # NoBank /\ flash[storage][Id[e]] # NoValue

load(e) == cache' = [cache EXCEPT ![e] = flash[storage][Id[e]]]

param_save_one(e) ==
  /\ Unlocked /\ initialized /\ storage # NoBank
  /\ e \in Persist
  /\ store(e)
  /\ UNCHANGED <<hvars, storage, cache, walk>>

param_load_one(e) ==
  /\ Unlocked /\ initialized
  /\ e \in Persist /\ Stored(e)
  /\ load(e)
  /\ UNCHANGED <<hvars, storage, flash, walk>>

-----------------------------------------------------------------------------
(* All entries, in slot order. *)

\* initialized and storage are tested before LOCK.
walk_check(op) ==
  /\ walk.pc = "idle" /\ initialized /\ storage # NoBank
  /\ walk' = [walk EXCEPT !.op = op, !.pc = "checked"]
  /\ UNCHANGED <<hvars, storage, cache, flash>>

walk_lock ==
  /\ walk.pc = "checked" /\ ~Registering
  /\ walk' = [walk EXCEPT !.pc = "walking", !.home = storage,
       !.before = IF walk.op = "load" THEN cache
                  ELSE IF storage # NoBank THEN flash[storage] ELSE << >>]
  /\ UNCHANGED <<hvars, storage, cache, flash>>

\* The loop stands at the next slot that is not NULL.
At(s) ==
  /\ Walking /\ walk.at <= s /\ slot[s] # NoEntry
  /\ \A t \in walk.at .. s - 1 : slot[t] = NoEntry

\* Fault: the result of the last entry is the result of the call.
go_on_forgetful(s) == walk' = [walk EXCEPT !.at = s + 1, !.ok = TRUE]

go_on(s) == walk' = [walk EXCEPT !.at = s + 1]

Fails(s) == walk' = [walk EXCEPT !.at = s + 1, !.ok = FALSE]

\* value_type_save and its like: entries that do not persist are passed over.
save_slot(s) ==
  /\ At(s) /\ walk.op = "save"
  /\ \/ slot[s] \notin Persist /\ go_on(s) /\ UNCHANGED flash
     \/ slot[s] \in Persist /\ storage # NoBank /\ store(slot[s]) /\ go_on(s)
  /\ UNCHANGED <<hvars, storage, cache>>

\* Fault: a save that fails is passed over.
save_fails_unseen(s) ==
  /\ At(s) /\ walk.op = "save" /\ slot[s] \in Persist
  /\ go_on(s)
  /\ UNCHANGED <<hvars, storage, cache, flash>>

\* The first entry that fails ends param_save_all.
save_fails(s) ==
  /\ At(s) /\ walk.op = "save" /\ slot[s] \in Persist
  /\ walk' = NoWalk
  /\ UNCHANGED <<hvars, storage, cache, flash>>

\* Fault: stored is copied to the cache whatever storage->load returned.
load_fails_copied(s) ==
  /\ At(s) /\ walk.op = "load" /\ slot[s] \in Persist
  /\ Fails(s)
  /\ \E v \in Values[slot[s]] : cache' = [cache EXCEPT ![slot[s]] = v]
  /\ UNCHANGED <<hvars, storage, flash>>

\* A failure is remembered and the loop goes on.
load_slot(s) ==
  /\ At(s) /\ walk.op = "load"
  /\ \/ slot[s] \notin Persist /\ go_on(s) /\ UNCHANGED cache
     \/ slot[s] \in Persist /\ Stored(slot[s]) /\ load(slot[s]) /\ go_on(s)
  /\ UNCHANGED <<hvars, storage, flash>>

load_fails(s) ==
  /\ At(s) /\ walk.op = "load" /\ slot[s] \in Persist
  /\ Fails(s)
  /\ UNCHANGED <<hvars, storage, cache, flash>>

\* Past the last slot: UNLOCK and return.
walk_end ==
  /\ Walking /\ \A s \in walk.at .. HashSize - 1 : slot[s] = NoEntry
  /\ walk' = NoWalk
  /\ UNCHANGED <<hvars, storage, cache, flash>>

PersistNext ==
  \/ \E drv \in Banks \cup {NoBank} : param_init(drv) \/ param_set_storage(drv)
  \/ param_deinit \/ power_failure \/ register
  \/ \E e \in Found : \/ \E v \in Values[e] : param_write(e, v)
                      \/ param_reset_one(e)
                      \/ param_save_one(e) \/ param_load_one(e)
  \/ \E op \in {"save", "load"} : walk_check(op)
  \/ walk_lock \/ walk_end
  \/ \E s \in 0 .. HashSize - 1 :
       save_slot(s) \/ save_fails(s) \/ load_slot(s) \/ load_fails(s)

Spec == PersistInit /\ [][PersistNext]_<<hvars, pvars>>

-----------------------------------------------------------------------------
(* Properties. *)

\* Entries that persist and share their id with no other entry in the hash:
\* of two that share one, the later slot overwrites the earlier one's key.
Kept == {s \in 0 .. HashSize - 1 :
           /\ slot[s] \in Persist
           /\ \A t \in 0 .. HashSize - 1 :
                slot[t] # NoEntry /\ Id[slot[t]] = Id[slot[s]] => t = s}

\* Wherever a param_save_all that stays in one bank stands, and so wherever
\* power may fail or an entry may stop it, the keys of the slots it has passed
\* hold what the caches hold now, and all other keys what they held at LOCK.
\* With at past the last slot: a save that returns PARAM_OK saved everything.
SaveInSlotOrder ==
  Walking /\ walk.op = "save" /\ walk.home # NoBank =>
    /\ \A s \in Kept : flash[walk.home][Id[slot[s]]] =
         IF s < walk.at THEN cache[slot[s]] ELSE walk.before[Id[slot[s]]]
    /\ \A id \in Ids : (\A s \in 0 .. walk.at - 1 :
           slot[s] # NoEntry => Id[slot[s]] # id)
         => flash[walk.home][id] = walk.before[id]

\* A param_load_all that stays in one bank has given every entry it passed the
\* value of its key, unless that entry failed and keeps the value it had; the
\* entries ahead of it are untouched, and it will return PARAM_OK only if no
\* entry failed.
LoadInSlotOrder ==
  Walking /\ walk.op = "load" /\ walk.home # NoBank =>
    \A s \in Kept :
      LET e == slot[s] IN
      \/ s < walk.at /\ cache[e] = flash[walk.home][Id[e]]
      \/ (s < walk.at => ~walk.ok) /\ cache[e] = walk.before[e]

\* PARAM_OK from param_save_all or param_load_all, if it stayed in one bank,
\* means that cache and flash agree on every entry that persists: no slot was
\* skipped and no failure forgotten, however long ago.
OkMeansInSync ==
  [][walk_end /\ walk.ok /\ walk.home # NoBank =>
       \A s \in Kept : flash[walk.home][Id[slot[s]]] = cache[slot[s]]]_<<hvars, pvars>>
=============================================================================
