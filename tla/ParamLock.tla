----------------------------- MODULE ParamLock ------------------------------
(***************************************************************************)
(* The calls on one IP instance, step by step, as several tasks make them  *)
(* at once: what LOCK keeps together (param_manager.c, ip_param_manager.c, *)
(* the port layer).  ParamManager takes each call as one step; this module *)
(* takes every shared access as one, tests of initialized and the other    *)
(* accesses made outside LOCK included.                                    *)
(*                                                                         *)
(* LOCK is the FreeRTOS mutex of the port, which is not recursive.  The    *)
(* driver's callbacks run in the caller's task.                            *)
(***************************************************************************)
EXTENDS Integers, Functions

CONSTANTS
  Tasks,     \* the tasks that call the framework
  Jobs,      \* Jobs[t]: the calls task t makes
  Framer,    \* the task of app_frame_handler, which flushes every frame
  Free,      \* nobody holds the mutex
  Lids,      \* 0 .. n - 1: the instance's table slots, its parameters
  Values,    \* Values[p]: what parameter p may hold
  Default,   \* Default[p]: default_val
  InitPush,  \* parameters the init callback reads and writes to the driver
  Missing    \* 1 when the instance is not in MODULE_INIT_ORDER, 0 when it is

\* reset is param_reset_one and control a write of ip_control.  param_write_raw
\* makes the steps of write, param_load_one and param_reset_all those of
\* load_all and reset; what param_exec does to the variables below is over when
\* it calls the driver, after UNLOCK.
Calls == {"write", "write_immediate", "reset", "flush", "check", "clear_stats",
          "load_all", "control", "deinit", "register"}

\* Calls that test initialized under LOCK only, or not at all.
Untested == {"control", "deinit", "register"}

ASSUME LockAssumption ==
  /\ Free \notin Tasks /\ Framer \in Tasks
  /\ Jobs \in [Tasks -> SUBSET Calls]
  /\ Lids \subseteq Nat /\ 0 \in Lids /\ \A p \in Lids : 0 .. p \subseteq Lids
  /\ DOMAIN Values = Lids /\ Default \in [Lids -> UNION Range(Values)]
  /\ \A p \in Lids : Default[p] \in Values[p]
  /\ InitPush \subseteq Lids
  /\ Missing \in {0, 1}

VARIABLES
  lock,         \* the task that holds the mutex, or Free
  task,         \* task[t]: the call t is in, its place in it and its locals
  initialized,  \* g_pm.initialized
  registered,   \* the instance is in the hash and the module list
  cache,        \* cache[p]: the entry's cached value
  dirty,        \* the module's dirty flag
  dirty_map,    \* bits set in the instance's dirty_map
  hw,           \* hw[p]: what the driver last received for p
  miss          \* g_pm.stats.flush_order_miss_count

vars == <<lock, task, initialized, registered, cache, dirty, dirty_map, hw,
          miss>>
shared == <<initialized, registered, cache, dirty, dirty_map, hw, miss>>

\* A task between two calls.
Rest == [op |-> "none", at |-> "idle", p |-> 0, v |-> Default[0],
         quiet |-> FALSE]

\* op: the call; at: its place; p: the parameter or the loop counter; v: the
\* value to write; quiet: no other task has touched miss or the module list
\* since this call reset miss.
Init ==
  /\ lock = Free
  /\ task = [t \in Tasks |-> Rest]
  /\ initialized = FALSE /\ registered = FALSE
  /\ cache = Default
  /\ dirty = FALSE /\ dirty_map = {}
  /\ hw \in [Lids -> UNION Range(Values)] /\ \A p \in Lids : hw[p] \in Values[p]
  /\ miss = 0

-----------------------------------------------------------------------------
(* A task's way through a call. *)

At(t, at) == task[t].at = at
In(t, op) == task[t].op = op
P(t) == task[t].p
V(t) == task[t].v

go(t, at) ==
  task' = [task EXCEPT ![t] = IF at = "idle" THEN Rest ELSE [@ EXCEPT !.at = at]]
go_with(t, at, p) == task' = [task EXCEPT ![t].at = at, ![t].p = p]

\* What others did to miss or to the list: their checks are no longer quiet.
go_loud(t, at, quiet) ==
  task' = [u \in Tasks |-> IF u = t
                           THEN [task[u] EXCEPT !.at = at, !.quiet = quiet]
                           ELSE [task[u] EXCEPT !.quiet = FALSE]]

\* What a call is about: a parameter and a value, a parameter, or neither.
Given(op, p, v) ==
  /\ op \in {"write", "write_immediate", "control"} \/ v = Default[p]
  /\ op \in {"write", "write_immediate", "control", "reset"} \/ p = 0

\* The application registers after param_init.
call(t, op) ==
  /\ At(t, "idle") /\ op \in Jobs[t]
  /\ op = "register" => initialized
  /\ \E p \in Lids : \E v \in Values[p] :
       /\ Given(op, p, v)
       /\ task' = [task EXCEPT ![t] =
            [op |-> op, p |-> p, v |-> v, quiet |-> FALSE,
             at |-> IF op \in Untested THEN "lock" ELSE "test"]]
  /\ UNCHANGED <<lock, shared>>

\* if (!g_pm.initialized) return ...;
test_initialized(t) ==
  /\ At(t, "test")
  /\ go(t, IF ~initialized THEN "idle"
           ELSE IF In(t, "check") THEN "zero" ELSE "lock")
  /\ UNCHANGED <<lock, shared>>

\* Inside the lock a call looks its entry or its module up first.
Entered == [write |-> "cache", write_immediate |-> "send", reset |-> "cache",
            flush |-> "look", check |-> "count", clear_stats |-> "stats",
            load_all |-> "load", control |-> "around", deinit |-> "close",
            register |-> "open"]

\* Calls that look nothing up, or find what they need in an empty registry.
Unlisted == {"clear_stats", "deinit", "register"}

\* Fault: a call that does not find its entry returns without UNLOCK.
enter_without_unlock(t) ==
  go(t, IF registered \/ task[t].op \in Unlisted
        THEN Entered[task[t].op] ELSE "idle")

enter(t) ==
  go(t, IF registered \/ task[t].op \in Unlisted
        THEN Entered[task[t].op] ELSE "unlock")

\* Fault: the lock of a build whose system_lock does nothing.
take_lock_never(t) ==
  /\ At(t, "lock")
  /\ enter(t)
  /\ UNCHANGED <<lock, shared>>

\* LOCK()
take_lock(t) ==
  /\ At(t, "lock") /\ lock = Free
  /\ lock' = t
  /\ enter(t)
  /\ UNCHANGED shared

\* Where a call goes on after UNLOCK().
After(t) ==
  CASE In(t, "check")                   -> "result"
    [] In(t, "load_all") /\ InitPush # {} -> "init"
    [] OTHER                            -> "idle"

\* Fault: param_load_all keeps the lock for its INIT phase.
unlock_late(t) ==
  /\ At(t, "unlock")
  /\ lock' = IF In(t, "load_all") THEN lock ELSE Free
  /\ go(t, After(t))
  /\ UNCHANGED shared

\* UNLOCK()
unlock(t) ==
  /\ At(t, "unlock")
  /\ lock' = Free
  /\ go(t, After(t))
  /\ UNCHANGED shared

-----------------------------------------------------------------------------
(* param_write, param_write_immediate, param_reset_one and the entries of   *)
(* param_load_all.                                                          *)

\* ip->cache = value; ip_param_reset puts the default there.
set_cache(t) ==
  /\ At(t, "cache")
  /\ cache' = [cache EXCEPT ![P(t)] = V(t)]
  /\ go(t, IF In(t, "write_immediate") \/ In(t, "reset") THEN "clear" ELSE "flag")
  /\ UNCHANGED <<lock, initialized, registered, dirty, dirty_map, hw, miss>>

\* Fault: the module's flag is left as it is.
set_flag_not(t) ==
  /\ At(t, "flag")
  /\ go(t, "bit")
  /\ UNCHANGED <<lock, shared>>

\* ip_module_mark_dirty: the flag, then the bit.
set_flag(t) ==
  /\ At(t, "flag")
  /\ dirty' = TRUE
  /\ go(t, "bit")
  /\ UNCHANGED <<lock, initialized, registered, cache, dirty_map, hw, miss>>

set_bit(t) ==
  /\ At(t, "bit")
  /\ dirty_map' = dirty_map \cup {P(t)}
  /\ IF In(t, "load_all") THEN go_with(t, "load", P(t) + 1) ELSE go(t, "unlock")
  /\ UNCHANGED <<lock, initialized, registered, cache, dirty, hw, miss>>

\* ip_module_clear_dirty, and the same lines in ip_param_reset.
clear_bit(t) ==
  /\ At(t, "clear")
  /\ dirty_map' = dirty_map \ {P(t)}
  /\ dirty' = IF dirty_map' = {} THEN FALSE ELSE dirty
  /\ go(t, "unlock")
  /\ UNCHANGED <<lock, initialized, registered, cache, hw, miss>>

\* The LOAD phase: each entry gets what the back end has, or fails and stays.
load_entry(t) ==
  /\ At(t, "load")
  /\ IF P(t) \in Lids
     THEN \/ go_with(t, "load", P(t) + 1)
          \/ \E v \in Values[P(t)] :
               task' = [task EXCEPT ![t].at = "cache", ![t].v = v]
     ELSE go(t, "unlock")
  /\ UNCHANGED <<lock, shared>>

-----------------------------------------------------------------------------
(* param_flush with ip_module_flush, ip_control, and the driver. *)

\* if (m->dirty ...) and if (inst->dirty_map == 0) return PARAM_OK
look_at_flag(t) ==
  /\ At(t, "look")
  /\ go(t, IF dirty /\ dirty_map # {} THEN "send" ELSE "unlock")
  /\ UNCHANGED <<lock, shared>>

\* The lowest bit from the loop counter on.
NextBit(t) == {p \in dirty_map : /\ P(t) <= p
                                 /\ \A q \in dirty_map : q < P(t) \/ p <= q}

\* write_cb accepts; param_write_immediate sends its own value.
send_ok(t, p) ==
  /\ At(t, "send")
  /\ \/ /\ In(t, "flush") /\ p \in NextBit(t)
        /\ hw' = [hw EXCEPT ![p] = cache[p]]
        /\ go_with(t, "send", p + 1)
     \/ /\ In(t, "write_immediate") /\ p = P(t)
        /\ hw' = [hw EXCEPT ![p] = V(t)]
        /\ go(t, "cache")
  /\ UNCHANGED <<lock, initialized, registered, cache, dirty, dirty_map, miss>>

\* write_cb fails: the call is over.
send_fails(t) ==
  /\ At(t, "send")
  /\ In(t, "flush") => NextBit(t) # {}
  /\ go(t, "unlock")
  /\ UNCHANGED <<lock, shared>>

\* inst->dirty_map = 0, then m->dirty = 0.
empty_map(t) ==
  /\ At(t, "send") /\ In(t, "flush") /\ NextBit(t) = {}
  /\ dirty_map' = {}
  /\ go(t, "down")
  /\ UNCHANGED <<lock, initialized, registered, cache, dirty, hw, miss>>

clear_flag(t) ==
  /\ At(t, "down")
  /\ dirty' = FALSE
  /\ go(t, "unlock")
  /\ UNCHANGED <<lock, initialized, registered, cache, dirty_map, hw, miss>>

\* The write branch of ip_control hands its value to the driver, which may fail.
ip_control(t) ==
  /\ At(t, "around")
  /\ \/ hw' = [hw EXCEPT ![P(t)] = V(t)]
     \/ hw' = hw
  /\ go(t, "unlock")
  /\ UNCHANGED <<lock, initialized, registered, cache, dirty, dirty_map, miss>>

-----------------------------------------------------------------------------
(* param_check_flush_integrity, which resets the count before LOCK and      *)
(* tests it after UNLOCK, and param_clear_stats, which resets it under it.  *)

\* Fault: the count is not reset.
zero_miss_not(t) ==
  /\ At(t, "zero")
  /\ go_loud(t, "lock", TRUE)
  /\ UNCHANGED <<lock, shared>>

zero_miss(t) ==
  /\ At(t, "zero")
  /\ miss' = 0
  /\ go_loud(t, "lock", TRUE)
  /\ UNCHANGED <<lock, initialized, registered, cache, dirty, dirty_map, hw>>

count_missing(t) ==
  /\ At(t, "count")
  /\ miss' = miss + Missing
  /\ go_loud(t, "unlock", task[t].quiet)
  /\ UNCHANGED <<lock, initialized, registered, cache, dirty, dirty_map, hw>>

param_clear_stats(t) ==
  /\ At(t, "stats")
  /\ miss' = 0
  /\ go_loud(t, "unlock", FALSE)
  /\ UNCHANGED <<lock, initialized, registered, cache, dirty, dirty_map, hw>>

return_result(t) ==
  /\ At(t, "result")
  /\ go(t, "idle")
  /\ UNCHANGED <<lock, shared>>

-----------------------------------------------------------------------------
(* The INIT phase of param_load_all: the module list is read and the init   *)
(* callback called outside the lock.  The callback reads parameters through *)
(* param_read, a call with a LOCK of its own and a single access inside it, *)
(* and writes each one it could read to a register.                         *)

\* The driver's next register, or the end of the callback.
next_push(t, from) ==
  IF \E q \in InitPush : from <= q
  THEN go_with(t, "read", CHOOSE q \in InitPush :
                            from <= q /\ \A r \in InitPush : r < from \/ q <= r)
  ELSE go(t, "idle")

\* while (m) { if (m->vtable && m->vtable->init) m->vtable->init(m); ... }
init_module(t) ==
  /\ At(t, "init")
  /\ IF registered THEN next_push(t, 0) ELSE go(t, "idle")
  /\ UNCHANGED <<lock, shared>>

init_read(t) ==
  /\ At(t, "read") /\ lock = Free
  /\ IF initialized /\ registered
     THEN task' = [task EXCEPT ![t].at = "push", ![t].v = cache[P(t)]]
     ELSE next_push(t, P(t) + 1)
  /\ UNCHANGED <<lock, shared>>

init_push(t) ==
  /\ At(t, "push")
  /\ hw' = [hw EXCEPT ![P(t)] = V(t)]
  /\ next_push(t, P(t) + 1)
  /\ UNCHANGED <<lock, initialized, registered, cache, dirty, dirty_map, miss>>

-----------------------------------------------------------------------------
(* Life cycle. *)

\* ip_module_deinit of a registered instance, then memset.
param_deinit(t) ==
  /\ At(t, "close")
  /\ initialized' = FALSE /\ registered' = FALSE /\ miss' = 0
  /\ dirty_map' = IF registered THEN {} ELSE dirty_map
  /\ go_loud(t, "unlock", FALSE)
  /\ UNCHANGED <<lock, cache, dirty, hw>>

ip_driver_register(t) ==
  /\ At(t, "open")
  /\ registered' = TRUE
  /\ go_loud(t, "unlock", FALSE)
  /\ UNCHANGED <<lock, initialized, cache, dirty, dirty_map, hw, miss>>

\* param_init, which takes no lock; PARAM_ERR_BUSY when it is open already.
param_init ==
  IF initialized THEN UNCHANGED vars
  ELSE /\ initialized' = TRUE /\ registered' = FALSE /\ miss' = 0
       /\ task' = [t \in Tasks |-> [task[t] EXCEPT !.quiet = FALSE]]
       /\ UNCHANGED <<lock, cache, dirty, dirty_map, hw>>

-----------------------------------------------------------------------------

Step(t) ==
  \/ test_initialized(t) \/ take_lock(t) \/ unlock(t)
  \/ set_cache(t) \/ set_flag(t) \/ set_bit(t) \/ clear_bit(t) \/ load_entry(t)
  \/ look_at_flag(t) \/ send_fails(t) \/ empty_map(t) \/ clear_flag(t)
  \/ ip_control(t) \/ \E p \in Lids : send_ok(t, p)
  \/ zero_miss(t) \/ count_missing(t) \/ return_result(t)
  \/ param_clear_stats(t)
  \/ init_module(t) \/ init_read(t) \/ init_push(t)
  \/ param_deinit(t) \/ ip_driver_register(t)

Next ==
  \/ param_init
  \/ \E t \in Tasks : Step(t) \/ \E op \in Calls : call(t, op)

\* Every task gets to run, and one that waits for the mutex gets it if it is
\* free again and again (xSemaphoreTake with portMAX_DELAY); frames keep coming;
\* and a driver that the frame task asks again and again for one parameter does
\* not refuse it for ever.
Fairness ==
  /\ \A t \in Tasks : SF_vars(Step(t))
  /\ SF_vars(call(Framer, "flush"))
  /\ \A p \in Lids : SF_vars(send_ok(Framer, p))

Spec == Init /\ [][Next]_vars
FairSpec == Spec /\ Fairness

-----------------------------------------------------------------------------
(* Properties. *)

\* A task whose cached value has no bit yet, or has been delivered beside one.
Busy(t) == \/ task[t].at \in {"flag", "bit"}
           \/ At(t, "clear") /\ ~In(t, "reset")

\* A task that has reset a parameter whose bit is still set.
Forgetting(t) == At(t, "clear") /\ In(t, "reset")

\* Values that are in the cache, or on their way from it to a bit or from the
\* driver to it, and still have to be delivered.
Owed == (dirty_map \cup {P(t) : t \in {u \in Tasks : Busy(u)}})
          \ {P(t) : t \in {u \in Tasks : Forgetting(u)}}

Held == Lids \ InitPush
Part(f) == [p \in Held |-> f[p]]

WB == INSTANCE WriteBack WITH
        Params <- Held, Commands <- {}, Values <- UNION Range(Values),
        Default <- Part(Default),
        cache <- Part(cache), reg <- Part(hw), owed <- Owed \cap Held,
        open <- initialized

\* However the tasks' steps interleave, one call's cache, flag and bit writes
\* never meet another's in a way that forgets a value before the driver has it
\* (LOCK around param_write, param_write_immediate, param_reset_one, param_flush,
\* ip_control, the LOAD phase of param_load_all and param_deinit).  The
\* parameters an init callback pushes are left out: those writes are made
\* outside LOCK (StalePushIsOwed).
LockedIsWriteBack == WB!Spec

\* Whoever holds the mutex is on its way to UNLOCK: no return path keeps it, and
\* since it is not recursive nobody may ask for it twice, as an init callback
\* that calls param_read would if the INIT phase were inside the lock.
HolderNeverWaits ==
  \A t \in Tasks : lock = t => task[t].at \notin {"idle", "lock", "read"}

\* An integrity check that no other task's check, param_clear_stats, param_init,
\* param_deinit or registration came across compares the number of missing
\* modules and nothing else, though it resets and tests the count outside LOCK
\* (param_manager.c:563, 578).
CheckTellsTruth ==
  \A t \in Tasks :
    At(t, "result") /\ In(t, "check") /\ task[t].quiet
      => miss = IF registered THEN Missing ELSE 0

\* Every call returns: nobody waits for the mutex for ever, not even in an init
\* callback that calls param_read (README.md:505).
EveryCallReturns == \A t \in Tasks : ~At(t, "idle") ~> At(t, "idle")

\* What is owed to the driver gets there, or the framework is closed: a flush
\* that fails is tried again by the next frame.
OwedIsDelivered == \A p \in Lids : p \in Owed ~> p \notin Owed

\* A register that is given something else than the cached value is put right
\* by a later flush: the value stays owed, unless the application reached around
\* the cache.  (Thread safety by LOCK, README.md:19; the init callback of a driver
\* pushes what it has read after UNLOCK.)
StalePushIsOwed ==
  [][\A p \in Lids : hw'[p] \in {hw[p], cache[p]} \/ p \in Owed'
       \/ \E t \in Tasks :
            /\ P(t) = p
            /\ task[t].at \in {"send", "around"} /\ ~In(t, "flush")]_vars
=============================================================================
