----------------------------- MODULE LockProofs -----------------------------
(***************************************************************************)
(* What LOCK keeps together stays together, for any tasks, parameters and  *)
(* values.  The argument: a task between LOCK and UNLOCK is the one that   *)
(* holds the mutex, so what it knows of cache, map and driver is disturbed *)
(* by nobody.  Which tasks close, open and register does not matter: a     *)
(* registration that was let in may end in a framework that another task   *)
(* has closed meanwhile, and the bits of an instance in no list wait.      *)
(***************************************************************************)
EXTENDS ParamLock, TLAPS, WellFoundedInduction

Inside == {"cache", "flag", "bit", "clear", "load", "look", "send", "down",
           "around", "count", "stats", "close", "open", "unlock"}

Places == Inside \cup {"idle", "test", "lock", "zero", "result", "init", "read",
                       "push"}

AnyValue == UNION Range(Values)

Records == [op : Calls \cup {"none"}, at : Places, p : Nat, v : AnyValue,
            quiet : BOOLEAN]

LockTypeOK ==
  /\ lock \in Tasks \cup {Free}
  /\ task \in [Tasks -> Records]
  /\ initialized \in BOOLEAN /\ registered \in BOOLEAN
  /\ cache \in [Lids -> AnyValue] /\ hw \in [Lids -> AnyValue]
  /\ dirty_map \subseteq Lids

\* What a task has found out and what it may rely on.
Sound(t) ==
  /\ ~At(t, "idle") => task[t].op \in Calls
  /\ task[t].op \in {"write", "write_immediate", "reset", "control"}
       => P(t) \in Lids /\ V(t) \in Values[P(t)]
  /\ In(t, "reset") => V(t) = Default[P(t)]
  /\ At(t, "close") => In(t, "deinit")
  /\ At(t, "open") => In(t, "register")
  /\ At(t, "around") => In(t, "control")
  /\ At(t, "load") => In(t, "load_all")
  /\ At(t, "zero") => In(t, "check")
  /\ task[t].at \in {"init", "read", "push"} => In(t, "load_all")
  /\ task[t].at \in Inside <=> lock = t
  /\ task[t].at \in {"cache", "flag", "bit", "clear"} => P(t) \in Lids
  /\ At(t, "cache") => V(t) \in Values[P(t)]
  /\ task[t].at \in {"read", "push"} => P(t) \in InitPush
  /\ In(t, "flush") /\ task[t].at \in {"test", "lock", "look"} => P(t) = 0
  /\ In(t, "flush") /\ At(t, "send")
       => \A p \in dirty_map \cap Held : p < P(t) => hw[p] = cache[p]
  /\ In(t, "write_immediate") /\ At(t, "cache") /\ P(t) \in Held => hw[P(t)] = V(t)
  /\ At(t, "clear") /\ In(t, "reset") => cache[P(t)] = Default[P(t)]
  /\ At(t, "clear") /\ ~In(t, "reset") /\ P(t) \in Held => hw[P(t)] = cache[P(t)]

LockInv == LockTypeOK /\ \A t \in Tasks : Sound(t)

-----------------------------------------------------------------------------
(* A task's record. *)

LEMMA RecordAt ==
  ASSUME NEW r \in Records, NEW at \in Places
  PROVE  [r EXCEPT !.at = at] \in Records
BY DEF Records

LEMMA RecordAtFields ==
  ASSUME NEW r \in Records, NEW at
  PROVE  /\ [r EXCEPT !.at = at].op = r.op
         /\ [r EXCEPT !.at = at].at = at
         /\ [r EXCEPT !.at = at].p = r.p
         /\ [r EXCEPT !.at = at].v = r.v
BY DEF Records

LEMMA RecordWith ==
  ASSUME NEW r \in Records, NEW at \in Places, NEW p \in Nat
  PROVE  [r EXCEPT !.at = at, !.p = p] \in Records
BY DEF Records

LEMMA RecordWithFields ==
  ASSUME NEW r \in Records, NEW at, NEW p
  PROVE  /\ [r EXCEPT !.at = at, !.p = p].op = r.op
         /\ [r EXCEPT !.at = at, !.p = p].at = at
         /\ [r EXCEPT !.at = at, !.p = p].p = p
         /\ [r EXCEPT !.at = at, !.p = p].v = r.v
BY DEF Records

LEMMA RecordValue ==
  ASSUME NEW r \in Records, NEW at \in Places, NEW v \in AnyValue
  PROVE  [r EXCEPT !.at = at, !.v = v] \in Records
BY DEF Records

LEMMA RecordValueFields ==
  ASSUME NEW r \in Records, NEW at, NEW v
  PROVE  /\ [r EXCEPT !.at = at, !.v = v].op = r.op
         /\ [r EXCEPT !.at = at, !.v = v].at = at
         /\ [r EXCEPT !.at = at, !.v = v].p = r.p
         /\ [r EXCEPT !.at = at, !.v = v].v = v
BY DEF Records

LEMMA RecordLoud ==
  ASSUME NEW r \in Records, NEW at \in Places, NEW q \in BOOLEAN
  PROVE  [r EXCEPT !.at = at, !.quiet = q] \in Records
BY DEF Records

LEMMA RecordLoudFields ==
  ASSUME NEW r \in Records, NEW at, NEW q
  PROVE  /\ [r EXCEPT !.at = at, !.quiet = q].op = r.op
         /\ [r EXCEPT !.at = at, !.quiet = q].at = at
         /\ [r EXCEPT !.at = at, !.quiet = q].p = r.p
         /\ [r EXCEPT !.at = at, !.quiet = q].v = r.v
BY DEF Records

LEMMA RecordHushed ==
  ASSUME NEW r \in Records
  PROVE  [r EXCEPT !.quiet = FALSE] \in Records
BY DEF Records

LEMMA RecordHushedFields ==
  ASSUME NEW r \in Records
  PROVE  /\ [r EXCEPT !.quiet = FALSE].op = r.op
         /\ [r EXCEPT !.quiet = FALSE].at = r.at
         /\ [r EXCEPT !.quiet = FALSE].p = r.p
         /\ [r EXCEPT !.quiet = FALSE].v = r.v
BY DEF Records

LEMMA LeastNumber ==
  ASSUME NEW T, T \subseteq Nat, T # {}
  PROVE  \E x \in T : \A y \in T : x <= y
<1> DEFINE R == OpToRel(<, Nat)
<1>1. IsWellFoundedOn(R, Nat)
  BY NatLessThanWellFounded
<1>2. \A x, y \in Nat : y < x => <<y, x>> \in R
  BY DEF OpToRel
<1> HIDE DEF R
<1>3. PICK x \in T : \A y \in T : ~ (<<y, x>> \in R)
  BY <1>1, WFMin
<1>4. x \in Nat /\ \A y \in T : y \in Nat /\ ~ (y < x)
  BY <1>2, <1>3
<1>5. \A y \in T : x <= y
  BY <1>4
<1> QED BY <1>5

LEMMA ParamFacts ==
  /\ Lids \subseteq Nat /\ 0 \in Lids /\ InitPush \subseteq Lids
  /\ \A p \in Lids : Values[p] \subseteq AnyValue
  /\ Default \in [Lids -> AnyValue] /\ Default[0] \in AnyValue
  /\ Free \notin Tasks
<1>1. Lids \subseteq Nat
  BY LockAssumption
<1>2. 0 \in Lids
  BY LockAssumption
<1>3. \A p \in Lids : Values[p] \subseteq AnyValue
  BY LockAssumption DEF AnyValue, Range
<1>4. Default \in [Lids -> AnyValue] /\ InitPush \subseteq Lids /\ Free \notin Tasks
  BY LockAssumption DEF AnyValue
<1> QED BY <1>1, <1>2, <1>3, <1>4

LEMMA RestType ==
  /\ Rest \in Records /\ Rest.op = "none" /\ Rest.at = "idle" /\ Rest.p = 0
  /\ Rest.v = Default[0]
BY ParamFacts DEF Rest, Records, Places, Inside

\* Where a step of task t leads t, and that the others stay where they are.
Others(t) ==
  \A u \in Tasks \ {t} :
    /\ task'[u].op = task[u].op /\ task'[u].at = task[u].at
    /\ task'[u].p = task[u].p /\ task'[u].v = task[u].v

LEMMA Goes ==
  ASSUME LockTypeOK, NEW t \in Tasks, NEW at \in Places \ {"idle"}, go(t, at)
  PROVE  /\ task' \in [Tasks -> Records]
         /\ task'[t].op = task[t].op /\ task'[t].at = at
         /\ task'[t].p = task[t].p /\ task'[t].v = task[t].v
         /\ Others(t)
<1>1. task[t] \in Records
  BY DEF LockTypeOK
<1>2. task' = [task EXCEPT ![t] = [task[t] EXCEPT !.at = at]]
  BY DEF go, LockTypeOK
<1>3. [task[t] EXCEPT !.at = at] \in Records
  BY <1>1, RecordAt
<1>4. task' \in [Tasks -> Records] /\ task'[t] = [task[t] EXCEPT !.at = at]
  BY <1>2, <1>3 DEF LockTypeOK
<1>5. \A u \in Tasks \ {t} : task'[u] = task[u]
  BY <1>2, <1>3 DEF LockTypeOK
<1>6. /\ task'[t].op = task[t].op /\ task'[t].at = at
      /\ task'[t].p = task[t].p /\ task'[t].v = task[t].v
  BY <1>1, <1>4, RecordAtFields
<1> QED BY <1>4, <1>5, <1>6 DEF Others

LEMMA GoesHome ==
  ASSUME LockTypeOK, NEW t \in Tasks, go(t, "idle")
  PROVE  /\ task' \in [Tasks -> Records]
         /\ task'[t].op = "none" /\ task'[t].at = "idle"
         /\ Others(t)
BY RestType DEF LockTypeOK, go, Others

LEMMA GoesWith ==
  ASSUME LockTypeOK, NEW t \in Tasks, NEW at \in Places, NEW p \in Nat,
         go_with(t, at, p)
  PROVE  /\ task' \in [Tasks -> Records]
         /\ task'[t].op = task[t].op /\ task'[t].at = at
         /\ task'[t].p = p /\ task'[t].v = task[t].v
         /\ Others(t)
<1>1. task[t] \in Records
  BY DEF LockTypeOK
<1>2. task' = [task EXCEPT ![t] = [task[t] EXCEPT !.at = at, !.p = p]]
  BY DEF go_with, LockTypeOK
<1>3. [task[t] EXCEPT !.at = at, !.p = p] \in Records
  BY <1>1, RecordWith
<1>4. task' \in [Tasks -> Records]
      /\ task'[t] = [task[t] EXCEPT !.at = at, !.p = p]
  BY <1>2, <1>3 DEF LockTypeOK
<1>5. \A u \in Tasks \ {t} : task'[u] = task[u]
  BY <1>2, <1>3 DEF LockTypeOK
<1>6. /\ task'[t].op = task[t].op /\ task'[t].at = at
      /\ task'[t].p = p /\ task'[t].v = task[t].v
  BY <1>1, <1>4, RecordWithFields
<1> QED BY <1>4, <1>5, <1>6 DEF Others

LEMMA GoesLoaded ==
  ASSUME LockTypeOK, NEW t \in Tasks, NEW at \in Places, NEW v \in AnyValue,
         task' = [task EXCEPT ![t].at = at, ![t].v = v]
  PROVE  /\ task' \in [Tasks -> Records]
         /\ task'[t].op = task[t].op /\ task'[t].at = at
         /\ task'[t].p = task[t].p /\ task'[t].v = v
         /\ Others(t)
<1>1. task[t] \in Records
  BY DEF LockTypeOK
<1>2. task' = [task EXCEPT ![t] = [task[t] EXCEPT !.at = at, !.v = v]]
  BY DEF LockTypeOK
<1>3. [task[t] EXCEPT !.at = at, !.v = v] \in Records
  BY <1>1, RecordValue
<1>4. task' \in [Tasks -> Records]
      /\ task'[t] = [task[t] EXCEPT !.at = at, !.v = v]
  BY <1>2, <1>3 DEF LockTypeOK
<1>5. \A u \in Tasks \ {t} : task'[u] = task[u]
  BY <1>2, <1>3 DEF LockTypeOK
<1>6. /\ task'[t].op = task[t].op /\ task'[t].at = at
      /\ task'[t].p = task[t].p /\ task'[t].v = v
  BY <1>1, <1>4, RecordValueFields
<1> QED BY <1>4, <1>5, <1>6 DEF Others

LEMMA GoesLoud ==
  ASSUME LockTypeOK, NEW t \in Tasks, NEW at \in Places, NEW q \in BOOLEAN,
         go_loud(t, at, q)
  PROVE  /\ task' \in [Tasks -> Records]
         /\ task'[t].op = task[t].op /\ task'[t].at = at
         /\ task'[t].p = task[t].p /\ task'[t].v = task[t].v
         /\ Others(t)
<1>1. \A u \in Tasks : task[u] \in Records
  BY DEF LockTypeOK
<1>2. task'[t] = [task[t] EXCEPT !.at = at, !.quiet = q]
  BY DEF go_loud
<1>3. \A u \in Tasks \ {t} : task'[u] = [task[u] EXCEPT !.quiet = FALSE]
  BY DEF go_loud
<1>4. task'[t] \in Records
  <2>1. task[t] \in Records
    BY <1>1
  <2>2. [task[t] EXCEPT !.at = at, !.quiet = q] \in Records
    BY <2>1, RecordLoud
  <2> QED BY <1>2, <2>2
<1>5. \A u \in Tasks \ {t} : task'[u] \in Records
  BY <1>1, <1>3, RecordHushed
<1>6. task' \in [Tasks -> Records]
  <2>1. task' = [u \in Tasks |-> task'[u]]
    BY DEF go_loud
  <2>2. \A u \in Tasks : task'[u] \in Records
    BY <1>4, <1>5
  <2> QED BY <2>1, <2>2
<1>7. Others(t)
  <2> SUFFICES ASSUME NEW u \in Tasks \ {t}
               PROVE  /\ task'[u].op = task[u].op /\ task'[u].at = task[u].at
                      /\ task'[u].p = task[u].p /\ task'[u].v = task[u].v
    BY DEF Others
  <2>1. task[u] \in Records /\ task'[u] = [task[u] EXCEPT !.quiet = FALSE]
    BY <1>1, <1>3
  <2> QED BY <2>1, RecordHushedFields
<1>8. /\ task'[t].op = task[t].op /\ task'[t].at = at
      /\ task'[t].p = task[t].p /\ task'[t].v = task[t].v
  BY <1>1, <1>2, RecordLoudFields
<1> QED BY <1>6, <1>7, <1>8

-----------------------------------------------------------------------------
(* The others. *)

\* What a step of t may do to what other tasks rely on.
Polite(t) ==
  /\ Others(t)
  /\ lock' \in {lock, t, Free}
  /\ \/ lock = t
     \/ /\ UNCHANGED <<cache, dirty_map>>
        /\ \A p \in Held : hw'[p] = hw[p]
        /\ lock' = lock \/ lock = Free

LEMMA OthersStaySound ==
  ASSUME LockInv, NEW t \in Tasks, Polite(t),
         NEW u \in Tasks \ {t}
  PROVE  Sound(u)'
<1>1. Sound(u) /\ Sound(t)
  BY DEF LockInv
<1>2. /\ task'[u].op = task[u].op /\ task'[u].at = task[u].at
      /\ task'[u].p = task[u].p /\ task'[u].v = task[u].v
  BY DEF Polite, Others
<1>4. CASE lock = t
  <2>1. task[u].at \notin Inside /\ lock' # u
    BY <1>1, <1>4, ParamFacts DEF Sound, Polite
  <2> QED BY <1>1, <1>2, <2>1 DEF Sound, At, In, P, V, Inside
<1>5. CASE /\ UNCHANGED <<cache, dirty_map>>
           /\ \A p \in Held : hw'[p] = hw[p]
           /\ lock' = lock \/ lock = Free
  <2>1. task[u].at \in Inside <=> lock' = u
    BY <1>1, <1>5, ParamFacts DEF Sound, Polite
  <2> QED BY <1>1, <1>2, <1>5, <2>1 DEF Sound, At, In, P, V
<1> QED BY <1>4, <1>5 DEF Polite

-----------------------------------------------------------------------------
(* The calls, step by step. *)

StepOf(t) == LockTypeOK' /\ Sound(t)' /\ Polite(t)

LEMMA Call ==
  ASSUME LockInv, NEW t \in Tasks, NEW op \in Calls, call(t, op)
  PROVE  StepOf(t)
<1>0. PICK p \in Lids : \E v \in Values[p] :
        /\ Given(op, p, v)
        /\ task' = [task EXCEPT ![t] =
             [op |-> op, p |-> p, v |-> v, quiet |-> FALSE,
              at |-> IF op \in Untested THEN "lock" ELSE "test"]]
  BY DEF call
<1>1. PICK v \in Values[p] :
        /\ Given(op, p, v)
        /\ task' = [task EXCEPT ![t] =
             [op |-> op, p |-> p, v |-> v, quiet |-> FALSE,
              at |-> IF op \in Untested THEN "lock" ELSE "test"]]
  BY <1>0
<1> DEFINE r == [op |-> op, p |-> p, v |-> v, quiet |-> FALSE,
                 at |-> IF op \in Untested THEN "lock" ELSE "test"]
<1>2. r \in Records /\ r.op = op /\ r.p = p /\ r.v = v /\ r.at \in {"lock", "test"}
  BY ParamFacts DEF Records, Places, Inside
<1> HIDE DEF r
<1>3. task' \in [Tasks -> Records] /\ task'[t] = r
      /\ \A u \in Tasks \ {t} : task'[u] = task[u]
  BY <1>1, <1>2 DEF LockInv, LockTypeOK, r
<1>4. Sound(t) /\ At(t, "idle")
  BY DEF LockInv, call
<1>5. UNCHANGED <<lock, shared>>
  BY DEF call
<1>6. Polite(t)
  BY <1>3, <1>5 DEF Polite, Others, shared
<1>7. op = "reset" => v = Default[p]
  BY <1>1 DEF Given
<1>8. op = "flush" => p = 0
  BY <1>1 DEF Given
<1>9. Sound(t)'
  BY <1>1, <1>2, <1>3, <1>4, <1>5, <1>7, <1>8
  DEF Sound, At, In, P, V, shared, Inside
<1> QED BY <1>3, <1>5, <1>6, <1>9 DEF StepOf, LockInv, LockTypeOK, shared

\* Steps outside the lock that change no shared variable.
LEMMA Unshared ==
  ASSUME LockInv, NEW t \in Tasks,
         UNCHANGED <<initialized, registered, cache, dirty_map, hw>>,
         task' \in [Tasks -> Records], Others(t),
         lock' \in {lock, t, Free},
         lock = t \/ lock' = lock \/ lock = Free, Sound(t)'
  PROVE  StepOf(t)
BY DEF StepOf, LockInv, LockTypeOK, Polite

\* A task that is not between LOCK and UNLOCK does not hold the mutex.
LEMMA OutsideFree ==
  ASSUME LockInv, NEW t \in Tasks, task[t].at \notin Inside
  PROVE  lock # t
BY DEF LockInv, Sound

LEMMA GoesToRest ==
  ASSUME LockInv, NEW t \in Tasks, go(t, "idle"), lock' # t
  PROVE  Sound(t)'
BY GoesHome DEF LockInv, Sound, At, In, P, V, Inside

LEMMA Test ==
  ASSUME LockInv, NEW t \in Tasks, test_initialized(t)
  PROVE  StepOf(t)
<1> DEFINE at == IF In(t, "check") THEN "zero" ELSE "lock"
<1>1. UNCHANGED <<lock, shared>>
  BY DEF test_initialized
<1>2. CASE ~initialized
  <2>1. go(t, "idle")
    BY <1>2 DEF test_initialized
  <2>2. Sound(t)'
    BY <1>1, <2>1, GoesToRest, OutsideFree DEF test_initialized, At, Inside
  <2> QED BY <1>1, <2>1, <2>2, GoesHome, Unshared DEF LockInv, LockTypeOK, shared
<1>3. CASE initialized
  <2>1. go(t, at) /\ at \in Places \ {"idle"} /\ at \notin Inside
    BY <1>3 DEF test_initialized, Places, Inside
  <2>2. at \in {"zero", "lock"} /\ (at = "zero" => In(t, "check"))
    OBVIOUS
  <2> HIDE DEF at
  <2>3. /\ task' \in [Tasks -> Records]
        /\ task'[t].op = task[t].op /\ task'[t].at = at
        /\ task'[t].p = task[t].p /\ task'[t].v = task[t].v
        /\ Others(t)
    BY <2>1, Goes DEF LockInv
  <2>4. Sound(t) /\ At(t, "test")
    BY DEF LockInv, test_initialized
  <2>5. Sound(t)'
    BY <1>1, <2>1, <2>2, <2>3, <2>4 DEF Sound, At, In, P, V, Inside, shared
  <2> QED BY <1>1, <2>3, <2>5, Unshared DEF LockInv, LockTypeOK, shared
<1> QED BY <1>2, <1>3 DEF LockInv, LockTypeOK

LEMMA Enters ==
  ASSUME NEW op \in Calls
  PROVE  /\ Entered[op] \in {"cache", "send", "look", "count", "stats", "load",
                             "around", "close", "open"}
         /\ Entered[op] = "close" => op = "deinit"
         /\ Entered[op] = "open" => op = "register"
         /\ Entered[op] = "load" => op = "load_all"
         /\ Entered[op] = "cache" => op \in {"write", "reset"}
         /\ Entered[op] = "around" => op = "control"
         /\ Entered[op] = "send" => op = "write_immediate"
         /\ op = "deinit" => Entered[op] = "close"
         /\ op = "register" => Entered[op] = "open"
BY DEF Calls, Entered

LEMMA TakeLock ==
  ASSUME LockInv, NEW t \in Tasks, take_lock(t)
  PROVE  StepOf(t)
<1> DEFINE at == IF registered \/ task[t].op \in Unlisted
                 THEN Entered[task[t].op] ELSE "unlock"
<1>1. /\ At(t, "lock") /\ lock = Free /\ lock' = t /\ go(t, at)
      /\ UNCHANGED shared
  BY DEF take_lock, enter
<1>2. Sound(t)
  BY DEF LockInv
<1>3. task[t].op \in Calls
  BY <1>1, <1>2 DEF Sound, At
<1>4. /\ at \in {"cache", "send", "look", "count", "stats", "load", "around",
                 "close", "open", "unlock"}
      /\ at = "close" => In(t, "deinit")
      /\ at = "open" => In(t, "register")
      /\ at = "load" => In(t, "load_all")
      /\ at = "cache" => In(t, "write") \/ In(t, "reset")
      /\ at = "around" => In(t, "control")
      /\ at = "send" => In(t, "write_immediate")
  BY <1>3, Enters DEF In
<1> HIDE DEF at
<1>5. at \in Places \ {"idle"} /\ at \in Inside
  BY <1>4 DEF Places, Inside
<1>6. /\ task' \in [Tasks -> Records]
      /\ task'[t].op = task[t].op /\ task'[t].at = at
      /\ task'[t].p = task[t].p /\ task'[t].v = task[t].v
      /\ Others(t)
  BY <1>1, <1>5, Goes DEF LockInv
<1>7. Sound(t)'
  BY <1>1, <1>2, <1>4, <1>6 DEF Sound, At, In, P, V, shared, Inside
<1> QED BY <1>1, <1>6, <1>7, Unshared DEF shared

\* A step inside the lock, or one outside it, to a place that relies on nothing
\* but the lock.
Plain == {"lock", "zero", "result", "init", "unlock", "bit", "down"}

LEMMA GoesPlain ==
  ASSUME LockInv, NEW t \in Tasks, NEW at \in Plain,
         task'[t].op = task[t].op, task'[t].at = at,
         task'[t].p = task[t].p, task'[t].v = task[t].v,
         ~At(t, "idle"),
         at = "lock" /\ In(t, "flush") => P(t) = 0,
         at = "bit" => P(t) \in Lids,
         at \in {"bit", "unlock", "down"} <=> lock' = t,
         at = "zero" => In(t, "check"), at = "init" => In(t, "load_all")
  PROVE  Sound(t)'
<1>1. Sound(t)
  BY DEF LockInv
<1> QED BY <1>1 DEF Sound, At, In, P, V, Plain, Inside

LEMMA Unlock ==
  ASSUME LockInv, NEW t \in Tasks, unlock(t)
  PROVE  StepOf(t)
<1>1. Sound(t) /\ At(t, "unlock") /\ lock' = Free /\ UNCHANGED shared
      /\ go(t, After(t))
  BY DEF LockInv, unlock
<1>2. lock = t
  BY <1>1 DEF Sound, At, Inside
<1>3. CASE After(t) = "idle"
  BY <1>1, <1>2, <1>3, GoesHome, GoesToRest, Unshared, ParamFacts DEF LockInv, shared
<1>4. CASE After(t) # "idle"
  <2>1. After(t) \in {"result", "init"}
    BY <1>4 DEF After
  <2>2. After(t) \in Places \ {"idle"} /\ After(t) \in Plain
    BY <2>1 DEF Places, Plain
  <2>3. /\ task' \in [Tasks -> Records]
        /\ task'[t].op = task[t].op /\ task'[t].at = After(t)
        /\ task'[t].p = task[t].p /\ task'[t].v = task[t].v
        /\ Others(t)
    BY <1>1, <2>2, Goes DEF LockInv
  <2>4. lock' # t /\ After(t) \notin {"bit", "unlock", "down"}
    BY <1>1, <2>1, ParamFacts
  <2>5. After(t) = "init" => In(t, "load_all")
    BY DEF After
  <2>6. Sound(t)'
    BY <1>1, <2>1, <2>2, <2>3, <2>4, <2>5, GoesPlain DEF At
  <2> QED BY <1>1, <1>2, <2>3, <2>6, Unshared DEF shared
<1> QED BY <1>3, <1>4

LEMMA SetCache ==
  ASSUME LockInv, NEW t \in Tasks, set_cache(t)
  PROVE  StepOf(t)
<1> DEFINE at == IF In(t, "write_immediate") \/ In(t, "reset")
                 THEN "clear" ELSE "flag"
<1>1. /\ Sound(t) /\ At(t, "cache") /\ go(t, at)
      /\ cache' = [cache EXCEPT ![P(t)] = V(t)]
      /\ UNCHANGED <<lock, initialized, registered, dirty_map, hw>>
  BY DEF LockInv, set_cache
<1>2. /\ at \in {"clear", "flag"}
      /\ at = "clear" => In(t, "write_immediate") \/ In(t, "reset")
  OBVIOUS
<1> HIDE DEF at
<1>3. lock = t /\ P(t) \in Lids /\ V(t) \in AnyValue
  BY <1>1, ParamFacts DEF Sound, At, Inside
<1>4. at \in Places \ {"idle"}
  BY <1>2 DEF Places, Inside
<1>5. /\ task' \in [Tasks -> Records]
      /\ task'[t].op = task[t].op /\ task'[t].at = at
      /\ task'[t].p = task[t].p /\ task'[t].v = task[t].v
      /\ Others(t)
  BY <1>1, <1>4, Goes DEF LockInv
<1>6. cache' \in [Lids -> AnyValue] /\ cache'[P(t)] = V(t)
  BY <1>1, <1>3 DEF LockInv, LockTypeOK
<1>7. Sound(t)'
  BY <1>1, <1>2, <1>3, <1>5, <1>6 DEF Sound, At, In, P, V, Inside
<1> QED BY <1>1, <1>3, <1>5, <1>6, <1>7
        DEF StepOf, LockInv, LockTypeOK, Polite

\* Steps inside the lock that end in a plain place.
LEMMA Inner ==
  ASSUME LockInv, NEW t \in Tasks, NEW at \in {"unlock", "bit", "down"}, go(t, at),
         task[t].at \in Inside, UNCHANGED <<lock, initialized, registered>>,
         cache' \in [Lids -> AnyValue], hw' \in [Lids -> AnyValue],
         dirty_map' \subseteq Lids, at = "bit" => P(t) \in Lids
  PROVE  StepOf(t)
<1>1. Sound(t) /\ lock = t /\ ~At(t, "idle")
  BY DEF LockInv, Sound, At, Inside
<1>2. at \in Places \ {"idle"} /\ at \in Plain
  BY DEF Places, Inside, Plain
<1>3. /\ task' \in [Tasks -> Records]
      /\ task'[t].op = task[t].op /\ task'[t].at = at
      /\ task'[t].p = task[t].p /\ task'[t].v = task[t].v
      /\ Others(t)
  BY <1>2, Goes DEF LockInv
<1>5. Sound(t)'
  BY <1>1, <1>2, <1>3, GoesPlain
<1> QED BY <1>1, <1>3, <1>5 DEF StepOf, LockInv, LockTypeOK, Polite

LEMMA Flags ==
  ASSUME LockInv, NEW t \in Tasks,
         set_flag(t) \/ clear_bit(t) \/ send_fails(t) \/ empty_map(t)
           \/ clear_flag(t)
  PROVE  StepOf(t)
<1> USE DEF LockInv, LockTypeOK
<1>1. Sound(t)
  OBVIOUS
<1>2. CASE set_flag(t)
  <2>1. /\ At(t, "flag") /\ go(t, "bit")
        /\ UNCHANGED <<lock, initialized, registered, cache, dirty_map, hw>>
    BY <1>2 DEF set_flag
  <2>2. task[t].at \in Inside /\ P(t) \in Lids
    BY <1>1, <2>1 DEF Sound, At, Inside
  <2> QED BY <2>1, <2>2, Inner
<1>3. CASE clear_bit(t)
  <2>1. /\ At(t, "clear") /\ go(t, "unlock")
        /\ UNCHANGED <<lock, initialized, registered, cache, hw>>
        /\ dirty_map' = dirty_map \ {P(t)}
    BY <1>3 DEF clear_bit
  <2>2. task[t].at \in Inside
    BY <2>1 DEF At, Inside
  <2> QED BY <2>1, <2>2, Inner
<1>4. CASE send_fails(t)
  <2>1. /\ At(t, "send") /\ go(t, "unlock")
        /\ UNCHANGED <<lock, initialized, registered, cache, dirty_map, hw>>
    BY <1>4 DEF send_fails, shared
  <2>2. task[t].at \in Inside
    BY <2>1 DEF At, Inside
  <2> QED BY <2>1, <2>2, Inner
<1>5. CASE empty_map(t)
  <2>1. /\ At(t, "send") /\ go(t, "down") /\ dirty_map' = {}
        /\ UNCHANGED <<lock, initialized, registered, cache, hw>>
    BY <1>5 DEF empty_map
  <2>2. task[t].at \in Inside
    BY <1>1, <2>1 DEF Sound, At, Inside
  <2> QED BY <2>1, <2>2, Inner
<1>6. CASE clear_flag(t)
  <2>1. /\ At(t, "down") /\ go(t, "unlock")
        /\ UNCHANGED <<lock, initialized, registered, cache, dirty_map, hw>>
    BY <1>6 DEF clear_flag
  <2>2. task[t].at \in Inside
    BY <2>1 DEF At, Inside
  <2> QED BY <2>1, <2>2, Inner
<1> QED BY <1>2, <1>3, <1>4, <1>5, <1>6

LEMMA SetBit ==
  ASSUME LockInv, NEW t \in Tasks, set_bit(t)
  PROVE  StepOf(t)
<1>1. /\ Sound(t) /\ At(t, "bit") /\ dirty_map' = dirty_map \cup {P(t)}
      /\ UNCHANGED <<lock, initialized, registered, cache, hw>>
  BY DEF LockInv, set_bit
<1>2. /\ task[t].at \in Inside /\ lock = t
      /\ P(t) \in Lids /\ P(t) \in Nat
  BY <1>1, ParamFacts DEF Sound, At, Inside
<1>3. cache \in [Lids -> AnyValue] /\ hw \in [Lids -> AnyValue] /\ dirty_map' \subseteq Lids
  BY <1>1, <1>2 DEF LockInv, LockTypeOK
<1>4. CASE In(t, "load_all")
  <2>1. go_with(t, "load", P(t) + 1) /\ P(t) + 1 \in Nat /\ "load" \in Places
    BY <1>2, <1>4 DEF set_bit, Places, Inside
  <2>2. /\ task' \in [Tasks -> Records]
        /\ task'[t].op = task[t].op /\ task'[t].at = "load"
        /\ task'[t].p = P(t) + 1 /\ task'[t].v = task[t].v
        /\ Others(t)
    BY <2>1, GoesWith DEF LockInv
  <2>3. Sound(t)'
    BY <1>1, <1>2, <1>4, <2>2 DEF Sound, At, In, P, V, Inside
  <2> QED BY <1>1, <1>2, <1>3, <2>2, <2>3
          DEF StepOf, LockInv, LockTypeOK, Polite
<1>5. CASE ~In(t, "load_all")
  <2>1. go(t, "unlock")
    BY <1>5 DEF set_bit
  <2> QED BY <1>1, <1>2, <1>3, <2>1, Inner
<1> QED BY <1>4, <1>5

LEMMA LoadEntry ==
  ASSUME LockInv, NEW t \in Tasks, load_entry(t)
  PROVE  StepOf(t)
<1>1. /\ Sound(t) /\ At(t, "load")
      /\ UNCHANGED <<lock, initialized, registered, cache, dirty_map, hw>>
  BY DEF LockInv, load_entry, shared
<1>2. task[t].at \in Inside /\ lock = t
  BY <1>1 DEF Sound, At, Inside
<1>3. /\ cache \in [Lids -> AnyValue] /\ hw \in [Lids -> AnyValue]
      /\ dirty_map \subseteq Lids /\ lock \in Tasks \cup {Free}
  BY DEF LockInv, LockTypeOK
<1>4. CASE P(t) \in Lids /\ go_with(t, "load", P(t) + 1)
  <2>0. P(t) \in Nat
    BY <1>4, ParamFacts
  <2>1. P(t) + 1 \in Nat /\ "load" \in Places
    BY <2>0 DEF Places, Inside
  <2>2. /\ task' \in [Tasks -> Records]
        /\ task'[t].op = task[t].op /\ task'[t].at = "load"
        /\ task'[t].p = P(t) + 1 /\ task'[t].v = task[t].v
        /\ Others(t)
    BY <1>4, <2>1, GoesWith DEF LockInv
  <2>3. In(t, "load_all")
    BY <1>1 DEF Sound
  <2>4. Sound(t)'
    BY <1>1, <1>2, <2>2, <2>3 DEF Sound, At, In, P, V, Inside
  <2> QED BY <1>1, <1>2, <1>3, <2>2, <2>4, Unshared
<1>5. ASSUME P(t) \in Lids, NEW v \in Values[P(t)],
             task' = [task EXCEPT ![t].at = "cache", ![t].v = v]
      PROVE  StepOf(t)
  <2>1. v \in AnyValue /\ "cache" \in Places
    BY <1>5, ParamFacts DEF Places, Inside
  <2>2. /\ task' \in [Tasks -> Records]
        /\ task'[t].op = task[t].op /\ task'[t].at = "cache"
        /\ task'[t].p = task[t].p /\ task'[t].v = v
        /\ Others(t)
    BY <1>5, <2>1, GoesLoaded DEF LockInv
  <2>4. In(t, "load_all")
    BY <1>1 DEF Sound
  <2>3. Sound(t)'
    BY <1>1, <1>2, <1>5, <2>2, <2>4 DEF Sound, At, In, P, V, Inside
  <2> QED BY <1>1, <1>2, <1>3, <2>2, <2>3, Unshared
<1>6. CASE P(t) \notin Lids
  <2>1. go(t, "unlock")
    BY <1>6 DEF load_entry
  <2> QED BY <1>1, <1>2, <1>3, <2>1, Inner
<1> QED BY <1>4, <1>5, <1>6 DEF load_entry

LEMMA LookAtFlag ==
  ASSUME LockInv, NEW t \in Tasks, look_at_flag(t)
  PROVE  StepOf(t)
<1>1. /\ Sound(t) /\ At(t, "look")
      /\ UNCHANGED <<lock, initialized, registered, cache, dirty_map, hw>>
  BY DEF LockInv, look_at_flag, shared
<1>2. task[t].at \in Inside /\ lock = t
  BY <1>1 DEF Sound, At, Inside
<1>3. /\ cache \in [Lids -> AnyValue] /\ hw \in [Lids -> AnyValue]
      /\ dirty_map \subseteq Lids /\ lock \in Tasks \cup {Free}
  BY DEF LockInv, LockTypeOK
<1>4. CASE go(t, "unlock")
  BY <1>1, <1>2, <1>3, <1>4, Inner
<1>5. CASE go(t, "send")
  <2>1. /\ task' \in [Tasks -> Records]
        /\ task'[t].op = task[t].op /\ task'[t].at = "send"
        /\ task'[t].p = task[t].p /\ task'[t].v = task[t].v
        /\ Others(t)
    BY <1>5, Goes DEF LockInv, Places, Inside
  <2>2. In(t, "flush") => \A p \in dirty_map \cap Held : ~ (p < P(t))
    <3> SUFFICES ASSUME In(t, "flush"), NEW p \in dirty_map PROVE ~ (p < P(t))
      OBVIOUS
    <3>1. P(t) = 0
      BY <1>1 DEF Sound, At
    <3>2. p \in Nat
      BY <1>3, ParamFacts
    <3> QED BY <3>1, <3>2
  <2>3. Sound(t)'
    BY <1>1, <1>2, <2>1, <2>2 DEF Sound, At, In, P, V, Inside
  <2> QED BY <1>1, <1>2, <1>3, <2>1, <2>3, Unshared
<1> QED BY <1>4, <1>5 DEF look_at_flag

LEMMA SendOk ==
  ASSUME LockInv, NEW t \in Tasks, NEW p \in Lids, send_ok(t, p)
  PROVE  StepOf(t)
<1>1. /\ Sound(t) /\ At(t, "send")
      /\ UNCHANGED <<lock, initialized, registered, cache, dirty_map>>
  BY DEF LockInv, send_ok
<1>2. lock = t /\ p \in Nat
  BY <1>1, ParamFacts DEF Sound, At, Inside
<1>3. /\ cache \in [Lids -> AnyValue] /\ hw \in [Lids -> AnyValue]
      /\ dirty_map \subseteq Lids
  BY DEF LockInv, LockTypeOK
<1>4. CASE /\ In(t, "flush") /\ p \in NextBit(t)
           /\ hw' = [hw EXCEPT ![p] = cache[p]]
           /\ go_with(t, "send", p + 1)
  <2>1. /\ task' \in [Tasks -> Records]
        /\ task'[t].op = task[t].op /\ task'[t].at = "send"
        /\ task'[t].p = p + 1 /\ task'[t].v = task[t].v
        /\ Others(t)
    BY <1>2, <1>4, GoesWith DEF LockInv, Places, Inside
  <2>2. hw' \in [Lids -> AnyValue]
    BY <1>3, <1>4
  <2>3. \A q \in dirty_map \cap Held : q < p + 1 => hw'[q] = cache[q]
    <3> SUFFICES ASSUME NEW q \in dirty_map, q \in Held, q < p + 1
                 PROVE  hw'[q] = cache[q]
      OBVIOUS
    <3>1. q \in Lids /\ q \in Nat
      BY <1>3, ParamFacts
    <3>2. CASE q = p
      BY <1>3, <1>4, <3>2
    <3>3. CASE q # p
      <4>1. q < p /\ ~ (p <= q)
        BY <1>2, <3>1, <3>3
      <4>2. q < P(t)
        BY <1>4, <4>1 DEF NextBit
      <4>3. hw[q] = cache[q]
        BY <1>1, <1>4, <4>2 DEF Sound
      <4> QED BY <1>3, <1>4, <3>1, <3>3, <4>3
    <3> QED BY <3>2, <3>3
  <2>4. Sound(t)'
    BY <1>1, <1>2, <1>4, <2>1, <2>3 DEF Sound, At, In, P, V, Inside
  <2> QED BY <1>1, <1>2, <1>3, <2>1, <2>2, <2>4
          DEF StepOf, LockInv, LockTypeOK, Polite
<1>5. CASE /\ In(t, "write_immediate") /\ p = P(t)
           /\ hw' = [hw EXCEPT ![p] = V(t)]
           /\ go(t, "cache")
  <2>1. /\ task' \in [Tasks -> Records]
        /\ task'[t].op = task[t].op /\ task'[t].at = "cache"
        /\ task'[t].p = task[t].p /\ task'[t].v = task[t].v
        /\ Others(t)
    BY <1>5, Goes DEF LockInv, Places, Inside
  <2>2. V(t) \in Values[P(t)] /\ V(t) \in AnyValue
    BY <1>1, <1>5, ParamFacts DEF Sound, In
  <2>3. hw' \in [Lids -> AnyValue] /\ hw'[p] = V(t)
    BY <1>3, <1>5, <2>2
  <2>4. Sound(t)'
    BY <1>1, <1>2, <1>5, <2>1, <2>2, <2>3 DEF Sound, At, In, P, V, Inside
  <2> QED BY <1>1, <1>2, <1>3, <2>1, <2>3, <2>4
          DEF StepOf, LockInv, LockTypeOK, Polite
<1> QED BY <1>4, <1>5 DEF send_ok

LEMMA Checks ==
  ASSUME LockInv, NEW t \in Tasks,
         \/ zero_miss(t) \/ count_missing(t) \/ return_result(t)
         \/ param_clear_stats(t)
  PROVE  StepOf(t)
<1> DEFINE Rec(at) == /\ task' \in [Tasks -> Records]
                      /\ task'[t].op = task[t].op /\ task'[t].at = at
                      /\ task'[t].p = task[t].p /\ task'[t].v = task[t].v
                      /\ Others(t)
<1>1. /\ Sound(t) /\ lock \in Tasks \cup {Free} /\ task[t] \in Records
      /\ LockTypeOK
  BY DEF LockInv, LockTypeOK
<1>2. CASE zero_miss(t)
  <2>1. /\ At(t, "zero") /\ go_loud(t, "lock", TRUE)
        /\ UNCHANGED <<lock, initialized, registered, cache, dirty_map, hw>>
    BY <1>2 DEF zero_miss
  <2>2. Rec("lock")
    BY <1>1, <2>1, GoesLoud DEF Places
  <2>3. Sound(t)'
    BY <1>1, <2>1, <2>2 DEF Sound, At, In, P, V, Inside
  <2> QED BY <1>1, <2>1, <2>2, <2>3, Unshared
<1>3. CASE count_missing(t)
  <2>1. /\ At(t, "count") /\ go_loud(t, "unlock", task[t].quiet)
        /\ UNCHANGED <<lock, initialized, registered, cache, dirty_map, hw>>
    BY <1>3 DEF count_missing
  <2>2. task[t].quiet \in BOOLEAN
    BY <1>1 DEF Records
  <2>3. "unlock" \in Places
    BY DEF Places, Inside
  <2>4. Rec("unlock")
    BY <1>1, <2>1, <2>2, <2>3, GoesLoud
  <2>5. Sound(t)'
    BY <1>1, <2>1, <2>4 DEF Sound, At, In, P, V, Inside
  <2> QED BY <1>1, <2>1, <2>4, <2>5, Unshared
<1>4. CASE return_result(t)
  BY <1>1, <1>4, GoesHome, GoesToRest, Unshared, OutsideFree
  DEF return_result, shared, At, Inside
<1>5. CASE param_clear_stats(t)
  <2>1. /\ At(t, "stats") /\ go_loud(t, "unlock", FALSE)
        /\ UNCHANGED <<lock, initialized, registered, cache, dirty_map, hw>>
    BY <1>5 DEF param_clear_stats
  <2>2. "unlock" \in Places
    BY DEF Places, Inside
  <2>3. Rec("unlock")
    BY <1>1, <2>1, <2>2, GoesLoud
  <2>4. Sound(t)'
    BY <1>1, <2>1, <2>3 DEF Sound, At, In, P, V, Inside
  <2> QED BY <1>1, <2>1, <2>3, <2>4, Unshared
<1> QED BY <1>2, <1>3, <1>4, <1>5

LEMMA Controls ==
  ASSUME LockInv, NEW t \in Tasks, ip_control(t)
  PROVE  StepOf(t)
<1>1. /\ At(t, "around") /\ Sound(t) /\ LockTypeOK /\ go(t, "unlock")
      /\ hw' = [hw EXCEPT ![P(t)] = V(t)] \/ hw' = hw
      /\ UNCHANGED <<lock, initialized, registered, cache, dirty_map>>
  BY DEF ip_control, LockInv
<1>2. V(t) \in AnyValue
  BY <1>1 DEF V, LockTypeOK, Records
<1>3. hw' \in [Lids -> AnyValue]
  BY <1>1, <1>2 DEF LockTypeOK
<1>4. task[t].at \in Inside
  BY <1>1 DEF At, Inside
<1> QED BY <1>1, <1>3, <1>4, Inner DEF LockTypeOK

\* The parameter a driver's init callback turns to next, if there is one.
LEMMA NextPush ==
  ASSUME LockTypeOK, NEW t \in Tasks, NEW from \in Nat, next_push(t, from)
  PROVE  \/ go(t, "idle")
         \/ \E q \in InitPush : go_with(t, "read", q)
<1>1. CASE ~ \E q \in InitPush : from <= q
  BY <1>1 DEF next_push
<1>2. CASE \E q \in InitPush : from <= q
  <2> DEFINE T == {q \in InitPush : from <= q}
             c == CHOOSE q \in InitPush :
                    from <= q /\ \A r \in InitPush : r < from \/ q <= r
  <2>1. T \subseteq Nat /\ T # {} /\ InitPush \subseteq Nat
    BY <1>2, ParamFacts
  <2>2. PICK x \in T : \A y \in T : x <= y
    BY <2>1, LeastNumber
  <2>3. \A r \in InitPush : r < from \/ x <= r
    BY <2>1, <2>2
  <2>4. c \in InitPush
    BY <2>2, <2>3
  <2>5. go_with(t, "read", c)
    BY <1>2 DEF next_push
  <2> HIDE DEF c
  <2> QED BY <2>4, <2>5
<1> QED BY <1>1, <1>2

LEMMA PushSound ==
  ASSUME LockInv, NEW t \in Tasks, NEW from \in Nat, next_push(t, from),
         task[t].at \in {"init", "read", "push"},
         lock' = lock
  PROVE  task' \in [Tasks -> Records] /\ Others(t) /\ Sound(t)'
<1>1. LockTypeOK /\ Sound(t) /\ lock' # t /\ "read" \notin Inside
  BY OutsideFree DEF LockInv, Inside
<1>2. CASE go(t, "idle")
  BY <1>1, <1>2, GoesHome, GoesToRest
<1>3. ASSUME NEW q \in InitPush, go_with(t, "read", q)
      PROVE  task' \in [Tasks -> Records] /\ Others(t) /\ Sound(t)'
  <2>1. q \in Nat /\ "read" \in Places
    BY ParamFacts DEF Places
  <2>2. /\ task' \in [Tasks -> Records]
        /\ task'[t].op = task[t].op /\ task'[t].at = "read"
        /\ task'[t].p = q /\ task'[t].v = task[t].v
        /\ Others(t)
    BY <1>1, <1>3, <2>1, GoesWith
  <2>3. task[t].op \notin {"write", "write_immediate", "reset", "control"}
    BY <1>1 DEF Sound, At, In
  <2>4. Sound(t)'
    BY <1>1, <2>2, <2>3 DEF Sound, At, In, P, V, Inside
  <2> QED BY <2>2, <2>4
<1> QED BY <1>1, <1>2, <1>3, NextPush

LEMMA InitModule ==
  ASSUME LockInv, NEW t \in Tasks, init_module(t)
  PROVE  StepOf(t)
<1>1. /\ At(t, "init") /\ Sound(t) /\ lock \in Tasks \cup {Free}
      /\ UNCHANGED <<lock, initialized, registered, cache, dirty_map, hw>>
  BY DEF init_module, shared, LockInv, LockTypeOK
<1>2. CASE go(t, "idle")
  BY <1>1, <1>2, GoesHome, GoesToRest, Unshared, OutsideFree DEF LockInv, At, Inside
<1>3. CASE next_push(t, 0)
  <2>1. task[t].at \in {"init", "read", "push"}
    BY <1>1 DEF At
  <2>2. task' \in [Tasks -> Records] /\ Others(t) /\ Sound(t)'
    BY <1>1, <1>3, <2>1, PushSound
  <2> QED BY <1>1, <2>2, Unshared
<1> QED BY <1>2, <1>3 DEF init_module

LEMMA InitRead ==
  ASSUME LockInv, NEW t \in Tasks, init_read(t)
  PROVE  StepOf(t)
<1>1. /\ At(t, "read") /\ Sound(t) /\ lock \in Tasks \cup {Free} /\ LockTypeOK
      /\ UNCHANGED <<lock, initialized, registered, cache, dirty_map, hw>>
  BY DEF init_read, shared, LockInv, LockTypeOK
<1>2. /\ P(t) \in InitPush /\ P(t) \in Lids /\ P(t) + 1 \in Nat
      /\ task[t].at \in {"init", "read", "push"} /\ In(t, "load_all")
  <2>1. P(t) \in InitPush /\ task[t].at \in {"init", "read", "push"}
        /\ In(t, "load_all")
    BY <1>1 DEF Sound, At
  <2>2. P(t) \in Lids /\ P(t) \in Nat
    BY <2>1, ParamFacts
  <2> QED BY <2>1, <2>2
<1>3. CASE task' = [task EXCEPT ![t].at = "push", ![t].v = cache[P(t)]]
  <2> DEFINE v == cache[P(t)]
  <2>1. v \in AnyValue /\ "push" \in Places
    BY <1>1, <1>2 DEF LockTypeOK, Places
  <2>2. task' = [task EXCEPT ![t].at = "push", ![t].v = v]
    BY <1>3
  <2> HIDE DEF v
  <2>3. /\ task' \in [Tasks -> Records]
        /\ task'[t].op = task[t].op /\ task'[t].at = "push"
        /\ task'[t].p = task[t].p /\ task'[t].v = v
        /\ Others(t)
    BY <1>1, <2>1, <2>2, GoesLoaded
  <2>4. Sound(t)'
    BY <1>1, <1>2, <2>3 DEF Sound, At, In, P, V, Inside
  <2> QED BY <1>1, <2>3, <2>4, Unshared
<1>4. CASE next_push(t, P(t) + 1)
  <2>1. task' \in [Tasks -> Records] /\ Others(t) /\ Sound(t)'
    BY <1>1, <1>2, <1>4, PushSound
  <2> QED BY <1>1, <2>1, Unshared
<1> QED BY <1>3, <1>4 DEF init_read

LEMMA InitPushes ==
  ASSUME LockInv, NEW t \in Tasks, init_push(t)
  PROVE  StepOf(t)
<1>1. /\ At(t, "push") /\ Sound(t) /\ LockTypeOK
      /\ hw' = [hw EXCEPT ![P(t)] = V(t)]
      /\ next_push(t, P(t) + 1)
      /\ UNCHANGED <<lock, initialized, registered, cache, dirty_map>>
  BY DEF init_push, LockInv
<1>2. /\ P(t) \in InitPush /\ P(t) \in Lids /\ P(t) + 1 \in Nat
      /\ task[t].at \in {"init", "read", "push"}
  <2>1. P(t) \in InitPush /\ task[t].at \in {"init", "read", "push"}
    BY <1>1 DEF Sound, At
  <2>2. P(t) \in Lids /\ P(t) \in Nat
    BY <2>1, ParamFacts
  <2> QED BY <2>1, <2>2
<1>3. V(t) \in AnyValue
  BY <1>1 DEF V, LockTypeOK, Records
<1>4. hw' \in [Lids -> AnyValue] /\ \A p \in Held : hw'[p] = hw[p]
  BY <1>1, <1>2, <1>3 DEF LockTypeOK, Held
<1>5. task' \in [Tasks -> Records] /\ Others(t) /\ Sound(t)'
  BY <1>1, <1>2, PushSound
<1> QED BY <1>1, <1>4, <1>5 DEF StepOf, LockTypeOK, Polite

LEMMA Closes ==
  ASSUME LockInv, NEW t \in Tasks, param_deinit(t)
  PROVE  StepOf(t)
<1>1. /\ At(t, "close") /\ Sound(t) /\ LockTypeOK
      /\ initialized' = FALSE /\ registered' = FALSE
      /\ dirty_map' = IF registered THEN {} ELSE dirty_map
      /\ go_loud(t, "unlock", FALSE) /\ UNCHANGED <<lock, cache, hw>>
  BY DEF param_deinit, LockInv
<1>2. lock = t /\ In(t, "deinit") /\ dirty_map' \subseteq Lids
  BY <1>1 DEF Sound, At, Inside, LockTypeOK
<1>3. "unlock" \in Places
  BY DEF Places, Inside
<1>4. /\ task' \in [Tasks -> Records]
      /\ task'[t].op = task[t].op /\ task'[t].at = "unlock"
      /\ task'[t].p = task[t].p /\ task'[t].v = task[t].v
      /\ Others(t)
  BY <1>1, <1>3, GoesLoud
<1>5. Sound(t)'
  BY <1>1, <1>2, <1>4 DEF Sound, At, In, P, V, Inside
<1> QED BY <1>1, <1>2, <1>4, <1>5 DEF StepOf, LockTypeOK, Polite

LEMMA Registers ==
  ASSUME LockInv, NEW t \in Tasks, ip_driver_register(t)
  PROVE  StepOf(t)
<1>1. /\ At(t, "open") /\ Sound(t) /\ LockTypeOK
      /\ registered' = TRUE /\ go_loud(t, "unlock", FALSE)
      /\ UNCHANGED <<lock, initialized, cache, dirty_map, hw>>
  BY DEF ip_driver_register, LockInv
<1>2. lock = t /\ In(t, "register")
  BY <1>1 DEF Sound, At, Inside
<1>3. "unlock" \in Places
  BY DEF Places, Inside
<1>4. /\ task' \in [Tasks -> Records]
      /\ task'[t].op = task[t].op /\ task'[t].at = "unlock"
      /\ task'[t].p = task[t].p /\ task'[t].v = task[t].v
      /\ Others(t)
  BY <1>1, <1>3, GoesLoud
<1>5. Sound(t)'
  BY <1>1, <1>2, <1>4 DEF Sound, At, In, P, V, Inside
<1> QED BY <1>1, <1>2, <1>4, <1>5 DEF StepOf, LockTypeOK, Polite

\* param_init takes no lock and is no task's step here: it finds a framework
\* in which nobody is at work on an instance.
LEMMA Opens ==
  ASSUME LockInv, param_init
  PROVE  LockInv'
<1>1. CASE initialized
  BY <1>1 DEF param_init, vars, LockInv, LockTypeOK, Sound, At, In, P, V
<1>2. CASE ~initialized
  <2>1. /\ initialized' = TRUE /\ registered' = FALSE
        /\ task' = [t \in Tasks |-> [task[t] EXCEPT !.quiet = FALSE]]
        /\ UNCHANGED <<lock, cache, dirty_map, hw>>
    BY <1>2 DEF param_init
  <2>2. LockTypeOK
    BY DEF LockInv
  <2>3. \A t \in Tasks :
          /\ task'[t] \in Records
          /\ task'[t].op = task[t].op /\ task'[t].at = task[t].at
          /\ task'[t].p = task[t].p /\ task'[t].v = task[t].v
    <3> SUFFICES ASSUME NEW t \in Tasks
                 PROVE  /\ task'[t] \in Records
                        /\ task'[t].op = task[t].op /\ task'[t].at = task[t].at
                        /\ task'[t].p = task[t].p /\ task'[t].v = task[t].v
      OBVIOUS
    <3>1. task[t] \in Records /\ task'[t] = [task[t] EXCEPT !.quiet = FALSE]
      BY <2>1, <2>2 DEF LockTypeOK
    <3> QED BY <3>1, RecordHushed, RecordHushedFields
  <2>4. task' \in [Tasks -> Records]
    <3>1. task' = [t \in Tasks |-> task'[t]]
      BY <2>1
    <3> QED BY <2>3, <3>1
  <2>5. \A t \in Tasks : Sound(t)'
    <3> SUFFICES ASSUME NEW t \in Tasks PROVE Sound(t)'
      OBVIOUS
    <3>1. Sound(t)
      BY DEF LockInv
    <3> QED BY <2>1, <2>3, <3>1 DEF Sound, At, In, P, V, Inside
  <2> QED BY <2>1, <2>2, <2>4, <2>5 DEF LockInv, LockTypeOK
<1> QED BY <1>1, <1>2 DEF LockInv, LockTypeOK

LEMMA TaskSteps ==
  ASSUME LockInv, NEW t \in Tasks, Step(t)
  PROVE  StepOf(t)
BY Test, TakeLock, Unlock, SetCache, Flags, SetBit, LoadEntry, LookAtFlag,
   SendOk, Checks, Controls, InitModule, InitRead, InitPushes, Closes, Registers
DEF Step

LEMMA StartInv == Init => LockInv
<1> SUFFICES ASSUME Init PROVE LockInv
  OBVIOUS
<1>1. LockTypeOK
  BY RestType, ParamFacts DEF Init, LockTypeOK, AnyValue
<1>2. \A t \in Tasks : task[t] = Rest /\ lock # t
  BY ParamFacts DEF Init
<1>3. \A t \in Tasks : Sound(t)
  BY <1>2, RestType DEF Sound, At, In, P, V, Inside
<1> QED BY <1>1, <1>3 DEF LockInv

LEMMA StepInv == LockInv /\ [Next]_vars => LockInv'
<1> SUFFICES ASSUME LockInv, [Next]_vars PROVE LockInv'
  OBVIOUS
<1>1. CASE UNCHANGED vars
  BY <1>1 DEF vars, LockInv, LockTypeOK, Sound, At, In, P, V
<1>2. CASE param_init
  BY <1>2, Opens
<1>3. ASSUME NEW t \in Tasks, StepOf(t)
      PROVE  LockInv'
  <2>1. \A u \in Tasks \ {t} : Sound(u)'
    BY <1>3, OthersStaySound DEF StepOf
  <2>2. \A u \in Tasks : Sound(u)'
    BY <1>3, <2>1 DEF StepOf
  <2> QED BY <1>3, <2>2 DEF LockInv, StepOf
<1>4. ASSUME NEW t \in Tasks, Step(t) \/ \E op \in Calls : call(t, op)
      PROVE  LockInv'
  BY <1>3, <1>4, TaskSteps, Call
<1> QED BY <1>1, <1>2, <1>4 DEF Next

\* What a task knows between LOCK and UNLOCK stays true until it gives the lock
\* back, whichever tasks close, open and register meanwhile (the loops of
\* param_write, param_flush and param_load_all rely on it).
THEOREM LockInvariant == Spec => []LockInv
<1>1. LockInv /\ [Next]_vars => LockInv'
  BY StepInv
<1> QED BY <1>1, StartInv, PTL DEF Spec

\* The holder of LOCK is on its way to UNLOCK and waits for nothing: no return
\* path keeps the mutex and no task asks for it twice.
THEOREM HolderOnItsWay == Spec => []HolderNeverWaits
<1>1. LockInv => HolderNeverWaits
  BY DEF LockInv, Sound, HolderNeverWaits, At, Inside
<1> QED BY <1>1, LockInvariant, PTL

-----------------------------------------------------------------------------
(* What is owed to the driver, as the abstract cache sees it. *)

Marking == {"flag", "bit", "clear"}

Mine(t) == IF Busy(t) THEN {P(t)} ELSE {}
Lost(t) == IF Forgetting(t) THEN {P(t)} ELSE {}

LEMMA OwedInside ==
  ASSUME LockInv, NEW t \in Tasks, lock = t, Others(t)
  PROVE  /\ Owed = (dirty_map \cup Mine(t)) \ Lost(t)
         /\ Owed' = (dirty_map' \cup Mine(t)') \ Lost(t)'
<1>1. \A u \in Tasks \ {t} : task[u].at \notin Marking
  BY DEF LockInv, Sound, Inside, Marking
<1>2. \A u \in Tasks \ {t} : task'[u].at \notin Marking
  BY <1>1 DEF Others
<1>3. \A u \in Tasks \ {t} : ~Busy(u) /\ ~Forgetting(u)
  BY <1>1 DEF Busy, Forgetting, Marking, At
<1>4. \A u \in Tasks \ {t} : ~Busy(u)' /\ ~Forgetting(u)'
  BY <1>2 DEF Busy, Forgetting, Marking, At
<1>5. Owed = (dirty_map \cup Mine(t)) \ Lost(t)
  BY <1>3 DEF Owed, Mine, Lost
<1>6. Owed' = (dirty_map' \cup Mine(t)') \ Lost(t)'
  BY <1>4 DEF Owed, Mine, Lost
<1> QED BY <1>5, <1>6

LEMMA OwedSame ==
  ASSUME NEW t \in Tasks, Others(t), dirty_map' = dirty_map,
         Busy(t)' <=> Busy(t), Forgetting(t)' <=> Forgetting(t),
         task[t].at \in Marking => task'[t].p = task[t].p
  PROVE  Owed' = Owed
<1>1. \A u \in Tasks : (Busy(u)' <=> Busy(u)) /\ (Forgetting(u)' <=> Forgetting(u))
  BY DEF Others, Busy, Forgetting, At, In
<1>2. \A u \in Tasks : Busy(u) \/ Forgetting(u) => P(u)' = P(u)
  BY DEF Others, Busy, Forgetting, At, Marking, P
<1> QED BY <1>1, <1>2 DEF Owed

Implemented == WB!Next \/ UNCHANGED WB!vars

LEMMA Stutters ==
  ASSUME cache' = cache, \A p \in Held : hw'[p] = hw[p], Owed' = Owed,
         initialized' = initialized
  PROVE  Implemented
<1>1. UNCHANGED WB!vars
  BY DEF WB!vars, Part
<1> QED BY <1>1 DEF Implemented

LEMMA Delivers ==
  ASSUME cache' = cache, initialized' = initialized, Owed' \subseteq Owed,
         \A p \in Held : hw'[p] = hw[p] \/ hw'[p] = cache[p],
         \A p \in (Owed \ Owed') \cap Held : hw'[p] = cache[p]
  PROVE  Implemented
<1>1. WB!Deliver
  BY DEF WB!Deliver, Part
<1> QED BY <1>1 DEF Implemented, WB!Next

\* Steps in which nothing but a task's place changes.
LEMMA SameView ==
  ASSUME NEW t \in Tasks, Others(t), UNCHANGED <<initialized, cache, dirty_map, hw>>,
         Busy(t)' <=> Busy(t), Forgetting(t)' <=> Forgetting(t),
         task[t].at \in Marking => task'[t].p = task[t].p
  PROVE  Implemented
BY OwedSame, Stutters

\* Where a task's place is written, it gets there.
LEMMA PlaceWritten ==
  ASSUME LockTypeOK, NEW t \in Tasks, NEW at,
         \/ go(t, at)
         \/ \E p : go_with(t, at, p)
         \/ \E v : task' = [task EXCEPT ![t].at = at, ![t].v = v]
         \/ \E q : go_loud(t, at, q)
  PROVE  task'[t].at = at
<1>1. task[t] \in Records /\ t \in DOMAIN task
  BY DEF LockTypeOK
<1>2. CASE go(t, at)
  <2>1. CASE at = "idle"
    BY <1>1, <1>2, <2>1, RestType DEF go, LockTypeOK
  <2>2. CASE at # "idle"
    <3>1. task'[t] = [task[t] EXCEPT !.at = at]
      BY <1>1, <1>2, <2>2 DEF go, LockTypeOK
    <3>2. [task[t] EXCEPT !.at = at].at = at
      BY <1>1, RecordAtFields
    <3> QED BY <3>1, <3>2
  <2> QED BY <2>1, <2>2
<1>3. ASSUME NEW p, go_with(t, at, p) PROVE task'[t].at = at
  <2>1. task'[t] = [task[t] EXCEPT !.at = at, !.p = p]
    BY <1>1, <1>3 DEF go_with, LockTypeOK
  <2>2. [task[t] EXCEPT !.at = at, !.p = p].at = at
    BY <1>1 DEF Records
  <2> QED BY <2>1, <2>2
<1>4. ASSUME NEW v, task' = [task EXCEPT ![t].at = at, ![t].v = v]
      PROVE  task'[t].at = at
  <2>1. task'[t] = [task[t] EXCEPT !.at = at, !.v = v]
    BY <1>1, <1>4 DEF LockTypeOK
  <2>2. [task[t] EXCEPT !.at = at, !.v = v].at = at
    BY <1>1 DEF Records
  <2> QED BY <2>1, <2>2
<1>5. ASSUME NEW q, go_loud(t, at, q) PROVE task'[t].at = at
  <2>1. task'[t] = [task[t] EXCEPT !.at = at, !.quiet = q]
    BY <1>5 DEF go_loud
  <2>2. [task[t] EXCEPT !.at = at, !.quiet = q].at = at
    BY <1>1 DEF Records
  <2> QED BY <2>1, <2>2
<1> QED BY <1>2, <1>3, <1>4, <1>5

LEMMA Unseen ==
  ASSUME NEW t \in Tasks, StepOf(t),
         UNCHANGED <<initialized, cache, dirty_map, hw>>,
         task[t].at \notin Marking, task'[t].at \notin Marking
  PROVE  Implemented
BY SameView DEF StepOf, Polite, Busy, Forgetting, At, Marking

LEMMA UnseenSteps ==
  ASSUME LockInv, NEW t \in Tasks, StepOf(t),
         \/ test_initialized(t) \/ take_lock(t) \/ unlock(t) \/ load_entry(t)
         \/ look_at_flag(t) \/ send_fails(t) \/ clear_flag(t)
         \/ zero_miss(t) \/ count_missing(t) \/ return_result(t)
         \/ param_clear_stats(t) \/ init_module(t) \/ init_read(t)
         \/ ip_driver_register(t)
  PROVE  Implemented
<1>1. LockTypeOK /\ Sound(t)
  BY DEF LockInv
<1>2. /\ UNCHANGED <<initialized, cache, dirty_map, hw>>
      /\ task[t].at \notin Marking
  BY DEF test_initialized, take_lock, unlock, load_entry, look_at_flag,
         send_fails, clear_flag, zero_miss, count_missing, return_result,
         param_clear_stats, init_module, init_read, ip_driver_register, shared, At, Marking
<1>3. ASSUME NEW at, at \notin Marking,
             \/ go(t, at)
             \/ \E p : go_with(t, at, p)
             \/ \E v : task' = [task EXCEPT ![t].at = at, ![t].v = v]
             \/ \E q : go_loud(t, at, q)
      PROVE  Implemented
  <2>1. task'[t].at = at
    BY <1>1, <1>3, PlaceWritten
  <2> QED BY <1>2, <1>3, <2>1, Unseen
<1> DEFINE NotMarking(at) == at \notin Marking
<1>go. \A at : NotMarking(at) /\ go(t, at) => Implemented
  BY <1>3
<1>with. \A at, p : NotMarking(at) /\ go_with(t, at, p) => Implemented
  BY <1>3
<1>loud. \A at, q : NotMarking(at) /\ go_loud(t, at, q) => Implemented
  BY <1>3
<1>off. /\ NotMarking("load") /\ NotMarking("unlock") /\ NotMarking("cache") /\ NotMarking("lock")
       /\ NotMarking("idle") /\ NotMarking("read") /\ NotMarking("push")
  BY DEF Marking
<1> HIDE DEF NotMarking
<1>4. CASE test_initialized(t)
  <2> DEFINE at == IF ~initialized THEN "idle"
                   ELSE IF In(t, "check") THEN "zero" ELSE "lock"
  <2>1. go(t, at) /\ at \notin Marking
    BY <1>4 DEF test_initialized, Marking
  <2> HIDE DEF at
  <2> QED BY <1>3, <2>1
<1>5. CASE take_lock(t)
  <2> DEFINE at == IF registered \/ task[t].op \in Unlisted
                   THEN Entered[task[t].op] ELSE "unlock"
  <2>1. task[t].op \in Calls
    BY <1>1, <1>5 DEF take_lock, Sound, At
  <2>2. go(t, at) /\ at \notin Marking
    BY <1>5, <2>1, Enters DEF take_lock, enter, Marking
  <2> HIDE DEF at
  <2> QED BY <1>3, <2>2
<1>6. CASE unlock(t)
  <2>1. go(t, After(t)) /\ After(t) \in {"result", "init", "idle"}
    BY <1>6 DEF unlock, After
  <2>2. After(t) \notin Marking
    BY <2>1 DEF Marking
  <2> QED BY <1>3, <2>1, <2>2
<1>7. CASE load_entry(t)
  <2>1. CASE go_with(t, "load", P(t) + 1)
    BY <1>with, <1>off, <2>1
  <2>2. CASE \E v : task' = [task EXCEPT ![t].at = "cache", ![t].v = v]
    BY <1>3, <1>off, <2>2 DEF NotMarking
  <2>3. CASE go(t, "unlock")
    BY <1>go, <1>off, <2>3
  <2> QED BY <1>7, <2>1, <2>2, <2>3 DEF load_entry
<1>8. CASE look_at_flag(t)
  <2> DEFINE at == IF dirty /\ dirty_map # {} THEN "send" ELSE "unlock"
  <2>1. go(t, at) /\ at \notin Marking
    BY <1>8 DEF look_at_flag, Marking
  <2> HIDE DEF at
  <2> QED BY <1>3, <2>1
<1>9. CASE send_fails(t) \/ clear_flag(t)
  BY <1>9, <1>go, <1>off DEF send_fails, clear_flag
<1>10. CASE zero_miss(t)
  BY <1>10, <1>loud, <1>off DEF zero_miss
<1>11. CASE count_missing(t)
  BY <1>11, <1>loud, <1>off DEF count_missing
<1>12. CASE return_result(t)
  BY <1>12, <1>go, <1>off DEF return_result
<1>13. ASSUME NEW from \in Nat, next_push(t, from) PROVE Implemented
  <2>1. CASE go(t, "idle")
    BY <1>go, <1>off, <2>1
  <2>2. CASE \E q \in InitPush : go_with(t, "read", q)
    BY <1>with, <1>off, <2>2
  <2> QED BY <1>1, <1>13, <2>1, <2>2, NextPush
<1>14. CASE init_module(t)
  <2>1. CASE go(t, "idle")
    BY <1>go, <1>off, <2>1
  <2> QED BY <1>13, <1>14, <2>1 DEF init_module
<1>15. CASE init_read(t)
  <2>1. P(t) + 1 \in Nat
    <3>1. P(t) \in InitPush
      BY <1>1, <1>15 DEF Sound, init_read, At
    <3>2. P(t) \in Nat
      BY <3>1, ParamFacts
    <3> QED BY <3>2
  <2>2. CASE \E v : task' = [task EXCEPT ![t].at = "push", ![t].v = v]
    BY <1>3, <1>off, <2>2 DEF NotMarking
  <2> QED BY <1>13, <1>15, <2>1, <2>2 DEF init_read
<1>16. CASE ip_driver_register(t)
  BY <1>16, <1>loud, <1>off DEF ip_driver_register
<1>17. CASE param_clear_stats(t)
  BY <1>17, <1>loud, <1>off DEF param_clear_stats
<1> QED BY <1>4, <1>5, <1>6, <1>7, <1>8, <1>9, <1>10, <1>11, <1>12, <1>14,
           <1>15, <1>16, <1>17

LEMMA CallUnseen ==
  ASSUME LockInv, NEW t \in Tasks, NEW op \in Calls, call(t, op)
  PROVE  Implemented
<1>1. StepOf(t)
  BY Call
<1>2. UNCHANGED <<initialized, cache, dirty_map, hw>> /\ task[t].at \notin Marking
  BY DEF call, shared, At, Marking
<1>3. task'[t].at \in {"lock", "test"}
  BY DEF call, LockInv, LockTypeOK
<1>4. task'[t].at \notin Marking
  BY <1>3 DEF Marking
<1> QED BY <1>1, <1>2, <1>4, Unseen

\* The flag: what is between cache and bit stays there.
LEMMA FlagUnseen ==
  ASSUME LockInv, NEW t \in Tasks, StepOf(t), set_flag(t)
  PROVE  Implemented
<1>1. LockTypeOK /\ go(t, "bit") /\ At(t, "flag")
      /\ UNCHANGED <<initialized, cache, dirty_map, hw>>
  BY DEF LockInv, set_flag
<1>2. task'[t].at = "bit" /\ task'[t].p = task[t].p /\ Others(t)
  BY <1>1, Goes DEF Places, Inside
<1> QED BY <1>1, <1>2, SameView DEF At, Busy, Forgetting

LEMMA BitUnseen ==
  ASSUME LockInv, NEW t \in Tasks, StepOf(t), set_bit(t)
  PROVE  Implemented
<1>1. LockTypeOK /\ At(t, "bit") /\ dirty_map' = dirty_map \cup {P(t)}
      /\ UNCHANGED <<initialized, cache, hw>>
  BY DEF LockInv, set_bit
<1>2. lock = t /\ Others(t)
  BY <1>1 DEF LockInv, Sound, At, Inside, StepOf, Polite
<1>3. task'[t].at \in {"load", "unlock"}
  BY <1>1, PlaceWritten DEF set_bit
<1>4. Owed' = Owed
  BY <1>1, <1>2, <1>3, OwedInside DEF Mine, Lost, Busy, Forgetting, At, P
<1> QED BY <1>1, <1>4, Stutters

LEMMA CacheIsPut ==
  ASSUME LockInv, NEW t \in Tasks, StepOf(t), set_cache(t)
  PROVE  Implemented
<1>1. /\ LockTypeOK /\ LockTypeOK' /\ At(t, "cache") /\ Sound(t)
      /\ cache' = [cache EXCEPT ![P(t)] = V(t)]
      /\ UNCHANGED <<initialized, dirty_map, hw>>
  BY DEF LockInv, StepOf, set_cache
<1>2. lock = t /\ Others(t) /\ P(t) \in Lids
  BY <1>1 DEF Sound, At, Inside, StepOf, Polite
<1> DEFINE at == IF In(t, "write_immediate") \/ In(t, "reset")
                 THEN "clear" ELSE "flag"
<1>3. go(t, at) /\ at \in Places \ {"idle"} /\ at \in {"clear", "flag"}
  BY DEF set_cache, Places, Inside
<1>at. at = "clear" <=> In(t, "write_immediate") \/ In(t, "reset")
  OBVIOUS
<1> HIDE DEF at
<1>4. /\ task'[t].at = at /\ task'[t].p = task[t].p
      /\ task'[t].op = task[t].op
  BY <1>1, <1>3, Goes
<1>5. Part(cache)' \in [Held -> AnyValue]
  BY <1>1 DEF Part, LockTypeOK, Held
<1>6. \A p \in Held : cache'[p] = cache[p] \/ p = P(t)
  BY <1>1 DEF LockTypeOK, Held
<1>7. Owed = dirty_map
  BY <1>1, <1>2, OwedInside DEF Mine, Lost, Busy, Forgetting, At
<1>8. CASE ~In(t, "reset")
  <2>1. Owed' = dirty_map \cup {P(t)}
    <3>1. Busy(t)' /\ ~Forgetting(t)' /\ P(t)' = P(t)
      BY <1>3, <1>4, <1>8 DEF Busy, Forgetting, At, In, P
    <3> QED BY <1>1, <1>2, <3>1, OwedInside DEF Mine, Lost
  <2>2. {p \in Held : Part(cache)'[p] # Part(cache)[p]} \subseteq Owed' \cap Held
    BY <1>6, <2>1 DEF Part
  <2>3. WB!Put
    BY <1>1, <1>5, <1>7, <2>1, <2>2 DEF WB!Put, Part, AnyValue
  <2> QED BY <2>3 DEF Implemented, WB!Next
<1>9. CASE In(t, "reset")
  <2>1. Owed' = dirty_map \ {P(t)}
    <3>1. ~Busy(t)' /\ Forgetting(t)' /\ P(t)' = P(t)
      BY <1>3, <1>4, <1>9, <1>at DEF Busy, Forgetting, At, In, P
    <3> QED BY <1>1, <1>2, <3>1, OwedInside DEF Mine, Lost
  <2>2. cache'[P(t)] = Default[P(t)]
    BY <1>1, <1>2, <1>9 DEF Sound, LockTypeOK
  <2>3. \A p \in Held : Part(cache)'[p] \in {Part(cache)[p], Part(Default)[p]}
    BY <1>6, <2>2 DEF Part
  <2>4. \A p \in (Owed \cap Held) \ (Owed' \cap Held) :
          Part(cache)'[p] = Part(Default)[p]
    BY <1>7, <2>1, <2>2 DEF Part
  <2>5. \A p \in Owed' \cap Held : Part(cache)'[p] = Part(cache)[p]
    BY <1>6, <2>1 DEF Part
  <2>6. WB!Reset
    BY <1>1, <1>5, <1>7, <2>1, <2>3, <2>4, <2>5 DEF WB!Reset, Part, AnyValue
  <2> QED BY <2>6 DEF Implemented, WB!Next
<1> QED BY <1>8, <1>9

\* The bit goes last: the driver has the value, or the reset has forgotten it.
LEMMA BitClearedIsDelivered ==
  ASSUME LockInv, NEW t \in Tasks, StepOf(t), clear_bit(t)
  PROVE  Implemented
<1>1. /\ LockTypeOK /\ At(t, "clear") /\ Sound(t) /\ go(t, "unlock")
      /\ dirty_map' = dirty_map \ {P(t)}
      /\ UNCHANGED <<initialized, cache, hw>>
  BY DEF LockInv, clear_bit
<1>2. lock = t /\ Others(t)
  BY <1>1 DEF Sound, At, Inside, StepOf, Polite
<1>3. task'[t].at = "unlock"
  BY <1>1, PlaceWritten
<1>4. Owed' = dirty_map \ {P(t)}
  BY <1>1, <1>2, <1>3, OwedInside DEF Mine, Lost, Busy, Forgetting, At
<1>5. CASE ~In(t, "reset")
  <2>1. Owed = dirty_map \cup {P(t)}
    BY <1>1, <1>2, <1>5, OwedInside DEF Mine, Lost, Busy, Forgetting
  <2>2. \A p \in (Owed \ Owed') \cap Held : hw'[p] = cache[p]
    BY <1>1, <1>4, <1>5, <2>1 DEF Sound
  <2> QED BY <1>1, <1>4, <2>1, <2>2, Delivers
<1>6. CASE In(t, "reset")
  <2>1. Owed = dirty_map \ {P(t)}
    BY <1>1, <1>2, <1>6, OwedInside DEF Mine, Lost, Busy, Forgetting, At
  <2> QED BY <1>1, <1>4, <2>1, Stutters
<1> QED BY <1>5, <1>6

\* A write of ip_control reaches the driver around the cache, or fails.
LEMMA ControlGoesAround ==
  ASSUME LockInv, NEW t \in Tasks, StepOf(t), ip_control(t)
  PROVE  Implemented
<1>1. /\ LockTypeOK /\ At(t, "around") /\ Sound(t) /\ go(t, "unlock")
      /\ hw' = [hw EXCEPT ![P(t)] = V(t)] \/ hw' = hw
      /\ UNCHANGED <<initialized, cache, dirty_map>>
  BY DEF LockInv, ip_control
<1>2. Others(t) /\ task'[t].at = "unlock"
  BY <1>1, PlaceWritten DEF StepOf, Polite
<1>3. Owed' = Owed
  BY <1>1, <1>2, OwedSame DEF Busy, Forgetting, Marking, At
<1>4. V(t) \in AnyValue
  BY <1>1 DEF V, LockTypeOK, Records
<1>5. CASE hw' = hw
  BY <1>1, <1>3, <1>5, Stutters
<1>6. CASE hw' = [hw EXCEPT ![P(t)] = V(t)] /\ P(t) \in Held
  <2>1. Part(hw)' = [Part(hw) EXCEPT ![P(t)] = V(t)]
    BY <1>1, <1>6 DEF Part, LockTypeOK, Held
  <2>2. WB!Around(P(t))
    BY <1>1, <1>3, <1>4, <2>1 DEF WB!Around, Part, AnyValue
  <2> QED BY <1>6, <2>2 DEF Implemented, WB!Next
<1>7. CASE hw' = [hw EXCEPT ![P(t)] = V(t)] /\ P(t) \notin Held
  <2>1. \A p \in Held : hw'[p] = hw[p]
    BY <1>1, <1>7 DEF LockTypeOK, Held
  <2> QED BY <1>1, <1>3, <2>1, Stutters
<1> QED BY <1>1, <1>5, <1>6, <1>7

LEMMA SendDelivers ==
  ASSUME LockInv, NEW t \in Tasks, StepOf(t), NEW q \in Lids, send_ok(t, q)
  PROVE  Implemented
<1>1. /\ LockTypeOK /\ At(t, "send") /\ Sound(t)
      /\ UNCHANGED <<initialized, cache, dirty_map>>
  BY DEF LockInv, send_ok
<1>2. Others(t) /\ task[t].at \notin Marking
  BY <1>1 DEF StepOf, Polite, At, Marking
<1>3. CASE hw' = [hw EXCEPT ![q] = cache[q]] /\ go_with(t, "send", q + 1)
  <2>1. task'[t].at = "send"
    BY <1>1, <1>3, PlaceWritten
  <2>2. Owed' = Owed
    BY <1>1, <1>2, <2>1, OwedSame DEF Busy, Forgetting, Marking, At
  <2>3. \A p \in Held : hw'[p] = hw[p] \/ hw'[p] = cache[p]
    BY <1>1, <1>3 DEF LockTypeOK, Held
  <2> QED BY <1>1, <2>2, <2>3, Delivers
<1>4. CASE /\ In(t, "write_immediate") /\ q = P(t)
           /\ hw' = [hw EXCEPT ![q] = V(t)]
           /\ go(t, "cache")
  <2>1. task'[t].at = "cache"
    BY <1>1, <1>4, PlaceWritten
  <2>2. Owed' = Owed
    BY <1>1, <1>2, <2>1, OwedSame DEF Busy, Forgetting, Marking, At
  <2>3. V(t) \in AnyValue
    BY <1>1, <1>4, ParamFacts DEF Sound, In
  <2>4. CASE q \in Held
    <3>1. Part(hw)' = [Part(hw) EXCEPT ![q] = V(t)]
      BY <1>1, <1>4, <2>4 DEF Part, LockTypeOK, Held
    <3>2. WB!Around(q)
      BY <1>1, <2>2, <2>3, <3>1 DEF WB!Around, Part, AnyValue
    <3> QED BY <2>4, <3>2 DEF Implemented, WB!Next
  <2>5. CASE q \notin Held
    <3>1. \A p \in Held : hw'[p] = hw[p]
      BY <1>1, <1>4, <2>5 DEF LockTypeOK, Held
    <3> QED BY <1>1, <2>2, <3>1, Stutters
  <2> QED BY <2>4, <2>5
<1> QED BY <1>3, <1>4 DEF send_ok

\* A flush that has found no further bit has been through them all.
LEMMA EmptyMapDelivers ==
  ASSUME LockInv, NEW t \in Tasks, StepOf(t), empty_map(t)
  PROVE  Implemented
<1>1. /\ LockTypeOK /\ At(t, "send") /\ In(t, "flush") /\ NextBit(t) = {}
      /\ Sound(t) /\ go(t, "down") /\ dirty_map' = {}
      /\ UNCHANGED <<initialized, cache, hw>>
  BY DEF LockInv, empty_map
<1>2. lock = t /\ Others(t)
  BY <1>1 DEF Sound, At, Inside, StepOf, Polite
<1>3. task'[t].at = "down"
  BY <1>1, PlaceWritten
<1>4. Owed = dirty_map /\ Owed' = {}
  BY <1>1, <1>2, <1>3, OwedInside DEF Mine, Lost, Busy, Forgetting, At
<1>5. dirty_map \subseteq Nat /\ P(t) \in Nat
  BY <1>1, ParamFacts DEF LockTypeOK, Records, P
<1>6. \A p \in dirty_map : p < P(t)
  <2> DEFINE T == {p \in dirty_map : P(t) <= p}
  <2> SUFFICES ASSUME T # {} PROVE FALSE
    BY <1>5
  <2>1. T \subseteq Nat
    BY <1>5
  <2>2. PICK x \in T : \A y \in T : x <= y
    BY <2>1, LeastNumber
  <2>3. \A q \in dirty_map : q < P(t) \/ x <= q
    BY <1>5, <2>2
  <2>4. x \in NextBit(t)
    BY <2>2, <2>3 DEF NextBit
  <2> QED BY <1>1, <2>4
<1>7. \A p \in (Owed \ Owed') \cap Held : hw'[p] = cache[p]
  BY <1>1, <1>4, <1>6 DEF Sound
<1> QED BY <1>1, <1>4, <1>7, Delivers

LEMMA DeinitCloses ==
  ASSUME LockInv, NEW t \in Tasks, StepOf(t), param_deinit(t)
  PROVE  Implemented
<1>1. /\ LockTypeOK /\ At(t, "close") /\ initialized' = FALSE
      /\ dirty_map' = IF registered THEN {} ELSE dirty_map
      /\ go_loud(t, "unlock", FALSE) /\ UNCHANGED <<cache, hw>>
  BY DEF LockInv, param_deinit
<1>2. lock = t /\ Others(t) /\ dirty_map' \in {{}, dirty_map}
  BY <1>1 DEF LockInv, Sound, At, Inside, StepOf, Polite
<1>3. task'[t].at = "unlock"
  BY <1>1, PlaceWritten
<1>4. Owed' = dirty_map' /\ Owed = dirty_map
  BY <1>1, <1>2, <1>3, OwedInside DEF Mine, Lost, Busy, Forgetting, At
<1>5. WB!Close
  BY <1>1, <1>2, <1>4 DEF WB!Close, Part
<1> QED BY <1>5 DEF Implemented, WB!Next

\* An init callback writes to none of the registers looked at here.
LEMMA PushUnseen ==
  ASSUME LockInv, NEW t \in Tasks, StepOf(t), init_push(t)
  PROVE  Implemented
<1>1. /\ LockTypeOK /\ At(t, "push") /\ Sound(t) /\ next_push(t, P(t) + 1)
      /\ hw' = [hw EXCEPT ![P(t)] = V(t)]
      /\ UNCHANGED <<initialized, cache, dirty_map>>
  BY DEF LockInv, init_push
<1>2. P(t) \in InitPush
  BY <1>1 DEF Sound, At
<1>3. P(t) \in Nat
  BY <1>2, ParamFacts
<1>4. task'[t].at \in {"idle", "read"}
  <2>1. P(t) + 1 \in Nat
    BY <1>3
  <2>2. CASE go(t, "idle")
    BY <1>1, <2>2, PlaceWritten
  <2>3. CASE \E q \in InitPush : go_with(t, "read", q)
    BY <1>1, <2>3, PlaceWritten
  <2> QED BY <1>1, <2>1, <2>2, <2>3, NextPush
<1>5. Owed' = Owed
  BY <1>1, <1>4, OwedSame DEF StepOf, Polite, At, Busy, Forgetting, Marking
<1>6. \A p \in Held : hw'[p] = hw[p]
  BY <1>1, <1>2 DEF LockTypeOK, Held
<1> QED BY <1>1, <1>5, <1>6, Stutters

LEMMA InitOpens ==
  ASSUME LockInv, param_init
  PROVE  Implemented
<1>1. CASE initialized
  <2>1. UNCHANGED vars
    BY <1>1 DEF param_init
  <2>2. Owed' = Owed
    BY <2>1 DEF vars, Owed, Busy, Forgetting, At, In, P
  <2> QED BY <2>1, <2>2, Stutters DEF vars
<1>2. CASE ~initialized
  <2>1. /\ initialized' = TRUE /\ UNCHANGED <<cache, dirty_map, hw>>
        /\ task' = [t \in Tasks |-> [task[t] EXCEPT !.quiet = FALSE]]
    BY <1>2 DEF param_init
  <2>2. \A t \in Tasks : /\ task'[t].at = task[t].at /\ task'[t].p = task[t].p
                         /\ task'[t].op = task[t].op
    <3> SUFFICES ASSUME NEW t \in Tasks
                 PROVE  /\ task'[t].at = task[t].at /\ task'[t].p = task[t].p
                        /\ task'[t].op = task[t].op
      OBVIOUS
    <3>1. task[t] \in Records /\ task'[t] = [task[t] EXCEPT !.quiet = FALSE]
      BY <2>1 DEF LockInv, LockTypeOK
    <3> QED BY <3>1, RecordHushedFields
  <2>3. Owed' = Owed
    <3>1. \A t \in Tasks : /\ Busy(t)' <=> Busy(t)
                           /\ Forgetting(t)' <=> Forgetting(t)
                           /\ P(t)' = P(t)
      BY <2>2 DEF Busy, Forgetting, At, In, P
    <3> QED BY <2>1, <3>1 DEF Owed
  <2>4. WB!Open
    BY <2>1, <2>3 DEF WB!Open, Part
  <2> QED BY <2>4 DEF Implemented, WB!Next
<1> QED BY <1>1, <1>2 DEF LockInv, LockTypeOK

LEMMA StepImplements ==
  LockInv /\ [Next]_vars => Implemented
<1> SUFFICES ASSUME LockInv, [Next]_vars PROVE Implemented
  OBVIOUS
<1>1. CASE UNCHANGED vars
  <2>1. Owed' = Owed
    BY <1>1 DEF vars, Owed, Busy, Forgetting, At, In, P
  <2> QED BY <1>1, <2>1, Stutters DEF vars
<1>2. CASE param_init
  BY <1>2, InitOpens
<1>3. ASSUME NEW t \in Tasks, Step(t) PROVE Implemented
  <2>1. StepOf(t)
    BY <1>3, TaskSteps
  <2> QED BY <1>3, <2>1, UnseenSteps, FlagUnseen, BitUnseen, CacheIsPut,
             BitClearedIsDelivered, SendDelivers, EmptyMapDelivers,
             DeinitCloses, PushUnseen, ControlGoesAround
          DEF Step
<1>4. ASSUME NEW t \in Tasks, NEW op \in Calls, call(t, op) PROVE Implemented
  BY <1>4, CallUnseen
<1> QED BY <1>1, <1>2, <1>3, <1>4 DEF Next

LEMMA InitImplements == Init => WB!Init
<1> SUFFICES ASSUME Init PROVE WB!Init
  OBVIOUS
<1>1. \A t \in Tasks : task[t].at = "idle"
  BY RestType DEF Init
<1>2. Owed = {}
  BY <1>1 DEF Owed, Busy, Forgetting, At, Init
<1>3. Part(hw) \in [Held -> AnyValue]
  BY DEF Init, Part, Held, AnyValue
<1> QED BY <1>2, <1>3 DEF WB!Init, Init, Part, AnyValue

\* The calls of any tasks, access by access, implement the write-back cache: no
\* value is forgotten before the driver has it (LOCK around param_write,
\* param_write_immediate, param_reset_one, param_flush, ip_control, the LOAD
\* phase of param_load_all and param_deinit).
THEOREM LockImplementsWriteBack == Spec => LockedIsWriteBack
<1>1. Init => WB!Init
  BY InitImplements
<1>2. LockInv /\ [Next]_vars => [WB!Next]_(WB!vars)
  BY StepImplements DEF Implemented
<1>3. LockInv /\ [Next]_vars => LockInv'
  BY StepInv
<1> QED BY <1>1, <1>2, <1>3, StartInv, PTL
        DEF Spec, LockedIsWriteBack, WB!Spec

-----------------------------------------------------------------------------
(* The integrity check.  What follows relies on nothing but the fields of a *)
(* task.                                                                    *)

Fields(r) == [op : {r.op}, at : {r.at}, p : {r.p}, v : {r.v}, quiet : BOOLEAN]

Formed ==
  /\ task = [t \in Tasks |-> task[t]]
  /\ \A t \in Tasks : task[t] \in Fields(task[t])

\* The count is what this check alone has made it.
CheckSound(t) ==
  In(t, "check") =>
    /\ task[t].at \in {"test", "zero", "lock", "count", "unlock", "result"}
    /\ task[t].quiet =>
         /\ At(t, "lock") => miss = 0
         /\ At(t, "count") => miss = 0 /\ registered
         /\ task[t].at \in {"unlock", "result"}
              => miss = IF registered THEN Missing ELSE 0

CheckInv == Formed /\ \A t \in Tasks : CheckSound(t)

LEMMA FieldsAt ==
  ASSUME NEW r, NEW s, r \in Fields(r), NEW at, s = [r EXCEPT !.at = at]
  PROVE  s \in Fields(s) /\ s.op = r.op /\ s.at = at /\ (s.quiet <=> r.quiet)
BY DEF Fields

LEMMA FieldsHushed ==
  ASSUME NEW r, NEW s, r \in Fields(r), s = [r EXCEPT !.quiet = FALSE]
  PROVE  s \in Fields(s) /\ s.op = r.op /\ s.at = r.at /\ ~s.quiet
BY DEF Fields

LEMMA FieldsNew ==
  ASSUME NEW s, NEW op, NEW at, NEW p, NEW v,
         NEW q \in BOOLEAN,
         s = [op |-> op, at |-> at, p |-> p, v |-> v, quiet |-> q]
  PROVE  s \in Fields(s) /\ s.op = op /\ s.at = at /\ (s.quiet <=> q)
BY DEF Fields

\* A task moves, and tells the others nothing.
LEMMA Moves ==
  ASSUME Formed, NEW t \in Tasks, NEW at,
         \/ go(t, at)
         \/ \E p : go_with(t, at, p)
         \/ \E v : task' = [task EXCEPT ![t].at = at, ![t].v = v]
  PROVE  /\ Formed' /\ \A u \in Tasks \ {t} : task'[u] = task[u]
         /\ \/ task'[t].op = "none"
            \/ /\ task'[t].op = task[t].op /\ task'[t].at = at
               /\ (task'[t].quiet <=> task[t].quiet)
<1>1. task[t] \in Fields(task[t]) /\ task = [u \in Tasks |-> task[u]]
  BY DEF Formed
<1>2. ASSUME NEW s, task' = [task EXCEPT ![t] = s], s \in Fields(s)
      PROVE  /\ Formed' /\ task'[t] = s
             /\ \A u \in Tasks \ {t} : task'[u] = task[u]
  <2>1. task' = [u \in Tasks |-> IF u = t THEN s ELSE task[u]]
    BY <1>1, <1>2
  <2>2. task'[t] = s /\ \A u \in Tasks \ {t} : task'[u] = task[u]
    BY <2>1
  <2>3. task' = [u \in Tasks |-> task'[u]]
    BY <2>1
  <2>4. \A u \in Tasks : task'[u] \in Fields(task'[u])
    BY <1>2, <2>2 DEF Formed
  <2> QED BY <2>2, <2>3, <2>4 DEF Formed
<1>3. CASE go(t, at)
  <2>1. CASE at = "idle"
    <3>1. task' = [task EXCEPT ![t] = Rest]
      BY <1>3, <2>1 DEF go
    <3>2. Rest \in Fields(Rest) /\ Rest.op = "none"
      BY FieldsNew DEF Rest
    <3> QED BY <1>2, <3>1, <3>2
  <2>2. CASE at # "idle"
    <3> DEFINE s == [task[t] EXCEPT !.at = at]
    <3>1. task' = [task EXCEPT ![t] = s]
      BY <1>3, <2>2 DEF go
    <3>2. /\ s \in Fields(s) /\ s.op = task[t].op /\ s.at = at
          /\ (s.quiet <=> task[t].quiet)
      BY <1>1, FieldsAt
    <3> HIDE DEF s
    <3> QED BY <1>2, <3>1, <3>2
  <2> QED BY <2>1, <2>2
<1>4. ASSUME NEW p, go_with(t, at, p)
      PROVE  /\ Formed' /\ \A u \in Tasks \ {t} : task'[u] = task[u]
             /\ task'[t].op = task[t].op /\ task'[t].at = at
             /\ (task'[t].quiet <=> task[t].quiet)
  <2> DEFINE s == [task[t] EXCEPT !.at = at, !.p = p]
  <2>1. task' = [task EXCEPT ![t] = s]
    BY <1>1, <1>4 DEF go_with
  <2>2. /\ s \in Fields(s) /\ s.op = task[t].op /\ s.at = at
        /\ (s.quiet <=> task[t].quiet)
    BY <1>1 DEF Fields, s
  <2> HIDE DEF s
  <2> QED BY <1>2, <2>1, <2>2
<1>5. ASSUME NEW v, task' = [task EXCEPT ![t].at = at, ![t].v = v]
      PROVE  /\ Formed' /\ \A u \in Tasks \ {t} : task'[u] = task[u]
             /\ task'[t].op = task[t].op /\ task'[t].at = at
             /\ (task'[t].quiet <=> task[t].quiet)
  <2> DEFINE s == [task[t] EXCEPT !.at = at, !.v = v]
  <2>1. task' = [task EXCEPT ![t] = s]
    BY <1>1, <1>5
  <2>2. /\ s \in Fields(s) /\ s.op = task[t].op /\ s.at = at
        /\ (s.quiet <=> task[t].quiet)
    BY <1>1 DEF Fields, s
  <2> HIDE DEF s
  <2> QED BY <1>2, <2>1, <2>2
<1> QED BY <1>3, <1>4, <1>5

\* A task moves, and no other check is quiet any more.
LEMMA MovesLoud ==
  ASSUME Formed, NEW t \in Tasks, NEW at, NEW q \in BOOLEAN, go_loud(t, at, q)
  PROVE  /\ Formed'
         /\ \A u \in Tasks \ {t} :
              /\ task'[u].op = task[u].op /\ task'[u].at = task[u].at
              /\ ~task'[u].quiet
         /\ task'[t].op = task[t].op /\ task'[t].at = at /\ (task'[t].quiet <=> q)
<1>1. \A u \in Tasks : task[u] \in Fields(task[u])
  BY DEF Formed
<1>2. /\ task'[t] \in Fields(task'[t])
      /\ task'[t].op = task[t].op /\ task'[t].at = at /\ (task'[t].quiet <=> q)
  <2> DEFINE s == [task[t] EXCEPT !.at = at, !.quiet = q]
  <2>1. task[t] \in Fields(task[t])
    BY <1>1
  <2>2. s \in Fields(s) /\ s.op = task[t].op /\ s.at = at /\ (s.quiet <=> q)
    BY <2>1 DEF Fields, s
  <2>3. task'[t] = s
    BY DEF go_loud
  <2> HIDE DEF s
  <2> QED BY <2>2, <2>3
<1>3. ASSUME NEW u \in Tasks \ {t}
      PROVE  /\ task'[u] \in Fields(task'[u])
             /\ task'[u].op = task[u].op /\ task'[u].at = task[u].at
             /\ ~task'[u].quiet
  <2> DEFINE s == [task[u] EXCEPT !.quiet = FALSE]
  <2>1. task[u] \in Fields(task[u])
    BY <1>1
  <2>2. /\ s \in Fields(s) /\ s.op = task[u].op /\ s.at = task[u].at
        /\ ~s.quiet
    BY <2>1, FieldsHushed
  <2>3. task'[u] = s
    BY DEF go_loud
  <2> HIDE DEF s
  <2> QED BY <2>2, <2>3
<1>4. task' = [u \in Tasks |-> task'[u]]
  BY DEF go_loud
<1>5. \A u \in Tasks : task'[u] \in Fields(task'[u])
  BY <1>2, <1>3
<1> QED BY <1>2, <1>3, <1>4, <1>5 DEF Formed

\* A step of another call than a check.
LEMMA NoCheckMoves ==
  ASSUME CheckInv, NEW t \in Tasks, NEW at,
         \/ go(t, at)
         \/ \E p : go_with(t, at, p)
         \/ \E v : task' = [task EXCEPT ![t].at = at, ![t].v = v],
         UNCHANGED <<registered, miss>>, ~In(t, "check")
  PROVE  CheckInv'
<1>1. Formed' /\ \A u \in Tasks \ {t} : task'[u] = task[u]
  BY Moves DEF CheckInv
<1>2. task'[t].op # "check"
  BY Moves DEF CheckInv, In
<1>3. \A u \in Tasks \ {t} : CheckSound(u)'
  BY <1>1 DEF CheckInv, CheckSound, In, At
<1> QED BY <1>1, <1>2, <1>3 DEF CheckInv, CheckSound, In

\* A step of a check that leaves count and list alone.
LEMMA CheckMoves ==
  ASSUME CheckInv, NEW t \in Tasks, NEW at, go(t, at), In(t, "check"),
         UNCHANGED <<registered, miss>>,
         \/ at = "idle"
         \/ at = "zero"
         \/ At(t, "lock") /\ at = "count" /\ registered
         \/ At(t, "lock") /\ at = "unlock" /\ ~registered
         \/ At(t, "unlock") /\ at = "result"
  PROVE  CheckInv'
<1>1. Formed' /\ \A u \in Tasks \ {t} : task'[u] = task[u]
  BY Moves DEF CheckInv
<1>2. \/ task'[t].op = "none"
      \/ /\ task'[t].op = task[t].op /\ task'[t].at = at
         /\ (task'[t].quiet <=> task[t].quiet)
  BY Moves DEF CheckInv
<1>3. CheckSound(t)
  BY DEF CheckInv
<1>4. at = "idle" => task'[t].op = "none"
  BY <1>1 DEF go, Rest, Formed, CheckInv
<1>5. CheckSound(t)'
  BY <1>2, <1>3, <1>4 DEF CheckSound, In, At
<1>6. \A u \in Tasks \ {t} : CheckSound(u)'
  BY <1>1 DEF CheckInv, CheckSound, In, At
<1> QED BY <1>1, <1>5, <1>6 DEF CheckInv

LEMMA LoudKeepsOthers ==
  ASSUME CheckInv, NEW t \in Tasks, NEW at, NEW q \in BOOLEAN, go_loud(t, at, q),
         CheckSound(t)'
  PROVE  CheckInv'
<1>1. /\ Formed'
      /\ \A u \in Tasks \ {t} :
           /\ task'[u].op = task[u].op /\ task'[u].at = task[u].at
           /\ ~task'[u].quiet
  BY MovesLoud DEF CheckInv
<1>2. \A u \in Tasks \ {t} : CheckSound(u)'
  BY <1>1 DEF CheckInv, CheckSound, In, At
<1> QED BY <1>1, <1>2 DEF CheckInv

LEMMA LoudChecks ==
  ASSUME CheckInv, NEW t \in Tasks,
         \/ zero_miss(t) \/ count_missing(t)
         \/ param_clear_stats(t)
         \/ param_deinit(t) \/ ip_driver_register(t)
  PROVE  CheckInv'
<1>1. Formed /\ CheckSound(t)
  BY DEF CheckInv
<1>2. CASE zero_miss(t)
  <2>1. go_loud(t, "lock", TRUE) /\ miss' = 0
    BY <1>2 DEF zero_miss
  <2>2. task'[t].at = "lock"
    BY <1>1, <2>1, MovesLoud
  <2>3. CheckSound(t)'
    BY <2>1, <2>2 DEF CheckSound, At
  <2> QED BY <2>1, <2>3, LoudKeepsOthers
<1>3. CASE count_missing(t)
  <2>1. /\ At(t, "count") /\ go_loud(t, "unlock", task[t].quiet)
        /\ miss' = miss + Missing /\ registered' = registered
    BY <1>3 DEF count_missing
  <2>2. PICK q \in BOOLEAN : q = task[t].quiet
    BY <1>1 DEF Formed, Fields
  <2>3. go_loud(t, "unlock", q)
    BY <2>1, <2>2
  <2>4. /\ task'[t].op = task[t].op /\ task'[t].at = "unlock"
        /\ (task'[t].quiet <=> task[t].quiet)
    BY <1>1, <2>2, <2>3, MovesLoud
  <2>5. 0 + Missing = Missing
    BY LockAssumption
  <2>6. CheckSound(t)'
    BY <1>1, <2>1, <2>4, <2>5 DEF CheckSound, At, In
  <2> QED BY <2>6, <2>3, LoudKeepsOthers
<1>4. CASE param_clear_stats(t) \/ param_deinit(t) \/ ip_driver_register(t)
  <2>1. go_loud(t, "unlock", FALSE)
    BY <1>4 DEF param_clear_stats, param_deinit, ip_driver_register
  <2>2. /\ task'[t].op = task[t].op /\ task'[t].at = "unlock"
        /\ ~task'[t].quiet
    BY <1>1, <2>1, MovesLoud
  <2>3. CheckSound(t)'
    BY <2>2 DEF CheckSound, At, In
  <2> QED BY <2>1, <2>3, LoudKeepsOthers
<1> QED BY <1>2, <1>3, <1>4

LEMMA CheckCall ==
  ASSUME CheckInv, NEW t \in Tasks, NEW op \in Calls, call(t, op)
  PROVE  CheckInv'
<1>1. PICK p \in Lids : \E v \in Values[p] :
        task' = [task EXCEPT ![t] =
          [op |-> op, p |-> p, v |-> v, quiet |-> FALSE,
           at |-> IF op \in Untested THEN "lock" ELSE "test"]]
  BY DEF call
<1>2. PICK v \in Values[p] :
        task' = [task EXCEPT ![t] =
          [op |-> op, p |-> p, v |-> v, quiet |-> FALSE,
           at |-> IF op \in Untested THEN "lock" ELSE "test"]]
  BY <1>1
<1> DEFINE at == IF op \in Untested THEN "lock" ELSE "test"
           s == [op |-> op, at |-> at, p |-> p, v |-> v, quiet |-> FALSE]
<1>3. task' = [task EXCEPT ![t] = s]
  BY <1>2
<1>4. op = "check" => at = "test"
  BY DEF Untested
<1> HIDE DEF at
<1>5. s \in Fields(s) /\ s.op = op /\ s.at = at /\ ~s.quiet
  BY FieldsNew
<1> HIDE DEF s
<1>6. task' = [u \in Tasks |-> IF u = t THEN s ELSE task[u]]
  BY <1>3 DEF CheckInv, Formed
<1>7. task'[t] = s /\ \A u \in Tasks \ {t} : task'[u] = task[u]
  BY <1>6
<1>8. Formed'
  <2>1. task' = [u \in Tasks |-> task'[u]]
    BY <1>6
  <2>2. \A u \in Tasks : task'[u] \in Fields(task'[u])
    BY <1>5, <1>7 DEF CheckInv, Formed
  <2> QED BY <2>1, <2>2 DEF Formed
<1>9. UNCHANGED <<registered, miss>>
  BY DEF call, shared
<1>10. \A u \in Tasks \ {t} : CheckSound(u)'
  BY <1>7, <1>9 DEF CheckInv, CheckSound, In, At
<1>11. CheckSound(t)'
  BY <1>4, <1>5, <1>7 DEF CheckSound, In, At
<1> QED BY <1>8, <1>10, <1>11 DEF CheckInv

LEMMA CheckOpens ==
  ASSUME CheckInv, param_init
  PROVE  CheckInv'
<1>1. CASE initialized
  BY <1>1 DEF param_init, vars, CheckInv, Formed, CheckSound, In, At
<1>2. CASE ~initialized
  <2>1. task' = [t \in Tasks |-> [task[t] EXCEPT !.quiet = FALSE]]
    BY <1>2 DEF param_init
  <2>2. ASSUME NEW t \in Tasks
        PROVE  /\ task'[t] \in Fields(task'[t])
               /\ task'[t].op = task[t].op /\ task'[t].at = task[t].at
               /\ ~task'[t].quiet
    <3> DEFINE s == [task[t] EXCEPT !.quiet = FALSE]
    <3>1. task'[t] = s /\ task[t] \in Fields(task[t])
      BY <2>1 DEF CheckInv, Formed
    <3>2. /\ s \in Fields(s) /\ s.op = task[t].op /\ s.at = task[t].at
          /\ ~s.quiet
      BY <3>1, FieldsHushed
    <3> HIDE DEF s
    <3> QED BY <3>1, <3>2
  <2>3. task' = [t \in Tasks |-> task'[t]]
    BY <2>1
  <2>4. Formed'
    BY <2>2, <2>3 DEF Formed
  <2>5. \A t \in Tasks : CheckSound(t)'
    BY <2>2 DEF CheckInv, CheckSound, In, At
  <2> QED BY <2>4, <2>5 DEF CheckInv
<1> QED BY <1>1, <1>2

LEMMA CheckStep ==
  ASSUME CheckInv, NEW t \in Tasks, Step(t)
  PROVE  CheckInv'
<1> DEFINE Same == UNCHANGED <<registered, miss>>
<1>1. CheckSound(t)
  BY DEF CheckInv
<1>2. ASSUME ~In(t, "check"), Same
      PROVE  /\ \A at : go(t, at) => CheckInv'
             /\ \A at, p : go_with(t, at, p) => CheckInv'
             /\ \A at, v : task' = [task EXCEPT ![t].at = at, ![t].v = v]
                             => CheckInv'
  BY <1>2, NoCheckMoves
<1>3. ASSUME Same, task[t].at \in {"cache", "flag", "bit", "clear", "load", "look",
                                   "send", "around", "down", "init", "read", "push"}
      PROVE  /\ \A at : go(t, at) => CheckInv'
             /\ \A at, p : go_with(t, at, p) => CheckInv'
             /\ \A at, v : task' = [task EXCEPT ![t].at = at, ![t].v = v]
                             => CheckInv'
  <2>1. ~In(t, "check")
    BY <1>1, <1>3 DEF CheckSound
  <2> QED BY <1>2, <1>3, <2>1
<1>4. CASE \/ set_cache(t) \/ set_flag(t) \/ clear_bit(t) \/ look_at_flag(t)
           \/ send_fails(t) \/ empty_map(t) \/ clear_flag(t) \/ ip_control(t)
  <2>1. Same /\ task[t].at \in {"cache", "flag", "bit", "clear", "load", "look",
                                "send", "around", "down", "init", "read", "push"}
    BY <1>4 DEF set_cache, set_flag, clear_bit, look_at_flag, send_fails,
                empty_map, clear_flag, ip_control, At, shared
  <2>2. \E at : go(t, at)
    BY <1>4 DEF set_cache, set_flag, clear_bit, look_at_flag, send_fails,
                empty_map, clear_flag, ip_control
  <2> QED BY <1>3, <2>1, <2>2
<1>5. CASE set_bit(t) \/ load_entry(t) \/ \E p \in Lids : send_ok(t, p)
  <2>1. Same /\ task[t].at \in {"cache", "flag", "bit", "clear", "load", "look",
                                "send", "around", "down", "init", "read", "push"}
    BY <1>5 DEF set_bit, load_entry, send_ok, At, shared
  <2>2. \/ \E at : go(t, at)
        \/ \E at, p : go_with(t, at, p)
        \/ \E at, v : task' = [task EXCEPT ![t].at = at, ![t].v = v]
    BY <1>5 DEF set_bit, load_entry, send_ok
  <2> QED BY <1>3, <2>1, <2>2
<1>6. CASE init_module(t) \/ init_read(t) \/ init_push(t)
  <2>1. Same /\ task[t].at \in {"cache", "flag", "bit", "clear", "load", "look",
                                "send", "around", "down", "init", "read", "push"}
    BY <1>6 DEF init_module, init_read, init_push, At, shared
  <2>2. \/ \E at : go(t, at)
        \/ \E at, p : go_with(t, at, p)
        \/ \E at, v : task' = [task EXCEPT ![t].at = at, ![t].v = v]
    BY <1>6 DEF init_module, init_read, init_push, next_push
  <2> QED BY <1>3, <2>1, <2>2
<1>7. CASE zero_miss(t) \/ count_missing(t) \/ param_clear_stats(t)
             \/ param_deinit(t) \/ ip_driver_register(t)
  BY <1>7, LoudChecks
<1>8. CASE return_result(t)
  <2>1. Same /\ go(t, "idle")
    BY <1>8 DEF return_result, shared
  <2> QED BY <1>2, <2>1, CheckMoves
<1>9. CASE test_initialized(t)
  <2> DEFINE at == IF ~initialized THEN "idle"
                   ELSE IF In(t, "check") THEN "zero" ELSE "lock"
  <2>1. Same /\ go(t, at)
    BY <1>9 DEF test_initialized, shared
  <2>2. In(t, "check") => at = "idle" \/ at = "zero"
    OBVIOUS
  <2> HIDE DEF at
  <2> QED BY <1>2, <2>1, <2>2, CheckMoves
<1>10. CASE take_lock(t)
  <2> DEFINE at == IF registered \/ task[t].op \in Unlisted
                   THEN Entered[task[t].op] ELSE "unlock"
  <2>1. Same /\ go(t, at) /\ At(t, "lock")
    BY <1>10 DEF take_lock, enter, shared
  <2>2. In(t, "check") => \/ at = "count" /\ registered
                          \/ at = "unlock" /\ ~registered
    BY DEF Entered, Unlisted, In
  <2> HIDE DEF at
  <2> QED BY <1>2, <2>1, <2>2, CheckMoves
<1>11. CASE unlock(t)
  <2>1. Same /\ go(t, After(t)) /\ At(t, "unlock")
    BY <1>11 DEF unlock, shared
  <2>2. In(t, "check") => After(t) = "result"
    BY DEF After, In
  <2> QED BY <1>2, <2>1, <2>2, CheckMoves
<1> QED BY <1>4, <1>5, <1>6, <1>7, <1>8, <1>9, <1>10, <1>11 DEF Step

\* An integrity check that no other task's check, param_clear_stats, param_init,
\* param_deinit or registration came across compares the number of missing
\* modules, whatever else the tasks do meanwhile (param_check_flush_integrity
\* resets and tests its count outside LOCK).
THEOREM IntegrityCheckTellsTruth == Spec => []CheckTellsTruth
<1>1. Init => CheckInv
  <2> SUFFICES ASSUME Init PROVE CheckInv
    OBVIOUS
  <2>1. task = [t \in Tasks |-> Rest]
    BY DEF Init
  <2>2. Rest \in Fields(Rest) /\ Rest.op = "none"
    BY FieldsNew DEF Rest
  <2>3. Formed
    BY <2>1, <2>2 DEF Formed
  <2>4. \A t \in Tasks : CheckSound(t)
    BY <2>1, <2>2 DEF CheckSound, In
  <2> QED BY <2>3, <2>4 DEF CheckInv
<1>2. CheckInv /\ [Next]_vars => CheckInv'
  <2> SUFFICES ASSUME CheckInv, [Next]_vars PROVE CheckInv'
    OBVIOUS
  <2>1. CASE UNCHANGED vars
    BY <2>1 DEF vars, CheckInv, Formed, CheckSound, In, At
  <2> QED BY <2>1, CheckStep, CheckCall, CheckOpens DEF Next
<1>3. CheckInv => CheckTellsTruth
  BY DEF CheckInv, CheckSound, CheckTellsTruth, At
<1> QED BY <1>1, <1>2, <1>3, PTL DEF Spec
=============================================================================
