--------------------------- MODULE PersistProofs ---------------------------
(***************************************************************************)
(* A save and a load of everything keep to the order of the slots, for any *)
(* table, any banks and any values.  The argument: while a walk holds LOCK *)
(* and stays in its bank, it alone changes the caches, the bank and its    *)
(* place, and a key it has passed belongs to no slot ahead of it.          *)
(***************************************************************************)
EXTENDS ParamPersist, HashProofs

AnyValue == UNION {Values[e] : e \in Entries}

\* What a walk may remember: the caches, or a bank.
Snapshots ==
  [Entries -> AnyValue] \cup [Ids -> AnyValue \cup {NoValue}] \cup {<< >>}

Walks == [op : {"none", "save", "load"}, pc : {"idle", "checked", "walking"},
          at : 0 .. HashSize, ok : BOOLEAN, home : Banks \cup {NoBank},
          before : Snapshots]

PersistTypeOK ==
  /\ storage \in Banks \cup {NoBank}
  /\ cache \in [Entries -> AnyValue]
  /\ flash \in [Banks -> [Ids -> AnyValue \cup {NoValue}]]
  /\ walk \in Walks

\* A walk has a home only while it walks, and then it is the driver installed.
HomeInstalled ==
  walk.home # NoBank => Walking /\ walk.home = storage

\* A walk saves or loads, and starts at slot 0, with nothing failed.
StartsAtZero ==
  /\ ~Walking => walk.at = 0 /\ walk.ok
  /\ walk.pc # "idle" => walk.op \in {"save", "load"}

PersistInv ==
  /\ HashInv /\ PersistTypeOK
  /\ HomeInstalled /\ StartsAtZero
  /\ SaveInSlotOrder /\ LoadInSlotOrder

pall == <<hvars, pvars>>

-----------------------------------------------------------------------------
(* The hash table's steps. *)

LEMMA PersistStepHash ==
  [PersistNext]_pall => [HashNext]_hvars
<1> SUFFICES ASSUME [PersistNext]_pall PROVE [HashNext]_hvars
  OBVIOUS
<1>1. CASE \E drv \in Banks \cup {NoBank} : param_init(drv) \/ param_set_storage(drv)
  BY <1>1 DEF param_init, param_set_storage, HashNext
<1>2. CASE param_deinit
  BY <1>2 DEF param_deinit, HashNext
<1>3. CASE power_failure
  BY <1>3 DEF power_failure, HashNext
<1>4. CASE register
  BY <1>4 DEF register, HashNext
<1>5. ASSUME NEW e \in Found,
             \/ \E v \in Values[e] : param_write(e, v)
             \/ param_reset_one(e) \/ param_save_one(e) \/ param_load_one(e)
      PROVE  UNCHANGED hvars
  BY <1>5 DEF param_write, param_reset_one, param_save_one, param_load_one
<1>6. CASE \E op \in {"save", "load"} : walk_check(op)
  BY <1>6 DEF walk_check
<1>7. CASE walk_lock \/ walk_end
  BY <1>7 DEF walk_lock, walk_end
<1>8. ASSUME NEW s \in 0 .. HashSize - 1,
             save_slot(s) \/ save_fails(s) \/ load_slot(s) \/ load_fails(s)
      PROVE  UNCHANGED hvars
  BY <1>8 DEF save_slot, save_fails, load_slot, load_fails
<1>9. CASE UNCHANGED pall
  BY <1>9 DEF pall
<1> QED BY <1>1, <1>2, <1>3, <1>4, <1>5, <1>6, <1>7, <1>8, <1>9
        DEF PersistNext

LEMMA PersistIsHash ==
  Spec => HashSpec
<1>1. PersistInit => HashInit
  BY DEF PersistInit
<1> QED BY <1>1, PersistStepHash, PTL DEF Spec, HashSpec, pall

-----------------------------------------------------------------------------
(* The walk's record. *)

LEMMA WalkAtHome ==
  ASSUME NEW r \in Walks, NEW b \in Banks \cup {NoBank}
  PROVE  /\ [r EXCEPT !.home = b] \in Walks
         /\ \A f \in {"op", "pc", "at", "ok", "before"} :
              [r EXCEPT !.home = b][f] = r[f]
         /\ [r EXCEPT !.home = b].home = b
BY DEF Walks

LEMMA WalkChecked ==
  ASSUME NEW r \in Walks, NEW op \in {"save", "load"}
  PROVE  LET w == [r EXCEPT !.op = op, !.pc = "checked"]
         IN  /\ w \in Walks
             /\ w.op = op /\ w.pc = "checked" /\ w.at = r.at /\ (w.ok <=> r.ok)
             /\ w.home = r.home
BY DEF Walks

LEMMA WalkLocked ==
  ASSUME NEW r \in Walks, NEW b \in Banks \cup {NoBank}, NEW x \in Snapshots
  PROVE  LET w == [r EXCEPT !.pc = "walking", !.home = b, !.before = x]
         IN  w \in Walks
BY DEF Walks

LEMMA WalkLockedFields ==
  ASSUME NEW r \in Walks, NEW b, NEW x
  PROVE  LET w == [r EXCEPT !.pc = "walking", !.home = b, !.before = x]
         IN  /\ w.op = r.op /\ w.pc = "walking" /\ w.at = r.at
             /\ (w.ok <=> r.ok) /\ w.home = b /\ w.before = x
BY DEF Walks

LEMMA WalkOn ==
  ASSUME NEW r \in Walks, NEW s \in 0 .. HashSize - 1,
         NEW w, w = [r EXCEPT !.at = s + 1]
  PROVE  /\ w \in Walks
         /\ w.op = r.op /\ w.pc = r.pc /\ w.at = s + 1 /\ (w.ok <=> r.ok)
         /\ w.home = r.home /\ w.before = r.before
<1>1. s + 1 \in 0 .. HashSize
  BY HashAssumption
<1> QED BY <1>1 DEF Walks

LEMMA WalkFails ==
  ASSUME NEW r \in Walks, NEW s \in 0 .. HashSize - 1,
         NEW w, w = [r EXCEPT !.at = s + 1, !.ok = FALSE]
  PROVE  /\ w \in Walks
         /\ w.op = r.op /\ w.pc = r.pc /\ w.at = s + 1 /\ ~w.ok
         /\ w.home = r.home /\ w.before = r.before
<1>1. s + 1 \in 0 .. HashSize
  BY HashAssumption
<1> QED BY <1>1 DEF Walks

LEMMA WalkOver ==
  /\ NoWalk \in Walks
  /\ NoWalk.pc = "idle" /\ NoWalk.at = 0 /\ NoWalk.ok /\ NoWalk.home = NoBank
<1>1. 0 \in 0 .. HashSize
  BY HashAssumption
<1> QED BY <1>1 DEF NoWalk, Walks, Snapshots

-----------------------------------------------------------------------------
(* Types. *)

\* What a lookup returns is an entry.
LEMMA FoundAreEntries ==
  HashTypeOK => Found \subseteq Entries
<1> SUFFICES ASSUME HashTypeOK, NEW id \in Ids, hash_find(id) # NoEntry
             PROVE  hash_find(id) \in Entries
  BY DEF Found
<1>1. PICK i \in Probes : FoundAt(id, i)
  BY DEF hash_find
<1>2. hash_find(id) = slot[Probe[id][i]] /\ Probe[id][i] \in Slots
  BY <1>1, FoundIs, ProbeType, SlotRangeType
<1> QED BY <1>2 DEF HashTypeOK

LEMMA EntryValues ==
  ASSUME NEW e \in Entries
  PROVE  /\ Id[e] \in Ids /\ Default[e] \in AnyValue
         /\ \A v \in Values[e] : v \in AnyValue
BY HashAssumption, PersistAssumption DEF AnyValue

LEMMA PersistInitInv ==
  PersistInit => PersistInv
<1> SUFFICES ASSUME PersistInit PROVE PersistInv
  OBVIOUS
<1>1. HashInv
  BY HashInitInv DEF PersistInit
<1>2. PersistTypeOK
  <2>1. cache \in [Entries -> AnyValue]
    BY PersistAssumption DEF PersistInit, AnyValue
  <2>2. flash \in [Banks -> [Ids -> AnyValue \cup {NoValue}]]
    BY DEF PersistInit
  <2> QED BY <2>1, <2>2, WalkOver DEF PersistInit, PersistTypeOK
<1>3. ~Walking /\ HomeInstalled /\ StartsAtZero
  BY WalkOver DEF PersistInit, Walking, HomeInstalled, StartsAtZero
<1> QED BY <1>1, <1>2, <1>3 DEF PersistInv, SaveInSlotOrder, LoadInSlotOrder

LEMMA StepStorage ==
  [PersistNext]_pall /\ storage \in Banks \cup {NoBank}
    => storage' \in Banks \cup {NoBank}
<1> SUFFICES ASSUME [PersistNext]_pall, storage \in Banks \cup {NoBank}
             PROVE  storage' \in Banks \cup {NoBank}
  OBVIOUS
<1>1. CASE \E drv \in Banks \cup {NoBank} : param_init(drv) \/ param_set_storage(drv)
  BY <1>1 DEF param_init, param_set_storage
<1>2. CASE param_deinit \/ power_failure
  BY <1>2 DEF param_deinit, power_failure
<1>3. CASE UNCHANGED storage
  BY <1>3
<1>4. ASSUME ~ (param_deinit \/ power_failure),
             ~ \E drv \in Banks \cup {NoBank} :
                 param_init(drv) \/ param_set_storage(drv)
      PROVE  UNCHANGED storage
  <2>1. CASE register
    BY <2>1 DEF register, pvars
  <2>2. ASSUME NEW e \in Found,
               \/ \E v \in Values[e] : param_write(e, v)
               \/ param_reset_one(e) \/ param_save_one(e) \/ param_load_one(e)
        PROVE  UNCHANGED storage
    BY <2>2 DEF param_write, param_reset_one, param_save_one, param_load_one
  <2>3. CASE \E op \in {"save", "load"} : walk_check(op)
    BY <2>3 DEF walk_check
  <2>4. CASE walk_lock \/ walk_end
    BY <2>4 DEF walk_lock, walk_end
  <2>5. ASSUME NEW s \in 0 .. HashSize - 1,
               save_slot(s) \/ save_fails(s) \/ load_slot(s) \/ load_fails(s)
        PROVE  UNCHANGED storage
    BY <2>5 DEF save_slot, save_fails, load_slot, load_fails
  <2>6. CASE UNCHANGED pall
    BY <2>6 DEF pall, pvars
  <2> QED BY <1>4, <2>1, <2>2, <2>3, <2>4, <2>5, <2>6 DEF PersistNext
<1> QED BY <1>1, <1>2, <1>3, <1>4

\* One entry is stored, or takes a value.
LEMMA StoreType ==
  ASSUME PersistTypeOK, storage # NoBank, NEW e \in Entries, store(e)
  PROVE  flash' \in [Banks -> [Ids -> AnyValue \cup {NoValue}]]
<1>1. storage \in Banks /\ Id[e] \in Ids /\ cache[e] \in AnyValue
  BY EntryValues DEF PersistTypeOK
<1> QED BY <1>1 DEF PersistTypeOK, store

LEMMA LoadType ==
  ASSUME PersistTypeOK, NEW e \in Entries, Stored(e), load(e)
  PROVE  cache' \in [Entries -> AnyValue]
<1>1. storage \in Banks /\ Id[e] \in Ids
  BY EntryValues DEF PersistTypeOK, Stored
<1>2. flash[storage][Id[e]] \in AnyValue
  BY <1>1 DEF PersistTypeOK, Stored
<1> QED BY <1>2 DEF PersistTypeOK, load

LEMMA StepData ==
  PersistTypeOK /\ HashTypeOK /\ [PersistNext]_pall
    => /\ cache' \in [Entries -> AnyValue]
       /\ flash' \in [Banks -> [Ids -> AnyValue \cup {NoValue}]]
<1> DEFINE C == cache' \in [Entries -> AnyValue]
           F == flash' \in [Banks -> [Ids -> AnyValue \cup {NoValue}]]
<1> SUFFICES ASSUME PersistTypeOK, HashTypeOK, [PersistNext]_pall PROVE C /\ F
  OBVIOUS
<1>1. /\ cache' = cache => C
      /\ flash' = flash => F
  BY DEF PersistTypeOK
<1>2. \A e \in Entries : \A v \in AnyValue :
        cache' = [cache EXCEPT ![e] = v] => C
  BY DEF PersistTypeOK
<1>3. ASSUME NEW e \in Entries
      PROVE  /\ storage # NoBank /\ store(e) => F
             /\ Stored(e) /\ load(e) => C
  BY StoreType, LoadType
<1>4. Persist \subseteq Entries
  BY PersistAssumption
<1> HIDE DEF C, F
<1>5. CASE \E drv \in Banks \cup {NoBank} : param_init(drv) \/ param_set_storage(drv)
  BY <1>1, <1>5 DEF param_init, param_set_storage
<1>6. CASE param_deinit
  BY <1>1, <1>6 DEF param_deinit
<1>7. CASE power_failure
  <2>1. C
    BY <1>7, PersistAssumption DEF power_failure, C, AnyValue
  <2> QED BY <1>1, <1>7, <2>1 DEF power_failure
<1>8. CASE register
  BY <1>1, <1>8 DEF register, pvars
<1>9. ASSUME NEW e \in Found,
             \/ \E v \in Values[e] : param_write(e, v)
             \/ param_reset_one(e) \/ param_save_one(e) \/ param_load_one(e)
      PROVE  C /\ F
  <2>1. e \in Entries
    BY FoundAreEntries
  <2>2. ASSUME NEW v \in Values[e], param_write(e, v)
        PROVE  C /\ F
    BY <1>1, <1>2, <2>1, <2>2, EntryValues DEF param_write
  <2>3. CASE param_reset_one(e)
    BY <1>1, <1>2, <2>1, <2>3, EntryValues DEF param_reset_one
  <2>4. CASE param_save_one(e)
    <3>1. storage # NoBank /\ store(e) /\ cache' = cache
      BY <2>4 DEF param_save_one
    <3> QED BY <1>1, <1>3, <2>1, <3>1
  <2>5. CASE param_load_one(e)
    <3>1. Stored(e) /\ load(e) /\ flash' = flash
      BY <2>5 DEF param_load_one
    <3> QED BY <1>1, <1>3, <2>1, <3>1
  <2> QED BY <1>9, <2>2, <2>3, <2>4, <2>5
<1>10. CASE \E op \in {"save", "load"} : walk_check(op)
  BY <1>1, <1>10 DEF walk_check
<1>11. CASE walk_lock \/ walk_end
  BY <1>1, <1>11 DEF walk_lock, walk_end
<1>12. ASSUME NEW s \in 0 .. HashSize - 1,
              save_slot(s) \/ save_fails(s) \/ load_slot(s) \/ load_fails(s)
       PROVE  C /\ F
  <2>1. CASE save_slot(s)
    <3>1. CASE slot[s] \in Persist
      <4>1. storage # NoBank /\ store(slot[s]) /\ cache' = cache
        BY <2>1, <3>1 DEF save_slot
      <4> QED BY <1>1, <1>3, <1>4, <3>1, <4>1
    <3>2. CASE slot[s] \notin Persist
      BY <1>1, <2>1, <3>2 DEF save_slot
    <3> QED BY <3>1, <3>2
  <2>2. CASE load_slot(s)
    <3>1. CASE slot[s] \in Persist
      <4>1. Stored(slot[s]) /\ load(slot[s]) /\ flash' = flash
        BY <2>2, <3>1 DEF load_slot
      <4> QED BY <1>1, <1>3, <1>4, <3>1, <4>1
    <3>2. CASE slot[s] \notin Persist
      BY <1>1, <2>2, <3>2 DEF load_slot
    <3> QED BY <3>1, <3>2
  <2>3. CASE save_fails(s) \/ load_fails(s)
    BY <1>1, <2>3 DEF save_fails, load_fails
  <2> QED BY <1>12, <2>1, <2>2, <2>3
<1>13. CASE UNCHANGED pall
  BY <1>1, <1>13 DEF pall, pvars
<1> QED BY <1>5, <1>6, <1>7, <1>8, <1>9, <1>10, <1>11, <1>12, <1>13
        DEF PersistNext

-----------------------------------------------------------------------------
(* What a step does to the walk. *)

\* A step that touches neither the walk nor what it works on.
Aside == UNCHANGED <<slot, storage, cache, flash, walk>>

\* A step that puts no walk in a bank: none walks afterwards, or it lost its
\* bank, or there was none.
Apart ==
  /\ walk'.home = NoBank
  /\ \/ walk' = NoWalk
     \/ /\ walk'.pc = walk.pc /\ walk'.op = walk.op
        /\ walk'.at = walk.at /\ (walk'.ok <=> walk.ok)
     \/ /\ ~Walking /\ walk'.pc = "checked" /\ walk'.op \in {"save", "load"}
        /\ walk'.at = walk.at /\ (walk'.ok <=> walk.ok)

LEMMA WalkSteps ==
  ASSUME PersistTypeOK, HomeInstalled, [PersistNext]_pall
  PROVE  /\ walk' \in Walks
         /\ \/ Aside \/ Apart \/ walk_lock
            \/ \E s \in Slots : save_slot(s) \/ load_slot(s) \/ load_fails(s)
<1> DEFINE Goal == /\ walk' \in Walks
                   /\ \/ Aside \/ Apart \/ walk_lock
                      \/ \E s \in Slots :
                           save_slot(s) \/ load_slot(s) \/ load_fails(s)
<1>1. walk \in Walks
  BY DEF PersistTypeOK
<1>2. Aside => Goal
  BY <1>1 DEF Aside
<1>3. walk' = NoWalk => Goal
  BY WalkOver DEF Apart
<1>4. ~Walking => walk.home = NoBank
  BY DEF HomeInstalled
<1>5. walk' = [walk EXCEPT !.home = NoBank] => Goal
  BY <1>1, WalkAtHome DEF Apart
<1>6. walk' = walk /\ ~Walking => Goal
  BY <1>1, <1>4 DEF Apart
<1>7. CASE \E drv \in Banks \cup {NoBank} : param_init(drv) \/ param_set_storage(drv)
  <2>1. PICK drv \in Banks \cup {NoBank} :
          param_init(drv) \/ param_set_storage(drv)
    BY <1>7
  <2>2. CASE param_init(drv)
    BY <2>2, <1>5 DEF param_init
  <2>3. CASE param_set_storage(drv)
    BY <2>3, <1>2, <1>5 DEF param_set_storage, Aside, hvars
  <2> QED BY <2>1, <2>2, <2>3
<1>8. CASE param_deinit
  BY <1>8, <1>6 DEF param_deinit, Unlocked
<1>9. CASE power_failure
  BY <1>9, <1>3 DEF power_failure
<1>10. CASE register
  BY <1>10, <1>2, <1>6 DEF register, register_ask, pvars, Aside
<1>11. ASSUME NEW e \in Found,
              \/ \E v \in Values[e] : param_write(e, v)
              \/ param_reset_one(e) \/ param_save_one(e) \/ param_load_one(e)
       PROVE  Goal
  BY <1>6, <1>11 DEF param_write, param_reset_one, param_save_one,
     param_load_one, Unlocked
<1>12. ASSUME NEW op \in {"save", "load"}, walk_check(op)
       PROVE  Goal
  <2>1. walk' = [walk EXCEPT !.op = op, !.pc = "checked"] /\ ~Walking
    BY <1>12 DEF walk_check, Walking
  <2>2. /\ walk' \in Walks /\ walk'.pc = "checked" /\ walk'.at = walk.at
        /\ walk'.op = op /\ (walk'.ok <=> walk.ok) /\ walk'.home = walk.home
    BY <1>1, <2>1, WalkChecked
  <2> QED BY <1>4, <2>1, <2>2 DEF Apart
<1>13. CASE walk_lock
  <2>1. storage \in Banks \cup {NoBank} /\ cache \in Snapshots
    BY DEF PersistTypeOK, Snapshots
  <2>2. storage # NoBank => flash[storage] \in Snapshots
    BY <2>1 DEF PersistTypeOK, Snapshots
  <2>3. << >> \in Snapshots
    BY DEF Snapshots
  <2> DEFINE x == IF walk.op = "load" THEN cache
                  ELSE IF storage # NoBank THEN flash[storage] ELSE << >>
  <2>4. x \in Snapshots
    BY <2>1, <2>2, <2>3
  <2>5. walk' = [walk EXCEPT !.pc = "walking", !.home = storage, !.before = x]
    BY <1>13 DEF walk_lock
  <2> HIDE DEF x
  <2> QED BY <1>1, <1>13, <2>1, <2>4, <2>5, WalkLocked
<1>14. CASE walk_end
  BY <1>14, <1>3 DEF walk_end
<1>15. ASSUME NEW s \in 0 .. HashSize - 1,
              save_slot(s) \/ save_fails(s) \/ load_slot(s) \/ load_fails(s)
       PROVE  Goal
  <2>1. CASE save_fails(s)
    BY <2>1, <1>3 DEF save_fails
  <2>2. CASE save_slot(s) \/ load_slot(s)
    BY <2>2, <1>1, WalkOn DEF save_slot, load_slot, go_on, Slots
  <2>3. CASE load_fails(s)
    BY <2>3, <1>1, WalkFails DEF load_fails, Fails, Slots
  <2> QED BY <1>15, <2>1, <2>2, <2>3
<1>16. CASE UNCHANGED pall
  BY <1>16, <1>2 DEF pall, hvars, pvars, Aside
<1> QED BY <1>7, <1>8, <1>9, <1>10, <1>11, <1>12, <1>13, <1>14, <1>15, <1>16
        DEF PersistNext

LEMMA WalkLocks ==
  ASSUME PersistTypeOK, StartsAtZero, walk_lock
  PROVE  /\ Walking' /\ walk'.home = storage /\ walk'.op = walk.op
         /\ walk'.at = 0 /\ walk'.ok
         /\ walk'.op = "load" => walk'.before = cache
         /\ walk'.op # "load" /\ storage # NoBank => walk'.before = flash[storage]
<1> DEFINE x == IF walk.op = "load" THEN cache
                ELSE IF storage # NoBank THEN flash[storage] ELSE << >>
<1>1. walk \in Walks /\ storage \in Banks \cup {NoBank}
  BY DEF PersistTypeOK
<1>3. walk' = [walk EXCEPT !.pc = "walking", !.home = storage, !.before = x]
  BY DEF walk_lock
<1>4. x = IF walk.op = "load" THEN cache
          ELSE IF storage # NoBank THEN flash[storage] ELSE << >>
  OBVIOUS
<1>5. walk.at = 0 /\ walk.ok
  BY DEF walk_lock, StartsAtZero, Walking
<1> HIDE DEF x
<1>6. /\ walk'.op = walk.op /\ walk'.pc = "walking"
      /\ walk'.at = walk.at /\ (walk'.ok <=> walk.ok)
      /\ walk'.home = storage /\ walk'.before = x
  <2> DEFINE w == [walk EXCEPT !.pc = "walking", !.home = storage, !.before = x]
  <2>1. /\ w.op = walk.op /\ w.pc = "walking" /\ w.at = walk.at
        /\ (w.ok <=> walk.ok) /\ w.home = storage /\ w.before = x
    BY <1>1, WalkLockedFields
  <2>2. walk' = w
    BY <1>3
  <2> HIDE DEF w
  <2> QED BY <2>1, <2>2
<1> QED BY <1>4, <1>5, <1>6 DEF Walking

LEMMA WalkGoes ==
  ASSUME PersistTypeOK, NEW s \in Slots,
         save_slot(s) \/ load_slot(s) \/ load_fails(s)
  PROVE  /\ Walking' /\ walk'.home = walk.home /\ walk'.op = walk.op
         /\ walk'.at = s + 1 /\ walk'.before = walk.before
         /\ walk'.ok => walk.ok /\ ~load_fails(s)
         /\ At(s) /\ slot' = slot /\ storage' = storage
<1>1. walk \in Walks /\ walk.ok \in BOOLEAN
  BY DEF PersistTypeOK, Walks
<1>2. CASE load_fails(s)
  <2>1. walk' = [walk EXCEPT !.at = s + 1, !.ok = FALSE]
    BY <1>2 DEF load_fails, Fails
  <2>2. /\ walk'.op = walk.op /\ walk'.pc = walk.pc /\ walk'.at = s + 1
        /\ ~walk'.ok /\ walk'.home = walk.home
        /\ walk'.before = walk.before
    BY <1>1, <2>1, WalkFails DEF Slots
  <2> QED BY <1>2, <2>2 DEF load_fails, At, Walking, hvars
<1>3. CASE ~load_fails(s)
  <2>1. walk' = [walk EXCEPT !.at = s + 1]
    BY <1>3 DEF save_slot, load_slot, go_on
  <2>2. /\ walk'.op = walk.op /\ walk'.pc = walk.pc /\ walk'.at = s + 1
        /\ (walk'.ok <=> walk.ok) /\ walk'.home = walk.home
        /\ walk'.before = walk.before
    BY <1>1, <2>1, WalkOn DEF Slots
  <2> QED BY <1>3, <2>2 DEF save_slot, load_slot, At, Walking, hvars
<1> QED BY <1>2, <1>3

LEMMA StepHome ==
  PersistTypeOK /\ HomeInstalled /\ StartsAtZero /\ [PersistNext]_pall
    => HomeInstalled' /\ StartsAtZero'
<1> SUFFICES ASSUME PersistTypeOK, HomeInstalled, StartsAtZero, [PersistNext]_pall
             PROVE  HomeInstalled' /\ StartsAtZero'
  OBVIOUS
<1>1. CASE Aside
  BY <1>1 DEF Aside, HomeInstalled, StartsAtZero, Walking
<1>2. CASE Apart
  <2>1. HomeInstalled'
    BY <1>2 DEF Apart, HomeInstalled
  <2>2. StartsAtZero'
    <3>1. CASE walk' = NoWalk
      <4>1. walk'.at = 0 /\ walk'.ok /\ walk'.pc = "idle"
        BY <3>1, WalkOver
      <4> QED BY <4>1 DEF StartsAtZero
    <3> QED BY <1>2, <3>1 DEF Apart, StartsAtZero, Walking
  <2> QED BY <2>1, <2>2
<1>3. CASE walk_lock
  BY <1>3, WalkLocks DEF HomeInstalled, StartsAtZero, walk_lock, Walking
<1>4. ASSUME NEW s \in Slots, save_slot(s) \/ load_slot(s) \/ load_fails(s)
      PROVE  HomeInstalled' /\ StartsAtZero'
  BY <1>4, WalkGoes DEF HomeInstalled, StartsAtZero, At, Walking
<1> QED BY <1>1, <1>2, <1>3, <1>4, WalkSteps

LEMMA StepTypes ==
  HashTypeOK /\ PersistTypeOK /\ HomeInstalled /\ [PersistNext]_pall
    => PersistTypeOK'
BY StepStorage, StepData, WalkSteps DEF PersistTypeOK

-----------------------------------------------------------------------------
(* The order of the slots. *)

\* The entry a walk has come to, and what lies between it and the last one.
LEMMA AtSlot ==
  ASSUME HashTypeOK, PersistTypeOK, NEW s \in Slots, At(s)
  PROVE  /\ slot[s] \in Entries /\ Id[slot[s]] \in Ids
         /\ \A t \in Kept : /\ t \in Slots /\ slot[t] \in Entries
                            /\ Id[slot[t]] \in Ids
                            /\ Id[slot[t]] = Id[slot[s]] => t = s
                            /\ t < s + 1 /\ t # s => t < walk.at
                            /\ t < walk.at => t < s + 1 /\ t # s
         /\ slot[s] \notin Persist => s \notin Kept
         /\ 0 .. walk.at - 1 \subseteq 0 .. s /\ s \in 0 .. s
<1>1. walk.at \in Nat /\ s \in Nat /\ HashSize \in Nat
  BY HashAssumption DEF PersistTypeOK, Walks, Slots
<1>2. slot[s] \in Entries
  BY DEF HashTypeOK, At
<1>3. \A t \in Kept : /\ t \in Slots /\ slot[t] \in Entries
                      /\ Id[slot[t]] = Id[slot[s]] => t = s
  <2>1. slot[s] # NoEntry /\ s \in Slots
    BY DEF At
  <2> QED BY <2>1, PersistAssumption DEF Kept, Slots
<1>4. \A t \in Kept : t < s + 1 /\ t # s => t < walk.at
  <2> SUFFICES ASSUME NEW t \in Kept, t < s + 1, t # s, ~ (t < walk.at)
               PROVE  FALSE
    OBVIOUS
  <2>1. t \in Slots /\ slot[t] \in Entries
    BY <1>3
  <2>2. t \in walk.at .. s - 1
    BY <1>1, <2>1 DEF Slots
  <2>3. slot[t] = NoEntry
    BY <2>2 DEF At
  <2> QED BY <2>1, <2>3, HashAssumption
<1>5. \A t \in Kept : t < walk.at => t < s + 1 /\ t # s
  <2> SUFFICES ASSUME NEW t \in Kept, t < walk.at
               PROVE  t < s + 1 /\ t # s
    OBVIOUS
  <2>1. t \in Nat
    BY <1>1, <1>3 DEF Slots
  <2>2. walk.at <= s
    BY DEF At
  <2> QED BY <1>1, <2>1, <2>2
<1>6. \A e \in Entries : Id[e] \in Ids
  BY HashAssumption
<1>7. 0 .. walk.at - 1 \subseteq 0 .. s /\ s \in 0 .. s
  BY <1>1 DEF At
<1> QED BY <1>2, <1>3, <1>4, <1>5, <1>6, <1>7 DEF Kept

\* A saved entry changes its own key in the bank at hand, and nothing else.
LEMMA StoreKeys ==
  ASSUME PersistTypeOK, storage # NoBank, NEW e \in Entries, store(e)
  PROVE  /\ flash'[storage][Id[e]] = cache[e]
         /\ \A id \in Ids : id # Id[e] => flash'[storage][id] = flash[storage][id]
<1>1. storage \in Banks /\ Id[e] \in Ids
  BY EntryValues DEF PersistTypeOK
<1>2. flash[storage] \in [Ids -> AnyValue \cup {NoValue}]
  BY <1>1 DEF PersistTypeOK
<1>3. flash'[storage] = [flash[storage] EXCEPT ![Id[e]] = cache[e]]
  BY <1>1 DEF PersistTypeOK, store
<1> QED BY <1>1, <1>2, <1>3

LEMMA StepSave ==
  ASSUME HashTypeOK, PersistTypeOK, HomeInstalled, StartsAtZero, SaveInSlotOrder,
         [PersistNext]_pall
  PROVE  SaveInSlotOrder'
<1>1. CASE Aside
  BY <1>1 DEF Aside, SaveInSlotOrder, Walking, Kept
<1>2. CASE Apart
  BY <1>2 DEF Apart, SaveInSlotOrder
<1>3. CASE walk_lock
  <2> SUFFICES ASSUME walk'.op = "save", walk'.home # NoBank
               PROVE  SaveInSlotOrder'
    BY DEF SaveInSlotOrder
  <2>1. walk'.before = flash[storage] /\ walk'.home = storage /\ walk'.at = 0
    BY <1>3, WalkLocks
  <2>2. flash' = flash /\ cache' = cache /\ slot' = slot
    BY <1>3 DEF walk_lock, hvars
  <2>3. \A s \in Kept' : ~ (s < 0)
    BY HashAssumption DEF Kept
  <2> QED BY <2>1, <2>2, <2>3 DEF SaveInSlotOrder
<1>4. ASSUME NEW s \in Slots, load_slot(s) \/ load_fails(s)
      PROVE  SaveInSlotOrder'
  BY <1>4, WalkGoes DEF SaveInSlotOrder, load_slot, load_fails
<1>5. ASSUME NEW s \in Slots, save_slot(s)
      PROVE  SaveInSlotOrder'
  <2> SUFFICES ASSUME walk'.op = "save", walk'.home # NoBank
               PROVE  SaveInSlotOrder'
    BY DEF SaveInSlotOrder
  <2>1. /\ walk'.home = walk.home /\ walk'.at = s + 1
        /\ walk'.before = walk.before /\ walk.op = "save" /\ Walking
        /\ At(s) /\ slot' = slot /\ cache' = cache
    BY <1>5, WalkGoes DEF save_slot, At
  <2>2. walk.home = storage /\ storage # NoBank
    BY <2>1 DEF HomeInstalled
  <2> DEFINE h == walk.home
  <2>3. /\ \A t \in Kept : flash[h][Id[slot[t]]] =
             IF t < walk.at THEN cache[slot[t]] ELSE walk.before[Id[slot[t]]]
        /\ \A id \in Ids : (\A t \in 0 .. walk.at - 1 :
               slot[t] # NoEntry => Id[slot[t]] # id)
             => flash[h][id] = walk.before[id]
    BY <2>1, <2>2 DEF SaveInSlotOrder
  <2>4. /\ slot[s] \in Persist => flash'[h][Id[slot[s]]] = cache[slot[s]]
        /\ \A id \in Ids : id # Id[slot[s]] \/ slot[s] \notin Persist
             => flash'[h][id] = flash[h][id]
    BY <1>5, <2>1, <2>2, AtSlot, StoreKeys DEF save_slot
  <2>5. Kept' = Kept
    BY <2>1 DEF Kept
  <2>6. slot[s] \in Entries /\ slot[s] # NoEntry
    BY <2>1, AtSlot, HashAssumption
  <2> HIDE DEF h
  <2>10. \A t \in Kept : /\ Id[slot[t]] \in Ids
                         /\ Id[slot[t]] = Id[slot[s]] => t = s
                         /\ t < s + 1 /\ t # s => t < walk.at
                         /\ t < walk.at => t < s + 1 /\ t # s
    BY <2>1, AtSlot
  <2>7. ASSUME NEW t \in Kept
        PROVE  flash'[h][Id[slot[t]]] =
                 IF t < s + 1 THEN cache[slot[t]] ELSE walk.before[Id[slot[t]]]
    <3>1. CASE t = s
      <4>1. slot[s] \in Persist /\ s < s + 1
        BY <2>1, <3>1, AtSlot DEF Slots
      <4> QED BY <2>4, <3>1, <4>1
    <3>2. CASE t # s
      <4>1. Id[slot[t]] # Id[slot[s]] /\ Id[slot[t]] \in Ids
        BY <2>10, <3>2
      <4>2. t < s + 1 <=> t < walk.at
        BY <2>10, <3>2
      <4> QED BY <2>3, <2>4, <4>1, <4>2
    <3> QED BY <3>1, <3>2
  <2>8. ASSUME NEW id \in Ids,
               \A t \in 0 .. s : slot[t] # NoEntry => Id[slot[t]] # id
        PROVE  flash'[h][id] = walk.before[id]
    <3>1. Id[slot[s]] # id
      BY <2>1, <2>6, <2>8, AtSlot
    <3>2. \A t \in 0 .. walk.at - 1 : slot[t] # NoEntry => Id[slot[t]] # id
      BY <2>1, <2>8, AtSlot
    <3> QED BY <2>3, <2>4, <3>1, <3>2
  <2>9. 0 .. walk'.at - 1 = 0 .. s
    BY <2>1 DEF Slots
  <2>11. \A t \in Kept' : flash'[h][Id[slot'[t]]] =
            IF t < walk'.at THEN cache'[slot'[t]] ELSE walk'.before[Id[slot'[t]]]
    BY <2>1, <2>5, <2>7
  <2>12. \A id \in Ids : (\A t \in 0 .. walk'.at - 1 :
            slot'[t] # NoEntry => Id[slot'[t]] # id)
          => flash'[h][id] = walk'.before[id]
    <3>1. \A id \in Ids :
            (\A t \in 0 .. s : slot[t] # NoEntry => Id[slot[t]] # id)
              => flash'[h][id] = walk.before[id]
      BY <2>8
    <3> QED BY <2>1, <2>9, <3>1
  <2> QED BY <2>1, <2>11, <2>12 DEF SaveInSlotOrder, h
<1> QED BY <1>1, <1>2, <1>3, <1>4, <1>5, WalkSteps

\* A loaded entry changes its own cache.
LEMMA LoadEntry ==
  ASSUME PersistTypeOK, NEW e \in Entries, load(e)
  PROVE  /\ cache'[e] = flash[storage][Id[e]]
         /\ \A f \in Entries : f # e => cache'[f] = cache[f]
BY DEF PersistTypeOK, load

LEMMA StepLoad ==
  ASSUME HashTypeOK, PersistTypeOK, HomeInstalled, StartsAtZero, LoadInSlotOrder,
         [PersistNext]_pall
  PROVE  LoadInSlotOrder'
<1>1. CASE Aside
  BY <1>1 DEF Aside, LoadInSlotOrder, Walking, Kept
<1>2. CASE Apart
  BY <1>2 DEF Apart, LoadInSlotOrder
<1>3. CASE walk_lock
  <2> SUFFICES ASSUME walk'.op = "load" PROVE LoadInSlotOrder'
    BY DEF LoadInSlotOrder
  <2>1. walk'.before = cache /\ walk'.at = 0
    BY <1>3, WalkLocks
  <2>2. cache' = cache /\ slot' = slot
    BY <1>3 DEF walk_lock, hvars
  <2>3. \A s \in Kept' : ~ (s < 0)
    BY HashAssumption DEF Kept
  <2> QED BY <2>1, <2>2, <2>3 DEF LoadInSlotOrder
<1>4. ASSUME NEW s \in Slots, save_slot(s)
      PROVE  LoadInSlotOrder'
  BY <1>4, WalkGoes DEF LoadInSlotOrder, save_slot
<1>5. ASSUME NEW s \in Slots, load_slot(s) \/ load_fails(s)
      PROVE  LoadInSlotOrder'
  <2> SUFFICES ASSUME walk'.home # NoBank, NEW t \in Kept'
               PROVE  \/ /\ t < walk'.at
                         /\ cache'[slot'[t]] = flash'[walk'.home][Id[slot'[t]]]
                      \/ /\ t < walk'.at => ~walk'.ok
                         /\ cache'[slot'[t]] = walk'.before[slot'[t]]
    BY DEF LoadInSlotOrder
  <2>1. /\ walk'.home = walk.home /\ walk'.at = s + 1
        /\ walk'.before = walk.before /\ walk.op = "load" /\ Walking
        /\ walk'.ok => walk.ok /\ ~load_fails(s)
        /\ At(s) /\ slot' = slot /\ flash' = flash
    BY <1>5, WalkGoes DEF load_slot, load_fails, At
  <2>2. walk.home = storage /\ walk.home # NoBank
    BY <2>1 DEF HomeInstalled
  <2>3. t \in Kept
    BY <2>1 DEF Kept
  <2>4. \/ t < walk.at /\ cache[slot[t]] = flash[walk.home][Id[slot[t]]]
        \/ (t < walk.at => ~walk.ok) /\ cache[slot[t]] = walk.before[slot[t]]
    BY <2>1, <2>2, <2>3 DEF LoadInSlotOrder
  <2>5. /\ slot[t] \in Entries /\ slot[s] \in Entries
        /\ Id[slot[t]] = Id[slot[s]] => t = s
        /\ t < s + 1 /\ t # s => t < walk.at
        /\ t < walk.at => t < s + 1 /\ t # s
        /\ slot[s] \notin Persist => s \notin Kept
    BY <2>1, <2>3, AtSlot
  <2>6. CASE t # s
    <3>1. slot[t] # slot[s] /\ (t < s + 1 <=> t < walk.at)
      BY <2>5, <2>6
    <3>2. cache'[slot[t]] = cache[slot[t]]
      <4>1. CASE cache' = cache
        BY <4>1
      <4>2. CASE load(slot[s])
        BY <2>5, <3>1, <4>2, LoadEntry
      <4> QED BY <1>5, <4>1, <4>2 DEF load_slot, load_fails
    <3> QED BY <2>1, <2>4, <3>1, <3>2
  <2>7. CASE t = s
    <3>1. t < s + 1 /\ ~ (t < walk.at)
      BY <2>5, <2>7 DEF Slots
    <3>2. CASE load_fails(s)
      <4>1. ~walk'.ok /\ cache' = cache
        BY <2>1, <3>2 DEF load_fails
      <4> QED BY <2>1, <2>4, <3>1, <4>1
    <3>3. CASE ~load_fails(s)
      <4>1. load(slot[s])
        BY <1>5, <2>3, <2>5, <2>7, <3>3 DEF load_slot
      <4>2. cache'[slot[s]] = flash[storage][Id[slot[s]]]
        BY <2>5, <4>1, LoadEntry
      <4> QED BY <2>1, <2>2, <2>7, <3>1, <4>2
    <3> QED BY <3>2, <3>3
  <2> QED BY <2>6, <2>7
<1> QED BY <1>1, <1>2, <1>3, <1>4, <1>5, WalkSteps

-----------------------------------------------------------------------------
(* The results. *)

LEMMA PersistInvariant ==
  Spec => []PersistInv
<1>1. PersistInit => PersistInv
  BY PersistInitInv
<1>2. PersistInv /\ [PersistNext]_pall => PersistInv'
  <2>1. HashInv /\ [PersistNext]_pall => HashInv'
    BY PersistStepHash, HashStepInv
  <2>2. HashInv => HashTypeOK
    BY DEF HashInv
  <2> QED BY <2>1, <2>2, StepTypes, StepHome, StepSave, StepLoad DEF PersistInv
<1> QED BY <1>1, <1>2, PTL DEF Spec, pall

\* Wherever a param_save_all that stays in one bank stands, is stopped by an
\* entry or by a power failure, the slots it has passed are stored as they are
\* now and every other key is as it was.
THEOREM SaveKeepsOrder ==
  Spec => []SaveInSlotOrder
<1>1. PersistInv => SaveInSlotOrder
  BY DEF PersistInv
<1> QED BY <1>1, PersistInvariant, PTL

\* A param_load_all that stays in one bank has loaded the slots it has passed,
\* but for entries that failed, which it remembers, and touched no other.
THEOREM LoadKeepsOrder ==
  Spec => []LoadInSlotOrder
<1>1. PersistInv => LoadInSlotOrder
  BY DEF PersistInv
<1> QED BY <1>1, PersistInvariant, PTL

\* A walk that reaches its end has passed every slot in use.
LEMMA EndPassesAll ==
  ASSUME HashTypeOK, PersistTypeOK, walk_end, NEW s \in Kept
  PROVE  s < walk.at
<1>1. walk.at \in Nat /\ HashSize \in Nat
  BY HashAssumption DEF PersistTypeOK, Walks
<1>2. s \in 0 .. HashSize - 1 /\ slot[s] # NoEntry
  BY PersistAssumption, HashAssumption DEF Kept
<1>3. s \notin walk.at .. HashSize - 1
  BY <1>2 DEF walk_end
<1> QED BY <1>1, <1>2, <1>3

\* A save or load of everything that returns PARAM_OK has left cache and flash
\* equal on every entry that persists, unless it changed banks on its way.
THEOREM OkIsInSync ==
  Spec => OkMeansInSync
<1> DEFINE InSync ==
      walk_end /\ walk.ok /\ walk.home # NoBank =>
        \A s \in Kept : flash[walk.home][Id[slot[s]]] = cache[slot[s]]
<1>1. PersistInv => InSync
  <2> SUFFICES ASSUME PersistInv, walk_end, walk.ok, walk.home # NoBank,
                      NEW s \in Kept
               PROVE  flash[walk.home][Id[slot[s]]] = cache[slot[s]]
    OBVIOUS
  <2>1. s < walk.at /\ Walking
    BY EndPassesAll DEF PersistInv, HashInv, walk_end
  <2>2. CASE walk.op = "save"
    BY <2>1, <2>2 DEF PersistInv, SaveInSlotOrder
  <2>3. CASE walk.op = "load"
    BY <2>1, <2>3 DEF PersistInv, LoadInSlotOrder
  <2> QED BY <2>1, <2>2, <2>3 DEF PersistInv, StartsAtZero, Walking
<1>2. PersistInv => [InSync]_pall
  BY <1>1
<1> QED BY <1>2, PersistInvariant, PTL DEF OkMeansInSync, pall

\* Saves, loads, bank switches and power failures do not disturb the hash: in
\* ParamPersist, too, an entry in a slot is found.
THEOREM PersistEntriesFound ==
  Spec => []StoredIsFound
BY PersistIsHash, EntriesAreFound, PTL

\* In ParamPersist, too, the hash is a directory of ids.
THEOREM PersistTableIsDirectory ==
  Spec => HashIsDirectory
BY PersistIsHash, TableIsDirectory, PTL

\* In ParamPersist, too, a registration runs out of memory only when the table
\* is full, if slot indices can count it.
THEOREM PersistFullWhenNoMemory ==
  ASSUME IndexFits
  PROVE  Spec => NoMemoryOnlyWhenFull
BY PersistIsHash, FullWhenNoMemory, PTL

\* In ParamPersist, too, every id of a module whose registration returned
\* PARAM_OK can be looked up.
THEOREM PersistRegisteredFound ==
  Spec => RegisteredIsFound
BY PersistIsHash, RegisteredAreFound, PTL
=============================================================================
