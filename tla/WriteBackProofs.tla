--------------------------- MODULE WriteBackProofs --------------------------
(***************************************************************************)
(* The IP subsystem implements the write-back cache of module WriteBack,   *)
(* for tables laid out the way the sensor's is.                            *)
(***************************************************************************)
EXTENDS RegistryProofs

-----------------------------------------------------------------------------
(* When a step is one of the abstract ones, entry by entry. *)

SameCache == \A p \in IpEntries : cache'[p] = cache[p]
SameReg   == \A p \in IpEntries : hw'[Owner[p]][Lid[p]] = hw[Owner[p]][Lid[p]]
SameOwed  == \A p \in IpEntries : Pending(p)' <=> Pending(p)
SameOpen  == initialized' = initialized

LEMMA CacheMap ==
  SameCache => [p \in IpEntries |-> cache[p]]' = [p \in IpEntries |-> cache[p]]
  BY DEF SameCache

LEMMA RegMap ==
  SameReg => [p \in IpEntries |-> hw[Owner[p]][Lid[p]]]'
               = [p \in IpEntries |-> hw[Owner[p]][Lid[p]]]
  BY DEF SameReg

LEMMA OwedSet ==
  SameOwed => {p \in IpEntries : Pending(p)}' = {p \in IpEntries : Pending(p)}
  BY DEF SameOwed

LEMMA IsStutter ==
  ASSUME SameCache, SameReg, SameOwed, SameOpen
  PROVE  UNCHANGED WB!vars
  BY CacheMap, RegMap, OwedSet DEF WB!vars, SameOpen

LEMMA IsPut ==
  ASSUME TypeOK', SameReg, SameOpen,
         \A p \in IpEntries : cache'[p] # cache[p] \/ Pending(p) => Pending(p)'
  PROVE  WB!Put
<1>1. [p \in IpEntries |-> cache[p]]' \in [IpEntries -> Values]
  BY DEF TypeOK, IpEntries
<1> QED
  BY <1>1, RegMap DEF WB!Put, SameOpen

LEMMA IsDeliver ==
  ASSUME SameCache, SameOpen,
         \A p \in IpEntries :
           /\ hw'[Owner[p]][Lid[p]] \in {hw[Owner[p]][Lid[p]], cache[p]}
           /\ Pending(p)' => Pending(p)
           /\ Pending(p) /\ ~Pending(p)' => hw'[Owner[p]][Lid[p]] = cache[p]
  PROVE  WB!Deliver
  BY CacheMap DEF WB!Deliver, SameOpen

LEMMA IsThrough ==
  ASSUME NEW p \in IpEntries, NEW v \in Values, SameOpen,
         \A q \in IpEntries :
           /\ cache'[q] = IF q = p THEN v ELSE cache[q]
           /\ hw'[Owner[q]][Lid[q]] = IF q = p THEN v ELSE hw[Owner[q]][Lid[q]]
           /\ Pending(q)' <=> Pending(q) /\ q # p
  PROVE  WB!Through(p)
<1>1. [q \in IpEntries |-> cache[q]]'
        = [[q \in IpEntries |-> cache[q]] EXCEPT ![p] = v]
  OBVIOUS
<1>2. [q \in IpEntries |-> hw[Owner[q]][Lid[q]]]'
        = [[q \in IpEntries |-> hw[Owner[q]][Lid[q]]] EXCEPT ![p] = v]
  OBVIOUS
<1>3. {q \in IpEntries : Pending(q)}' = {q \in IpEntries : Pending(q)} \ {p}
  OBVIOUS
<1> QED
  BY <1>1, <1>2, <1>3 DEF WB!Through, SameOpen

LEMMA IsReset ==
  ASSUME TypeOK', SameReg, SameOpen,
         \A p \in IpEntries :
           /\ cache'[p] \in {cache[p], Default[p]}
           /\ Pending(p)' => Pending(p) /\ cache'[p] = cache[p]
           /\ Pending(p) /\ ~Pending(p)' => cache'[p] = Default[p]
  PROVE  WB!Reset
<1>1. [p \in IpEntries |-> cache[p]]' \in [IpEntries -> Values]
  BY DEF TypeOK, IpEntries
<1> QED
  BY <1>1, RegMap DEF WB!Reset, SameOpen

LEMMA IsAround ==
  ASSUME NEW p \in IpEntries, NEW v \in Values, SameCache, SameOwed, SameOpen,
         \A q \in IpEntries :
           hw'[Owner[q]][Lid[q]] = IF q = p THEN v ELSE hw[Owner[q]][Lid[q]]
  PROVE  WB!Around(p)
<1>1. [q \in IpEntries |-> hw[Owner[q]][Lid[q]]]'
        = [[q \in IpEntries |-> hw[Owner[q]][Lid[q]]] EXCEPT ![p] = v]
  OBVIOUS
<1> QED
  BY <1>1, CacheMap, OwedSet DEF WB!Around, SameOpen

LEMMA IsCommand ==
  ASSUME NEW p \in IpEntries, "exec" \in Flags[p], NEW v \in Values,
         SameCache, SameOpen,
         \A q \in IpEntries :
           /\ hw'[Owner[q]][Lid[q]] = IF q = p THEN v ELSE hw[Owner[q]][Lid[q]]
           /\ q # p => (Pending(q)' <=> Pending(q))
  PROVE  WB!Command(p)
<1>1. [q \in IpEntries |-> hw[Owner[q]][Lid[q]]]'
        = [[q \in IpEntries |-> hw[Owner[q]][Lid[q]]] EXCEPT ![p] = v]
  OBVIOUS
<1>2. p \in IpCommands
  BY DEF IpCommands
<1> QED
  BY <1>1, <1>2, CacheMap DEF WB!Command, SameOpen

-----------------------------------------------------------------------------
(* What a single register, value or bit looks like entry by entry. *)

\* An IP entry is told apart by module and local id.
LEMMA IpIds ==
  ASSUME NEW p \in IpEntries
  PROVE  /\ p \in Params /\ Owner[p] \in Modules /\ Lid[p] \in Lids
         /\ Kind[Owner[p]] = "ip"
         /\ \A q \in IpEntries : Owner[p] = Owner[q] /\ Lid[p] = Lid[q] => p = q
  BY ParamsAssumption, KindOf DEF IpEntries

LEMMA RegisterAt ==
  ASSUME TypeOK, NEW p \in IpEntries, NEW v \in Values,
         hw' = [hw EXCEPT ![Owner[p]][Lid[p]] = v]
  PROVE  \A q \in IpEntries :
           hw'[Owner[q]][Lid[q]] = IF q = p THEN v ELSE hw[Owner[q]][Lid[q]]
  BY IpIds DEF TypeOK

LEMMA RegisterElsewhere ==
  ASSUME TypeOK, NEW p \in Params, App(p), NEW v,
         hw' = [hw EXCEPT ![Owner[p]][Lid[p]] = v]
  PROVE  SameReg
<1>1. \A q \in IpEntries : Owner[q] # Owner[p]
  BY IpIds DEF App
<1> QED
  BY <1>1, IpIds DEF TypeOK, SameReg

LEMMA CacheElsewhere ==
  ASSUME NEW p \in Params, App(p), NEW v, cache' = [cache EXCEPT ![p] = v],
         TypeOK
  PROVE  SameCache
  BY DEF IpEntries, SameCache, TypeOK

LEMMA MapKept ==
  ASSUME dirty_map' = dirty_map
  PROVE  SameOwed
  BY DEF SameOwed, Pending

\* What the core does to a map after an entry operation.
LEMMA MapMarked ==
  ASSUME TypeOK, Aligned, NEW p \in Params, mark_dirty(p)
  PROVE  /\ App(p) => SameOwed
         /\ p \in IpEntries /\ Owner[p] \in Listed =>
              \A q \in IpEntries : Pending(q)' <=> Pending(q) \/ q = p
<1>1. App(p) => dirty_map' = dirty_map
  BY DEF mark_dirty, app_module_mark_dirty
<1>2. ASSUME p \in IpEntries, Owner[p] \in Listed
      PROVE  dirty_map' = [dirty_map EXCEPT ![Owner[p]] = @ \cup {Lid[p]}]
  BY <1>2 DEF mark_dirty, ip_module_mark_dirty, Aligned, IpEntries
<1>3. ASSUME p \in IpEntries, Owner[p] \in Listed, NEW q \in IpEntries
      PROVE  Pending(q)' <=> Pending(q) \/ q = p
  BY <1>2, <1>3, IpIds DEF Pending, TypeOK
<1> QED
  BY <1>1, <1>3, MapKept

LEMMA BitsGone ==
  ASSUME TypeOK, NEW p \in IpEntries, clear_bits(Owner[p], {Lid[p]})
  PROVE  \A q \in IpEntries : Pending(q)' <=> Pending(q) /\ q # p
  BY IpIds DEF clear_bits, Pending, TypeOK

LEMMA MapCleared ==
  ASSUME TypeOK, Aligned, NEW p \in Params, clear_dirty(p)
  PROVE  /\ App(p) => SameOwed
         /\ p \in IpEntries /\ Owner[p] \in Listed =>
              \A q \in IpEntries : Pending(q)' <=> Pending(q) /\ q # p
<1>1. App(p) => dirty_map' = dirty_map
  BY DEF clear_dirty, app_module_clear_dirty
<1>2. ASSUME p \in IpEntries, Owner[p] \in Listed
      PROVE  clear_bits(Owner[p], {Lid[p]})
  BY <1>2 DEF clear_dirty, ip_module_clear_dirty, Aligned, IpEntries
<1> QED
  BY <1>1, <1>2, MapKept, BitsGone

-----------------------------------------------------------------------------
(* Every step of the system is an abstract step or none. *)

Implemented == WB!Next \/ UNCHANGED WB!vars

LEMMA PutOrNone ==
  \/ WB!Put \/ WB!Deliver \/ WB!Reset \/ WB!Open \/ WB!Close
  \/ \E p \in IpEntries : WB!Through(p) \/ WB!Around(p) \/ WB!Command(p)
  \/ UNCHANGED WB!vars
  => Implemented
  BY DEF Implemented, WB!Next

LEMMA Kept ==
  ASSUME UNCHANGED <<initialized, dirty_map, cache, hw>>
  PROVE  Implemented
<1>1. SameCache /\ SameReg /\ SameOpen
  BY DEF SameCache, SameReg, SameOpen
<1> QED
  BY <1>1, MapKept, IsStutter DEF Implemented

LEMMA Refused ==
  ASSUME NEW op, NEW ret, Refuse(op, ret)
  PROVE  Implemented
  BY Kept DEF Refuse, state, registry, flags

\* Opening, closing, registering and the calls that look on.
LEMMA LifeCycleStep ==
  ASSUME TypeOK, PendingBitsReachable,
         \/ param_init \/ param_deinit \/ param_set_storage
         \/ param_check_flush_integrity \/ param_save \/ param_clear_stats
         \/ \E m \in Modules : param_module_register(m) \/ ip_driver_register(m)
  PROVE  Implemented
<1>1. CASE param_init
  <2>1. CASE ~initialized /\ UNCHANGED <<dirty_map, cache, hw>>
    <3>1. SameCache /\ SameReg
      BY <2>1 DEF SameCache, SameReg
    <3>2. SameOwed
      BY <2>1, MapKept
    <3>3. initialized' \in BOOLEAN
      BY <1>1, <2>1 DEF param_init, TypeOK, Refuse, state, registry
    <3>4. CASE initialized' = TRUE
      BY <3>1, <3>2, <3>4, CacheMap, RegMap, OwedSet, PutOrNone DEF WB!Open
    <3>5. CASE initialized' = FALSE
      BY <2>1, <3>5, Kept DEF TypeOK
    <3> QED
      BY <3>3, <3>4, <3>5
  <2> QED
    BY <1>1, <2>1, Refused DEF param_init
<1>2. CASE param_deinit
  <2>1. \A m \in Modules : dirty_map'[m] = {}
    BY <1>2 DEF param_deinit, PendingBitsReachable
  <2>2. {p \in IpEntries : Pending(p)}' = {}
    BY <2>1, IpIds DEF Pending
  <2>3. SameCache /\ SameReg /\ initialized' = FALSE
    BY <1>2 DEF param_deinit, SameCache, SameReg
  <2> QED
    BY <2>2, <2>3, CacheMap, RegMap, PutOrNone DEF WB!Close
<1>3. CASE param_set_storage \/ param_check_flush_integrity
             \/ param_save \/ param_clear_stats
  BY <1>3, Kept, Refused DEF param_set_storage, param_check_flush_integrity,
     param_save, no_storage, param_clear_stats, flags
<1>4. ASSUME NEW m \in Modules, param_module_register(m) \/ ip_driver_register(m)
      PROVE  Implemented
  BY <1>4, Kept, Refused DEF param_module_register, ip_driver_register,
                             insert_module
<1> QED
  BY <1>1, <1>2, <1>3, <1>4

\* An exec callback writes the command's own register; the core may mark the
\* bit, clear it, or leave it alone.
LEMMA ExecStep ==
  ASSUME TypeOK, Aligned, NEW p \in Params, "exec" \in Flags[p], HasExec(p),
         run_exec_cb(p), cache' = cache, initialized' = initialized,
         mark_dirty(p) \/ clear_dirty(p) \/ dirty_map' = dirty_map
  PROVE  Implemented
<1>1. PICK v \in Values : hw' = [hw EXCEPT ![Owner[p]][Lid[p]] = v]
  BY DEF run_exec_cb
<1>2. SameCache /\ SameOpen
  BY DEF SameCache, SameOpen
<1>3. CASE App(p)
  <2>1. SameReg
    BY <1>1, <1>3, RegisterElsewhere
  <2>2. SameOwed
    BY <1>3, MapMarked, MapCleared, MapKept
  <2> QED
    BY <1>2, <2>1, <2>2, IsStutter DEF Implemented
<1>4. CASE ~App(p)
  <2>1. p \in IpEntries /\ Owner[p] \in Listed
    BY <1>4 DEF IpEntries, HasExec
  <2>2. \A q \in IpEntries :
          hw'[Owner[q]][Lid[q]] = IF q = p THEN v ELSE hw[Owner[q]][Lid[q]]
    BY <1>1, <2>1, RegisterAt, ZenonT(30)
  <2>3. \A q \in IpEntries : q # p => (Pending(q)' <=> Pending(q))
    BY <2>1, MapMarked, MapCleared, MapKept DEF SameOwed
  <2> QED
    BY <1>2, <2>1, <2>2, <2>3, IsCommand, PutOrNone
<1> QED
  BY <1>3, <1>4

\* A write: Put for an IP entry, nothing for an App entry.
LEMMA EntryWriteStep ==
  ASSUME TypeOK, TypeOK', Aligned, NEW p \in Params, NEW v \in Values,
         entry_write(p, v), mark_dirty(p), initialized' = initialized
  PROVE  Implemented
<1>0. SameOpen
  BY DEF SameOpen
<1>1. CASE App(p)
  <2>1. app_write(p, v)
    BY <1>1 DEF entry_write
  <2>2. SameReg
    <3>1. CASE hw' = hw
      BY <3>1 DEF SameReg
    <3> QED
      BY <1>1, <2>1, <3>1, RegisterElsewhere DEF app_write
  <2>3. SameCache
    BY <1>1, <2>1, CacheElsewhere DEF app_write
  <2>4. SameOwed
    BY <1>1, MapMarked
  <2> QED
    BY <1>0, <2>2, <2>3, <2>4, IsStutter DEF Implemented
<1>2. CASE ~App(p)
  <2>1. ip_param_write(p, v)
    BY <1>2 DEF entry_write
  <2>2. p \in IpEntries /\ Owner[p] \in Listed
    BY <1>2, <2>1 DEF IpEntries, ip_param_write, HasInstance
  <2>3. \A q \in IpEntries : Pending(q)' <=> Pending(q) \/ q = p
    BY <2>2, MapMarked
  <2>4. \A q \in IpEntries : q # p => cache'[q] = cache[q]
    BY <2>1 DEF ip_param_write, TypeOK, IpEntries
  <2>5. SameReg
    BY <2>1 DEF ip_param_write, SameReg
  <2> QED
    BY <1>0, <2>3, <2>4, <2>5, IsPut, PutOrNone
<1> QED
  BY <1>1, <1>2

LEMMA WriteStep ==
  ASSUME TypeOK, TypeOK', Aligned, NEW p \in Params, NEW v \in Values,
         param_write(p, v) \/ param_write_raw(p, v) \/ param_exec(p)
  PROVE  Implemented
<1>1. CASE param_write(p, v)
  BY <1>1, Refused, EntryWriteStep DEF param_write, not_found, registry
<1>2. CASE param_write_raw(p, v)
  BY <1>2, Refused, EntryWriteStep, ExecStep
     DEF param_write_raw, not_found, registry
<1>3. CASE param_exec(p)
  BY <1>3, Refused, ExecStep DEF param_exec, registry, flags
<1> QED
  BY <1>1, <1>2, <1>3

\* An immediate write: through cache and register at once.
LEMMA ImmediateStep ==
  ASSUME TypeOK, Aligned, NEW p \in Params, NEW v \in Values,
         param_write_immediate(p, v)
  PROVE  Implemented
<1>1. CASE /\ App(p) /\ app_write_immediate(p, v)
           /\ clear_dirty(p) /\ initialized' = initialized
  <2>1. SameReg /\ SameCache
    BY <1>1, RegisterElsewhere, CacheElsewhere DEF app_write_immediate
  <2>2. SameOwed
    BY <1>1, MapCleared
  <2>3. SameOpen
    BY <1>1 DEF SameOpen
  <2> QED
    BY <2>1, <2>2, <2>3, IsStutter DEF Implemented
<1>2. CASE /\ ~App(p) /\ ip_write_immediate(p, v)
           /\ clear_dirty(p) /\ initialized' = initialized
  <2>1. p \in IpEntries /\ Owner[p] \in Listed
    BY <1>2 DEF IpEntries, ip_write_immediate, HasDriver, HasInstance
  <2>2. \A q \in IpEntries :
          hw'[Owner[q]][Lid[q]] = IF q = p THEN v ELSE hw[Owner[q]][Lid[q]]
    <3>1. hw' = [hw EXCEPT ![Owner[p]][Lid[p]] = v]
      BY <1>2 DEF ip_write_immediate
    <3> QED
      BY <2>1, <3>1, RegisterAt, ZenonT(30)
  <2>3. \A q \in IpEntries : Pending(q)' <=> Pending(q) /\ q # p
    BY <1>2, <2>1, MapCleared
  <2>4. \A q \in IpEntries : cache'[q] = IF q = p THEN v ELSE cache[q]
    BY <1>2 DEF ip_write_immediate, TypeOK, IpEntries
  <2>5. SameOpen
    BY <1>2 DEF SameOpen
  <2>6. WB!Through(p)
    BY <2>1, <2>2, <2>3, <2>4, <2>5, IsThrough
  <2> QED
    BY <2>1, <2>6, PutOrNone
<1> QED
  BY <1>1, <1>2, Refused, ExecStep DEF param_write_immediate, not_found, registry

\* ip_control reaches a register around the cache, or one that has no entry.
LEMMA ControlStep ==
  ASSUME TypeOK, NEW m \in Modules, NEW l \in Lids, NEW v \in Values,
         ip_control(m, l, v)
  PROVE  Implemented
<1>1. CASE hw' = [hw EXCEPT ![m][l] = v] /\ UNCHANGED <<registry, flags, cache>>
  <2>1. SameCache /\ SameOwed /\ SameOpen
    BY <1>1, MapKept DEF SameCache, SameOpen, registry, flags
  <2>2. CASE \E p \in IpEntries : Owner[p] = m /\ Lid[p] = l
    <3>1. PICK p \in IpEntries : Owner[p] = m /\ Lid[p] = l
      BY <2>2
    <3>2. hw' = [hw EXCEPT ![Owner[p]][Lid[p]] = v]
      BY <1>1, <3>1
    <3>3. \A q \in IpEntries :
            hw'[Owner[q]][Lid[q]] = IF q = p THEN v ELSE hw[Owner[q]][Lid[q]]
      BY <3>2, RegisterAt, ZenonT(30)
    <3> QED
      BY <2>1, <3>3, IsAround, PutOrNone
  <2>3. CASE ~\E p \in IpEntries : Owner[p] = m /\ Lid[p] = l
    <3>1. SameReg
      BY <1>1, <2>3, IpIds DEF SameReg, TypeOK
    <3> QED
      BY <2>1, <3>1, IsStutter DEF Implemented
  <2> QED
    BY <2>2, <2>3
<1> QED
  BY <1>1, Refused DEF ip_control

\* A bit a flush clears belongs to an instance it got through, and there the
\* entry the bit stands for was sent.
LEMMA ClearedSent ==
  ASSUME TypeOK, Aligned, NEW stop \in Outcomes, flush_modules(stop),
         NEW p \in IpEntries, Pending(p), ~Pending(p)'
  PROVE  /\ Owner[p] \in Flushing /\ p \in Sent(stop, Owner[p])
         /\ Lid[p] + 1 \in Sendable(Owner[p]) /\ Lid[p] + 1 <= stop[Owner[p]]
<1>1. Owner[p] \in Done(stop)
  BY IpIds DEF flush_modules, Pending
<1>2. Owner[p] \in Flushing /\ ~(stop[Owner[p]] < Len(Table[Owner[p]]))
  BY <1>1 DEF Done, Failed
<1>3. /\ Lid[p] + 1 \in DOMAIN Table[Owner[p]]
      /\ Table[Owner[p]][Lid[p] + 1] = p /\ Owner[p] \in Wired
  BY DEF Aligned
<1>4. Lid[p] \in Nat /\ Lid[p] + 1 - 1 = Lid[p]
  <2>1. Lid[p] \in Nat
    BY IpIds, BoundsAssumption
  <2> QED
    BY <2>1
<1>5. Lid[p] + 1 \in Sendable(Owner[p])
  BY <1>3, <1>4, IpIds, ModulesAssumption DEF Sendable, Pending
<1>6. Lid[p] + 1 <= Len(Table[Owner[p]]) /\ Len(Table[Owner[p]]) \in Nat
  BY <1>3, IpIds, TablesAssumption, LenProperties
<1>7. stop[Owner[p]] \in Nat
  <2>1. stop[Owner[p]] \in Stops(Owner[p])
    BY <1>2 DEF Outcomes
  <2>2. \A i \in Sendable(Owner[p]) : i - 1 \in Nat
    BY IpIds, TablesAssumption, LenProperties DEF Sendable
  <2> QED
    BY <1>6, <2>1, <2>2 DEF Stops
<1>8. Lid[p] + 1 <= stop[Owner[p]]
  BY <1>2, <1>4, <1>6, <1>7
<1> QED
  BY <1>2, <1>3, <1>5, <1>8 DEF Sent

LEMMA FlushStep ==
  ASSUME TypeOK, PendingBitsReachable, Aligned, param_flush
  PROVE  Implemented
<1>1. ASSUME NEW stop \in Outcomes, flush_modules(stop),
             cache' = cache, initialized' = initialized
      PROVE  Implemented
  <2>1. \A m \in Modules :
          dirty_map'[m] = IF m \in Done(stop) /\ Kind[m] = "ip"
                          THEN {} ELSE dirty_map[m]
    BY <1>1 DEF flush_modules
  <2>2. \A m \in Modules : \A l \in Lids :
          hw'[m][l] = IF /\ m \in Flushing /\ Kind[m] = "ip"
                         /\ l + 1 \in Sendable(m) /\ l + 1 <= stop[m]
                      THEN cache[Table[m][l + 1]] ELSE hw[m][l]
    BY <1>1 DEF flush_modules
  <2>3. ASSUME NEW p \in IpEntries
        PROVE  /\ hw'[Owner[p]][Lid[p]] \in {hw[Owner[p]][Lid[p]], cache[p]}
               /\ Pending(p)' => Pending(p)
    BY <2>1, <2>2, IpIds DEF Aligned, Pending
  <2>4. ASSUME NEW p \in IpEntries, Pending(p), ~Pending(p)'
        PROVE  hw'[Owner[p]][Lid[p]] = cache[p]
    BY <1>1, <2>2, <2>4, ClearedSent, IpIds DEF Aligned
  <2>5. SameCache /\ SameOpen
    BY <1>1 DEF SameCache, SameOpen
  <2> QED
    BY <2>3, <2>4, <2>5, IsDeliver, PutOrNone
<1> QED
  BY <1>1, Refused DEF param_flush

\* A load puts values in the cache and sets the bits of all of them.
LEMMA LoadStep ==
  ASSUME TypeOK, TypeOK', Aligned, FoundListed,
         param_load_all \/ \E p \in Params : param_load_one(p)
  PROVE  Implemented
<1>1. ASSUME NEW S \in SUBSET hashed, NEW new, load_entries(S, new)
      PROVE  Implemented
  <2>1. SameReg /\ SameOpen
    BY <1>1 DEF load_entries, SameReg, SameOpen, registry
  <2>2. ASSUME NEW p \in IpEntries, cache'[p] # cache[p] \/ Pending(p)
        PROVE  Pending(p)'
    <3> DEFINE reg == {q \in {r \in S : ~App(r)} : Owner[q] \in Listed}
    <3>1. dirty_map'[Owner[p]] = dirty_map[Owner[p]] \cup
            {Lid[q] : q \in {r \in reg : Owner[r] = Owner[p]
                                         /\ Lid[r] < DirtyMapBits}}
      BY <1>1, IpIds DEF load_entries
    <3>2. CASE Pending(p)
      BY <3>1, <3>2 DEF Pending
    <3>3. CASE cache'[p] # cache[p]
      <4>1. p \in S
        BY <1>1, <3>3, IpIds DEF load_entries
      <4>2. p \in reg /\ Lid[p] < DirtyMapBits
        BY <4>1 DEF FoundListed, IpEntries, Aligned
      <4> QED
        BY <3>1, <4>2 DEF Pending
    <3> QED
      BY <2>2, <3>2, <3>3
  <2> QED
    BY <2>1, <2>2, IsPut, PutOrNone
<1>2. CASE param_load_all
  BY <1>1, <1>2, Refused DEF param_load_all, no_storage, Persistent
<1>3. ASSUME NEW p \in Params, param_load_one(p) PROVE Implemented
  <2>1. {p} \cap Persistent \in SUBSET hashed
    BY DEF Persistent
  <2> QED
    BY <1>1, <1>3, <2>1, Refused DEF param_load_one, no_storage
<1> QED
  BY <1>2, <1>3

\* An init callback hands over cached values.
LEMMA LoadInitStep ==
  ASSUME TypeOK, load_all_init
  PROVE  Implemented
<1>1. loader \in Modules
  BY DEF load_all_init, TypeOK
<1>2. PICK S \in SUBSET InitPush[loader] :
        hw' = [hw EXCEPT ![loader] =
                 [l \in Lids |->
                    IF \E p \in S : Lid[p] = l
                    THEN cache[CHOOSE p \in S : Lid[p] = l]
                    ELSE hw[loader][l]]]
  BY DEF load_all_init, run_init_cb
<1>3. ASSUME NEW p \in IpEntries
      PROVE  hw'[Owner[p]][Lid[p]] \in {hw[Owner[p]][Lid[p]], cache[p]}
  <2>1. CASE Owner[p] # loader
    BY <1>2, <2>1, IpIds DEF TypeOK
  <2>2. CASE Owner[p] = loader /\ ~\E q \in S : Lid[q] = Lid[p]
    BY <1>2, <2>2, IpIds DEF TypeOK
  <2>3. CASE Owner[p] = loader /\ \E q \in S : Lid[q] = Lid[p]
    <3> DEFINE q == CHOOSE r \in S : Lid[r] = Lid[p]
    <3>1. q \in S /\ Lid[q] = Lid[p]
      BY <2>3
    <3>2. q \in Params /\ Owner[q] = loader
      BY <1>1, <3>1, ParamsAssumption
    <3>3. q = p
      BY <2>3, <3>1, <3>2, IpIds, ParamsAssumption
    <3>4. hw'[Owner[p]][Lid[p]] = cache[q]
      BY <1>1, <1>2, <2>3, IpIds DEF TypeOK
    <3> QED
      BY <3>3, <3>4
  <2> QED
    BY <2>1, <2>2, <2>3
<1>4. dirty_map' = dirty_map
  BY DEF load_all_init, app_module_init
<1>5. SameCache /\ SameOpen
  BY DEF load_all_init, SameCache, SameOpen, registry
<1> QED
  BY <1>3, <1>4, <1>5, IsDeliver, PutOrNone DEF Pending

\* A reset puts the default in the cache and clears the bit.
LEMMA ResetStep ==
  ASSUME TypeOK, TypeOK', PendingBitsReachable, Aligned, FoundListed,
         param_reset_all \/ \E p \in Params : param_reset_one(p)
  PROVE  Implemented
<1>1. ASSUME initialized, param_reset_all, ~Refuse("reset_all", "NOT_FOUND")
      PROVE  Implemented
  <2>1. \A m \in Modules : dirty_map'[m] = {}
    BY <1>1 DEF param_reset_all, PendingBitsReachable
  <2>2. \A p \in IpEntries : ~Pending(p)'
    BY <2>1, IpIds DEF Pending
  <2>3. ASSUME NEW p \in IpEntries
        PROVE  /\ cache'[p] \in {cache[p], Default[p]}
               /\ Pending(p) => cache'[p] = Default[p]
    <3>1. cache'[p] = IF p \in hashed THEN Default[p] ELSE cache[p]
      BY <1>1, IpIds DEF param_reset_all
    <3>2. Pending(p) => p \in hashed
      <4>1. SUFFICES ASSUME Pending(p) PROVE p \in hashed
        OBVIOUS
      <4>2. PICK q \in hashed : Owner[q] = Owner[p] /\ Lid[q] = Lid[p]
        BY <4>1, IpIds DEF PendingBitsReachable, Pending
      <4> QED
        BY <4>2, IpIds, ParamsAssumption DEF TypeOK
    <3> QED
      BY <3>1, <3>2
  <2>4. SameReg /\ SameOpen
    BY <1>1 DEF param_reset_all, SameReg, SameOpen, registry
  <2> QED
    BY <2>2, <2>3, <2>4, IsReset, PutOrNone
<1>2. ASSUME NEW p \in Params, param_reset_one(p), ~not_found("reset_one", p)
      PROVE  Implemented
  <2>1. /\ p \in hashed /\ Owner[p] \in Listed
        /\ cache' = [cache EXCEPT ![p] = Default[p]]
    BY <1>2 DEF param_reset_one, Found, FoundListed
  <2>2. SameReg /\ SameOpen
    BY <1>2 DEF param_reset_one, SameReg, SameOpen, registry
  <2>3. CASE App(p)
    <3>1. clear_dirty(p)
      BY <1>2, <2>3 DEF param_reset_one
    <3>2. SameCache
      BY <2>1, <2>3, CacheElsewhere
    <3> QED
      BY <2>2, <2>3, <3>1, <3>2, MapCleared, IsStutter DEF Implemented
  <2>4. CASE ~App(p)
    <3>1. p \in IpEntries
      BY <2>4 DEF IpEntries
    <3>2. clear_bits(Owner[p], {Lid[p]})
      BY <1>2, <2>1, <2>4, <3>1 DEF param_reset_one, reset_bits, Aligned
    <3>3. \A q \in IpEntries : Pending(q)' <=> Pending(q) /\ q # p
      BY <3>1, <3>2, BitsGone
    <3>4. \A q \in IpEntries : cache'[q] = IF q = p THEN Default[q] ELSE cache[q]
      BY <2>1 DEF TypeOK, IpEntries
    <3> QED
      BY <2>2, <3>3, <3>4, IsReset, PutOrNone
  <2> QED
    BY <2>3, <2>4
<1> QED
  BY <1>1, <1>2, Refused DEF param_reset_all, not_found, param_reset_one, Found

\* Ranges concern App entries alone.
LEMMA RangeStep ==
  ASSUME TypeOK, param_validate_all \/ \E p \in Params : param_set_range(p)
  PROVE  Implemented
<1>1. ASSUME SameCache, UNCHANGED <<initialized, dirty_map, hw>>
      PROVE  Implemented
  <2>1. SameReg /\ SameOwed /\ SameOpen
    BY <1>1, MapKept DEF SameReg, SameOpen
  <2> QED
    BY <1>1, <2>1, IsStutter DEF Implemented
<1>2. CASE param_validate_all
  <2>1. SameCache
    BY <1>2, KindOf, ParamsAssumption
       DEF param_validate_all, SameCache, clamp, IpEntries, App
  <2> QED
    BY <1>1, <1>2, <2>1 DEF param_validate_all, registry, flags
<1>3. ASSUME NEW p \in Params, param_set_range(p) PROVE Implemented
  <2>1. CASE p \in Numeric
    <3>1. SameCache \/ \E op, ret : Refuse(op, ret)
      BY <1>3, <2>1, CacheElsewhere, ParamsAssumption DEF param_set_range, App
    <3> QED
      BY <1>1, <1>3, <3>1, Refused DEF param_set_range, registry, flags
  <2> QED
    BY <1>3, <2>1, Refused DEF param_set_range
<1> QED
  BY <1>2, <1>3

LEMMA StepImplemented ==
  ASSUME TypeOK, PendingBitsReachable, FoundListed, Aligned, [Next]_vars
  PROVE  Implemented
<1>0. TypeOK'
  BY TypeStep
<1>1. CASE UNCHANGED vars
  BY <1>1, Kept DEF vars, state, registry, flags
<1>2. ASSUME NEW m \in Modules, OnModule(m) PROVE Implemented
  BY <1>2, LifeCycleStep, ControlStep DEF OnModule
<1>3. ASSUME NEW p \in Params, OnEntry(p) PROVE Implemented
  <2>1. CASE param_load_one(p) \/ param_reset_one(p) \/ param_set_range(p)
    BY <1>0, <2>1, LoadStep, ResetStep, RangeStep
  <2>2. ASSUME NEW v \in Values, param_write(p, v) \/ param_write_raw(p, v)
                                   \/ param_write_immediate(p, v)
        PROVE  Implemented
    BY <1>0, <2>2, WriteStep, ImmediateStep
  <2>3. CASE param_exec(p)
    <3>1. PICK v \in Values : TRUE
      BY ParamsAssumption
    <3> QED
      BY <1>0, <2>3, <3>1, WriteStep
  <2> QED
    BY <1>3, <2>1, <2>2, <2>3 DEF OnEntry
<1>4. CASE OnAll
  BY <1>0, <1>4, LifeCycleStep, FlushStep, LoadStep, LoadInitStep, ResetStep,
     RangeStep DEF OnAll
<1> QED
  BY <1>1, <1>2, <1>3, <1>4 DEF Next

LEMMA InitImplemented ==
  Init => WB!Init
<1> SUFFICES ASSUME Init PROVE WB!Init
  OBVIOUS
<1>1. [p \in IpEntries |-> hw[Owner[p]][Lid[p]]] \in [IpEntries -> Values]
  BY IpIds DEF Init
<1>2. {p \in IpEntries : Pending(p)} = {}
  BY IpIds DEF Init, Pending
<1> QED
  BY <1>1, <1>2 DEF WB!Init, Init

\* For aligned tables that fit the hash, the IP subsystem is a write-back cache:
\* every behaviour of it is, seen through cache, registers and bits of the dirty
\* maps, a behaviour of module WriteBack.
THEOREM IpIsWriteBack ==
  ASSUME Aligned, TablesFit
  PROVE  Spec => WriteBackSpec
<1>1. Init => WB!Init
  BY InitImplemented
<1>2. Init => FoundListed
  BY DEF Init, FoundListed
<1>3. TypeOK /\ FoundListed /\ [Next]_vars => FoundListed'
  BY FoundListedStep
<1>4. TypeOK /\ PendingBitsReachable /\ FoundListed /\ [Next]_vars
        => [WB!Next]_(WB!vars)
  BY StepImplemented DEF Implemented
<1> QED
  BY <1>1, <1>2, <1>3, <1>4, TypeCorrect, BitsReachable, PTL
     DEF Spec, WriteBackSpec, WB!Spec

\* A flush that returns PARAM_OK failed in no module.
LEMMA FlushedAll ==
  ASSUME Next, call'.op = "flush", call'.ret = "OK"
  PROVE  \E stop \in Outcomes :
           flush_modules(stop) /\ Failed(stop) = {} /\ UNCHANGED <<list, cache>>
<1>1. param_flush
  BY CallRecord
<1> QED
  BY <1>1 DEF param_flush, Refuse, Return

\* What such a flush leaves of an entry whose bit was set.
LEMMA DeliveredAll ==
  ASSUME TypeOK, PendingBitsReachable, Aligned,
         NEW stop \in Outcomes, flush_modules(stop), Failed(stop) = {},
         NEW p \in IpEntries, Pending(p)
  PROVE  /\ ~Pending(p)'
         /\ p \in Flushed(stop)
         /\ hw'[Owner[p]][Lid[p]] = cache[p]
<1>1. Owner[p] \in Modules /\ Lid[p] \in Lids /\ Kind[Owner[p]] = "ip"
  BY IpIds
<1>2. Owner[p] \in Done(stop) /\ Owner[p] \in Flushing
  <2>1. Owner[p] \in Listed /\ Owner[p] \in mod_dirty
    BY <1>1 DEF PendingBitsReachable, Pending
  <2> QED
    BY <2>1 DEF Listed, Flushing, Done
<1>3. ~Pending(p)'
  BY <1>1, <1>2 DEF flush_modules, Pending
<1>4. /\ p \in Sent(stop, Owner[p])
      /\ Lid[p] + 1 \in Sendable(Owner[p]) /\ Lid[p] + 1 <= stop[Owner[p]]
  BY <1>3, ClearedSent
<1>5. hw'[Owner[p]][Lid[p]] = cache[Table[Owner[p]][Lid[p] + 1]]
  BY <1>1, <1>2, <1>4 DEF flush_modules
<1>6. p \in Flushed(stop)
  BY <1>1, <1>2, <1>4 DEF Flushed
<1> QED
  BY <1>3, <1>5, <1>6 DEF Aligned

\* For aligned tables, PARAM_OK from a flush means that the registers of all
\* that was pending hold the cached values and that nothing is pending.
THEOREM FlushDelivers ==
  ASSUME Aligned
  PROVE  Spec => FlushOkDelivers
<1>1. TypeOK /\ PendingBitsReachable /\ [Next]_vars =>
        [call'.op = "flush" /\ call'.ret = "OK" =>
           \A p \in IpEntries : Pending(p) =>
             ~Pending(p)' /\ hw'[Owner[p]][Lid[p]] = cache'[p]]_vars
  BY FlushedAll, DeliveredAll
<1> QED
  BY <1>1, TypeCorrect, BitsReachable, PTL DEF Spec, FlushOkDelivers
=============================================================================
