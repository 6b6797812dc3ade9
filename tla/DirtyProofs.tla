----------------------------- MODULE DirtyProofs ----------------------------
(***************************************************************************)
(* The dirty flags agree with each other, for applications that leave out  *)
(* the calls that part them.                                               *)
(***************************************************************************)
EXTENDS WriteBackProofs

-----------------------------------------------------------------------------
(* Without param_deinit, what is dirty can be found. *)

DirtyFound == dirty \subseteq hashed /\ (initialized \/ dirty = {})

\* Only entries in the hash of an initialized framework get dirty.
LEMMA FoundMarked ==
  ASSUME TypeOK, [Next]_vars
  PROVE  dirty' \subseteq dirty \/ (initialized /\ dirty' \subseteq dirty \cup hashed)
<1> DEFINE Marked ==
      dirty' \subseteq dirty \/ (initialized /\ dirty' \subseteq dirty \cup hashed)
<1>r. ASSUME NEW op, NEW ret, Refuse(op, ret) PROVE Marked
  BY <1>r DEF Refuse, state, flags
<1>1. CASE UNCHANGED vars
  BY <1>1 DEF vars, state, flags
<1>2. ASSUME NEW m \in Modules, OnModule(m) PROVE Marked
  BY <1>r, <1>2 DEF OnModule, param_module_register, ip_driver_register,
                    insert_module, ip_control, flags
<1>3. ASSUME NEW p \in Params, OnEntry(p) PROVE Marked
  <2>1. ASSUME NEW v \in Values, param_write(p, v) \/ param_write_raw(p, v)
        PROVE  Marked
    BY <1>r, <2>1 DEF param_write, param_write_raw, not_found, Found, entry_write,
                      app_write, ip_param_write, mark_entries
  <2>2. ASSUME NEW v \in Values, param_write_immediate(p, v) PROVE Marked
    BY <1>r, <2>2 DEF param_write_immediate, not_found, app_write_immediate,
                      ip_write_immediate, clear_entries
  <2>3. CASE param_exec(p) \/ param_set_range(p) \/ param_reset_one(p)
    BY <1>r, <2>3 DEF param_exec, param_set_range, param_reset_one, not_found,
                      clear_entries, flags
  <2>4. CASE param_load_one(p)
    BY <1>r, <2>4 DEF param_load_one, no_storage, load_entries, mark_entries,
                      Persistent
  <2> QED
    BY <1>3, <2>1, <2>2, <2>3, <2>4 DEF OnEntry
<1>4. CASE OnAll
  <2>1. CASE param_init \/ param_deinit \/ param_set_storage
    BY <1>r, <2>1 DEF param_init, param_deinit, param_set_storage, flags
  <2>2. CASE param_flush
    BY <1>r, <2>2 DEF param_flush, flush_modules, clear_entries
  <2>3. CASE param_check_flush_integrity \/ param_save \/ param_clear_stats
    BY <1>r, <2>3 DEF param_check_flush_integrity, param_save, no_storage,
                      param_clear_stats, flags
  <2>4. CASE param_load_all
    BY <1>r, <2>4 DEF param_load_all, no_storage, load_entries, mark_entries,
                      Persistent
  <2>5. CASE load_all_init \/ param_reset_all \/ param_validate_all
    BY <1>r, <2>5 DEF load_all_init, param_reset_all, param_validate_all,
                      clear_entries, flags
  <2> QED
    BY <1>4, <2>1, <2>2, <2>3, <2>4, <2>5 DEF OnAll
<1> QED
  BY <1>1, <1>2, <1>3, <1>4 DEF Next

\* Nothing but param_deinit closes the framework, and an open one keeps what
\* it has registered.
LEMMA StaysOpen ==
  ASSUME "deinit" \notin Calls, [Next]_vars, initialized
  PROVE  initialized' /\ hashed \subseteq hashed'
<1> DEFINE Open == initialized' = initialized /\ hashed \subseteq hashed'
<1>r. ASSUME NEW op, NEW ret, Refuse(op, ret) PROVE Open
  BY <1>r DEF Refuse, state, registry
<1>1. CASE UNCHANGED vars
  BY <1>1 DEF vars, state, registry
<1>2. ASSUME NEW m \in Modules, OnModule(m) PROVE Open
  BY <1>r, <1>2 DEF OnModule, param_module_register, ip_driver_register,
                    insert_module, ip_control, registry
<1>3. ASSUME NEW p \in Params, OnEntry(p) PROVE Open
  BY <1>r, <1>3 DEF OnEntry, param_write, param_write_raw,
       param_write_immediate, param_exec, param_load_one, param_reset_one,
       param_set_range, not_found, no_storage, load_entries, registry
<1>4. CASE OnAll
  BY <1>r, <1>4 DEF OnAll, param_init, param_set_storage, param_flush,
       param_check_flush_integrity, param_save, param_load_all, load_all_init,
       param_reset_all, param_validate_all, param_clear_stats, no_storage,
       load_entries, registry
<1> QED
  BY <1>1, <1>2, <1>3, <1>4 DEF Next

LEMMA DirtyFoundStep ==
  ASSUME "deinit" \notin Calls, TypeOK, DirtyFound, [Next]_vars
  PROVE  DirtyFound'
<1>1. CASE initialized
  BY <1>1, FoundMarked, StaysOpen DEF DirtyFound
<1>2. CASE ~initialized
  BY <1>2, FoundMarked DEF DirtyFound
<1> QED
  BY <1>1, <1>2

\* An entry whose dirty byte is set is in the hash of an initialized framework,
\* as long as nothing closes it: param_deinit leaves the bytes behind.
THEOREM DirtyAlwaysFound ==
  ASSUME "deinit" \notin Calls
  PROVE  Spec => []DirtyFound
<1>1. Init => DirtyFound
  BY DEF Init, DirtyFound
<1>2. TypeOK /\ DirtyFound /\ [Next]_vars => DirtyFound'
  BY DirtyFoundStep
<1> QED
  BY <1>1, <1>2, TypeCorrect, PTL DEF Spec

-----------------------------------------------------------------------------
(* The count. *)

\* For an application that never clears the statistics nor closes the
\* framework, dirty_count is the number of dirty parameters.
THEOREM CountExact ==
  ASSUME "deinit" \notin Calls, "clear_stats" \notin Calls
  PROVE  Spec => []DirtyCountExact
<1>1. Init => DirtyCountExact
  BY FS_EmptySet DEF Init, DirtyCountExact
<1>2. TypeOK /\ DirtyFound /\ DirtyCountExact /\ [Next]_vars => DirtyCountExact'
  <2> SUFFICES ASSUME TypeOK, DirtyFound, DirtyCountExact, [Next]_vars
               PROVE  DirtyCountExact'
    OBVIOUS
  <2>1. CASE UNCHANGED <<dirty, dirty_count>>
    BY <2>1 DEF DirtyCountExact
  <2>2. CASE Emptied
    BY <2>2, FS_EmptySet DEF Emptied, DirtyFound, DirtyCountExact
  <2>3. ASSUME NEW S \in SUBSET Params, mark_entries(S) PROVE DirtyCountExact'
    BY <2>3, MarkEntries DEF DirtyCountExact
  <2>4. ASSUME NEW S, clear_entries(S) PROVE DirtyCountExact'
    BY <2>4, ClearEntries DEF DirtyCountExact
  <2> QED
    BY <2>1, <2>2, <2>3, <2>4, CountMoves
<1> QED
  BY <1>1, <1>2, TypeCorrect, DirtyAlwaysFound, PTL DEF Spec

-----------------------------------------------------------------------------
(* Bytes and bits of IP entries. *)

\* No command is stored, so that none comes back dirty from a load.
CommandsNotStored == \A p \in IpCommands : "persist" \notin Flags[p]

\* A dirty IP entry has its bit set, and is no command.
BytesHaveBits == \A p \in dirty \cap IpEntries : Pending(p) /\ p \notin IpCommands

LEMMA BytesKept ==
  ASSUME BytesHaveBits, dirty' \subseteq dirty, SameOwed
  PROVE  BytesHaveBits'
  BY DEF BytesHaveBits, SameOwed

\* The calls that leave bytes and bits alone.
LEMMA BytesUnchanged ==
  ASSUME BytesHaveBits, UNCHANGED <<dirty, dirty_map>>
  PROVE  BytesHaveBits'
  BY MapKept, BytesKept

LEMMA BytesWrite ==
  ASSUME TypeOK, Aligned, FoundListed, BytesHaveBits,
         NEW p \in Params, NEW v \in Values,
         param_write(p, v) \/ param_write_raw(p, v)
  PROVE  BytesHaveBits'
<1>1. ASSUME entry_write(p, v), mark_dirty(p), p \in hashed
      PROVE  BytesHaveBits'
  <2>1. CASE App(p)
    <3>1. SameOwed /\ dirty' = dirty \cup {p} /\ p \notin IpEntries
      BY <1>1, <2>1, MapMarked
         DEF entry_write, app_write, mark_entries, IpEntries
    <3> QED
      BY <3>1 DEF BytesHaveBits, SameOwed
  <2>2. CASE ~App(p)
    <3>1. p \in IpEntries /\ Owner[p] \in Listed
      BY <1>1, <2>2 DEF IpEntries, FoundListed
    <3>2. dirty' = dirty \cup {p} /\ p \notin IpCommands
      BY <1>1, <2>2 DEF entry_write, ip_param_write, mark_entries, IpCommands
    <3>3. \A q \in IpEntries : Pending(q)' <=> Pending(q) \/ q = p
      BY <1>1, <3>1, MapMarked
    <3> QED
      BY <3>1, <3>2, <3>3 DEF BytesHaveBits
  <2> QED
    BY <2>1, <2>2
<1>2. ASSUME dirty' = dirty, mark_dirty(p), p \in hashed
      PROVE  BytesHaveBits'
  <2>1. CASE App(p)
    BY <1>2, <2>1, MapMarked, BytesKept
  <2>2. CASE ~App(p)
    <3>1. p \in IpEntries /\ Owner[p] \in Listed
      BY <1>2, <2>2 DEF IpEntries, FoundListed
    <3>2. \A q \in IpEntries : Pending(q)' <=> Pending(q) \/ q = p
      BY <1>2, <3>1, MapMarked
    <3> QED
      BY <1>2, <3>2 DEF BytesHaveBits
  <2> QED
    BY <2>1, <2>2
<1>3. ASSUME NEW op, NEW ret, Refuse(op, ret) PROVE BytesHaveBits'
  BY <1>3, BytesUnchanged DEF Refuse, state, flags
<1>4. CASE param_write(p, v)
  BY <1>1, <1>3, <1>4 DEF param_write, not_found, Found
<1>5. CASE param_write_raw(p, v)
  BY <1>1, <1>2, <1>3, <1>5 DEF param_write_raw, not_found, Found
<1> QED
  BY <1>4, <1>5

\* An immediate write and a reset clear byte and bit; a command has no byte.
LEMMA BytesCleared ==
  ASSUME TypeOK, Aligned, FoundListed, BytesHaveBits, NEW p \in Params,
         param_reset_one(p) \/ \E v \in Values : param_write_immediate(p, v)
  PROVE  BytesHaveBits'
<1>1. ASSUME p \in hashed, dirty' \subseteq dirty,
             p \in dirty' /\ p \in IpEntries => p \in IpCommands,
             \/ clear_dirty(p)
             \/ p \in IpEntries /\ clear_bits(Owner[p], {Lid[p]})
      PROVE  BytesHaveBits'
  <2>1. CASE App(p)
    <3>1. p \notin IpEntries
      BY <2>1 DEF IpEntries
    <3> QED
      BY <1>1, <2>1, <3>1, MapCleared, BytesKept
  <2>2. CASE ~App(p)
    <3>1. p \in IpEntries /\ Owner[p] \in Listed
      BY <1>1, <2>2 DEF IpEntries, FoundListed
    <3>2. \A q \in IpEntries : Pending(q)' <=> Pending(q) /\ q # p
      BY <1>1, <3>1, MapCleared, BitsGone
    <3> QED
      BY <1>1, <3>1, <3>2 DEF BytesHaveBits
  <2> QED
    BY <2>1, <2>2
<1>2. ASSUME NEW op, NEW ret, Refuse(op, ret) PROVE BytesHaveBits'
  BY <1>2, BytesUnchanged DEF Refuse, state, flags
<1>3. CASE param_reset_one(p) /\ ~not_found("reset_one", p)
  <2>1. p \in hashed /\ Owner[p] \in Listed /\ dirty' = dirty \ {p}
    BY <1>3 DEF param_reset_one, Found, FoundListed, clear_entries
  <2>2. CASE App(p)
    BY <1>1, <1>3, <2>1, <2>2 DEF param_reset_one
  <2>3. CASE ~App(p)
    <3>1. p \in IpEntries
      BY <2>3 DEF IpEntries
    <3>2. clear_bits(Owner[p], {Lid[p]})
      BY <1>3, <2>1, <2>3, <3>1 DEF param_reset_one, reset_bits, Aligned
    <3> QED
      BY <1>1, <2>1, <3>1, <3>2
  <2> QED
    BY <2>2, <2>3
<1>4. ASSUME NEW v \in Values, param_write_immediate(p, v)
      PROVE  BytesHaveBits'
  <2>1. CASE /\ Found(p) /\ clear_dirty(p)
             /\ \/ app_write_immediate(p, v) \/ ip_write_immediate(p, v)
                \/ ~App(p) /\ "exec" \in Flags[p] /\ UNCHANGED dirty
    <3>1. p \in hashed /\ dirty' \subseteq dirty
      BY <2>1 DEF Found, app_write_immediate, ip_write_immediate, clear_entries
    <3>2. p \in dirty' /\ p \in IpEntries => p \in IpCommands
      BY <2>1 DEF app_write_immediate, ip_write_immediate, clear_entries,
                  IpCommands
    <3> QED
      BY <1>1, <2>1, <3>1, <3>2
  <2> QED
    BY <1>2, <1>4, <2>1 DEF param_write_immediate, not_found
<1> QED
  BY <1>2, <1>3, <1>4 DEF not_found

\* A flush that clears a bit has sent the entry and cleared its byte.
LEMMA BytesFlush ==
  ASSUME TypeOK, Aligned, BytesHaveBits, param_flush
  PROVE  BytesHaveBits'
<1>1. ASSUME NEW stop \in Outcomes, flush_modules(stop)
      PROVE  BytesHaveBits'
  <2>1. dirty' = dirty \ Flushed(stop)
    BY <1>1 DEF flush_modules, clear_entries
  <2>2. ASSUME NEW p \in dirty' \cap IpEntries
        PROVE  Pending(p)' /\ p \notin IpCommands
    <3>1. Pending(p) /\ p \notin IpCommands
      BY <2>1, <2>2 DEF BytesHaveBits
    <3>2. CASE ~Pending(p)'
      <4>1. Owner[p] \in Flushing /\ p \in Sent(stop, Owner[p])
        BY <1>1, <3>1, <3>2, ClearedSent
      <4>2. p \in Flushed(stop)
        BY <4>1, IpIds DEF Flushed
      <4> QED
        BY <2>1, <2>2, <4>2
    <3> QED
      BY <3>1, <3>2
  <2> QED
    BY <2>2 DEF BytesHaveBits
<1> QED
  BY <1>1, BytesUnchanged DEF param_flush, Refuse, state, flags

\* A load sets byte and bit of what it loads.
LEMMA BytesLoad ==
  ASSUME TypeOK, Aligned, FoundListed, CommandsNotStored, BytesHaveBits,
         param_load_all \/ \E p \in Params : param_load_one(p)
  PROVE  BytesHaveBits'
<1>1. ASSUME NEW S \in SUBSET Persistent, NEW new, load_entries(S, new)
      PROVE  BytesHaveBits'
  <2> DEFINE reg == {q \in {r \in S : ~App(r)} : Owner[q] \in Listed}
  <2>1. dirty' = dirty \cup {q \in S : ~App(q)}
    BY <1>1 DEF load_entries, mark_entries
  <2>2. ASSUME NEW p \in dirty' \cap IpEntries
        PROVE  Pending(p)' /\ p \notin IpCommands
    <3>1. dirty_map'[Owner[p]] = dirty_map[Owner[p]] \cup
            {Lid[q] : q \in {r \in reg : Owner[r] = Owner[p]
                                         /\ Lid[r] < DirtyMapBits}}
      BY <1>1, IpIds DEF load_entries
    <3>2. CASE p \in dirty
      BY <2>2, <3>1, <3>2 DEF Pending, BytesHaveBits
    <3>3. CASE p \in S
      <4>1. p \in reg /\ Lid[p] < DirtyMapBits
        BY <2>2, <3>3 DEF FoundListed, IpEntries, Aligned, Persistent
      <4>2. Pending(p)'
        BY <3>1, <4>1 DEF Pending
      <4>3. p \notin IpCommands
        BY <3>3 DEF CommandsNotStored, Persistent
      <4> QED
        BY <4>2, <4>3
    <3> QED
      BY <2>1, <2>2, <3>2, <3>3
  <2> QED
    BY <2>2 DEF BytesHaveBits
<1>2. ASSUME NEW op, NEW ret, Refuse(op, ret) PROVE BytesHaveBits'
  BY <1>2, BytesUnchanged DEF Refuse, state, flags
<1>3. CASE param_load_all
  BY <1>1, <1>2, <1>3 DEF param_load_all, no_storage
<1>4. ASSUME NEW p \in Params, param_load_one(p) PROVE BytesHaveBits'
  <2>1. {p} \cap Persistent \in SUBSET Persistent
    OBVIOUS
  <2> QED
    BY <1>1, <1>2, <1>4, <2>1 DEF param_load_one, no_storage
<1> QED
  BY <1>3, <1>4

LEMMA BytesStep ==
  ASSUME "deinit" \notin Calls, TypeOK, Aligned, FoundListed, DirtyFound,
         CommandsNotStored, BytesHaveBits, [Next]_vars
  PROVE  BytesHaveBits'
<1>r. ASSUME NEW op, NEW ret, Refuse(op, ret) PROVE BytesHaveBits'
  BY <1>r, BytesUnchanged DEF Refuse, state, flags
<1>1. CASE UNCHANGED vars
  BY <1>1, BytesUnchanged DEF vars, state, flags
<1>2. ASSUME NEW m \in Modules, OnModule(m) PROVE BytesHaveBits'
  BY <1>r, <1>2, BytesUnchanged
     DEF OnModule, param_module_register, ip_driver_register, insert_module,
         ip_control, flags
<1>3. ASSUME NEW p \in Params, OnEntry(p) PROVE BytesHaveBits'
  <2>1. ASSUME NEW v \in Values, param_write(p, v) \/ param_write_raw(p, v)
        PROVE  BytesHaveBits'
    BY <2>1, BytesWrite
  <2>2. CASE \/ param_reset_one(p)
             \/ \E v \in Values : param_write_immediate(p, v)
    BY <2>2, BytesCleared
  <2>3. CASE param_load_one(p)
    BY <2>3, BytesLoad
  <2>4. CASE param_exec(p) \/ param_set_range(p)
    BY <1>r, <2>4, BytesUnchanged DEF param_exec, param_set_range, flags
  <2> QED
    BY <1>3, <2>1, <2>2, <2>3, <2>4 DEF OnEntry
<1>4. CASE OnAll
  <2>1. CASE \/ param_init \/ param_set_storage \/ load_all_init
             \/ param_check_flush_integrity \/ param_save
             \/ param_validate_all \/ param_clear_stats
    BY <1>r, <2>1, BytesUnchanged
       DEF param_init, param_set_storage, param_check_flush_integrity, param_save,
           no_storage, load_all_init, app_module_init, param_validate_all,
           param_clear_stats, flags
  <2>2. CASE param_flush \/ param_load_all
    BY <2>2, BytesFlush, BytesLoad
  <2>3. CASE param_reset_all
    <3>1. CASE dirty' = dirty \ hashed
      BY <3>1 DEF DirtyFound, BytesHaveBits
    <3> QED
      BY <1>r, <2>3, <3>1 DEF param_reset_all, clear_entries
  <2> QED
    BY <1>4, <2>1, <2>2, <2>3 DEF OnAll
<1> QED
  BY <1>1, <1>2, <1>3, <1>4 DEF Next

\* For aligned tables that fit the hash and commands that are not stored, an
\* application that never closes the framework has the bit set of every IP
\* entry whose dirty byte is set.
THEOREM BytesPending ==
  ASSUME Aligned, TablesFit, CommandsNotStored, "deinit" \notin Calls
  PROVE  Spec => []DirtyBytePending
<1>1. Init => FoundListed /\ BytesHaveBits
  BY DEF Init, FoundListed, BytesHaveBits
<1>2. TypeOK /\ DirtyFound /\ FoundListed /\ BytesHaveBits /\ [Next]_vars
        => FoundListed' /\ BytesHaveBits'
  BY FoundListedStep, BytesStep
<1>3. TypeOK /\ BytesHaveBits => DirtyBytePending
  BY DEF TypeOK, BytesHaveBits, DirtyBytePending, IpEntries
<1> QED
  BY <1>1, <1>2, <1>3, TypeCorrect, DirtyAlwaysFound, PTL DEF Spec

-----------------------------------------------------------------------------
(* Bytes of App entries and the flag of their module. *)

\* An entry in the hash comes from its module's table.
FoundInTable == \A p \in hashed : p \in Entries(Owner[p])

\* A dirty App entry has its module flagged, listed or not, and is in the
\* table app_module_clear_dirty looks through.
FlaggedInTable ==
  \A p \in dirty : App(p) => Owner[p] \in mod_dirty /\ p \in Entries(Owner[p])

NotLoading == loader = None

LEMMA FoundInTableStep ==
  ASSUME TypeOK, TablesFit, FoundInTable, [Next]_vars
  PROVE  FoundInTable'
<1>1. ASSUME NEW m \in Modules, insert_module(m) PROVE FoundInTable'
  <2>1. /\ hashed' = hashed \cup Entries(m)
        /\ \A p \in Entries(m) : Owner[p] = m
    BY <1>1, WholeTable
  <2>2. \A p \in hashed' : p \in Entries(Owner[p])
    BY <2>1 DEF FoundInTable
  <2> QED
    BY <2>2 DEF FoundInTable, Entries
<1>2. CASE SameRegistry \/ hashed' = {}
  BY <1>2 DEF FoundInTable, SameRegistry, Entries
<1> QED
  BY <1>1, <1>2, RegistryMoves

LEMMA NotLoadingStep ==
  ASSUME "load_all" \notin Calls, NotLoading, [Next]_vars
  PROVE  NotLoading'
<1>r. ASSUME NEW op, NEW ret, Refuse(op, ret) PROVE loader' = loader
  BY <1>r DEF Refuse, state
<1>1. CASE UNCHANGED vars
  BY <1>1 DEF vars, state, NotLoading
<1>2. ASSUME NEW m \in Modules, OnModule(m) PROVE loader' = loader
  BY <1>r, <1>2 DEF OnModule, param_module_register, ip_driver_register,
                    insert_module, ip_control
<1>3. ASSUME NEW p \in Params, OnEntry(p) PROVE loader' = loader
  BY <1>r, <1>3 DEF OnEntry, param_write, param_write_raw,
       param_write_immediate, param_exec, param_load_one, param_reset_one,
       param_set_range, not_found, no_storage
<1>4. CASE OnAll
  BY <1>r, <1>4 DEF OnAll, param_init, param_deinit, param_set_storage,
       param_flush, param_check_flush_integrity, param_save, load_all_init,
       param_reset_all, param_validate_all, param_clear_stats, no_storage,
       NotLoading
<1> QED
  BY <1>1, <1>2, <1>3, <1>4 DEF Next, NotLoading

\* Nothing new is dirty and no App module loses its flag.
LEMMA AppFlagsKept ==
  ASSUME FlaggedInTable, \A p \in dirty' : App(p) => p \in dirty,
         \A m \in mod_dirty : Kind[m] = "app" => m \in mod_dirty'
  PROVE  FlaggedInTable'
  BY DEF FlaggedInTable, App, Entries

\* What the core does to the module flag after an entry operation.
LEMMA AppFlagsOfEntry ==
  ASSUME TypeOK, FoundListed, FoundInTable, FlaggedInTable,
         NEW p \in hashed,
         \/ mark_dirty(p) /\ dirty' \subseteq dirty \cup {p}
         \/ /\ dirty' \subseteq dirty
            /\ \/ clear_dirty(p)
               \/ ~App(p) /\ \E bits : clear_bits(Owner[p], bits)
  PROVE  FlaggedInTable'
<1>0. p \in Params /\ Owner[p] \in Listed /\ p \in Entries(Owner[p])
  BY DEF FoundListed, FoundInTable, TypeOK
<1>1. CASE mark_dirty(p) /\ dirty' \subseteq dirty \cup {p}
  <2>1. mod_dirty' = mod_dirty \cup {Owner[p]}
    BY <1>0, <1>1 DEF mark_dirty, app_module_mark_dirty, ip_module_mark_dirty
  <2> QED
    BY <1>0, <1>1, <2>1 DEF FlaggedInTable, Entries, App
<1>2. CASE dirty' \subseteq dirty /\ App(p) /\ clear_dirty(p)
  <2>1. mod_dirty' = IF Entries(Owner[p]) \cap dirty' = {}
                     THEN mod_dirty \ {Owner[p]} ELSE mod_dirty
    BY <1>0, <1>2 DEF clear_dirty, app_module_clear_dirty
  <2>2. ASSUME NEW q \in dirty', App(q)
        PROVE  Owner[q] \in mod_dirty' /\ q \in Entries(Owner[q])
    BY <1>2, <2>1, <2>2 DEF FlaggedInTable
  <2> QED
    BY <2>2 DEF FlaggedInTable, App, Entries
<1>3. CASE dirty' \subseteq dirty /\ ~App(p)
  <2>1. mod_dirty \ {Owner[p]} \subseteq mod_dirty'
    BY <1>0, <1>3 DEF clear_dirty, ip_module_clear_dirty, clear_bits,
       mark_dirty, ip_module_mark_dirty
  <2> QED
    BY <1>3, <2>1, AppFlagsKept DEF App
<1> QED
  BY <1>1, <1>2, <1>3

LEMMA AppFlagsUnchanged ==
  ASSUME FlaggedInTable, UNCHANGED <<dirty, mod_dirty>>
  PROVE  FlaggedInTable'
  BY AppFlagsKept

LEMMA AppFlagsEntryStep ==
  ASSUME TypeOK, FoundListed, FoundInTable, FlaggedInTable,
         NEW p \in Params, OnEntry(p)
  PROVE  FlaggedInTable'
<1>r. ASSUME NEW op, NEW ret, Refuse(op, ret) PROVE FlaggedInTable'
  BY <1>r, AppFlagsUnchanged DEF Refuse, state, flags
<1>1. ASSUME NEW v \in Values, param_write(p, v) \/ param_write_raw(p, v)
      PROVE  FlaggedInTable'
  <2>1. CASE p \in hashed /\ mark_dirty(p) /\ dirty' \subseteq dirty \cup {p}
    BY <2>1, AppFlagsOfEntry
  <2> QED
    BY <1>r, <1>1, <2>1 DEF param_write, param_write_raw, not_found, Found,
       entry_write, app_write, ip_param_write, mark_entries
<1>2. ASSUME NEW v \in Values, param_write_immediate(p, v)
      PROVE  FlaggedInTable'
  <2>1. CASE p \in hashed /\ clear_dirty(p) /\ dirty' \subseteq dirty
    BY <2>1, AppFlagsOfEntry
  <2> QED
    BY <1>r, <1>2, <2>1 DEF param_write_immediate, not_found, Found,
       app_write_immediate, ip_write_immediate, clear_entries
<1>3. CASE param_reset_one(p)
  <2>1. CASE /\ p \in hashed /\ dirty' \subseteq dirty
             /\ \/ clear_dirty(p)
                \/ ~App(p) /\ \E bits : clear_bits(Owner[p], bits)
    BY <2>1, AppFlagsOfEntry
  <2> QED
    BY <1>r, <1>3, <2>1 DEF param_reset_one, not_found, Found, clear_entries
<1>4. CASE param_load_one(p)
  BY <1>r, <1>4, AppFlagsKept
     DEF param_load_one, no_storage, load_entries, mark_entries
<1>5. CASE param_exec(p) \/ param_set_range(p)
  BY <1>r, <1>5, AppFlagsUnchanged DEF param_exec, param_set_range, flags
<1> QED
  BY <1>1, <1>2, <1>3, <1>4, <1>5 DEF OnEntry

LEMMA AppFlagsStep ==
  ASSUME TypeOK, "load_all" \notin Calls, FoundListed, FoundInTable,
         RegistryConsistent, NotLoading, FlaggedInTable, [Next]_vars
  PROVE  FlaggedInTable'
<1>r. ASSUME NEW op, NEW ret, Refuse(op, ret) PROVE FlaggedInTable'
  BY <1>r, AppFlagsUnchanged DEF Refuse, state, flags
<1>1. CASE UNCHANGED vars
  BY <1>1, AppFlagsUnchanged DEF vars, state, flags
<1>2. ASSUME NEW m \in Modules, OnModule(m) PROVE FlaggedInTable'
  BY <1>r, <1>2, AppFlagsUnchanged
     DEF OnModule, param_module_register, ip_driver_register, insert_module,
         ip_control, flags
<1>3. ASSUME NEW p \in Params, OnEntry(p) PROVE FlaggedInTable'
  BY <1>3, AppFlagsEntryStep
<1>4. ASSUME NEW stop \in Outcomes, flush_modules(stop) PROVE FlaggedInTable'
  <2>1. /\ dirty' = dirty \ Flushed(stop)
        /\ mod_dirty' = mod_dirty \ {m \in Done(stop) :
                                       Kind[m] = "app" \/ dirty_map[m] # {}}
    BY <1>4 DEF flush_modules, clear_entries
  <2>2. ASSUME NEW p \in dirty', App(p)
        PROVE  Owner[p] \in mod_dirty' /\ p \in Entries(Owner[p])
    <3>1. Owner[p] \in mod_dirty /\ p \in Entries(Owner[p])
      BY <2>1, <2>2 DEF FlaggedInTable
    <3>2. Owner[p] \notin Done(stop)
      BY <2>1, <2>2, <3>1 DEF Flushed, Done, App
    <3> QED
      BY <2>1, <3>1, <3>2
  <2> QED
    BY <2>2 DEF FlaggedInTable, App, Entries
<1>5. ASSUME dirty' = dirty \ hashed, mod_dirty' = mod_dirty \ Listed
      PROVE  FlaggedInTable'
  <2>1. ASSUME NEW p \in dirty', App(p)
        PROVE  Owner[p] \in mod_dirty' /\ p \in Entries(Owner[p])
    BY <1>5, <2>1 DEF FlaggedInTable, RegistryConsistent
  <2> QED
    BY <2>1 DEF FlaggedInTable, App, Entries
<1>6. CASE OnAll
  <2>1. CASE \/ param_init \/ param_deinit \/ param_set_storage
             \/ param_check_flush_integrity \/ param_save
             \/ param_validate_all \/ param_clear_stats
    BY <1>r, <2>1, AppFlagsUnchanged
       DEF param_init, param_deinit, param_set_storage,
           param_check_flush_integrity, param_save, no_storage,
           param_validate_all, param_clear_stats, flags
  <2>2. CASE param_flush
    BY <1>r, <1>4, <2>2 DEF param_flush
  <2>3. CASE param_reset_all
    BY <1>r, <1>5, <2>3 DEF param_reset_all, clear_entries
  <2>4. ~load_all_init
    BY DEF load_all_init, NotLoading
  <2> QED
    BY <1>6, <2>1, <2>2, <2>3, <2>4 DEF OnAll
<1> QED
  BY <1>1, <1>2, <1>3, <1>6 DEF Next

\* For tables that fit the hash and an application that never calls
\* param_load_all, every dirty App entry has its module flagged, whatever
\* writes, resets, flushes that fail and closings it goes through.
THEOREM AppFlagged ==
  ASSUME TablesFit, "load_all" \notin Calls
  PROVE  Spec => []AppDirtyFlagged
<1>1. Init => FoundListed /\ FoundInTable /\ NotLoading /\ FlaggedInTable
  BY DEF Init, FoundListed, FoundInTable, NotLoading, FlaggedInTable
<1>2. TypeOK /\ FoundListed /\ FoundInTable /\ RegistryConsistent /\ NotLoading
        /\ FlaggedInTable /\ [Next]_vars
        => FoundListed' /\ FoundInTable' /\ NotLoading' /\ FlaggedInTable'
  BY FoundListedStep, FoundInTableStep, NotLoadingStep, AppFlagsStep
<1>3. FlaggedInTable => AppDirtyFlagged
  BY DEF FlaggedInTable, AppDirtyFlagged
<1> QED
  BY <1>1, <1>2, <1>3, TypeCorrect, Consistent, PTL DEF Spec

-----------------------------------------------------------------------------
(* What PARAM_OK from a flush says about the bytes. *)

LEMMA NothingDirtyLeft ==
  ASSUME TypeOK, PendingBitsReachable, Aligned, FlaggedInTable,
         BytesHaveBits \/ IpEntries = {},
         NEW stop \in Outcomes, flush_modules(stop), Failed(stop) = {},
         NEW p \in dirty', Owner[p] \in Listed
  PROVE  FALSE
<1>1. p \in dirty /\ p \notin Flushed(stop) /\ p \in Params
  BY DEF flush_modules, clear_entries, TypeOK
<1>2. CASE App(p)
  <2>1. Owner[p] \in mod_dirty /\ p \in Entries(Owner[p])
    BY <1>1, <1>2 DEF FlaggedInTable
  <2>2. Owner[p] \in Flushing /\ Owner[p] \in Done(stop)
    BY <2>1 DEF Listed, Flushing, Done
  <2>3. Kind[Owner[p]] = "app"
    BY <1>2 DEF App
  <2> QED
    BY <1>1, <2>1, <2>2, <2>3 DEF Flushed
<1>3. CASE ~App(p)
  <2>1. p \in IpEntries /\ Pending(p)
    BY <1>1, <1>3 DEF IpEntries, BytesHaveBits
  <2> QED
    BY <1>1, <2>1, DeliveredAll
<1> QED
  BY <1>2, <1>3

\* For aligned tables that fit the hash and commands that are not stored,
\* PARAM_OK from a flush means that no entry of a listed module is dirty, when
\* the application never calls param_load_all, and never param_deinit unless
\* it has App modules only.
THEOREM FlushLeavesClean ==
  ASSUME Aligned, TablesFit, CommandsNotStored, "load_all" \notin Calls,
         "deinit" \notin Calls \/ IpEntries = {}
  PROVE  Spec => FlushOkLeavesClean
<1>1. Init => /\ FoundListed /\ FoundInTable /\ NotLoading /\ FlaggedInTable
              /\ BytesHaveBits
  BY DEF Init, FoundListed, FoundInTable, NotLoading, FlaggedInTable,
         BytesHaveBits
<1>2. TypeOK /\ FoundListed /\ FoundInTable /\ RegistryConsistent /\ NotLoading
        /\ FlaggedInTable /\ [Next]_vars
        => FoundListed' /\ FoundInTable' /\ NotLoading' /\ FlaggedInTable'
  BY FoundListedStep, FoundInTableStep, NotLoadingStep, AppFlagsStep
<1> DEFINE Clean == call'.op = "flush" /\ call'.ret = "OK" =>
                      \A p \in dirty' : Owner[p] \notin Listed
<1>3. TypeOK /\ PendingBitsReachable /\ FlaggedInTable
        /\ (BytesHaveBits \/ IpEntries = {}) /\ [Next]_vars => [Clean]_vars
  BY FlushedAll, NothingDirtyLeft
<1>4. CASE "deinit" \notin Calls
  <2>1. TypeOK /\ DirtyFound /\ FoundListed /\ BytesHaveBits /\ [Next]_vars
          => BytesHaveBits'
    BY <1>4, BytesStep
  <2>2. Spec => []DirtyFound
    BY <1>4, DirtyAlwaysFound
  <2> QED
    BY <1>1, <1>2, <1>3, <2>1, <2>2, TypeCorrect, BitsReachable, Consistent, PTL
       DEF Spec, FlushOkLeavesClean
<1>5. CASE IpEntries = {}
  <2>1. TypeOK /\ PendingBitsReachable /\ FlaggedInTable /\ [Next]_vars => [Clean]_vars
    BY <1>3, <1>5
  <2> QED
    BY <1>1, <1>2, <2>1, TypeCorrect, BitsReachable, Consistent, PTL
       DEF Spec, FlushOkLeavesClean
<1> QED
  BY <1>4, <1>5

-----------------------------------------------------------------------------
(* Commands and flushes. *)

\* No command has its bit set.
NoCommandBits == \A p \in IpCommands : ~Pending(p)

\* Bits are added for ordinary entries alone.
LEMMA OrdinaryBits ==
  ASSUME NoCommandBits,
         \A m \in Modules : \A l \in dirty_map'[m] :
           \/ l \in dirty_map[m]
           \/ \E q \in IpEntries \ IpCommands : Owner[q] = m /\ Lid[q] = l
  PROVE  NoCommandBits'
<1> SUFFICES ASSUME NEW p \in IpCommands, Pending(p)' PROVE FALSE
  BY DEF NoCommandBits
<1>1. p \in IpEntries /\ Owner[p] \in Modules /\ Lid[p] \in dirty_map'[Owner[p]]
  BY IpIds DEF IpCommands, Pending
<1>2. PICK q \in IpEntries \ IpCommands : Owner[q] = Owner[p] /\ Lid[q] = Lid[p]
  BY <1>1 DEF NoCommandBits, Pending
<1> QED
  BY <1>1, <1>2, IpIds

LEMMA NoNewBits ==
  ASSUME NoCommandBits, \A m \in Modules : dirty_map'[m] \subseteq dirty_map[m]
  PROVE  NoCommandBits'
  BY OrdinaryBits

LEMMA ClearedBits ==
  ASSUME TypeOK, NoCommandBits, NEW p \in Params,
         clear_dirty(p) \/ \E bits : clear_bits(Owner[p], bits)
  PROVE  NoCommandBits'
<1>1. \A m \in Modules : dirty_map'[m] \subseteq dirty_map[m]
  BY DEF clear_dirty, app_module_clear_dirty, ip_module_clear_dirty, clear_bits,
         TypeOK
<1> QED
  BY <1>1, NoNewBits

LEMMA LoadedBits ==
  ASSUME CommandsNotStored, NoCommandBits,
         NEW S \in SUBSET (Persistent \cap Params), NEW new, load_entries(S, new)
  PROVE  NoCommandBits'
<1>1. ASSUME NEW m \in Modules, NEW l \in dirty_map'[m], l \notin dirty_map[m]
      PROVE  \E q \in IpEntries \ IpCommands : Owner[q] = m /\ Lid[q] = l
  <2>1. PICK q \in S : ~App(q) /\ Owner[q] = m /\ Lid[q] = l
    BY <1>1 DEF load_entries
  <2>2. q \in IpEntries \ IpCommands
    BY <2>1 DEF IpEntries, Persistent, CommandsNotStored
  <2> QED
    BY <2>1, <2>2
<1> QED
  BY <1>1, OrdinaryBits

LEMMA CommandBitsEntryStep ==
  ASSUME "write_raw" \notin Calls, TypeOK, CommandsNotStored, NoCommandBits,
         NEW p \in Params, OnEntry(p)
  PROVE  NoCommandBits'
<1>u. ASSUME UNCHANGED dirty_map PROVE NoCommandBits'
  BY <1>u, NoNewBits
<1>r. ASSUME NEW op, NEW ret, Refuse(op, ret) PROVE NoCommandBits'
  BY <1>r, <1>u DEF Refuse, state, flags
<1>1. ASSUME NEW v \in Values, param_write(p, v) PROVE NoCommandBits'
  <2>1. CASE entry_write(p, v) /\ mark_dirty(p)
    <3>1. CASE App(p) \/ Owner[p] \notin Listed
      BY <1>u, <2>1, <3>1 DEF mark_dirty, app_module_mark_dirty
    <3>2. CASE ~App(p) /\ Owner[p] \in Listed
      <4>1. p \in IpEntries \ IpCommands
        BY <2>1, <3>2 DEF entry_write, ip_param_write, IpEntries, IpCommands
      <4>2. \A m \in Modules : \A l \in dirty_map'[m] :
              l \in dirty_map[m] \/ (m = Owner[p] /\ l = Lid[p])
        BY <2>1, <3>2 DEF mark_dirty, ip_module_mark_dirty, TypeOK
      <4> QED
        BY <4>1, <4>2, OrdinaryBits
    <3> QED
      BY <3>1, <3>2
  <2> QED
    BY <1>r, <1>1, <2>1 DEF param_write, not_found
<1>2. ASSUME NEW v \in Values, param_write_immediate(p, v) PROVE NoCommandBits'
  BY <1>r, <1>2, ClearedBits DEF param_write_immediate, not_found
<1>3. CASE param_reset_one(p)
  BY <1>r, <1>3, ClearedBits DEF param_reset_one, not_found
<1>4. CASE param_load_one(p)
  <2>1. {p} \cap Persistent \in SUBSET (Persistent \cap Params)
    OBVIOUS
  <2> QED
    BY <1>r, <1>4, <2>1, LoadedBits DEF param_load_one, no_storage
<1>5. CASE param_exec(p) \/ param_set_range(p)
  BY <1>r, <1>u, <1>5 DEF param_exec, param_set_range, flags
<1> QED
  BY <1>1, <1>2, <1>3, <1>4, <1>5 DEF OnEntry

LEMMA CommandBitsStep ==
  ASSUME "write_raw" \notin Calls, TypeOK, CommandsNotStored, NoCommandBits,
         [Next]_vars
  PROVE  NoCommandBits'
<1>u. ASSUME UNCHANGED dirty_map PROVE NoCommandBits'
  BY <1>u, NoNewBits
<1>r. ASSUME NEW op, NEW ret, Refuse(op, ret) PROVE NoCommandBits'
  BY <1>r, <1>u DEF Refuse, state, flags
<1>1. CASE UNCHANGED vars
  BY <1>u, <1>1 DEF vars, state, flags
<1>2. ASSUME NEW m \in Modules, OnModule(m) PROVE NoCommandBits'
  BY <1>r, <1>u, <1>2 DEF OnModule, param_module_register, ip_driver_register,
                          insert_module, ip_control, flags
<1>3. ASSUME NEW p \in Params, OnEntry(p) PROVE NoCommandBits'
  BY <1>3, CommandBitsEntryStep
<1>4. ASSUME \A m \in Modules : dirty_map'[m] \in {{}, dirty_map[m]}
      PROVE  NoCommandBits'
  BY <1>4, NoNewBits
<1>5. CASE OnAll
  <2>1. CASE \/ param_init \/ param_set_storage \/ load_all_init
             \/ param_check_flush_integrity \/ param_save
             \/ param_validate_all \/ param_clear_stats
    BY <1>r, <1>u, <2>1
       DEF param_init, param_set_storage, param_check_flush_integrity, param_save,
           no_storage, load_all_init, app_module_init, param_validate_all,
           param_clear_stats, flags
  <2>2. CASE param_deinit \/ param_reset_all
    BY <1>r, <1>4, <2>2 DEF param_deinit, param_reset_all
  <2>3. CASE param_flush
    BY <1>r, <1>4, <2>3 DEF param_flush, flush_modules
  <2>4. CASE param_load_all
    <3>1. ASSUME NEW S \in SUBSET Persistent PROVE S \in SUBSET (Persistent \cap Params)
      BY DEF Persistent, TypeOK
    <3> QED
      BY <1>r, <2>4, <3>1, LoadedBits DEF param_load_all, no_storage
  <2> QED
    BY <1>5, <2>1, <2>2, <2>3, <2>4 DEF OnAll
<1> QED
  BY <1>1, <1>2, <1>3, <1>5 DEF Next

\* A flush writes no command register as long as the application does not send
\* commands through param_write_raw and none is stored: the counterexample of
\* run ip_command is the only way, but for a load.
THEOREM CommandsNeverFlushed ==
  ASSUME "write_raw" \notin Calls, CommandsNotStored
  PROVE  Spec => CommandNotFlushed
<1>1. Init => NoCommandBits
  BY IpIds DEF Init, NoCommandBits, IpCommands, Pending
<1>2. TypeOK /\ NoCommandBits /\ [Next]_vars => NoCommandBits'
  BY CommandBitsStep
<1>3. TypeOK /\ NoCommandBits /\ [Next]_vars =>
        [call'.op = "flush" =>
           \A p \in IpCommands : hw'[Owner[p]][Lid[p]] = hw[Owner[p]][Lid[p]]]_vars
  <2> SUFFICES ASSUME TypeOK, NoCommandBits, Next, call'.op = "flush",
                      NEW p \in IpCommands
               PROVE  hw'[Owner[p]][Lid[p]] = hw[Owner[p]][Lid[p]]
    OBVIOUS
  <2>1. p \in IpEntries /\ Owner[p] \in Modules /\ Lid[p] \in Lids
    BY IpIds DEF IpCommands
  <2>2. Lid[p] \in Nat /\ Lid[p] + 1 - 1 = Lid[p]
    BY <2>1, BoundsAssumption
  <2>3. Lid[p] + 1 \notin Sendable(Owner[p])
    BY <2>2 DEF Sendable, NoCommandBits, Pending
  <2>4. param_flush
    BY CallRecord
  <2> QED
    BY <2>1, <2>3, <2>4 DEF param_flush, Refuse, state, flush_modules
<1> QED
  BY <1>1, <1>2, <1>3, TypeCorrect, PTL DEF Spec, CommandNotFlushed
=============================================================================
