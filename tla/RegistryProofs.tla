-------------------------- MODULE RegistryProofs ----------------------------
(***************************************************************************)
(* The registry when the hash has a place for every entry: no registration *)
(* stops half way then, and table, hash, list and counts agree.            *)
(***************************************************************************)
EXTENDS ParamManagerProofs

\* With room for every entry no registration stops half way, so an entry that
\* can be found belongs to a listed module.
FoundListed == \A p \in hashed : Owner[p] \in Listed

-----------------------------------------------------------------------------
(* Tables and hash. *)

\* The empty-slot count of a table is no more than its entries.
LEMMA PrefixCount ==
  ASSUME NEW m \in Modules, NEW j \in DOMAIN Table[m]
  PROVE  /\ Cardinality({k \in 1 .. j : Table[m][k] # NoEntry}) \in Nat
         /\ Cardinality(Entries(m)) \in Nat
         /\ Cardinality({k \in 1 .. j : Table[m][k] # NoEntry})
              <= Cardinality(Entries(m))
<1> DEFINE K == {k \in 1 .. j : Table[m][k] # NoEntry}
           f == [k \in K |-> Table[m][k]]
<1>1. /\ Len(Table[m]) \in Nat /\ DOMAIN Table[m] = 1 .. Len(Table[m])
  BY TablesAssumption, LenProperties
<1>2. j \in Nat /\ 1 .. j \subseteq DOMAIN Table[m]
  BY <1>1
<1>3. IsFiniteSet(K)
  <2>1. IsFiniteSet(1 .. j)
    BY <1>2, FS_Interval
  <2> QED
    BY <2>1, FS_Subset
<1>4. Entries(m) \subseteq Params /\ IsFiniteSet(Entries(m))
  <2>1. Entries(m) \subseteq Params
    BY TablesAssumption DEF Entries
  <2> QED
    BY <2>1, FS_Subset, ModulesAssumption
<1>5. \A k \in K : f[k] \in Entries(m)
  BY <1>2 DEF Entries
<1>6. \A k, l \in K : f[k] = f[l] => k = l
  BY <1>2, TablesAssumption
<1>7. f \in Injection(K, Entries(m))
  BY <1>5, <1>6 DEF Injection, IsInjective
<1> HIDE DEF K, f
<1>8. Cardinality(K) <= Cardinality(Entries(m))
  BY <1>3, <1>4, <1>7, FS_Injection
<1> QED
  BY <1>3, <1>4, <1>8, FS_CardinalityType DEF K

-----------------------------------------------------------------------------
(* A registration. *)

\* There is room for the whole table.
LEMMA RoomForAll ==
  ASSUME TypeOK, TablesFit, NEW m \in Modules, insert_module(m)
  PROVE  Cardinality(Entries(m)) <= HashSize - Cardinality(hashed)
<1>1. Entries(m) \subseteq Params
  BY TablesAssumption DEF Entries
<1>2. /\ IsFiniteSet(Entries(m)) /\ IsFiniteSet(hashed)
      /\ IsFiniteSet(Params)
  BY <1>1, DirtyFinite, ModulesAssumption DEF TypeOK
<1>3. Entries(m) \cap hashed = {}
  BY DEF insert_module
<1>4. Cardinality(Entries(m) \cup hashed)
        = Cardinality(Entries(m)) + Cardinality(hashed)
  <2>1. Cardinality(Entries(m) \cap hashed) = 0
    BY <1>3, FS_EmptySet
  <2>2. Cardinality(Entries(m)) \in Nat /\ Cardinality(hashed) \in Nat
    BY <1>2, FS_CardinalityType
  <2>3. Cardinality(Entries(m) \cup hashed)
          = Cardinality(Entries(m)) + Cardinality(hashed)
              - Cardinality(Entries(m) \cap hashed)
    BY <1>2, FS_Union
  <2> QED
    BY <2>1, <2>2, <2>3
<1>5. Cardinality(Entries(m) \cup hashed) <= Cardinality(Params)
  BY <1>1, <1>2, FS_Subset DEF TypeOK
<1> QED
  BY <1>2, <1>4, <1>5, FS_CardinalityType, BoundsAssumption DEF TablesFit

\* So all of it gets into the hash, and the module into the list.
LEMMA WholeTable ==
  ASSUME TypeOK, TablesFit, NEW m \in Modules, insert_module(m)
  PROVE  /\ hashed' = hashed \cup Entries(m)
         /\ list' = node_insert(m) /\ Listed' = Listed \cup {m}
         /\ \A p \in Entries(m) : p \in Params /\ Owner[p] = m
         /\ stats' =
              [stats EXCEPT
                 !.module_count = @ + 1, !.param_count = @ + Len(Table[m]),
                 !.persist_count =
                   @ + Cardinality({p \in Entries(m) : "persist" \in Flags[p]})]
<1> DEFINE room == HashSize - Cardinality(hashed)
<1>1. Cardinality(Entries(m)) <= room
  BY RoomForAll
<1>2. list' = node_insert(m) /\ Listed' = Listed \cup {m}
  BY <1>1, InsertedListed DEF insert_module
<1>3. \A p \in Entries(m) : p \in Params /\ Owner[p] = m
  BY TablesAssumption DEF Entries
<1>4. FirstEntries(m, room) = Entries(m)
  <2>0. room \in Int
    <3>1. hashed \in SUBSET Params
      BY DEF TypeOK
    <3>2. Cardinality(hashed) \in Nat
      BY <3>1, DirtyFinite
    <3> QED
      BY <3>2, BoundsAssumption
  <2> HIDE DEF room
  <2>1. \A j \in DOMAIN Table[m] :
          Cardinality({k \in 1 .. j : Table[m][k] # NoEntry}) <= room
    BY <1>1, <2>0, PrefixCount
  <2> QED
    BY <2>1 DEF FirstEntries, Entries
<1> QED
  BY <1>1, <1>2, <1>3, <1>4 DEF insert_module

LEMMA RegisteredListed ==
  ASSUME TypeOK, FoundListed, TablesFit, NEW m \in Modules, insert_module(m)
  PROVE  FoundListed'
  BY WholeTable DEF FoundListed

-----------------------------------------------------------------------------
(* Every step. *)

SameRegistry ==
  /\ UNCHANGED <<list, hashed>>
  /\ stats'.module_count = stats.module_count
  /\ stats'.persist_count = stats.persist_count

\* Only registration, init and deinit change the registry.
LEMMA RegistryMoves ==
  ASSUME TypeOK, [Next]_vars
  PROVE  \/ SameRegistry
         \/ list' = <<>> /\ hashed' = {} /\ stats' = NoStats
         \/ \E m \in Modules : insert_module(m)
<1> DEFINE Kept == SameRegistry
<1>u. UNCHANGED <<list, hashed, stats>> => Kept
  BY DEF SameRegistry
<1>r. ASSUME NEW op, NEW ret, Refuse(op, ret) PROVE Kept
  BY <1>u, <1>r DEF Refuse, state, registry
<1>1. CASE UNCHANGED vars
  BY <1>u, <1>1 DEF vars, state, registry
<1>2. ASSUME NEW m \in Modules, OnModule(m)
      PROVE  Kept \/ insert_module(m)
  BY <1>r, <1>u, <1>2 DEF OnModule, param_module_register, ip_driver_register,
                    ip_control, registry
<1>3. ASSUME NEW p \in Params, OnEntry(p) PROVE Kept
  BY <1>r, <1>u, <1>3 DEF OnEntry, param_write, param_write_raw,
       param_write_immediate, param_exec, param_load_one, param_reset_one,
       param_set_range, not_found, no_storage, load_entries, registry
<1>4. CASE OnAll
  <2>1. CASE param_init \/ param_deinit
    BY <1>r, <2>1 DEF param_init, param_deinit
  <2>2. CASE param_flush \/ param_check_flush_integrity \/ param_clear_stats
    BY <1>r, <2>2 DEF param_flush, param_check_flush_integrity,
                      param_clear_stats, SameRegistry, TypeOK, Stats
  <2>3. CASE param_set_storage \/ param_save \/ param_load_all \/ load_all_init
             \/ param_reset_all \/ param_validate_all
    BY <1>r, <1>u, <2>3 DEF param_set_storage, param_save, param_load_all,
       load_all_init, param_reset_all, param_validate_all, no_storage,
       load_entries, registry
  <2> QED
    BY <1>4, <2>1, <2>2, <2>3 DEF OnAll
<1> QED
  BY <1>1, <1>2, <1>3, <1>4 DEF Next

LEMMA FoundListedStep ==
  ASSUME TypeOK, FoundListed, TablesFit, [Next]_vars
  PROVE  FoundListed'
<1>1. CASE UNCHANGED <<list, hashed>>
  BY <1>1 DEF FoundListed, Listed
<1>2. CASE hashed' = {}
  BY <1>2 DEF FoundListed
<1> QED
  BY <1>1, <1>2, RegistryMoves, RegisteredListed DEF SameRegistry

-----------------------------------------------------------------------------
(* The registry agrees with itself. *)

\* Listed entries that are to be stored: what persist_count counts.
Stored(h, l) == {p \in h : Owner[p] \in l /\ "persist" \in Flags[p]}

\* A registration adds the stored entries of its table, which were not there.
LEMMA StoredAdded ==
  ASSUME TypeOK, TablesFit, FoundListed, NEW m \in Modules, insert_module(m)
  PROVE  Cardinality(Stored(hashed', Listed')) =
           Cardinality(Stored(hashed, Listed)) +
           Cardinality({p \in Entries(m) : "persist" \in Flags[p]})
<1> DEFINE new == {p \in Entries(m) : "persist" \in Flags[p]}
           old == Stored(hashed, Listed)
<1>1. /\ hashed' = hashed \cup Entries(m) /\ Listed' = Listed \cup {m}
      /\ \A p \in Entries(m) : p \in Params /\ Owner[p] = m
  BY WholeTable
<1>2. old \cap new = {}
  BY DEF insert_module, Stored
<1>3. Stored(hashed', Listed') = old \cup new
  BY <1>1 DEF Stored, FoundListed
<1>4. old \in SUBSET Params /\ new \in SUBSET Params
  BY <1>1 DEF Stored, TypeOK
<1> HIDE DEF old, new
<1>5. /\ IsFiniteSet(old) /\ IsFiniteSet(new)
      /\ Cardinality(old) \in Nat /\ Cardinality(new) \in Nat
  BY <1>4, DirtyFinite
<1>6. Cardinality(old \cap new) = 0
  BY <1>2, FS_EmptySet
<1>7. Cardinality(old \cup new) =
        Cardinality(old) + Cardinality(new) - Cardinality(old \cap new)
  BY <1>5, FS_Union
<1> QED
  BY <1>3, <1>5, <1>6, <1>7 DEF old, new

LEMMA ConsistentStep ==
  ASSUME TypeOK, TablesFit, FoundListed, RegistryConsistent, [Next]_vars
  PROVE  RegistryConsistent'
<1>0. FoundListed'
  BY FoundListedStep
<1>1. CASE SameRegistry
  BY <1>1 DEF SameRegistry, RegistryConsistent, Listed
<1>2. CASE list' = <<>> /\ hashed' = {} /\ stats' = NoStats
  <2>1. Listed' = {} /\ Len(list') = 0
    BY <1>2 DEF Listed
  <2>2. Cardinality({p \in hashed' : Owner[p] \in Listed'
                                     /\ "persist" \in Flags[p]}) = 0
    BY <1>2, FS_EmptySet
  <2> QED
    BY <1>2, <2>1, <2>2 DEF RegistryConsistent, NoStats
<1>3. ASSUME NEW m \in Modules, insert_module(m) PROVE RegistryConsistent'
  <2>1. /\ hashed' = hashed \cup Entries(m) /\ Listed' = Listed \cup {m}
        /\ list' = node_insert(m)
    BY <1>3, WholeTable
  <2>2. \A n \in Listed' : Entries(n) \subseteq hashed'
    BY <2>1 DEF RegistryConsistent
  <2> DEFINE n == Cardinality({p \in Entries(m) : "persist" \in Flags[p]})
             s1 == [stats EXCEPT !.module_count = @ + 1]
             s2 == [s1 EXCEPT !.param_count = @ + Len(Table[m])]
             s3 == [s2 EXCEPT !.persist_count = @ + n]
  <2>a. stats' = s3
    BY <1>3, WholeTable
  <2>b. /\ stats \in Stats
        /\ stats.module_count = Len(list)
        /\ stats.persist_count = Cardinality(Stored(hashed, Listed))
    BY DEF TypeOK, RegistryConsistent, Stored
  <2>c. Cardinality(Stored(hashed', Listed'))
          = Cardinality(Stored(hashed, Listed)) + n
    BY <1>3, StoredAdded
  <2> HIDE DEF n
  <2>3. stats'.module_count = Len(list')
    <3>1. s3.module_count = stats.module_count + 1
      <4>1. s1.module_count = stats.module_count + 1
        BY <2>b DEF Stats
      <4>2. s2.module_count = s1.module_count
        BY <2>b DEF Stats
      <4>3. s3.module_count = s2.module_count
        BY <2>b DEF Stats
      <4> QED
        BY <4>1, <4>2, <4>3
    <3>2. Len(list') = Len(list) + 1
      BY <2>1, NodeInsert
    <3> QED
      BY <2>a, <2>b, <3>1, <3>2
  <2>4. stats'.persist_count = Cardinality(Stored(hashed', Listed'))
    <3>1. s3.persist_count = s2.persist_count + n
      BY <2>b DEF Stats
    <3>2. s2.persist_count = s1.persist_count
      BY <2>b DEF Stats
    <3>3. s1.persist_count = stats.persist_count
      BY <2>b DEF Stats
    <3> QED
      BY <2>a, <2>b, <2>c, <3>1, <3>2, <3>3
  <2> QED
    BY <1>0, <2>2, <2>3, <2>4 DEF RegistryConsistent, FoundListed, Stored
<1> QED
  BY <1>1, <1>2, <1>3, RegistryMoves

\* With a hash that has a place for every entry, hash, tables, list and counts
\* agree through every order of registrations, before and after param_init.
THEOREM Consistent ==
  ASSUME TablesFit
  PROVE  Spec => []RegistryConsistent
<1>1. Init => FoundListed /\ RegistryConsistent
  <2> SUFFICES ASSUME Init PROVE FoundListed /\ RegistryConsistent
    OBVIOUS
  <2>1. hashed = {} /\ Listed = {} /\ Len(list) = 0 /\ stats = NoStats
    BY DEF Init, Listed
  <2>2. Cardinality({p \in hashed : Owner[p] \in Listed
                                    /\ "persist" \in Flags[p]}) = 0
    BY <2>1, FS_EmptySet
  <2> QED
    BY <2>1, <2>2 DEF FoundListed, RegistryConsistent, NoStats
<1>2. TypeOK /\ FoundListed /\ RegistryConsistent /\ [Next]_vars
        => FoundListed' /\ RegistryConsistent'
  BY FoundListedStep, ConsistentStep
<1> QED
  BY <1>1, <1>2, TypeCorrect, PTL DEF Spec

-----------------------------------------------------------------------------
(* The init phase of param_load_all. *)

\* What follows a node in the list does not come before it in the order.
LEMMA NextInOrder ==
  ASSUME TypeOK, ListOrdered, NEW m \in Modules, NextNode(m) # None
  PROVE  Order[m] <= Order[NextNode(m)]
<1> DEFINE after == {list[i] : i \in {j \in DOMAIN list :
                                        j > 1 /\ list[j - 1] = m}}
<1>1. NextNode(m) \in after
  BY DEF NextNode
<1>2. PICK i \in DOMAIN list : i > 1 /\ list[i - 1] = m /\ NextNode(m) = list[i]
  BY <1>1
<1>3. DOMAIN list = 1 .. Len(list) /\ Len(list) \in Nat
  BY LenProperties DEF TypeOK
<1>4. i - 1 \in DOMAIN list /\ i - 1 < i
  BY <1>2, <1>3
<1> QED
  BY <1>2, <1>4 DEF ListOrdered

\* Only the two steps of param_load_all move the loader.
LEMMA LoaderMoves ==
  ASSUME [Next]_vars
  PROVE  \/ loader' = loader \/ loader = None
         \/ loader # None /\ loader' = NextNode(loader)
<1> DEFINE Moves == \/ loader' = loader \/ loader = None
                    \/ loader # None /\ loader' = NextNode(loader)
<1>r. ASSUME NEW op, NEW ret, Refuse(op, ret) PROVE Moves
  BY <1>r DEF Refuse, state
<1>1. CASE UNCHANGED vars
  BY <1>1 DEF vars, state
<1>2. ASSUME NEW m \in Modules, OnModule(m) PROVE Moves
  BY <1>r, <1>2 DEF OnModule, param_module_register, ip_driver_register,
                    insert_module, ip_control
<1>3. ASSUME NEW p \in Params, OnEntry(p) PROVE Moves
  BY <1>r, <1>3 DEF OnEntry, param_write, param_write_raw,
       param_write_immediate, param_exec, param_load_one, param_reset_one,
       param_set_range, not_found, no_storage
<1>4. CASE OnAll
  BY <1>r, <1>4 DEF OnAll, param_init, param_deinit, param_set_storage,
       param_flush, param_check_flush_integrity, param_save, param_load_all,
       load_all_init, param_reset_all, param_validate_all, param_clear_stats,
       no_storage
<1> QED
  BY <1>1, <1>2, <1>3, <1>4 DEF Next

\* param_load_all initializes modules in MODULE_INIT_ORDER whatever registers
\* between two init callbacks.
THEOREM InitInOrder == Spec => InitFollowsOrder
<1>1. TypeOK /\ ListOrdered /\ [Next]_vars =>
        [loader # None /\ loader' \notin {None, loader}
           => Order[loader] <= Order[loader']]_vars
  BY LoaderMoves, NextInOrder DEF TypeOK
<1> QED
  BY <1>1, TypeCorrect, OrderKept, PTL DEF Spec, InitFollowsOrder
=============================================================================
