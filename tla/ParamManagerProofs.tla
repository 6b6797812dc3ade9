------------------------- MODULE ParamManagerProofs -------------------------
(***************************************************************************)
(* Theorems about the parameter manager, for every set of modules and      *)
(* parameters, every table layout and every sequence of calls.             *)
(***************************************************************************)
EXTENDS ParamProperties, FiniteSetTheorems, SequenceTheorems, TLAPS

-----------------------------------------------------------------------------
(* The helpers. *)

\* The dirty set is finite, so that it has a count.
LEMMA DirtyFinite ==
  ASSUME TypeOK, NEW S \in SUBSET Params
  PROVE  IsFiniteSet(S) /\ Cardinality(S) \in Nat
  BY ModulesAssumption, FS_Subset, FS_CardinalityType

\* Marking entries adds the newly dirty ones to the count.
LEMMA MarkEntries ==
  ASSUME TypeOK, NEW S \in SUBSET Params, mark_entries(S)
  PROVE  /\ dirty' \subseteq Params
         /\ dirty_count' \in Nat
         /\ DirtyCountBounded => DirtyCountBounded'
         /\ DirtyCountExact => DirtyCountExact'
<1>1. /\ IsFiniteSet(dirty) /\ IsFiniteSet(S \ dirty)
      /\ Cardinality(dirty) \in Nat /\ Cardinality(S \ dirty) \in Nat
  BY DirtyFinite DEF TypeOK
<1>2. Cardinality(dirty \cup (S \ dirty)) =
        Cardinality(dirty) + Cardinality(S \ dirty)
  <2>1. dirty \cap (S \ dirty) = {}
    OBVIOUS
  <2>2. Cardinality(dirty \cup (S \ dirty)) =
          Cardinality(dirty) + Cardinality(S \ dirty)
            - Cardinality(dirty \cap (S \ dirty))
    BY <1>1, FS_Union
  <2> QED
    BY <1>1, <2>1, <2>2, FS_EmptySet
<1>3. dirty' = dirty \cup (S \ dirty)
  BY DEF mark_entries
<1> QED
  <2>1. Cardinality(dirty)' = Cardinality(dirty) + Cardinality(S \ dirty)
    BY <1>2, <1>3
  <2> QED
    BY <1>1, <2>1 DEF mark_entries, TypeOK, DirtyCountBounded, DirtyCountExact

\* Clearing entries takes no more from the count than from the set.
LEMMA ClearEntries ==
  ASSUME TypeOK, NEW S, clear_entries(S)
  PROVE  /\ dirty' \subseteq Params
         /\ dirty_count' \in Nat
         /\ DirtyCountBounded => DirtyCountBounded'
         /\ DirtyCountExact => DirtyCountExact'
<1>1. /\ IsFiniteSet(dirty) /\ Cardinality(dirty) \in Nat
      /\ Cardinality(S \cap dirty) \in Nat /\ Cardinality(dirty \ S) \in Nat
  BY DirtyFinite DEF TypeOK
<1>2. Cardinality(dirty \ S) = Cardinality(dirty) - Cardinality(dirty \cap S)
  BY <1>1, FS_Difference
<1>3. dirty \cap S = S \cap dirty
  OBVIOUS
<1> QED
  <2>1. Cardinality(dirty)' = Cardinality(dirty) - Cardinality(S \cap dirty)
    BY <1>2, <1>3 DEF clear_entries
  <2> QED
    BY <1>1, <2>1 DEF clear_entries, Less, TypeOK, DirtyCountBounded,
       DirtyCountExact

\* A sequence of length n has n positions.
LEMMA Positions ==
  ASSUME NEW n \in Nat
  PROVE  IsFiniteSet(1 .. n) /\ Cardinality(1 .. n) = n
<1>1. IsFiniteSet(1 .. n) /\ Cardinality(1 .. n) = IF 1 > n THEN 0 ELSE n - 1 + 1
  BY FS_Interval
<1> QED
  BY <1>1

\* A set of positions with no gap before any of them is 1 .. its size.
LEMMA LeadingPositions ==
  ASSUME NEW n \in Nat, NEW I \in SUBSET (1 .. n),
         \A i \in I : \A j \in 1 .. i : j \in I
  PROVE  Cardinality(I) \in 0 .. n /\ I = 1 .. Cardinality(I)
<1>1. /\ IsFiniteSet(I) /\ Cardinality(I) <= Cardinality(1 .. n)
  BY Positions, FS_Subset
<1>2. Cardinality(I) \in 0 .. n
  BY <1>1, Positions, FS_CardinalityType
<1>3. ASSUME NEW i \in I PROVE i <= Cardinality(I)
  <2>1. i \in Nat /\ 1 .. i \subseteq I
    OBVIOUS
  <2>2. Cardinality(1 .. i) <= Cardinality(I)
    BY <1>1, <2>1, FS_Subset
  <2> QED
    BY <2>1, <2>2, Positions
<1>4. I \in SUBSET (1 .. Cardinality(I))
  BY <1>2, <1>3
<1>5. IsFiniteSet(1 .. Cardinality(I))
      /\ Cardinality(1 .. Cardinality(I)) = Cardinality(I)
  BY <1>2, Positions
<1> QED
  BY <1>2, <1>4, <1>5, FS_Subset

\* node_insert puts m right after the first k nodes.
InsertedAfter(m, k) ==
  \A i \in 1 .. Len(list) + 1 :
    node_insert(m)[i] = IF i <= k THEN list[i]
                        ELSE IF i = k + 1 THEN m ELSE list[i - 1]

\* The first k nodes, and no more, do not come later than m in the order.
Leading(m, k) ==
  /\ \A i \in 1 .. k : Order[list[i]] <= Order[m]
  /\ k < Len(list) => ~ \A i \in 1 .. k + 1 : Order[list[i]] <= Order[m]

\* A node goes after the leading nodes that do not come later in the order;
\* every other node keeps its place before or after it.
LEMMA NodeInsert ==
  ASSUME TypeOK, NEW m \in Modules
  PROVE  /\ node_insert(m) \in Seq(Modules)
         /\ Len(node_insert(m)) = Len(list) + 1
         /\ \E k \in 0 .. Len(list) : InsertedAfter(m, k) /\ Leading(m, k)
<1> DEFINE I == {i \in DOMAIN list :
                   \A j \in 1 .. i : Order[list[j]] <= Order[m]}
           k == Cardinality(I)
           l1 == SubSeq(list, 1, k)
           l2 == SubSeq(list, k + 1, Len(list))
<1>1. /\ Len(list) \in Nat /\ DOMAIN list = 1 .. Len(list)
      /\ \A i \in 1 .. Len(list) : list[i] \in Modules
  BY LenProperties, ElementOfSeq DEF TypeOK
<1>2. k \in 0 .. Len(list) /\ I = 1 .. k
  <2>1. I \in SUBSET (1 .. Len(list))
    BY <1>1
  <2>2. \A i \in I : \A j \in 1 .. i : j \in I
    BY <1>1
  <2> HIDE DEF I
  <2> QED
    BY <1>1, <2>1, <2>2, LeadingPositions
<1>3. node_insert(m) = l1 \o <<m>> \o l2
  BY DEF node_insert
<1>4. \A i \in 1 .. k : Order[list[i]] <= Order[m]
  <2> SUFFICES ASSUME NEW i \in 1 .. k PROVE Order[list[i]] <= Order[m]
    OBVIOUS
  <2>1. i \in I
    BY <1>2
  <2>2. i \in 1 .. i
    BY <1>2
  <2> QED
    BY <2>1, <2>2
<1>5. k < Len(list) => ~ \A i \in 1 .. k + 1 : Order[list[i]] <= Order[m]
  <2> SUFFICES ASSUME k < Len(list),
                      \A i \in 1 .. k + 1 : Order[list[i]] <= Order[m]
               PROVE  FALSE
    OBVIOUS
  <2>1. k + 1 \in 1 .. Len(list)
    BY <1>1, <1>2
  <2>2. k + 1 \in I
    BY <1>1, <2>1
  <2> HIDE DEF I
  <2> QED
    BY <1>2, <2>2
<1> HIDE DEF k
<1>6. /\ l1 \in Seq(Modules) /\ Len(l1) = k
      /\ \A i \in 1 .. k : l1[i] = list[i]
  <2>1. \A i \in 1 .. k : list[i] \in Modules
    BY <1>1, <1>2
  <2>2. /\ l1 \in Seq(Modules) /\ Len(l1) = IF 1 <= k THEN k - 1 + 1 ELSE 0
        /\ \A i \in 1 .. k - 1 + 1 : l1[i] = list[1 + i - 1]
    BY <1>2, <2>1, SubSeqProperties
  <2> QED
    BY <1>2, <2>2
<1>7. /\ l2 \in Seq(Modules) /\ Len(l2) = Len(list) - k
      /\ \A i \in 1 .. Len(list) - k : l2[i] = list[k + i]
  <2>1. \A i \in k + 1 .. Len(list) : list[i] \in Modules
    BY <1>1, <1>2
  <2>2. /\ l2 \in Seq(Modules)
        /\ Len(l2) = IF k + 1 <= Len(list) THEN Len(list) - (k + 1) + 1 ELSE 0
        /\ \A i \in 1 .. Len(list) - (k + 1) + 1 : l2[i] = list[k + 1 + i - 1]
    BY <1>1, <1>2, <2>1, SubSeqProperties
  <2> HIDE DEF l2
  <2>3. Len(l2) = Len(list) - k
    <3>1. Len(l2) = IF k + 1 <= Len(list) THEN Len(list) - (k + 1) + 1 ELSE 0
      BY <2>2
    <3>2. k \in Int /\ Len(list) \in Int /\ k <= Len(list)
      BY <1>1, <1>2
    <3>3. CASE k + 1 <= Len(list)
      BY <3>1, <3>2, <3>3
    <3>4. CASE ~(k + 1 <= Len(list))
      BY <3>1, <3>2, <3>4
    <3> QED
      BY <3>3, <3>4
  <2>4. ASSUME NEW i \in 1 .. Len(list) - k PROVE l2[i] = list[k + i]
    <3>1. i \in 1 .. Len(list) - (k + 1) + 1 /\ k + 1 + i - 1 = k + i
      BY <1>1, <1>2
    <3> QED
      BY <2>2, <3>1
  <2> QED
    BY <2>2, <2>3, <2>4
<1> DEFINE l3 == l1 \o <<m>>
<1> HIDE DEF l1, l2
<1>8. /\ <<m>> \in Seq(Modules) /\ Len(<<m>>) = 1 /\ <<m>>[1] = m
  OBVIOUS
<1>9. /\ l1 \o <<m>> \in Seq(Modules) /\ Len(l1 \o <<m>>) = k + 1
      /\ \A i \in 1 .. k + 1 :
           (l1 \o <<m>>)[i] = IF i <= k THEN list[i] ELSE m
  <2>1. /\ l1 \o <<m>> \in Seq(Modules) /\ Len(l1 \o <<m>>) = Len(l1) + Len(<<m>>)
        /\ \A i \in 1 .. Len(l1) + Len(<<m>>) :
             (l1 \o <<m>>)[i] = IF i <= Len(l1) THEN l1[i] ELSE <<m>>[i - Len(l1)]
    BY <1>6, <1>8, ConcatProperties
  <2> QED
    BY <1>2, <1>6, <1>8, <2>1
<1>10. /\ node_insert(m) \in Seq(Modules)
       /\ Len(node_insert(m)) = Len(l3) + Len(l2)
       /\ \A i \in 1 .. Len(l3) + Len(l2) :
            node_insert(m)[i] = IF i <= Len(l3) THEN l3[i]
                                ELSE l2[i - Len(l3)]
  <2>1. node_insert(m) = l3 \o l2
    BY <1>3
  <2>2. l3 \in Seq(Modules)
    BY <1>9
  <2> HIDE DEF l3
  <2> QED
    <3>1. l2 \in Seq(Modules)
      BY <1>7
    <3> QED
      BY <2>1, <2>2, <3>1, ConcatProperties
<1>11. /\ Len(node_insert(m)) = Len(list) + 1
       /\ \A i \in 1 .. Len(list) + 1 :
            node_insert(m)[i] = IF i <= k THEN list[i]
                                ELSE IF i = k + 1 THEN m ELSE list[i - 1]
  <2>1. Len(l3) = k + 1 /\ \A i \in 1 .. k + 1 :
                             l3[i] = IF i <= k THEN list[i] ELSE m
    BY <1>9
  <2> HIDE DEF l3
  <2>2. Len(node_insert(m)) = Len(list) + 1
    BY <1>1, <1>2, <1>7, <1>10, <2>1
  <2>3. ASSUME NEW i \in 1 .. Len(list) + 1
        PROVE  node_insert(m)[i] = IF i <= k THEN list[i]
                                   ELSE IF i = k + 1 THEN m ELSE list[i - 1]
    <3>1. node_insert(m)[i] = IF i <= k + 1 THEN l3[i] ELSE l2[i - (k + 1)]
      BY <1>1, <1>2, <1>7, <1>10, <2>1
    <3>2. CASE i <= k + 1
      <4>1. i \in 1 .. k + 1
        BY <1>2, <3>2
      <4> QED
        BY <1>2, <2>1, <3>1, <3>2, <4>1
    <3>3. CASE i > k + 1
      <4>1. i - (k + 1) \in 1 .. Len(list) - k /\ k + (i - (k + 1)) = i - 1
        BY <1>1, <1>2, <3>3
      <4>2. l2[i - (k + 1)] = list[i - 1]
        BY <1>7, <4>1
      <4> QED
        BY <1>2, <3>1, <3>3, <4>2
    <3> QED
      BY <1>2, <3>2, <3>3
  <2> QED
    BY <2>2, <2>3
<1>12. InsertedAfter(m, k) /\ Leading(m, k)
  BY <1>4, <1>5, <1>11 DEF InsertedAfter, Leading
<1> QED
  BY <1>2, <1>10, <1>11, <1>12

\* After it, the list holds the same modules and m.
LEMMA InsertedListed ==
  ASSUME TypeOK, NEW m \in Modules, list' = node_insert(m)
  PROVE  Listed' = Listed \cup {m}
<1>0. PICK k \in 0 .. Len(list) : InsertedAfter(m, k)
  BY NodeInsert
<1>1. \A i \in 1 .. Len(list) + 1 :
        list'[i] = IF i <= k THEN list[i]
                   ELSE IF i = k + 1 THEN m ELSE list[i - 1]
  BY <1>0 DEF InsertedAfter
<1>2. /\ Len(list) \in Nat /\ DOMAIN list = 1 .. Len(list)
      /\ DOMAIN list' = 1 .. Len(list) + 1
  BY NodeInsert, LenProperties DEF TypeOK
<1>3. ASSUME NEW i \in DOMAIN list' PROVE list'[i] \in Listed \cup {m}
  <2>1. i <= k => i \in DOMAIN list
    BY <1>2
  <2>2. i > k + 1 => i - 1 \in DOMAIN list
    BY <1>2
  <2> QED
    BY <1>1, <1>2, <2>1, <2>2 DEF Listed
<1>4. ASSUME NEW i \in DOMAIN list PROVE list[i] \in Listed'
  <2>1. CASE i <= k
    <3>1. i \in DOMAIN list' /\ list'[i] = list[i]
      BY <1>1, <1>2, <2>1
    <3> QED
      BY <3>1 DEF Listed
  <2>2. CASE i > k
    <3>1. i + 1 \in DOMAIN list' /\ list'[i + 1] = list[i]
      BY <1>1, <1>2, <2>2
    <3> QED
      BY <3>1 DEF Listed
  <2> QED
    BY <1>2, <2>1, <2>2
<1>5. m \in Listed'
  <2>1. k + 1 \in DOMAIN list' /\ list'[k + 1] = m
    BY <1>1, <1>2
  <2> QED
    BY <2>1 DEF Listed
<1> QED
  BY <1>3, <1>4, <1>5 DEF Listed

-----------------------------------------------------------------------------
(* Type correctness: one step per call. *)

\* The record of a call is well typed.
LEMMA ReturnType ==
  ASSUME NEW op \in ApiCalls, NEW ret \in Statuses, Return(op, ret)
  PROVE  call' \in Results
  BY DEF Return, Results

\* A call that is refused changes nothing but the record of the call.
LEMMA RefuseType ==
  ASSUME TypeOK, NEW op \in ApiCalls, NEW ret \in Statuses, Refuse(op, ret)
  PROVE  TypeOK'
<1>1. call' \in Results
  BY ReturnType DEF Refuse
<1>2. UNCHANGED state
  BY DEF Refuse
<1> QED
  BY <1>1, <1>2 DEF TypeOK, Results, state, registry, flags

\* The statistics of a framework that was just cleared.
LEMMA NoStatsType == NoStats \in Stats
  BY DEF NoStats, Stats

LEMMA InitType ==
  Init => TypeOK
<1> SUFFICES ASSUME Init PROVE TypeOK
  OBVIOUS
<1>1. cache \in [Params -> Values] /\ limits \in [Params -> Limits]
  BY ParamsAssumption DEF Init
<1>2. hw \in [Modules -> [Lids -> Values]]
  BY DEF Init
<1>3. list \in Seq(Modules)
  BY EmptySeq DEF Init
<1>4. call \in Results
  BY DEF Init, Results, ApiCalls, Statuses
<1>5. dirty_map \in [Modules -> SUBSET Nat]
  BY DEF Init
<1>6. stats \in Stats
  BY NoStatsType DEF Init
<1> QED
  BY <1>1, <1>2, <1>3, <1>4, <1>5, <1>6 DEF Init, TypeOK, Results, Stats

\* Life cycle calls.
LEMMA LifeCycleType ==
  ASSUME TypeOK, param_init \/ param_deinit \/ param_set_storage
  PROVE  TypeOK'
<1> USE NoStatsType DEF Stats
<1>1. CASE param_init
  <2>1. CASE Refuse("init", "BUSY")
    BY <2>1, RefuseType DEF ApiCalls, Statuses
  <2>2. ASSUME NEW drv \in BOOLEAN, NEW ok \in BOOLEAN,
               storage' = drv, initialized' = ok,
               list' = <<>>, hashed' = {}, stats' = NoStats, dirty_count' = 0,
               Return("init", IF ok THEN "OK" ELSE "FLASH_FAIL"),
               UNCHANGED <<dirty, mod_dirty, dirty_map, cache, limits, hw, loader>>
        PROVE  TypeOK'
    <3>1. call' \in Results
      BY <2>2, ReturnType DEF ApiCalls, Statuses
    <3>2. list' \in Seq(Modules)
      BY <2>2, EmptySeq
    <3> QED
      BY <2>2, <3>1, <3>2 DEF TypeOK, Results
  <2> QED
    BY <1>1, <2>1, <2>2 DEF param_init
<1>2. CASE param_deinit
  <2>1. call' \in Results
    BY <1>2, ReturnType DEF ApiCalls, Statuses, param_deinit
  <2>2. list' \in Seq(Modules)
    BY <1>2, EmptySeq DEF param_deinit
  <2>3. dirty_map' \in [Modules -> SUBSET Nat]
    BY <1>2 DEF param_deinit, TypeOK
  <2> QED
    BY <1>2, <2>1, <2>2, <2>3 DEF param_deinit, TypeOK, Results
<1>3. CASE param_set_storage
  <2>1. call' \in Results
    BY <1>3, ReturnType DEF ApiCalls, Statuses, param_set_storage
  <2> QED
    BY <1>3, <2>1 DEF param_set_storage, TypeOK, Results, flags
<1> QED
  BY <1>1, <1>2, <1>3

\* A registration puts one module's entries into the hash, and the module into
\* the list when all of them fit.
LEMMA InsertType ==
  ASSUME TypeOK, NEW m \in Modules, insert_module(m)
  PROVE  TypeOK'
<1>1. list' \in Seq(Modules)
  BY NodeInsert DEF insert_module, TypeOK
<1>2. Entries(m) \subseteq Params
  BY TablesAssumption DEF Entries
<1>3. FirstEntries(m, HashSize - Cardinality(hashed)) \subseteq Params
  <2>1. \A i \in DOMAIN Table[m] : Table[m][i] \in Params \cup {NoEntry}
    BY TablesAssumption, ElementOfSeq, LenProperties
  <2> QED
    BY <2>1 DEF FirstEntries
<1>4. hashed' \subseteq Params
  BY <1>3 DEF insert_module, TypeOK
<1>5. Cardinality({p \in Entries(m) : "persist" \in Flags[p]}) \in Nat
  BY <1>2, DirtyFinite
<1>6. Len(Table[m]) \in Nat
  BY TablesAssumption, LenProperties
<1>7. stats' \in Stats
  <2>1. PICK n \in Nat, len \in Nat :
          \/ stats' = stats
          \/ stats' = [stats EXCEPT !.module_count = @ + 1,
                         !.param_count = @ + len, !.persist_count = @ + n]
    BY <1>5, <1>6 DEF insert_module
  <2>2. \A r \in Stats : [r EXCEPT !.module_count = @ + 1,
          !.param_count = @ + len, !.persist_count = @ + n] \in Stats
    <3> TAKE r \in Stats
    <3>1. [r EXCEPT !.module_count = @ + 1] \in Stats
      BY DEF Stats
    <3>2. \A x \in Stats : [x EXCEPT !.param_count = @ + len] \in Stats
      BY DEF Stats
    <3>3. \A x \in Stats : [x EXCEPT !.persist_count = @ + n] \in Stats
      BY DEF Stats
    <3> QED
      BY <3>1, <3>2, <3>3
  <2>3. stats \in Stats
    BY DEF TypeOK
  <2> QED
    BY <2>1, <2>2, <2>3
<1>8. call' \in Results
  <2>1. \/ Return("register", "OK")
        \/ Return("register", "NO_MEMORY")
    BY DEF insert_module
  <2> QED
    BY <2>1, ReturnType DEF ApiCalls, Statuses
<1> QED
  BY <1>1, <1>4, <1>7, <1>8 DEF insert_module, TypeOK, Stats, Results

LEMMA RegisterType ==
  ASSUME TypeOK, NEW m \in Modules,
         param_module_register(m) \/ ip_driver_register(m)
  PROVE  TypeOK'
<1>1. \/ \E e \in {"NOT_FOUND", "ALREADY_REG", "OUT_OF_RANGE"} :
           Refuse("register", e)
      \/ insert_module(m)
  BY DEF param_module_register, ip_driver_register
<1> QED
  BY <1>1, InsertType, RefuseType DEF ApiCalls, Statuses

\* The clamp stays among the values: it gives v or one of the two bounds.
LEMMA ClampType ==
  ASSUME NEW r \in Limits, NEW v \in Values
  PROVE  clamp_value_to_range(r, v) \in Values
  BY DEF clamp_value_to_range, Limits

\* What one entry's write may change is well typed, whichever vtable does it.
LEMMA EntryWriteType ==
  ASSUME TypeOK, NEW p \in Params, NEW v \in Values,
         \/ entry_write(p, v)
         \/ app_write_immediate(p, v)
         \/ ip_write_immediate(p, v)
  PROVE  /\ cache' \in [Params -> Values]
         /\ hw' \in [Modules -> [Lids -> Values]]
         /\ dirty' \subseteq Params /\ dirty_count' \in Nat
         /\ DirtyCountBounded => DirtyCountBounded'
         /\ DirtyCountExact => DirtyCountExact'
<1>1. pre_write(p, v) \in Values
  <2>1. limits[p] \in Limits
    BY DEF TypeOK
  <2> QED
    BY <2>1, ClampType DEF clamp, pre_write
<1>2. Owner[p] \in Modules /\ Lid[p] \in Lids
  BY ParamsAssumption
<1>3. \E w \in Values :
        /\ cache' = [cache EXCEPT ![p] = w]
        /\ hw' = hw \/ hw' = [hw EXCEPT ![Owner[p]][Lid[p]] = w]
  BY <1>1 DEF entry_write, app_write, ip_param_write, app_write_immediate,
              ip_write_immediate
<1>4. mark_entries({p}) \/ clear_entries({p})
  BY DEF entry_write, app_write, ip_param_write, app_write_immediate,
         ip_write_immediate
<1>5. PICK w \in Values :
        /\ cache' = [cache EXCEPT ![p] = w]
        /\ hw' = hw \/ hw' = [hw EXCEPT ![Owner[p]][Lid[p]] = w]
  BY <1>3
<1>6. cache' \in [Params -> Values]
  BY <1>5 DEF TypeOK
<1>7. hw' \in [Modules -> [Lids -> Values]]
  <2>1. CASE hw' = hw
    BY <2>1 DEF TypeOK
  <2>2. CASE hw' = [hw EXCEPT ![Owner[p]][Lid[p]] = w]
    BY <1>2, <2>2 DEF TypeOK
  <2> QED
    BY <1>5, <2>1, <2>2
<1> QED
  BY <1>4, <1>6, <1>7, MarkEntries, ClearEntries

\* So is what the module's vtable does after it.
LEMMA ModuleFlagType ==
  ASSUME TypeOK, NEW p \in Params, mark_dirty(p) \/ clear_dirty(p)
  PROVE  /\ mod_dirty' \subseteq Modules
         /\ dirty_map' \in [Modules -> SUBSET Nat]
<1>1. Owner[p] \in Modules /\ Lid[p] \in Nat
  BY ParamsAssumption, BoundsAssumption
<1>2. CASE mark_dirty(p)
  BY <1>1, <1>2 DEF mark_dirty, app_module_mark_dirty, ip_module_mark_dirty,
                    TypeOK
<1>3. CASE clear_dirty(p)
  BY <1>1, <1>3 DEF clear_dirty, app_module_clear_dirty,
                    ip_module_clear_dirty, clear_bits, TypeOK
<1> QED
  BY <1>2, <1>3

\* An exec callback leaves some value in the command's register.
LEMMA ExecType ==
  ASSUME TypeOK, NEW p \in Params, run_exec_cb(p)
  PROVE  hw' \in [Modules -> [Lids -> Values]]
<1>1. Owner[p] \in Modules /\ Lid[p] \in Lids
  BY ParamsAssumption
<1> QED
  BY <1>1 DEF run_exec_cb, TypeOK

\* Refusals of a write name a status.
LEMMA WriteErrors ==
  ASSUME NEW p, NEW v
  PROVE  /\ entry_write_errors(p, v) \subseteq Statuses
         /\ app_write_immediate_errors(p, v) \subseteq Statuses
         /\ ip_write_immediate_errors(p) \subseteq Statuses
         /\ exec_errors(p) \subseteq Statuses
         /\ bad_length(p) \subseteq Statuses
<1>1. app_write_errors(p, v) \subseteq Statuses
  BY DEF app_write_errors, Statuses
<1>2. ip_param_write_errors(p) \subseteq Statuses
  BY DEF ip_param_write_errors, Statuses
<1>3. app_write_immediate_errors(p, v) \subseteq Statuses
  BY DEF app_write_immediate_errors, Statuses
<1>4. ip_write_immediate_errors(p) \subseteq Statuses
  BY DEF ip_write_immediate_errors, Statuses
<1>5. exec_errors(p) \subseteq Statuses /\ bad_length(p) \subseteq Statuses
  BY DEF exec_errors, bad_length, Statuses
<1> QED
  BY <1>1, <1>2, <1>3, <1>4, <1>5 DEF entry_write_errors

\* The three writes, param_exec and ip_control.
LEMMA WriteType ==
  ASSUME TypeOK, NEW p \in Params, NEW v \in Values,
         \/ param_write(p, v)
         \/ param_write_raw(p, v)
         \/ param_write_immediate(p, v)
  PROVE  TypeOK'
<1>1. \/ \E op \in ApiCalls, e \in Statuses : Refuse(op, e)
      \/ /\ \/ entry_write(p, v) \/ app_write_immediate(p, v)
            \/ ip_write_immediate(p, v)
            \/ run_exec_cb(p) /\ UNCHANGED <<dirty, dirty_count, cache>>
         /\ mark_dirty(p) \/ clear_dirty(p)
         /\ \E op \in ApiCalls : Return(op, "OK")
         /\ UNCHANGED <<registry, limits, loader>>
  <2>1. CASE param_write(p, v)
    BY <2>1, WriteErrors DEF param_write, not_found, ApiCalls, Statuses
  <2>2. CASE param_write_raw(p, v)
    BY <2>2, WriteErrors DEF param_write_raw, not_found, ApiCalls, Statuses
  <2>3. CASE param_write_immediate(p, v)
    BY <2>3, WriteErrors
       DEF param_write_immediate, not_found, ApiCalls, Statuses
  <2> QED
    BY <2>1, <2>2, <2>3
<1>2. CASE \E op \in ApiCalls, e \in Statuses : Refuse(op, e)
  BY <1>2, RefuseType
<1>3. CASE /\ \/ entry_write(p, v) \/ app_write_immediate(p, v)
              \/ ip_write_immediate(p, v)
              \/ run_exec_cb(p) /\ UNCHANGED <<dirty, dirty_count, cache>>
           /\ mark_dirty(p) \/ clear_dirty(p)
           /\ \E op \in ApiCalls : Return(op, "OK")
           /\ UNCHANGED <<registry, limits, loader>>
  <2>1. /\ cache' \in [Params -> Values]
        /\ hw' \in [Modules -> [Lids -> Values]]
        /\ dirty' \subseteq Params /\ dirty_count' \in Nat
    <3>1. CASE run_exec_cb(p) /\ UNCHANGED <<dirty, dirty_count, cache>>
      BY <3>1, ExecType DEF TypeOK
    <3>2. CASE \/ entry_write(p, v) \/ app_write_immediate(p, v)
               \/ ip_write_immediate(p, v)
      BY <3>2, EntryWriteType
    <3> QED
      BY <1>3, <3>1, <3>2
  <2>2. mod_dirty' \subseteq Modules /\ dirty_map' \in [Modules -> SUBSET Nat]
    BY <1>3, ModuleFlagType
  <2>3. call' \in Results
    BY <1>3, ReturnType DEF Statuses
  <2>4. UNCHANGED <<registry, limits, loader>>
    BY <1>3
  <2> QED
    BY <2>1, <2>2, <2>3, <2>4 DEF TypeOK, registry
<1> QED
  BY <1>1, <1>2, <1>3

LEMMA CommandType ==
  ASSUME TypeOK,
         \/ \E p \in Params : param_exec(p)
         \/ \E m \in Modules, l \in Lids, v \in Values : ip_control(m, l, v)
  PROVE  TypeOK'
<1>1. \/ \E op \in ApiCalls, e \in Statuses : Refuse(op, e)
      \/ /\ hw' \in [Modules -> [Lids -> Values]]
         /\ \E op \in ApiCalls : Return(op, "OK")
         /\ UNCHANGED <<registry, flags, cache, limits, loader>>
  <2>1. ASSUME NEW p \in Params, param_exec(p)
        PROVE  \/ \E op \in ApiCalls, e \in Statuses : Refuse(op, e)
               \/ /\ hw' \in [Modules -> [Lids -> Values]]
                  /\ \E op \in ApiCalls : Return(op, "OK")
                  /\ UNCHANGED <<registry, flags, cache, limits, loader>>
    BY <2>1, ExecType DEF param_exec, ApiCalls, Statuses
  <2>2. ASSUME NEW m \in Modules, NEW l \in Lids, NEW v \in Values,
               ip_control(m, l, v)
        PROVE  \/ \E op \in ApiCalls, e \in Statuses : Refuse(op, e)
               \/ /\ hw' \in [Modules -> [Lids -> Values]]
                  /\ \E op \in ApiCalls : Return(op, "OK")
                  /\ UNCHANGED <<registry, flags, cache, limits, loader>>
    <3>1. [hw EXCEPT ![m][l] = v] \in [Modules -> [Lids -> Values]]
      BY DEF TypeOK
    <3> QED
      BY <2>2, <3>1 DEF ip_control, ApiCalls, Statuses
  <2> QED
    BY <2>1, <2>2
<1>2. CASE \E op \in ApiCalls, e \in Statuses : Refuse(op, e)
  BY <1>2, RefuseType
<1>3. CASE /\ hw' \in [Modules -> [Lids -> Values]]
           /\ \E op \in ApiCalls : Return(op, "OK")
           /\ UNCHANGED <<registry, flags, cache, limits, loader>>
  <2>1. call' \in Results
    BY <1>3, ReturnType DEF Statuses
  <2> QED
    BY <1>3, <2>1 DEF TypeOK, registry, flags
<1> QED
  BY <1>1, <1>2, <1>3

\* What a flush leaves is well typed however far each module's flush gets.
LEMMA FlushModulesType ==
  ASSUME TypeOK, NEW stop \in Outcomes, flush_modules(stop)
  PROVE  /\ hw' \in [Modules -> [Lids -> Values]]
         /\ mod_dirty' \subseteq Modules
         /\ dirty_map' \in [Modules -> SUBSET Nat]
<1>1. hw' \in [Modules -> [Lids -> Values]]
  <2>1. ASSUME NEW m \in Modules, NEW l \in Lids, l + 1 \in Sendable(m)
        PROVE  cache[Table[m][l + 1]] \in Values
    <3>1. Table[m][l + 1] \in Params
      BY <2>1, TablesAssumption, ElementOfSeq, LenProperties DEF Sendable
    <3> QED
      BY <3>1 DEF TypeOK
  <2> DEFINE val(m, l) == IF /\ m \in Flushing /\ Kind[m] = "ip"
                             /\ l + 1 \in Sendable(m) /\ l + 1 <= stop[m]
                          THEN cache[Table[m][l + 1]] ELSE hw[m][l]
  <2>2. ASSUME NEW m \in Modules, NEW l \in Lids
        PROVE  val(m, l) \in Values
    BY <2>1 DEF TypeOK
  <2>3. hw' = [m \in Modules |-> [l \in Lids |-> val(m, l)]]
    BY DEF flush_modules
  <2> HIDE DEF val
  <2> QED
    BY <2>2, <2>3
<1> QED
  BY <1>1 DEF flush_modules, TypeOK

LEMMA FlushType ==
  ASSUME TypeOK, param_flush
  PROVE  TypeOK'
<1>1. CASE Refuse("flush", "NOT_FOUND")
  BY <1>1, RefuseType DEF ApiCalls, Statuses
<1>2. ASSUME NEW stop \in Outcomes, flush_modules(stop),
             stats' = [stats EXCEPT !.flush_error_count =
                         (@ + Cardinality(Failed(stop))) % ErrorWrap],
             Return("flush", IF Failed(stop) = {} THEN "OK" ELSE "IO"),
             UNCHANGED <<initialized, storage, list, hashed, cache, limits,
                         loader>>
      PROVE  TypeOK'
  <2>1. Cardinality(Failed(stop)) \in Nat
    <3>1. Failed(stop) \subseteq Modules
      <4>1. \A i \in DOMAIN list : list[i] \in Modules
        BY ElementOfSeq, LenProperties DEF TypeOK
      <4> QED
        BY <4>1 DEF Failed, Flushing
    <3> QED
      BY <3>1, ModulesAssumption, FS_Subset, FS_CardinalityType
  <2>2. stats' \in Stats
    <3>1. PICK n \in Nat : stats' = [stats EXCEPT !.flush_error_count =
                                       (@ + n) % ErrorWrap]
      BY <1>2, <2>1
    <3> QED
      <4>1. \A k \in Nat : k % ErrorWrap \in Nat
        BY BoundsAssumption
      <4>2. (stats.flush_error_count + n) % ErrorWrap \in Nat
        <5>1. stats.flush_error_count + n \in Nat
          BY DEF TypeOK, Stats
        <5> QED
          BY <4>1, <5>1
      <4> QED
        BY <3>1, <4>2 DEF TypeOK, Stats
  <2>3. call' \in Results
    BY <1>2, ReturnType DEF ApiCalls, Statuses
  <2>4. dirty' \subseteq Params /\ dirty_count' \in Nat
    BY <1>2, ClearEntries DEF flush_modules
  <2> QED
    BY <1>2, <2>2, <2>3, <2>4, FlushModulesType DEF TypeOK
<1> QED
  BY <1>1, <1>2 DEF param_flush

LEMMA CheckType ==
  ASSUME TypeOK, param_check_flush_integrity \/ param_save \/ param_clear_stats
  PROVE  TypeOK'
<1>1. CASE param_check_flush_integrity
  <2> DEFINE missing == {m \in Listed : Order[m] = OrderCount}
  <2>1. Cardinality(missing) \in Nat
    <3>1. \A i \in DOMAIN list : list[i] \in Modules
      BY ElementOfSeq, LenProperties DEF TypeOK
    <3>2. missing \subseteq Modules
      BY <3>1 DEF Listed
    <3> QED
      BY <3>2, ModulesAssumption, FS_Subset, FS_CardinalityType
  <2>2. CASE Refuse("check", "NOT_FOUND")
    BY <2>2, RefuseType DEF ApiCalls, Statuses
  <2>3. CASE ~Refuse("check", "NOT_FOUND")
    <3>1. stats' = [stats EXCEPT !.flush_order_miss_count = Cardinality(missing)]
      BY <1>1, <2>3 DEF param_check_flush_integrity
    <3>2. stats' \in Stats
      <4> HIDE DEF missing
      <4> QED
        BY <2>1, <3>1 DEF TypeOK, Stats
    <3>3. Return("check", IF missing = {} THEN "OK" ELSE "NOT_FOUND")
      BY <1>1, <2>3 DEF param_check_flush_integrity
    <3>4. call' \in Results
      BY <3>3, ReturnType DEF ApiCalls, Statuses
    <3> QED
      BY <1>1, <2>3, <3>2, <3>4 DEF param_check_flush_integrity, TypeOK, flags
  <2> QED
    BY <2>2, <2>3
<1>2. CASE param_save
  BY <1>2, RefuseType DEF param_save, no_storage, ApiCalls, Statuses
<1>3. CASE param_clear_stats
  <2>1. stats' \in Stats
    <3>1. \A r \in Stats : [r EXCEPT !.flush_order_miss_count = 0] \in Stats
      BY DEF Stats
    <3>2. [stats EXCEPT !.flush_error_count = 0] \in Stats
      BY DEF TypeOK, Stats
    <3> QED
      BY <1>3, <3>1, <3>2 DEF param_clear_stats
  <2>2. call' \in Results
    BY <1>3, ReturnType DEF param_clear_stats, ApiCalls, Statuses
  <2> QED
    BY <1>3, <2>1, <2>2 DEF param_clear_stats, TypeOK
<1> QED
  BY <1>1, <1>2, <1>3

\* What a load puts into the cache and the flags is well typed.
LEMMA LoadEntriesType ==
  ASSUME TypeOK, NEW S \in SUBSET Params, NEW new \in [S -> Values],
         load_entries(S, new)
  PROVE  /\ cache' \in [Params -> Values]
         /\ dirty' \subseteq Params /\ dirty_count' \in Nat
         /\ mod_dirty' \subseteq Modules
         /\ dirty_map' \in [Modules -> SUBSET Nat]
<1>1. cache' \in [Params -> Values]
  BY DEF load_entries, TypeOK
<1>2. dirty' \subseteq Params /\ dirty_count' \in Nat
  BY MarkEntries DEF load_entries
<1>3. mod_dirty' \subseteq Modules
  BY ParamsAssumption DEF load_entries, TypeOK
<1>4. \A p \in Params : Lid[p] \in Nat
  BY ParamsAssumption, BoundsAssumption
<1>5. dirty_map' \in [Modules -> SUBSET Nat]
  BY <1>4 DEF load_entries, TypeOK
<1> QED
  BY <1>1, <1>2, <1>3, <1>5

LEMMA LoadType ==
  ASSUME TypeOK, param_load_all \/ \E p \in Params : param_load_one(p)
  PROVE  TypeOK'
<1>1. \/ \E op \in ApiCalls, e \in Statuses : Refuse(op, e)
      \/ /\ \E S \in SUBSET Params : \E new \in [S -> Values] :
              load_entries(S, new)
         /\ \E op \in ApiCalls, ret \in Statuses : Return(op, ret)
         /\ loader' \in Modules \cup {None}
  <2>1. CASE param_load_all
    <3>1. CASE no_storage("load_all")
      BY <3>1 DEF no_storage, ApiCalls, Statuses
    <3>2. ASSUME NEW S \in SUBSET Persistent, NEW new \in [S -> Values],
                 load_entries(S, new),
                 Return("load_all", IF S = Persistent THEN "OK" ELSE "IO"),
                 loader' = IF list = <<>> THEN None ELSE list[1]
          PROVE  /\ \E T \in SUBSET Params : \E n \in [T -> Values] :
                      load_entries(T, n)
                 /\ \E op \in ApiCalls, ret \in Statuses : Return(op, ret)
                 /\ loader' \in Modules \cup {None}
      <4>1. S \in SUBSET Params
        BY DEF Persistent, TypeOK
      <4>2. list = <<>> \/ list[1] \in Modules
        BY ElementOfSeq, EmptySeq, LenProperties DEF TypeOK
      <4>3. \E op \in ApiCalls, ret \in Statuses : Return(op, ret)
        BY <3>2 DEF ApiCalls, Statuses
      <4> QED
        BY <3>2, <4>1, <4>2, <4>3
    <3> QED
      BY <2>1, <3>1, <3>2 DEF param_load_all
  <2>2. ASSUME NEW p \in Params, param_load_one(p)
        PROVE  \/ \E op \in ApiCalls, e \in Statuses : Refuse(op, e)
               \/ /\ \E S \in SUBSET Params : \E new \in [S -> Values] :
                       load_entries(S, new)
                  /\ \E op \in ApiCalls, ret \in Statuses : Return(op, ret)
                  /\ loader' \in Modules \cup {None}
    <3>1. {p} \cap Persistent \in SUBSET Params
      OBVIOUS
    <3>2. CASE /\ \E new \in [{p} \cap Persistent -> Values] :
                    load_entries({p} \cap Persistent, new)
               /\ Return("load", "OK")
               /\ UNCHANGED loader
      BY <3>1, <3>2 DEF TypeOK, ApiCalls, Statuses
    <3>3. CASE \E e \in {"NOT_FOUND", "INVALID_ID", "IO"} : Refuse("load", e)
      BY <3>3 DEF ApiCalls, Statuses
    <3> QED
      BY <2>2, <3>2, <3>3 DEF param_load_one, no_storage
  <2> QED
    BY <2>1, <2>2
<1>2. CASE \E op \in ApiCalls, e \in Statuses : Refuse(op, e)
  BY <1>2, RefuseType
<1>3. CASE /\ \E S \in SUBSET Params : \E new \in [S -> Values] :
                load_entries(S, new)
           /\ \E op \in ApiCalls, ret \in Statuses : Return(op, ret)
           /\ loader' \in Modules \cup {None}
  <2>1. call' \in Results
    BY <1>3, ReturnType
  <2>2. UNCHANGED <<registry, limits, hw>>
    BY <1>3 DEF load_entries
  <2> QED
    BY <1>3, <2>1, <2>2, LoadEntriesType DEF TypeOK, registry
<1> QED
  BY <1>1, <1>2, <1>3

\* One step of the INIT phase.
LEMMA LoadInitType ==
  ASSUME TypeOK, load_all_init
  PROVE  TypeOK'
<1>1. hw' \in [Modules -> [Lids -> Values]]
  <2>1. loader \in Modules
    BY DEF load_all_init, TypeOK
  <2>2. PICK S \in SUBSET InitPush[loader] :
          hw' = [hw EXCEPT ![loader] =
                   [l \in Lids |-> IF \E p \in S : Lid[p] = l
                                   THEN cache[CHOOSE p \in S : Lid[p] = l]
                                   ELSE hw[loader][l]]]
    BY DEF load_all_init, run_init_cb
  <2>3. S \subseteq Params
    BY <2>1, ParamsAssumption
  <2>4. \A l \in Lids : (\E p \in S : Lid[p] = l) =>
                          (CHOOSE p \in S : Lid[p] = l) \in Params
    BY <2>3
  <2>5. [l \in Lids |-> IF \E p \in S : Lid[p] = l
                        THEN cache[CHOOSE p \in S : Lid[p] = l]
                        ELSE hw[loader][l]] \in [Lids -> Values]
    BY <2>1, <2>4 DEF TypeOK
  <2> QED
    BY <2>2, <2>5 DEF TypeOK
<1>2. loader' \in Modules \cup {None}
  <2>1. \A i \in DOMAIN list : list[i] \in Modules
    BY ElementOfSeq, LenProperties DEF TypeOK
  <2> QED
    BY <2>1 DEF load_all_init, NextNode
<1>3. call' \in Results
  BY ReturnType DEF load_all_init, ApiCalls, Statuses
<1>4. mod_dirty' \subseteq Modules /\ dirty_map' \in [Modules -> SUBSET Nat]
  BY DEF load_all_init, app_module_init, TypeOK
<1> QED
  BY <1>1, <1>2, <1>3, <1>4 DEF load_all_init, TypeOK, registry

LEMMA ResetType ==
  ASSUME TypeOK, param_reset_all \/ \E p \in Params : param_reset_one(p)
  PROVE  TypeOK'
<1>0. \A p \in Params : Default[p] \in Values
  BY ParamsAssumption
<1>1. CASE param_reset_all
  <2>1. CASE Refuse("reset_all", "NOT_FOUND")
    BY <2>1, RefuseType DEF ApiCalls, Statuses
  <2>2. CASE ~Refuse("reset_all", "NOT_FOUND")
    <3>1. call' \in Results
      BY <1>1, <2>2, ReturnType DEF param_reset_all, ApiCalls, Statuses
    <3>2. dirty' \subseteq Params /\ dirty_count' \in Nat
      BY <1>1, <2>2, ClearEntries DEF param_reset_all
    <3>3. /\ cache' \in [Params -> Values]
          /\ mod_dirty' \subseteq Modules
          /\ dirty_map' \in [Modules -> SUBSET Nat]
      BY <1>0, <1>1, <2>2 DEF param_reset_all, TypeOK
    <3> QED
      BY <1>1, <2>2, <3>1, <3>2, <3>3 DEF param_reset_all, TypeOK, registry
  <2> QED
    BY <2>1, <2>2
<1>2. ASSUME NEW p \in Params, param_reset_one(p)
      PROVE  TypeOK'
  <2>1. CASE not_found("reset_one", p)
    BY <2>1, RefuseType DEF not_found, ApiCalls, Statuses
  <2>2. CASE ~not_found("reset_one", p)
    <3>1. call' \in Results
      BY <1>2, <2>2, ReturnType DEF param_reset_one, ApiCalls, Statuses
    <3>2. dirty' \subseteq Params /\ dirty_count' \in Nat
      BY <1>2, <2>2, ClearEntries DEF param_reset_one
    <3>3. mod_dirty' \subseteq Modules /\ dirty_map' \in [Modules -> SUBSET Nat]
      <4>1. \/ clear_dirty(p)
            \/ \E bits \in reset_bits(Lid[p]) : clear_bits(Owner[p], bits)
        BY <1>2, <2>2 DEF param_reset_one
      <4>2. ASSUME NEW bits, clear_bits(Owner[p], bits)
            PROVE  mod_dirty' \subseteq Modules
                   /\ dirty_map' \in [Modules -> SUBSET Nat]
        BY <4>2, ParamsAssumption DEF clear_bits, TypeOK
      <4> QED
        BY <4>1, <4>2, ModuleFlagType
    <3>4. cache' \in [Params -> Values]
      BY <1>0, <1>2, <2>2 DEF param_reset_one, TypeOK
    <3> QED
      BY <1>2, <2>2, <3>1, <3>2, <3>3, <3>4
         DEF param_reset_one, TypeOK, registry
  <2> QED
    BY <2>1, <2>2
<1> QED
  BY <1>1, <1>2

LEMMA RangeType ==
  ASSUME TypeOK, param_validate_all \/ \E p \in Params : param_set_range(p)
  PROVE  TypeOK'
<1>1. CASE param_validate_all
  <2>1. \A p \in Params : clamp(p, cache[p]) \in Values
    <3> TAKE p \in Params
    <3>1. limits[p] \in Limits /\ cache[p] \in Values
      BY DEF TypeOK
    <3> QED
      BY <3>1, ClampType DEF clamp
  <2>2. cache' \in [Params -> Values]
    BY <1>1, <2>1 DEF param_validate_all, TypeOK
  <2>3. call' \in Results
    BY <1>1, ReturnType DEF param_validate_all, ApiCalls, Statuses
  <2> QED
    BY <1>1, <2>2, <2>3 DEF param_validate_all, TypeOK, registry, flags
<1>2. ASSUME NEW p \in Params, param_set_range(p)
      PROVE  TypeOK'
  <2>1. CASE \E e \in Statuses : Refuse("set_range", e)
    BY <2>1, RefuseType DEF ApiCalls
  <2>2. ASSUME NEW lo \in LimitArgs \cup {limits[p].min},
               NEW hi \in LimitArgs \cup {limits[p].max},
               limits' = [limits EXCEPT ![p] =
                            [on |-> TRUE, min |-> lo, max |-> hi]],
               cache' = [cache EXCEPT ![p] =
                 clamp_value_to_range([on |-> TRUE, min |-> lo, max |-> hi], @)],
               Return("set_range", "OK"),
               UNCHANGED <<registry, flags, hw, loader>>
        PROVE  TypeOK'
    <3>1. limits[p] \in Limits /\ cache[p] \in Values
      BY DEF TypeOK
    <3>2. [on |-> TRUE, min |-> lo, max |-> hi] \in Limits
      BY <3>1, ParamsAssumption DEF Limits
    <3>3. clamp_value_to_range([on |-> TRUE, min |-> lo, max |-> hi], cache[p])
            \in Values
      BY <3>1, <3>2, ClampType
    <3>4. cache' \in [Params -> Values] /\ limits' \in [Params -> Limits]
      BY <2>2, <3>2, <3>3 DEF TypeOK
    <3>5. call' \in Results
      BY <2>2, ReturnType DEF ApiCalls, Statuses
    <3> QED
      BY <2>2, <3>4, <3>5 DEF TypeOK, registry, flags
  <2> QED
    BY <1>2, <2>1, <2>2 DEF param_set_range, Statuses
<1> QED
  BY <1>1, <1>2

LEMMA TypeStep ==
  ASSUME TypeOK, [Next]_vars
  PROVE  TypeOK'
<1>1. CASE UNCHANGED vars
  BY <1>1 DEF vars, state, registry, flags, TypeOK
<1>2. ASSUME NEW m \in Modules, OnModule(m)
      PROVE  TypeOK'
  BY <1>2, RegisterType, CommandType DEF OnModule
<1>3. ASSUME NEW p \in Params, OnEntry(p)
      PROVE  TypeOK'
  BY <1>3, WriteType, CommandType, LoadType, ResetType, RangeType DEF OnEntry
<1>4. CASE OnAll
  BY <1>4, LifeCycleType, FlushType, CheckType, LoadType, LoadInitType,
     ResetType, RangeType DEF OnAll
<1> QED
  BY <1>1, <1>2, <1>3, <1>4 DEF Next

\* Every variable keeps its type through every sequence of calls.
THEOREM TypeCorrect == Spec => []TypeOK
<1>1. Init => TypeOK
  BY InitType
<1>2. TypeOK /\ [Next]_vars => TypeOK'
  BY TypeStep
<1> QED
  BY <1>1, <1>2, PTL DEF Spec

-----------------------------------------------------------------------------
(* The global dirty count. *)

\* The statistics are cleared: by param_init, param_deinit, param_clear_stats.
Emptied ==
  /\ UNCHANGED dirty /\ dirty_count' = 0
  /\ ~initialized \/ "deinit" \in Calls \/ "clear_stats" \in Calls

\* Only the marking and clearing of entries and the clearing of the statistics
\* touch the dirty set or its count.
LEMMA CountMoves ==
  ASSUME TypeOK, [Next]_vars
  PROVE  \/ UNCHANGED <<dirty, dirty_count>>
         \/ \E S \in SUBSET Params : mark_entries(S)
         \/ \E S : clear_entries(S)
         \/ Emptied
<1> DEFINE Moves == \/ UNCHANGED <<dirty, dirty_count>>
                    \/ \E S \in SUBSET Params : mark_entries(S)
                    \/ \E S : clear_entries(S)
                    \/ Emptied
<1>r. ASSUME NEW op, NEW ret, Refuse(op, ret) PROVE Moves
  BY <1>r DEF Refuse, state, flags
<1>1. CASE UNCHANGED vars
  BY <1>1 DEF vars, state, flags
<1>2. ASSUME NEW m \in Modules, OnModule(m) PROVE Moves
  <2>1. CASE param_module_register(m) \/ ip_driver_register(m)
    BY <1>r, <2>1 DEF param_module_register, ip_driver_register, insert_module
  <2>2. ASSUME NEW l \in Lids, NEW v \in Values, ip_control(m, l, v)
        PROVE  Moves
    BY <1>r, <2>2 DEF ip_control, flags
  <2> QED
    BY <1>2, <2>1, <2>2 DEF OnModule
<1>3. ASSUME NEW p \in Params, OnEntry(p) PROVE Moves
  <2>0. {p} \in SUBSET Params
    OBVIOUS
  <2>1. ASSUME NEW v \in Values, param_write(p, v) PROVE Moves
    BY <1>r, <2>0, <2>1
       DEF param_write, not_found, entry_write, app_write, ip_param_write
  <2>2. ASSUME NEW v \in Values, param_write_raw(p, v) PROVE Moves
    BY <1>r, <2>0, <2>2
       DEF param_write_raw, not_found, entry_write, app_write, ip_param_write
  <2>3. ASSUME NEW v \in Values, param_write_immediate(p, v) PROVE Moves
    BY <1>r, <2>3
       DEF param_write_immediate, not_found, app_write_immediate,
           ip_write_immediate
  <2>4. CASE param_exec(p) \/ param_set_range(p)
    BY <1>r, <2>4 DEF param_exec, param_set_range, flags
  <2>5. CASE param_load_one(p)
    <3>1. ASSUME NEW new, load_entries({p} \cap Persistent, new) PROVE Moves
      <4>1. {q \in {p} \cap Persistent : ~App(q)} \in SUBSET Params
        OBVIOUS
      <4> QED
        BY <3>1, <4>1 DEF load_entries
    <3> QED
      BY <1>r, <2>5, <3>1 DEF param_load_one, no_storage
  <2>6. CASE param_reset_one(p)
    BY <1>r, <2>6 DEF param_reset_one, not_found
  <2> QED
    BY <1>3, <2>1, <2>2, <2>3, <2>4, <2>5, <2>6 DEF OnEntry
<1>4. CASE OnAll
  <2>1. CASE param_init \/ ("deinit" \in Calls /\ param_deinit)
               \/ param_set_storage
    BY <1>r, <2>1 DEF param_init, param_deinit, param_set_storage, flags, Emptied
  <2>2. CASE param_flush
    BY <1>r, <2>2 DEF param_flush, flush_modules
  <2>3. CASE param_check_flush_integrity \/ param_save
               \/ ("clear_stats" \in Calls /\ param_clear_stats)
    BY <1>r, <2>3 DEF Emptied, param_check_flush_integrity, param_save, no_storage,
                      param_clear_stats, flags
  <2>4. CASE param_load_all
    <3>1. ASSUME NEW S \in SUBSET Persistent, NEW new, load_entries(S, new)
          PROVE  Moves
      <4>1. {q \in S : ~App(q)} \in SUBSET Params
        BY DEF Persistent, TypeOK
      <4> QED
        BY <3>1, <4>1 DEF load_entries
    <3> QED
      BY <1>r, <2>4, <3>1 DEF param_load_all, no_storage
  <2>5. CASE load_all_init \/ param_reset_all \/ param_validate_all
    BY <1>r, <2>5 DEF load_all_init, param_reset_all, param_validate_all, flags
  <2> QED
    BY <1>4, <2>1, <2>2, <2>3, <2>4, <2>5 DEF OnAll
<1> QED
  BY <1>1, <1>2, <1>3, <1>4 DEF Next

\* dirty_count never exceeds the number of dirty entries, whatever is called.
THEOREM CountBounded == Spec => []DirtyCountBounded
<1>1. Init => DirtyCountBounded
  BY FS_EmptySet DEF Init, DirtyCountBounded
<1>2. TypeOK /\ DirtyCountBounded /\ [Next]_vars => DirtyCountBounded'
  <2> SUFFICES ASSUME TypeOK, DirtyCountBounded, [Next]_vars
               PROVE  DirtyCountBounded'
    OBVIOUS
  <2>1. CASE UNCHANGED <<dirty, dirty_count>>
    BY <2>1 DEF DirtyCountBounded
  <2>2. CASE UNCHANGED dirty /\ dirty_count' = 0
    <3>1. Cardinality(dirty') \in Nat
      BY <2>2, DirtyFinite DEF TypeOK
    <3> QED
      BY <2>2, <3>1 DEF DirtyCountBounded
  <2> QED
    BY <2>1, <2>2, CountMoves, MarkEntries, ClearEntries DEF Emptied
<1> QED
  BY <1>1, <1>2, TypeCorrect, PTL DEF Spec

-----------------------------------------------------------------------------
(* The dirty maps. *)

\* A step that adds no bit, takes no module off the list and keeps the flag of
\* every module that keeps a bit keeps the bits reachable.
LEMMA FewerBits ==
  ASSUME PendingBitsReachable,
         initialized' = initialized, Listed \subseteq Listed',
         hashed \subseteq hashed',
         \A m \in Modules : dirty_map'[m] \subseteq dirty_map[m],
         \A m \in Modules : dirty_map'[m] # {} /\ m \in mod_dirty => m \in mod_dirty'
  PROVE  PendingBitsReachable'
  BY DEF PendingBitsReachable

\* So does a step that adds bits of entries it finds, and flags their modules.
LEMMA MoreBits ==
  ASSUME PendingBitsReachable, initialized,
         UNCHANGED registry, mod_dirty \subseteq mod_dirty',
         \A m \in Modules : \A l \in dirty_map'[m] :
           \/ l \in dirty_map[m]
           \/ \E p \in hashed : /\ Owner[p] = m /\ Lid[p] = l /\ Kind[m] = "ip"
                                /\ m \in Listed /\ m \in mod_dirty'
  PROVE  PendingBitsReachable'
<1>1. /\ initialized' = initialized /\ hashed' = hashed /\ list' = list
  BY DEF registry
<1>2. Listed' = Listed
  BY <1>1 DEF Listed
<1> QED
  BY <1>1, <1>2 DEF PendingBitsReachable

LEMMA KindOf ==
  ASSUME NEW p \in Params
  PROVE  /\ Owner[p] \in Modules
         /\ ~App(p) <=> Kind[Owner[p]] = "ip"
  BY ParamsAssumption, ModulesAssumption DEF App

\* Calls that leave the maps, their modules' flags and the registry alone.
LEMMA BitsUnchanged ==
  ASSUME TypeOK, PendingBitsReachable,
         UNCHANGED <<initialized, list, hashed, mod_dirty, dirty_map>>
  PROVE  PendingBitsReachable'
  BY DEF PendingBitsReachable, Listed

LEMMA BitsLifeCycle ==
  ASSUME TypeOK, PendingBitsReachable,
         \/ param_init \/ param_deinit \/ param_set_storage
         \/ \E m \in Modules : param_module_register(m) \/ ip_driver_register(m)
  PROVE  PendingBitsReachable'
<1>r. ASSUME NEW op, NEW ret, Refuse(op, ret) PROVE PendingBitsReachable'
  BY <1>r, BitsUnchanged DEF Refuse, state, registry, flags
<1>1. CASE param_init
  <2>1. CASE Refuse("init", "BUSY")
    BY <1>r, <2>1
  <2>2. CASE ~initialized /\ dirty_map' = dirty_map
    BY <2>2 DEF PendingBitsReachable
  <2> QED
    BY <1>1, <2>1, <2>2 DEF param_init
<1>2. CASE param_deinit
  <2>1. \A m \in Modules : dirty_map'[m] = {}
    BY <1>2 DEF param_deinit, PendingBitsReachable
  <2> QED
    BY <2>1 DEF PendingBitsReachable
<1>3. CASE param_set_storage
  BY <1>3, BitsUnchanged DEF param_set_storage, flags
<1>4. ASSUME NEW m \in Modules, insert_module(m)
      PROVE  PendingBitsReachable'
  <2>1. Listed \subseteq Listed'
    <3>1. CASE list' = list
      BY <3>1 DEF Listed
    <3>2. CASE list' = node_insert(m)
      BY <3>2, InsertedListed
    <3> QED
      BY <1>4, <3>1, <3>2 DEF insert_module
  <2>2. /\ initialized' = initialized /\ hashed \subseteq hashed'
        /\ dirty_map' = dirty_map /\ mod_dirty' = mod_dirty
    BY <1>4 DEF insert_module
  <2> QED
    BY <2>1, <2>2, FewerBits
<1> QED
  BY <1>r, <1>1, <1>2, <1>3, <1>4 DEF param_module_register, ip_driver_register

\* clear_bits keeps the flag of an instance that has bits left.
LEMMA BitsCleared ==
  ASSUME TypeOK, PendingBitsReachable, UNCHANGED registry,
         NEW m \in Modules, NEW bits, clear_bits(m, bits)
  PROVE  PendingBitsReachable'
<1>1. initialized' = initialized /\ hashed' = hashed /\ Listed' = Listed
  BY DEF registry, Listed
<1>2. \A n \in Modules : dirty_map'[n] \subseteq dirty_map[n]
  BY DEF clear_bits, TypeOK
<1>3. \A n \in Modules : dirty_map'[n] # {} /\ n \in mod_dirty => n \in mod_dirty'
  BY DEF clear_bits, TypeOK
<1> QED
  BY <1>1, <1>2, <1>3, FewerBits

\* What clears the module state of one entry.
LEMMA BitsClearDirty ==
  ASSUME TypeOK, PendingBitsReachable, UNCHANGED registry,
         NEW p \in Params, clear_dirty(p)
  PROVE  PendingBitsReachable'
<1>0. initialized' = initialized /\ hashed' = hashed /\ Listed' = Listed
  BY DEF registry, Listed
<1>1. CASE Owner[p] \in Listed /\ App(p)
  <2>1. dirty_map' = dirty_map
    BY <1>1 DEF clear_dirty, app_module_clear_dirty
  <2>2. dirty_map[Owner[p]] = {}
    BY <1>1, KindOf DEF PendingBitsReachable
  <2>3. mod_dirty \ {Owner[p]} \subseteq mod_dirty'
    BY <1>1 DEF clear_dirty, app_module_clear_dirty
  <2> QED
    BY <1>0, <2>1, <2>2, <2>3, FewerBits
<1>2. CASE Owner[p] \in Listed /\ ~App(p)
  <2>1. ip_module_clear_dirty(Owner[p], Lid[p])
    BY <1>2 DEF clear_dirty
  <2>2. CASE clear_bits(Owner[p], {Lid[p]})
    BY <2>2, KindOf, BitsCleared
  <2>3. CASE UNCHANGED <<mod_dirty, dirty_map>>
    BY <1>0, <2>3, FewerBits
  <2> QED
    BY <2>1, <2>2, <2>3 DEF ip_module_clear_dirty
<1>3. CASE Owner[p] \notin Listed
  BY <1>0, <1>3, FewerBits DEF clear_dirty
<1> QED
  BY <1>1, <1>2, <1>3

LEMMA BitsWrite ==
  ASSUME TypeOK, PendingBitsReachable, NEW p \in Params, NEW v \in Values,
         \/ param_write(p, v) \/ param_write_raw(p, v)
         \/ param_write_immediate(p, v) \/ param_exec(p)
  PROVE  PendingBitsReachable'
<1>r. ASSUME NEW op, NEW ret, Refuse(op, ret) PROVE PendingBitsReachable'
  BY <1>r, BitsUnchanged DEF Refuse, state, registry, flags
<1>1. ASSUME Found(p), mark_dirty(p), UNCHANGED registry
      PROVE  PendingBitsReachable'
  <2>1. CASE Owner[p] \notin Listed \/ App(p)
    <3>1. dirty_map' = dirty_map /\ mod_dirty \subseteq mod_dirty'
      BY <1>1, <2>1 DEF mark_dirty, app_module_mark_dirty
    <3> QED
      BY <1>1, <3>1, MoreBits DEF Found
  <2>2. CASE Owner[p] \in Listed /\ ~App(p)
    <3>1. ip_module_mark_dirty(Owner[p], Lid[p])
      BY <1>1, <2>2 DEF mark_dirty
    <3>2. mod_dirty' = mod_dirty \cup {Owner[p]}
      BY <3>1 DEF ip_module_mark_dirty
    <3>3. \A m \in Modules : \A l \in dirty_map'[m] :
            l \in dirty_map[m] \/ (m = Owner[p] /\ l = Lid[p])
      BY <3>1 DEF ip_module_mark_dirty, TypeOK
    <3> QED
      BY <1>1, <2>2, <3>2, <3>3, KindOf, MoreBits DEF Found
  <2> QED
    BY <2>1, <2>2
<1>2. clear_dirty(p) /\ UNCHANGED registry => PendingBitsReachable'
  BY BitsClearDirty
<1>3. CASE param_write(p, v) \/ param_write_raw(p, v)
  BY <1>r, <1>1, <1>3 DEF param_write, param_write_raw, not_found
<1>4. CASE param_write_immediate(p, v)
  BY <1>r, <1>2, <1>4 DEF param_write_immediate, not_found
<1>5. CASE param_exec(p)
  BY <1>r, <1>5, BitsUnchanged DEF param_exec, registry, flags
<1> QED
  BY <1>3, <1>4, <1>5

\* A flush empties the map of a module it gets through, and drops only the flag
\* of such a module.
LEMMA BitsFlush ==
  ASSUME TypeOK, PendingBitsReachable, param_flush
  PROVE  PendingBitsReachable'
<1>1. CASE Refuse("flush", "NOT_FOUND")
  BY <1>1, BitsUnchanged DEF Refuse, state, registry, flags
<1>2. ASSUME NEW stop \in Outcomes, flush_modules(stop),
             UNCHANGED <<initialized, storage, list, hashed, cache, limits, loader>>
      PROVE  PendingBitsReachable'
  <2>1. \A m \in Modules :
          dirty_map'[m] = IF m \in Done(stop) /\ Kind[m] = "ip"
                          THEN {} ELSE dirty_map[m]
    BY <1>2 DEF flush_modules
  <2>2. mod_dirty' = mod_dirty \ {m \in Done(stop) :
                                    Kind[m] = "app" \/ dirty_map[m] # {}}
    BY <1>2 DEF flush_modules
  <2>3. \A m \in Modules : dirty_map'[m] \subseteq dirty_map[m]
    BY <2>1
  <2>4. ASSUME NEW m \in Modules, dirty_map'[m] # {}, m \in mod_dirty
        PROVE  m \in mod_dirty'
    <3>1. dirty_map[m] # {} /\ Kind[m] = "ip"
      BY <2>3, <2>4 DEF PendingBitsReachable
    <3>2. m \notin Done(stop)
      BY <2>1, <2>4, <3>1
    <3> QED
      BY <2>2, <2>4, <3>2
  <2>5. initialized' = initialized /\ hashed' = hashed /\ Listed' = Listed
    BY <1>2 DEF Listed
  <2> QED
    BY <2>3, <2>4, <2>5, FewerBits
<1> QED
  BY <1>1, <1>2 DEF param_flush

\* A load sets the bits of IP entries it found in the hash.
LEMMA BitsLoad ==
  ASSUME TypeOK, PendingBitsReachable,
         param_load_all \/ \E p \in Params : param_load_one(p)
  PROVE  PendingBitsReachable'
<1>r. ASSUME NEW op, NEW ret, Refuse(op, ret) PROVE PendingBitsReachable'
  BY <1>r, BitsUnchanged DEF Refuse, state, registry, flags
<1>1. ASSUME initialized, NEW S \in SUBSET hashed, NEW new, load_entries(S, new)
      PROVE  PendingBitsReachable'
  <2> DEFINE reg == {p \in S : ~App(p) /\ Owner[p] \in Listed}
  <2>1. UNCHANGED registry /\ mod_dirty' = mod_dirty \cup {Owner[p] : p \in reg}
    BY <1>1 DEF load_entries
  <2>2. ASSUME NEW m \in Modules, NEW l \in dirty_map'[m]
        PROVE  \/ l \in dirty_map[m]
               \/ \E p \in hashed : /\ Owner[p] = m /\ Lid[p] = l
                                    /\ Kind[m] = "ip"
                                    /\ m \in Listed /\ m \in mod_dirty'
    <3>1. l \in dirty_map[m] \cup
               {Lid[p] : p \in {q \in reg : Owner[q] = m /\ Lid[q] < DirtyMapBits}}
      BY <1>1, <2>2 DEF load_entries
    <3>2. ASSUME NEW p \in reg, Owner[p] = m, Lid[p] = l
          PROVE  /\ p \in hashed /\ Kind[m] = "ip"
                 /\ m \in Listed /\ m \in mod_dirty'
      BY <2>1, <3>2, KindOf DEF TypeOK
    <3> QED
      BY <3>1, <3>2
  <2> QED
    BY <1>1, <2>1, <2>2, MoreBits
<1>2. CASE param_load_all
  BY <1>r, <1>1, <1>2 DEF param_load_all, no_storage, Persistent
<1>3. ASSUME NEW p \in Params, param_load_one(p)
      PROVE  PendingBitsReachable'
  <2>1. {p} \cap Persistent \in SUBSET hashed
    BY DEF Persistent
  <2> QED
    BY <1>r, <1>1, <1>3, <2>1 DEF param_load_one, no_storage
<1> QED
  BY <1>2, <1>3

\* The initialization of an App module drops only a flag that guards no bit.
LEMMA BitsLoadInit ==
  ASSUME TypeOK, PendingBitsReachable, load_all_init
  PROVE  PendingBitsReachable'
<1>0. initialized' = initialized /\ hashed' = hashed /\ Listed' = Listed
  BY DEF load_all_init, registry, Listed
<1>1. CASE Kind[loader] = "app"
  <2>1. dirty_map' = dirty_map /\ mod_dirty' = mod_dirty \ {loader}
    BY <1>1 DEF load_all_init, app_module_init
  <2>2. \A m \in Modules : dirty_map[m] # {} => m # loader
    BY <1>1 DEF PendingBitsReachable
  <2> QED
    BY <1>0, <2>1, <2>2, FewerBits
<1>2. CASE Kind[loader] # "app"
  BY <1>0, <1>2, FewerBits DEF load_all_init
<1> QED
  BY <1>1, <1>2

LEMMA BitsReset ==
  ASSUME TypeOK, PendingBitsReachable,
         param_reset_all \/ \E p \in Params : param_reset_one(p)
  PROVE  PendingBitsReachable'
<1>r. ASSUME NEW op, NEW ret, Refuse(op, ret) PROVE PendingBitsReachable'
  BY <1>r, BitsUnchanged DEF Refuse, state, registry, flags
<1>1. CASE param_reset_all
  <2>1. CASE Refuse("reset_all", "NOT_FOUND")
    BY <1>r, <2>1
  <2>2. CASE ~Refuse("reset_all", "NOT_FOUND")
    <3>1. \A m \in Modules : dirty_map'[m] = {}
      BY <1>1, <2>2 DEF param_reset_all, PendingBitsReachable
    <3> QED
      BY <3>1 DEF PendingBitsReachable
  <2> QED
    BY <2>1, <2>2
<1>2. ASSUME NEW p \in Params, param_reset_one(p)
      PROVE  PendingBitsReachable'
  <2>1. CASE not_found("reset_one", p)
    BY <1>r, <2>1 DEF not_found
  <2>2. CASE ~not_found("reset_one", p)
    <3>1. UNCHANGED registry
      BY <1>2, <2>2 DEF param_reset_one
    <3>2. \/ clear_dirty(p)
          \/ \E bits \in reset_bits(Lid[p]) : clear_bits(Owner[p], bits)
      BY <1>2, <2>2 DEF param_reset_one
    <3> QED
      BY <3>1, <3>2, BitsClearDirty, BitsCleared, KindOf
  <2> QED
    BY <2>1, <2>2
<1> QED
  BY <1>1, <1>2

\* The calls that have nothing to do with the maps.
LEMMA BitsOther ==
  ASSUME TypeOK, PendingBitsReachable,
         \/ param_check_flush_integrity \/ param_save \/ param_validate_all
         \/ param_clear_stats
         \/ \E p \in Params : param_set_range(p)
         \/ \E m \in Modules, l \in Lids, v \in Values : ip_control(m, l, v)
  PROVE  PendingBitsReachable'
<1>r. ASSUME NEW op, NEW ret, Refuse(op, ret) PROVE PendingBitsReachable'
  BY <1>r, BitsUnchanged DEF Refuse, state, registry, flags
<1>1. CASE param_check_flush_integrity
  BY <1>r, <1>1, BitsUnchanged DEF param_check_flush_integrity, flags
<1>2. CASE param_save
  BY <1>r, <1>2 DEF param_save, no_storage
<1>3. CASE param_validate_all \/ param_clear_stats
  BY <1>3, BitsUnchanged DEF param_validate_all, param_clear_stats, registry, flags
<1>4. ASSUME NEW p \in Params, param_set_range(p) PROVE PendingBitsReachable'
  BY <1>r, <1>4, BitsUnchanged DEF param_set_range, registry, flags
<1>5. ASSUME NEW m \in Modules, NEW l \in Lids, NEW v \in Values, ip_control(m, l, v)
      PROVE  PendingBitsReachable'
  BY <1>r, <1>5, BitsUnchanged DEF ip_control, registry, flags
<1> QED
  BY <1>1, <1>2, <1>3, <1>4, <1>5

LEMMA BitsStep ==
  ASSUME TypeOK, PendingBitsReachable, [Next]_vars
  PROVE  PendingBitsReachable'
<1>1. CASE UNCHANGED vars
  BY <1>1, BitsUnchanged DEF vars, state, registry, flags
<1>2. ASSUME NEW m \in Modules, OnModule(m) PROVE PendingBitsReachable'
  BY <1>2, BitsLifeCycle, BitsOther DEF OnModule
<1>3. ASSUME NEW p \in Params, OnEntry(p) PROVE PendingBitsReachable'
  <2>1. CASE param_load_one(p) \/ param_reset_one(p) \/ param_set_range(p)
    BY <2>1, BitsLoad, BitsReset, BitsOther
  <2>2. ASSUME NEW v \in Values, param_write(p, v) \/ param_write_raw(p, v)
                                   \/ param_write_immediate(p, v)
        PROVE  PendingBitsReachable'
    BY <2>2, BitsWrite
  <2>3. CASE param_exec(p)
    <3>1. PICK v \in Values : TRUE
      BY ParamsAssumption
    <3> QED
      BY <2>3, <3>1, BitsWrite
  <2> QED
    BY <1>3, <2>1, <2>2, <2>3 DEF OnEntry
<1>4. CASE OnAll
  BY <1>4, BitsLifeCycle, BitsFlush, BitsLoad, BitsLoadInit, BitsReset, BitsOther
     DEF OnAll
<1> QED
  BY <1>1, <1>2, <1>3, <1>4 DEF Next

\* No write that waits for a flush is ever out of the flush's reach.
THEOREM BitsReachable == Spec => []PendingBitsReachable
<1>1. Init => PendingBitsReachable
  BY DEF Init, PendingBitsReachable
<1>2. TypeOK /\ PendingBitsReachable /\ [Next]_vars => PendingBitsReachable'
  BY BitsStep
<1> QED
  BY <1>1, <1>2, TypeCorrect, PTL DEF Spec

-----------------------------------------------------------------------------
(* The order of the modules. *)

\* node_insert keeps a sorted list sorted, and free of repetitions when the
\* module is new to it.
LEMMA InsertOrdered ==
  ASSUME TypeOK, ListOrdered, NEW m \in Modules, m \notin Listed,
         list' = node_insert(m)
  PROVE  ListOrdered'
<1> DEFINE n == Len(list)
<1>1. /\ n \in Nat /\ DOMAIN list = 1 .. n /\ DOMAIN list' = 1 .. n + 1
      /\ \A i \in 1 .. n : list[i] \in Modules
  BY NodeInsert, LenProperties, ElementOfSeq DEF TypeOK
<1>2. PICK k \in 0 .. n : InsertedAfter(m, k) /\ Leading(m, k)
  BY NodeInsert
<1>3. \A i \in 1 .. n + 1 :
        list'[i] = IF i <= k THEN list[i]
                   ELSE IF i = k + 1 THEN m ELSE list[i - 1]
  BY <1>2 DEF InsertedAfter
<1>4. /\ \A x \in Modules : Order[x] \in Int
      /\ \A i \in 1 .. n : list[i] # m
  <2>1. \A x \in Modules : Order[x] \in 0 .. OrderCount
    BY ModulesAssumption
  <2>2. \A x \in Modules : Order[x] \in Int
    BY <2>1, ModulesAssumption
  <2>3. \A i \in 1 .. n : list[i] # m
    BY <1>1 DEF Listed
  <2> QED
    BY <2>2, <2>3
<1>5. \A i, j \in 1 .. n : i < j =>
        list[i] # list[j] /\ Order[list[i]] <= Order[list[j]]
  BY <1>1 DEF ListOrdered
<1>6. \A i \in 1 .. k : Order[list[i]] <= Order[m]
  BY <1>2 DEF Leading
<1>7. \A i \in 1 .. n : k < i => Order[m] <= Order[list[i]]
  <2> SUFFICES ASSUME NEW i \in 1 .. n, k < i
               PROVE  Order[m] <= Order[list[i]]
    OBVIOUS
  <2>1. ~ \A j \in 1 .. k + 1 : Order[list[j]] <= Order[m]
    BY <1>1, <1>2 DEF Leading
  <2>2. PICK j \in 1 .. k + 1 : ~(Order[list[j]] <= Order[m])
    BY <2>1
  <2>3. j = k + 1 /\ j \in 1 .. n
    BY <1>1, <1>2, <1>6, <2>2
  <2>4. Order[m] <= Order[list[j]]
    BY <1>1, <1>4, <2>2, <2>3
  <2>5. Order[list[j]] <= Order[list[i]]
    BY <1>1, <1>2, <1>4, <1>5, <2>3
  <2> QED
    BY <1>1, <1>4, <2>3, <2>4, <2>5
<1> HIDE DEF n
<1>8. ASSUME NEW i \in 1 .. n + 1, NEW j \in 1 .. n + 1, i < j
      PROVE  list'[i] # list'[j] /\ Order[list'[i]] <= Order[list'[j]]
  <2>1. CASE j <= k
    <3>1. i \in 1 .. n /\ j \in 1 .. n /\ i <= k
      BY <1>1, <1>2, <1>8, <2>1
    <3> QED
      BY <1>3, <1>5, <1>8, <2>1, <3>1
  <2>2. CASE j = k + 1
    <3>1. i \in 1 .. n /\ i \in 1 .. k /\ ~(j <= k)
      BY <1>1, <1>2, <1>8, <2>2
    <3>2. list'[i] = list[i] /\ list'[j] = m
      BY <1>3, <2>2, <3>1
    <3> QED
      BY <1>4, <1>6, <3>1, <3>2
  <2>3. CASE j > k + 1
    <3>1. j - 1 \in 1 .. n /\ ~(j <= k) /\ j # k + 1 /\ k < j - 1
      BY <1>1, <1>2, <1>8, <2>3
    <3>2. list'[j] = list[j - 1]
      BY <1>3, <3>1
    <3>3. CASE i <= k
      <4>1. i \in 1 .. n /\ i < j - 1
        BY <1>1, <1>2, <2>3, <3>3
      <4> QED
        BY <1>3, <1>5, <3>1, <3>2, <3>3, <4>1
    <3>4. CASE i = k + 1
      <4>1. list'[i] = m
        BY <1>2, <1>3, <3>4
      <4> QED
        BY <1>4, <1>7, <3>1, <3>2, <4>1
    <3>5. CASE i > k + 1
      <4>1. i - 1 \in 1 .. n /\ ~(i <= k) /\ i # k + 1 /\ i - 1 < j - 1
        BY <1>1, <1>2, <1>8, <3>5
      <4>2. list'[i] = list[i - 1]
        BY <1>3, <4>1
      <4> QED
        BY <1>5, <3>1, <3>2, <4>1, <4>2
    <3> QED
      BY <1>2, <3>3, <3>4, <3>5
  <2> QED
    BY <1>2, <2>1, <2>2, <2>3
<1> QED
  BY <1>1, <1>8 DEF ListOrdered

\* The list is emptied, or grows by one new module, or stays as it is.
LEMMA ListMoves ==
  ASSUME [Next]_vars
  PROVE  \/ list' = list \/ list' = <<>>
         \/ \E m \in Modules : m \notin Listed /\ list' = node_insert(m)
<1> DEFINE Moves == \/ list' = list \/ list' = <<>>
                    \/ \E m \in Modules : m \notin Listed /\ list' = node_insert(m)
<1>r. ASSUME NEW op, NEW ret, Refuse(op, ret) PROVE Moves
  BY <1>r DEF Refuse, state, registry
<1>k. UNCHANGED registry => Moves
  BY DEF registry
<1>1. CASE UNCHANGED vars
  BY <1>1 DEF vars, state, registry
<1>2. ASSUME NEW m \in Modules, OnModule(m) PROVE Moves
  <2>1. CASE param_module_register(m) \/ ip_driver_register(m)
    BY <1>r, <2>1 DEF param_module_register, ip_driver_register, insert_module
  <2>2. ASSUME NEW l \in Lids, NEW v \in Values, ip_control(m, l, v)
        PROVE  Moves
    BY <1>r, <1>k, <2>2 DEF ip_control
  <2> QED
    BY <1>2, <2>1, <2>2 DEF OnModule
<1>3. ASSUME NEW p \in Params, OnEntry(p) PROVE Moves
  <2>1. ASSUME NEW v \in Values,
               param_write(p, v) \/ param_write_raw(p, v)
                 \/ param_write_immediate(p, v)
        PROVE  Moves
    BY <1>r, <1>k, <2>1
       DEF param_write, param_write_raw, param_write_immediate, not_found
  <2>2. CASE param_exec(p) \/ param_set_range(p) \/ param_reset_one(p)
    BY <1>r, <1>k, <2>2 DEF param_exec, param_set_range, param_reset_one, not_found
  <2>3. CASE param_load_one(p)
    BY <1>r, <1>k, <2>3 DEF param_load_one, no_storage, load_entries
  <2> QED
    BY <1>3, <2>1, <2>2, <2>3 DEF OnEntry
<1>4. CASE OnAll
  <2>1. CASE param_init \/ param_deinit \/ param_set_storage \/ param_clear_stats
    BY <1>r, <2>1
       DEF param_init, param_deinit, param_set_storage, param_clear_stats
  <2>2. CASE param_flush \/ param_check_flush_integrity \/ param_save
    BY <1>r, <2>2
       DEF param_flush, param_check_flush_integrity, param_save, no_storage
  <2>3. CASE param_load_all
    BY <1>r, <1>k, <2>3 DEF param_load_all, no_storage, load_entries
  <2>4. CASE load_all_init \/ param_reset_all \/ param_validate_all
    BY <1>r, <1>k, <2>4 DEF load_all_init, param_reset_all, param_validate_all
  <2> QED
    BY <1>4, <2>1, <2>2, <2>3, <2>4 DEF OnAll
<1> QED
  BY <1>1, <1>2, <1>3, <1>4 DEF Next

\* The module list is always sorted by MODULE_INIT_ORDER, without repetitions.
THEOREM OrderKept == Spec => []ListOrdered
<1>1. Init => ListOrdered
  BY DEF Init, ListOrdered
<1>2. TypeOK /\ ListOrdered /\ [Next]_vars => ListOrdered'
  <2> SUFFICES ASSUME TypeOK, ListOrdered, [Next]_vars PROVE ListOrdered'
    OBVIOUS
  <2>1. CASE list' = list
    BY <2>1 DEF ListOrdered
  <2>2. CASE list' = <<>>
    BY <2>2 DEF ListOrdered
  <2> QED
    BY <2>1, <2>2, ListMoves, InsertOrdered
<1> QED
  BY <1>1, <1>2, TypeCorrect, PTL DEF Spec

-----------------------------------------------------------------------------
(* What single calls may never do. *)

Writes(p, v) ==
  param_write(p, v) \/ param_write_raw(p, v) \/ param_write_immediate(p, v)

WriteOps == {"write", "write_raw", "write_immediate"}

\* The recorded call tells the action: a flush, a write of any kind, or one
\* that leaves the cached values alone unless it loads, resets or clamps them.
LEMMA CallRecord ==
  ASSUME Next
  PROVE  /\ call'.op = "flush" => param_flush
         /\ call'.op \in WriteOps => \E p \in Params, v \in Values : Writes(p, v)
         /\ \/ UNCHANGED cache
            \/ \E p \in Params, v \in Values : Writes(p, v)
            \/ call'.op \in {"load", "load_all", "reset_one", "reset_all"}
            \/ \E p \in Params : param_set_range(p)
            \/ param_validate_all
<1> DEFINE Told == /\ call'.op = "flush" => param_flush
                   /\ call'.op \in WriteOps =>
                        \E p \in Params, v \in Values : Writes(p, v)
                   /\ \/ UNCHANGED cache
                      \/ \E p \in Params, v \in Values : Writes(p, v)
                      \/ call'.op \in {"load", "load_all", "reset_one", "reset_all"}
                      \/ \E p \in Params : param_set_range(p)
                      \/ param_validate_all
<1>o. ASSUME NEW op, op \notin WriteOps \cup {"flush"}, NEW ret, Return(op, ret),
             \/ UNCHANGED cache
             \/ op \in {"load", "load_all", "reset_one", "reset_all"}
      PROVE  Told
  BY <1>o DEF Return
<1>r. ASSUME NEW op, op \notin WriteOps \cup {"flush"}, NEW ret, Refuse(op, ret)
      PROVE  Told
  BY <1>o, <1>r DEF Refuse, state
<1>1. ASSUME NEW m \in Modules, OnModule(m) PROVE Told
  <2>1. CASE param_module_register(m) \/ ip_driver_register(m)
    BY <1>o, <1>r, <2>1
       DEF param_module_register, ip_driver_register, insert_module, WriteOps
  <2>2. ASSUME NEW l \in Lids, NEW v \in Values, ip_control(m, l, v) PROVE Told
    BY <1>o, <1>r, <2>2 DEF ip_control, WriteOps
  <2> QED
    BY <1>1, <2>1, <2>2 DEF OnModule
<1>2. ASSUME NEW p \in Params, OnEntry(p) PROVE Told
  <2>1. ASSUME NEW v \in Values, Writes(p, v) PROVE Told
    <3>1. call'.op \in WriteOps
      BY <2>1 DEF Writes, param_write, param_write_raw, param_write_immediate,
                  not_found, Refuse, Return, WriteOps
    <3> QED
      BY <2>1, <3>1 DEF WriteOps
  <2>2. CASE param_exec(p)
    BY <1>o, <1>r, <2>2 DEF param_exec, WriteOps
  <2>3. CASE param_load_one(p)
    BY <1>o, <1>r, <2>3 DEF param_load_one, no_storage, WriteOps
  <2>4. CASE param_reset_one(p)
    BY <1>o, <1>r, <2>4 DEF param_reset_one, not_found, WriteOps
  <2>5. CASE param_set_range(p)
    <3>1. call'.op = "set_range"
      BY <2>5 DEF param_set_range, Refuse, Return
    <3> QED
      BY <2>5, <3>1 DEF WriteOps
  <2> QED
    BY <1>2, <2>1, <2>2, <2>3, <2>4, <2>5 DEF OnEntry, Writes
<1>3. CASE OnAll
  <2>1. CASE param_init \/ param_deinit \/ param_set_storage
    BY <1>o, <1>r, <2>1 DEF param_init, param_deinit, param_set_storage, WriteOps
  <2>2. CASE param_flush
    <3>1. call'.op = "flush" /\ UNCHANGED cache
      BY <2>2 DEF param_flush, Refuse, Return, state
    <3> QED
      BY <2>2, <3>1 DEF WriteOps
  <2>3. CASE param_check_flush_integrity \/ param_save \/ param_clear_stats
    BY <1>o, <1>r, <2>3 DEF param_check_flush_integrity, param_save, no_storage,
                            param_clear_stats, WriteOps
  <2>4. CASE param_load_all \/ param_reset_all
    BY <1>o, <1>r, <2>4 DEF param_load_all, param_reset_all, no_storage, WriteOps
  <2>5. CASE load_all_init
    BY <1>o, <2>5 DEF load_all_init, WriteOps
  <2>6. CASE param_validate_all
    <3>1. call'.op = "validate_all"
      BY <2>6 DEF param_validate_all, Return
    <3> QED
      BY <2>6, <3>1 DEF WriteOps
  <2> QED
    BY <1>3, <2>1, <2>2, <2>3, <2>4, <2>5, <2>6 DEF OnAll
<1> QED
  BY <1>1, <1>2, <1>3 DEF Next

\* A flush that fails always leaves work that the next flush will find.
THEOREM FlushRetries == Spec => FailedFlushRetries
<1>1. TypeOK /\ [Next]_vars =>
        [call'.op = "flush" /\ call'.ret = "IO" =>
           \E m \in Listed : m \in mod_dirty' /\ (Kind[m] = "ip" => dirty_map'[m] # {})
        ]_vars
  <2> SUFFICES ASSUME TypeOK, Next, call'.op = "flush", call'.ret = "IO"
               PROVE  \E m \in Listed :
                        m \in mod_dirty' /\ (Kind[m] = "ip" => dirty_map'[m] # {})
    OBVIOUS
  <2>1. param_flush
    BY CallRecord
  <2>2. PICK stop \in Outcomes :
          /\ flush_modules(stop)
          /\ Return("flush", IF Failed(stop) = {} THEN "OK" ELSE "IO")
    BY <2>1 DEF param_flush, Refuse, Return
  <2>3. PICK m \in Failed(stop) : TRUE
    BY <2>2 DEF Return
  <2>4. m \in Flushing /\ m \in Listed /\ m \in mod_dirty /\ m \notin Done(stop)
    BY <2>3 DEF Failed, Done, Flushing, Listed
  <2>5. m \in Modules
    BY <2>4 DEF TypeOK
  <2>6. m \in mod_dirty' /\ dirty_map'[m] = dirty_map[m]
    BY <2>2, <2>4, <2>5 DEF flush_modules
  <2>7. ASSUME Kind[m] = "ip" PROVE dirty_map[m] # {}
    <3>1. stop[m] \in Stops(m) /\ stop[m] # Len(Table[m])
      <4>1. Len(Table[m]) \in Nat
        BY <2>5, TablesAssumption, LenProperties
      <4> QED
        BY <2>3, <2>4, <4>1 DEF Outcomes, Failed
    <3>2. Sendable(m) # {}
      BY <2>7, <3>1 DEF Stops
    <3> QED
      BY <3>2 DEF Sendable
  <2> QED
    BY <2>4, <2>6, <2>7
<1> QED
  BY <1>1, TypeCorrect, PTL DEF Spec, FailedFlushRetries

\* One write changes one cached value and one register, its own.
LEMMA WriteTouches ==
  ASSUME TypeOK, NEW p \in Params, NEW v \in Values, Writes(p, v),
         NEW q \in Params, q # p
  PROVE  cache'[q] = cache[q] /\ hw'[Owner[q]][Lid[q]] = hw[Owner[q]][Lid[q]]
<1>1. /\ Owner[p] \in Modules /\ Lid[p] \in Lids
      /\ Owner[q] \in Modules /\ Lid[q] \in Lids
      /\ Owner[p] # Owner[q] \/ Lid[p] # Lid[q]
  BY ParamsAssumption
<1>2. /\ cache' = cache \/ \E w : cache' = [cache EXCEPT ![p] = w]
      /\ hw' = hw \/ \E w : hw' = [hw EXCEPT ![Owner[p]][Lid[p]] = w]
  <2>1. CASE param_write(p, v)
    BY <2>1 DEF param_write, not_found, Refuse, state, entry_write, app_write,
                ip_param_write
  <2>2. CASE param_write_raw(p, v)
    BY <2>2 DEF param_write_raw, not_found, Refuse, state, entry_write, app_write,
                ip_param_write, run_exec_cb
  <2>3. CASE param_write_immediate(p, v)
    BY <2>3 DEF param_write_immediate, not_found, Refuse, state,
                app_write_immediate, ip_write_immediate, run_exec_cb
  <2> QED
    BY <2>1, <2>2, <2>3 DEF Writes
<1>3. cache'[q] = cache[q]
  BY <1>2 DEF TypeOK
<1>4. CASE hw' = hw
  BY <1>3, <1>4
<1>5. ASSUME NEW w, hw' = [hw EXCEPT ![Owner[p]][Lid[p]] = w]
      PROVE  hw'[Owner[q]][Lid[q]] = hw[Owner[q]][Lid[q]]
  BY <1>1, <1>5 DEF TypeOK
<1> QED
  BY <1>2, <1>3, <1>4, <1>5

\* An App entry that is no command ends up with what its pre_write made of v,
\* in the cache and, when it has an apply, with the algorithm.
LEMMA AppWritten ==
  ASSUME TypeOK, NEW p \in Params, NEW v \in Values, Writes(p, v),
         App(p), "exec" \notin Flags[p], call'.ret = "OK"
  PROVE  /\ cache'[p] = pre_write(p, v)
         /\ HasApply(p) => hw'[Owner[p]][Lid[p]] = pre_write(p, v)
         /\ limits' = limits
<1>1. /\ app_write(p, v) \/ app_write_immediate(p, v)
      /\ limits' = limits
  <2>1. "OK" \notin app_write_errors(p, v)
    BY DEF app_write_errors
  <2>2. "OK" \notin app_write_immediate_errors(p, v)
    BY DEF app_write_immediate_errors
  <2>3. "OK" \notin bad_length(p)
    BY DEF bad_length
  <2>4. CASE param_write(p, v)
    BY <2>1, <2>4 DEF param_write, not_found, Refuse, Return, entry_write,
                      entry_write_errors
  <2>5. CASE param_write_raw(p, v)
    BY <2>1, <2>3, <2>5 DEF param_write_raw, not_found, Refuse, Return, entry_write,
                      entry_write_errors
  <2>6. CASE param_write_immediate(p, v)
    BY <2>2, <2>6 DEF param_write_immediate, not_found, Refuse, Return
  <2> QED
    BY <2>4, <2>5, <2>6 DEF Writes
<1>2. Owner[p] \in Modules /\ Lid[p] \in Lids
  BY ParamsAssumption
<1>3. cache'[p] = pre_write(p, v)
  BY <1>1 DEF app_write, app_write_immediate, TypeOK
<1>4. HasApply(p) => hw' = [hw EXCEPT ![Owner[p]][Lid[p]] = pre_write(p, v)]
  BY <1>1 DEF app_write, app_write_immediate
<1>5. HasApply(p) => hw'[Owner[p]][Lid[p]] = pre_write(p, v)
  BY <1>2, <1>4 DEF TypeOK
<1> QED
  BY <1>1, <1>3, <1>5

\* The algorithm and the cache never part over a write.
THEOREM AppliedCached == Spec => AppliedValueCached
<1>1. TypeOK /\ [Next]_vars =>
        [\A p \in hashed :
           App(p) /\ HasApply(p) /\ "exec" \notin Flags[p] /\ call'.ret = "OK"
             /\ call'.op \in {"write", "write_raw", "write_immediate"}
             /\ (cache'[p] # cache[p]
                   \/ hw'[Owner[p]][Lid[p]] # hw[Owner[p]][Lid[p]])
           => hw'[Owner[p]][Lid[p]] = cache'[p]]_vars
  <2> SUFFICES ASSUME TypeOK, Next, NEW q \in hashed,
                      App(q), HasApply(q), "exec" \notin Flags[q],
                      call'.ret = "OK", call'.op \in WriteOps,
                      cache'[q] # cache[q]
                        \/ hw'[Owner[q]][Lid[q]] # hw[Owner[q]][Lid[q]]
               PROVE  hw'[Owner[q]][Lid[q]] = cache'[q]
    BY DEF WriteOps
  <2>1. PICK p \in Params, v \in Values : Writes(p, v)
    BY CallRecord
  <2>2. q \in Params
    BY DEF TypeOK
  <2>3. p = q
    BY <2>1, <2>2, WriteTouches
  <2> QED
    BY <2>1, <2>3, AppWritten
<1> QED
  BY <1>1, TypeCorrect, PTL DEF Spec, AppliedValueCached

\* What the clamp returns is in the range, unless the range is empty.
LEMMA ClampBounds ==
  ASSUME NEW r \in Limits, NEW v \in Values, r.on
  PROVE  \/ r.min <= clamp_value_to_range(r, v) /\ clamp_value_to_range(r, v) <= r.max
         \/ r.min > r.max
<1>1. r.min \in Int /\ r.max \in Int /\ v \in Int
  BY ParamsAssumption DEF Limits
<1> QED
  BY <1>1 DEF clamp_value_to_range

\* A write that fails, and a command, leave the cache alone.
LEMMA AppCacheKept ==
  ASSUME NEW p \in Params, NEW v \in Values, Writes(p, v), App(p),
         "exec" \in Flags[p] \/ call'.ret # "OK"
  PROVE  cache' = cache
<1>1. CASE param_write(p, v)
  BY <1>1 DEF param_write, not_found, Refuse, Return, state, entry_write, app_write
<1>2. CASE param_write_raw(p, v)
  BY <1>2 DEF param_write_raw, not_found, Refuse, Return, state, entry_write,
              app_write
<1>3. CASE param_write_immediate(p, v)
  BY <1>3 DEF param_write_immediate, not_found, Refuse, Return, state,
              app_write_immediate
<1> QED
  BY <1>1, <1>2, <1>3 DEF Writes

\* A numeric value that changes other than by a load or a reset is in range.
THEOREM ClampKept == Spec => NumericClamped
<1>1. TypeOK /\ [Next]_vars =>
        [\A p \in Numeric :
           cache'[p] # cache[p] =>
             \/ InRange(p, cache[p])'
             \/ limits'[p].min > limits'[p].max
             \/ call'.op \in {"load", "load_all", "reset_one", "reset_all"}]_vars
  <2> SUFFICES ASSUME TypeOK, Next, NEW p \in Numeric, cache'[p] # cache[p],
                      call'.op \notin {"load", "load_all", "reset_one", "reset_all"}
               PROVE  \/ InRange(p, cache[p])'
                      \/ limits'[p].min > limits'[p].max
    OBVIOUS
  <2>0. p \in Params /\ App(p) /\ limits[p] \in Limits /\ cache[p] \in Values
    BY ParamsAssumption DEF App, TypeOK
  <2>1. ASSUME NEW v \in Values, cache'[p] = clamp_value_to_range(limits'[p], v),
               limits'[p] \in Limits
        PROVE  InRange(p, cache[p])' \/ limits'[p].min > limits'[p].max
    BY <2>1, ClampBounds DEF InRange
  <2>2. ASSUME NEW q \in Params, NEW v \in Values, Writes(q, v)
        PROVE  InRange(p, cache[p])' \/ limits'[p].min > limits'[p].max
    <3>1. p = q
      BY <2>0, <2>2, WriteTouches
    <3>2. "exec" \notin Flags[p] /\ call'.ret = "OK"
      BY <2>0, <2>2, <3>1, AppCacheKept
    <3>3. cache'[p] = clamp_value_to_range(limits[p], v) /\ limits' = limits
      BY <2>0, <2>2, <3>1, <3>2, AppWritten DEF pre_write, clamp
    <3> QED
      BY <2>0, <2>1, <3>3
  <2>3. ASSUME NEW q \in Params, param_set_range(q)
        PROVE  InRange(p, cache[p])' \/ limits'[p].min > limits'[p].max
    <3>1. PICK lo \in LimitArgs \cup {limits[q].min},
               hi \in LimitArgs \cup {limits[q].max} :
            /\ limits' = [limits EXCEPT ![q] = [on |-> TRUE, min |-> lo, max |-> hi]]
            /\ cache' = [cache EXCEPT ![q] =
                 clamp_value_to_range([on |-> TRUE, min |-> lo, max |-> hi], @)]
      BY <2>3 DEF param_set_range, Refuse, state
    <3>2. p = q
      BY <2>0, <3>1 DEF TypeOK
    <3>3. [on |-> TRUE, min |-> lo, max |-> hi] \in Limits
      BY <2>0, <3>2, ParamsAssumption DEF Limits
    <3>4. limits'[p] = [on |-> TRUE, min |-> lo, max |-> hi]
      BY <2>0, <3>1, <3>2 DEF TypeOK
    <3>5. cache'[p] = clamp_value_to_range(limits'[p], cache[p])
      BY <2>0, <3>1, <3>2, <3>4 DEF TypeOK
    <3> QED
      BY <2>0, <2>1, <3>3, <3>4, <3>5
  <2>4. CASE param_validate_all
    <3>1. cache'[p] = clamp_value_to_range(limits[p], cache[p]) /\ limits' = limits
      BY <2>0, <2>4 DEF param_validate_all, clamp
    <3> QED
      BY <2>0, <2>1, <3>1
  <2> QED
    BY <2>2, <2>3, <2>4, CallRecord
<1> QED
  BY <1>1, TypeCorrect, PTL DEF Spec, NumericClamped

=============================================================================
