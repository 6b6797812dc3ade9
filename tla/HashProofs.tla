----------------------------- MODULE HashProofs -----------------------------
(***************************************************************************)
(* Linear probing implements the id directory, for every table size, every *)
(* hash and every set of tables.  The argument: a slot never becomes empty *)
(* on its own, so the slots a probe passed when an entry went in are still *)
(* occupied when the entry is looked up.                                   *)
(***************************************************************************)
EXTENDS ParamHash, TLAPS, WellFoundedInduction

Slots == 0 .. HashSize - 1

HashTypeOK ==
  /\ initialized \in BOOLEAN
  /\ slot \in [Slots -> Entries \cup {NoEntry}]
  /\ listed \subseteq Modules
  /\ reg \in [m : Modules \cup {None}, i : Nat, calm : BOOLEAN]

\* The entry in slot s is where a probe for its id gets to over occupied slots.
Reaches(s) ==
  \E i \in Probes : /\ Probe[Id[slot[s]]][i] = s
                    /\ \A j \in 0 .. i - 1 : Occupied(Id[slot[s]], j)

Reached == \A s \in Slots : slot[s] # NoEntry => Reaches(s)

\* A module that is being registered is not in the list yet.
RegNotListed == Registering => reg.m \notin listed

HashInv == HashTypeOK /\ Reached /\ RegNotListed

-----------------------------------------------------------------------------
(* Arithmetic of the probe. *)

LEMMA LeastNumber ==
  ASSUME NEW T, T \subseteq Nat, T # {}
  PROVE  \E x \in T : \A y \in T : x <= y
<1> DEFINE R == OpToRel(<, Nat)
<1>1. IsWellFoundedOn(R, Nat)
  BY NatLessThanWellFounded
<1>2. \A x, y \in Nat : y < x => <<y, x>> \in R
  BY DEF OpToRel
<1> HIDE DEF R
<1>3. PICK x \in T : \A y \in T : ~ (<<y, x>> \in R)
  BY <1>1, WFMin
<1>4. x \in Nat /\ \A y \in T : y \in Nat /\ ~ (y < x)
  BY <1>2, <1>3
<1>5. \A y \in T : x <= y
  BY <1>4
<1> QED BY <1>5

LEMMA SlotRangeType ==
  /\ SlotRange \in Nat \ {0}
  /\ SlotRange <= HashSize
  /\ Probes \subseteq Slots
BY HashAssumption DEF SlotRange, Probes, Slots

LEMMA IndexType ==
  ASSUME NEW id \in Ids
  PROVE  hash_index[id] \in Probes
<1>1. Hash[id] \in Nat
  BY HashAssumption
<1>2. Hash[id] % SlotRange \in 0 .. SlotRange - 1
  BY <1>1, SlotRangeType
<1> QED BY <1>2 DEF hash_index, Probes

LEMMA ProbeType ==
  ASSUME NEW id \in Ids, NEW i \in Probes
  PROVE  Probe[id][i] \in Probes
<1>1. Probe[id][i] = IF hash_index[id] + i < SlotRange THEN hash_index[id] + i
                     ELSE hash_index[id] + i - SlotRange
  BY DEF Probe
<1> QED BY <1>1, IndexType, SlotRangeType DEF Probes

\* Every slot of the range is visited.
LEMMA ProbeOnto ==
  ASSUME NEW id \in Ids, NEW s \in Probes
  PROVE  \E i \in Probes : Probe[id][i] = s
<1> DEFINE h == hash_index[id]
           k == IF s < h THEN s - h + SlotRange ELSE s - h
<1>1. h \in Probes /\ SlotRange \in Nat
  BY IndexType, SlotRangeType
<1>2. k \in Probes /\ (IF h + k < SlotRange THEN h + k ELSE h + k - SlotRange) = s
  BY <1>1 DEF Probes
<1>3. Probe[id][k] = IF h + k < SlotRange THEN h + k ELSE h + k - SlotRange
  BY <1>2 DEF Probe
<1> QED BY <1>2, <1>3

-----------------------------------------------------------------------------
(* Lookups. *)

\* hash_find returns what its first matching probe holds.
LEMMA FoundIs ==
  ASSUME NEW id \in Ids, NEW i \in Probes, FoundAt(id, i)
  PROVE  hash_find(id) = slot[Probe[id][i]]
<1> DEFINE k == CHOOSE j \in Probes : FoundAt(id, j)
<1>1. k \in Probes /\ FoundAt(id, k)
  OBVIOUS
<1> HIDE DEF k
<1>2. k = i
  BY <1>1, SlotRangeType DEF FoundAt, Probes
<1>3. hash_find(id) = slot[Probe[id][k]]
  BY DEF hash_find, k
<1> QED BY <1>2, <1>3

\* An entry that a probe reaches is found, or one with its id before it.
LEMMA StoredFound ==
  ASSUME HashTypeOK, Reached, NEW s \in Slots, slot[s] # NoEntry
  PROVE  \E i \in Probes : FoundAt(Id[slot[s]], i)
<1> DEFINE id == Id[slot[s]]
           T  == {i \in Probes : Occupied(id, i) /\ Id[slot[Probe[id][i]]] = id}
<1>1. PICK k \in Probes : /\ Probe[id][k] = s
                          /\ \A j \in 0 .. k - 1 : Occupied(id, j)
  BY DEF Reached, Reaches
<1>2. k \in T
  BY <1>1 DEF Occupied
<1>3. T \subseteq Nat
  BY SlotRangeType DEF Probes
<1>4. PICK i \in T : \A j \in T : i <= j
  BY <1>2, <1>3, LeastNumber
<1>5. i <= k /\ i \in Probes
  BY <1>2, <1>4
<1>6. \A j \in 0 .. i - 1 : j \in Probes /\ j \in 0 .. k - 1 /\ j \notin T
  <2> HIDE DEF T
  <2>1. i \in Nat /\ k \in Nat /\ SlotRange \in Nat
    BY <1>3, <1>4, <1>5, SlotRangeType DEF Probes
  <2>2. \A j \in 0 .. i - 1 : j \in Probes /\ j \in 0 .. k - 1
    BY <2>1, <1>5 DEF Probes
  <2> QED BY <1>4, <2>1, <2>2
<1>7. FoundAt(id, i)
  <2> HIDE DEF id
  <2> QED BY <1>1, <1>4, <1>6 DEF FoundAt
<1> QED BY <1>5, <1>7

\* StoredIsFound follows.
LEMMA StoredIsFoundHolds ==
  HashTypeOK /\ Reached => StoredIsFound
<1> SUFFICES ASSUME HashTypeOK, Reached, NEW s \in Slots, slot[s] # NoEntry
             PROVE  /\ hash_find(Id[slot[s]]) # NoEntry
                    /\ Id[hash_find(Id[slot[s]])] = Id[slot[s]]
  BY DEF StoredIsFound, Slots
<1>1. Id[slot[s]] \in Ids
  BY HashAssumption DEF HashTypeOK
<1>2. PICK i \in Probes : FoundAt(Id[slot[s]], i)
  BY StoredFound
<1>3. hash_find(Id[slot[s]]) = slot[Probe[Id[slot[s]]][i]]
  BY <1>1, <1>2, FoundIs
<1> QED BY <1>2, <1>3 DEF FoundAt, Occupied

-----------------------------------------------------------------------------
(* One insertion: e goes into the slot s that probe i of its id gives. *)

Insertion(e, i) ==
  /\ FreeAt(Id[e], i)
  /\ slot' = [slot EXCEPT ![Probe[Id[e]][i]] = e]

LEMMA InsertSlots ==
  ASSUME HashTypeOK, NEW e \in Entries, NEW i \in Probes, Insertion(e, i)
  PROVE  LET s == Probe[Id[e]][i] IN
         /\ s \in Slots /\ slot[s] = NoEntry /\ slot'[s] = e
         /\ slot' \in [Slots -> Entries \cup {NoEntry}]
         /\ \A t \in Slots : t # s => slot'[t] = slot[t]
         /\ \A t \in Slots : slot[t] # NoEntry => slot'[t] = slot[t]
<1>1. Id[e] \in Ids
  BY HashAssumption
<1>2. Probe[Id[e]][i] \in Slots
  BY <1>1, ProbeType, SlotRangeType
<1> QED BY <1>2 DEF Insertion, FreeAt, Occupied, HashTypeOK

\* A probe's slots are slots.
LEMMA ProbeSlots ==
  ASSUME NEW id \in Ids, NEW i \in Probes
  PROVE  \A j \in 0 .. i : j \in Probes /\ Probe[id][j] \in Slots
<1>1. \A j \in 0 .. i : j \in Probes
  BY SlotRangeType DEF Probes
<1> QED BY <1>1, ProbeType, SlotRangeType

\* Occupied slots stay occupied, so what was reached still is; so is e.
LEMMA InsertReached ==
  ASSUME HashTypeOK, Reached, NEW e \in Entries, NEW i \in Probes,
         Insertion(e, i)
  PROVE  Reached'
<1> SUFFICES ASSUME NEW t \in Slots, slot'[t] # NoEntry
             PROVE  Reaches(t)'
  BY DEF Reached
<1>1. \A id \in Ids : \A k \in Probes :
        (\A j \in 0 .. k - 1 : Occupied(id, j))
          => \A j \in 0 .. k - 1 : Occupied(id, j)'
  <2> SUFFICES ASSUME NEW id \in Ids, NEW k \in Probes, NEW j \in 0 .. k - 1,
                      Occupied(id, j)
               PROVE  Occupied(id, j)'
    OBVIOUS
  <2>1. Probe[id][j] \in Slots
    BY ProbeSlots, SlotRangeType DEF Probes
  <2> QED BY <2>1, InsertSlots DEF Occupied
<1>2. CASE t = Probe[Id[e]][i]
  <2>1. slot'[t] = e /\ Id[e] \in Ids
    BY <1>2, InsertSlots, HashAssumption
  <2>2. \A j \in 0 .. i - 1 : Occupied(Id[e], j)
    BY DEF Insertion, FreeAt
  <2> QED BY <1>1, <1>2, <2>1, <2>2 DEF Reaches
<1>3. CASE t # Probe[Id[e]][i]
  <2>1. slot'[t] = slot[t] /\ slot[t] \in Entries
    BY <1>3, InsertSlots DEF HashTypeOK
  <2>2. Id[slot[t]] \in Ids
    BY <2>1, HashAssumption
  <2>3. PICK k \in Probes : /\ Probe[Id[slot[t]]][k] = t
                            /\ \A j \in 0 .. k - 1 : Occupied(Id[slot[t]], j)
    BY <2>1, HashAssumption DEF Reached, Reaches
  <2> QED BY <1>1, <2>1, <2>2, <2>3 DEF Reaches
<1> QED BY <1>2, <1>3

\* An id that was found is found at the same place.
LEMMA InsertKeepsFound ==
  ASSUME HashTypeOK, NEW e \in Entries, NEW i \in Probes, Insertion(e, i),
         NEW id \in Ids, NEW k \in Probes, FoundAt(id, k)
  PROVE  FoundAt(id, k)' /\ slot'[Probe[id][k]] = slot[Probe[id][k]]
<1>1. \A j \in 0 .. k : Probe[id][j] \in Slots
  BY ProbeSlots
<1>2. \A j \in 0 .. k : slot[Probe[id][j]] # NoEntry
  BY SlotRangeType DEF FoundAt, Occupied, Probes
<1>3. \A j \in 0 .. k : slot'[Probe[id][j]] = slot[Probe[id][j]]
  BY <1>1, <1>2, InsertSlots
<1>4. k \in 0 .. k /\ \A j \in 0 .. k - 1 : j \in 0 .. k
  BY SlotRangeType DEF Probes
<1> QED BY <1>2, <1>3, <1>4 DEF FoundAt, Occupied

\* An id that is found after the insertion was found before, or is e's own.
LEMMA InsertFindsOnlyNew ==
  ASSUME HashTypeOK, Reached, NEW e \in Entries, NEW i \in Probes,
         Insertion(e, i), NEW id \in Ids, id # Id[e],
         NEW k \in Probes, FoundAt(id, k)'
  PROVE  \E l \in Probes : FoundAt(id, l)
<1> DEFINE s == Probe[id][k]
<1>1. s \in Slots
  BY ProbeType, SlotRangeType
<1>2. slot'[s] # NoEntry /\ Id[slot'[s]] = id
  BY DEF FoundAt, Occupied
<1>3. slot'[s] # e
  BY <1>2
<1>4. slot'[s] = slot[s]
  BY <1>1, <1>3, InsertSlots
<1>5. slot[s] # NoEntry /\ Id[slot[s]] = id
  BY <1>2, <1>4
<1> HIDE DEF s
<1> QED BY <1>1, <1>5, StoredFound

\* An id that was not found is found where its entry went.
LEMMA InsertFindsNew ==
  ASSUME HashTypeOK, Reached, NEW e \in Entries, NEW i \in Probes,
         Insertion(e, i), ~ \E k \in Probes : FoundAt(Id[e], k)
  PROVE  FoundAt(Id[e], i)' /\ slot'[Probe[Id[e]][i]] = e
<1>1. Id[e] \in Ids
  BY HashAssumption
<1>2. \A j \in 0 .. i - 1 : Probe[Id[e]][j] \in Slots
  BY <1>1, ProbeSlots, SlotRangeType DEF Probes
<1>3. \A j \in 0 .. i - 1 : /\ slot[Probe[Id[e]][j]] # NoEntry
                            /\ slot'[Probe[Id[e]][j]] = slot[Probe[Id[e]][j]]
  BY <1>2, InsertSlots DEF Insertion, FreeAt, Occupied
<1>4. \A j \in 0 .. i - 1 : Id[slot[Probe[Id[e]][j]]] # Id[e]
  <2> SUFFICES ASSUME NEW j \in 0 .. i - 1,
                      Id[slot[Probe[Id[e]][j]]] = Id[e]
               PROVE  FALSE
    OBVIOUS
  <2> DEFINE s == Probe[Id[e]][j]
  <2>1. s \in Slots /\ slot[s] # NoEntry /\ Id[slot[s]] = Id[e]
    BY <1>2, <1>3
  <2> HIDE DEF s
  <2> QED BY <2>1, StoredFound
<1>5. slot'[Probe[Id[e]][i]] = e /\ e # NoEntry
  BY InsertSlots, HashAssumption
<1> QED BY <1>3, <1>4, <1>5 DEF FoundAt, Occupied

-----------------------------------------------------------------------------
(* Every insertion adds to the directory, or is shadowed by its id. *)

Dir == [id \in Ids |-> hash_find(id)]

LEMMA FoundIsAfter ==
  ASSUME NEW id \in Ids, NEW i \in Probes, FoundAt(id, i)'
  PROVE  hash_find(id)' = slot'[Probe[id][i]]
<1> DEFINE Here(j)  == slot'[Probe[id][j]] # NoEntry /\ Id[slot'[Probe[id][j]]] = id
           Other(j) == slot'[Probe[id][j]] # NoEntry /\ Id[slot'[Probe[id][j]]] # id
           First(j) == Here(j) /\ \A l \in 0 .. j - 1 : Other(l)
           k        == CHOOSE j \in Probes : First(j)
<1>1. hash_find(id)' = IF \E j \in Probes : First(j) THEN slot'[Probe[id][k]]
                                                    ELSE NoEntry
  BY DEF hash_find, FoundAt, Occupied
<1>2. First(i)
  BY DEF FoundAt, Occupied
<1> HIDE DEF First
<1>3. k \in Probes /\ First(k)
  BY <1>2
<1> HIDE DEF k
<1>4. k = i
  BY <1>2, <1>3, SlotRangeType DEF First, Probes
<1> QED BY <1>1, <1>2, <1>4

LEMMA InsertKeepsOthers ==
  ASSUME HashTypeOK, Reached, NEW e \in Entries, NEW i \in Probes,
         Insertion(e, i), NEW id \in Ids,
         id # Id[e] \/ \E k \in Probes : FoundAt(id, k)
  PROVE  hash_find(id)' = hash_find(id)
<1>1. CASE \E k \in Probes : FoundAt(id, k)
  <2>1. PICK k \in Probes : FoundAt(id, k)
    BY <1>1
  <2>2. FoundAt(id, k)' /\ slot'[Probe[id][k]] = slot[Probe[id][k]]
    BY <2>1, InsertKeepsFound
  <2> QED BY <2>1, <2>2, FoundIs, FoundIsAfter
<1>2. CASE ~ \E k \in Probes : FoundAt(id, k)
  <2>1. \A k \in Probes : ~ FoundAt(id, k)'
    BY <1>2, InsertFindsOnlyNew
  <2> QED BY <1>2, <2>1 DEF hash_find
<1> QED BY <1>1, <1>2

LEMMA InsertIsAdd ==
  ASSUME HashTypeOK, Reached, NEW e \in Entries, NEW i \in Probes,
         Insertion(e, i)
  PROVE  Directory!Add(e) \/ Dir' = Dir
<1>1. Id[e] \in Ids /\ e # NoEntry
  BY HashAssumption
<1>2. CASE \E k \in Probes : FoundAt(Id[e], k)
  <2>1. \A id \in Ids : hash_find(id)' = hash_find(id)
    BY <1>2, InsertKeepsOthers
  <2> QED BY <2>1 DEF Dir
<1>3. CASE ~ \E k \in Probes : FoundAt(Id[e], k)
  <2>1. hash_find(Id[e]) = NoEntry
    BY <1>3 DEF hash_find
  <2>2. hash_find(Id[e])' = e
    BY <1>1, <1>3, InsertFindsNew, FoundIsAfter
  <2>3. \A id \in Ids : id # Id[e] => hash_find(id)' = hash_find(id)
    BY InsertKeepsOthers
  <2>4. Dir' = [Dir EXCEPT ![Id[e]] = e]
    BY <1>1, <2>2, <2>3 DEF Dir
  <2>5. Dir[Id[e]] = NoEntry
    BY <1>1, <2>1 DEF Dir
  <2> QED BY <2>4, <2>5 DEF Directory!Add, Dir
<1> QED BY <1>2, <1>3

\* With no entry in any slot no lookup finds anything.
LEMMA EmptyIsClear ==
  ASSUME slot' = NoSlots
  PROVE  Directory!Clear /\ Reached' /\ slot' \in [Slots -> Entries \cup {NoEntry}]
<1>1. \A s \in Slots : slot'[s] = NoEntry
  BY DEF NoSlots, Slots
<1>2. \A id \in Ids, i \in Probes : ~ FoundAt(id, i)'
  BY <1>1, ProbeType, SlotRangeType DEF FoundAt, Occupied
<1>3. \A id \in Ids : hash_find(id)' = NoEntry
  BY <1>2 DEF hash_find
<1>4. Reached'
  BY <1>1 DEF Reached
<1>5. slot' \in [Slots -> Entries \cup {NoEntry}]
  BY DEF NoSlots, Slots
<1> QED BY <1>3, <1>4, <1>5 DEF Directory!Clear

-----------------------------------------------------------------------------
(* The steps of the specification. *)

LEMMA HashInitInv ==
  HashInit => HashInv /\ Directory!Init
<1> SUFFICES ASSUME HashInit PROVE HashInv /\ Directory!Init
  OBVIOUS
<1>1. \A s \in Slots : slot[s] = NoEntry
  BY DEF HashInit, NoSlots, Slots
<1>2. HashTypeOK
  BY HashAssumption DEF HashInit, HashTypeOK, NoSlots, Slots, NoReg
<1>3. \A id \in Ids, i \in Probes : ~ FoundAt(id, i)
  BY <1>1, ProbeType, SlotRangeType DEF FoundAt, Occupied
<1>4. \A id \in Ids : hash_find(id) = NoEntry
  BY <1>3 DEF hash_find
<1>5. Reached /\ RegNotListed
  BY <1>1 DEF Reached, RegNotListed, HashInit, NoReg, Registering
<1> QED BY <1>2, <1>4, <1>5 DEF HashInv, Directory!Init

\* The entry at the cursor of a registration.
LEMMA TableEntryType ==
  ASSUME HashTypeOK, Registering, reg.i \in DOMAIN Table[reg.m]
  PROVE  TableEntry \in Entries \cup {NoEntry}
<1>1. reg.m \in Modules
  BY DEF HashTypeOK, Registering
<1>2. Table[reg.m] \in Seq(Entries \cup {NoEntry})
  BY <1>1, HashAssumption
<1> QED BY <1>2 DEF TableEntry

\* What each step does to the slots: nothing, everything, or one insertion.
SlotStep ==
  \/ slot' = slot
  \/ slot' = NoSlots
  \/ \E e \in Entries, i \in Probes : Insertion(e, i)

\* A registration empties nothing.
LEMMA RegistrationSlots ==
  ASSUME HashTypeOK, Registration \/ UNCHANGED hvars
  PROVE  slot' = slot \/ \E e \in Entries, i \in Probes : Insertion(e, i)
<1>1. CASE register_entry
  <2>1. TableEntry \in Entries \/ TableEntry = NoEntry
    BY <1>1, TableEntryType DEF register_entry
  <2>2. CASE Skipped
    BY <1>1, <2>2 DEF register_entry
  <2>3. CASE ~Skipped
    <3>1. hash_insert(TableEntry) /\ TableEntry \in Entries
      BY <1>1, <2>1, <2>3 DEF register_entry, Skipped
    <3> QED BY <3>1 DEF hash_insert, Insertion
  <2> QED BY <2>2, <2>3
<1>2. CASE \E m \in Modules : register_refused(m) \/ register_begin(m)
  BY <1>2 DEF register_refused, register_begin
<1>3. CASE register_no_memory \/ register_end
  BY <1>3 DEF register_no_memory, register_end
<1>4. CASE UNCHANGED hvars
  BY <1>4 DEF hvars
<1> QED BY <1>1, <1>2, <1>3, <1>4 DEF Registration

LEMMA SlotSteps ==
  HashTypeOK /\ [HashNext]_hvars => SlotStep
<1> SUFFICES ASSUME HashTypeOK, [HashNext]_hvars PROVE SlotStep
  OBVIOUS
<1>1. CASE Registration \/ UNCHANGED hvars
  BY <1>1, RegistrationSlots DEF SlotStep
<1>2. CASE \E m \in Modules : register_ask(m)
  BY <1>2 DEF register_ask, SlotStep
<1>3. CASE init_table \/ deinit_table \/ lose_memory
  BY <1>3 DEF init_table, deinit_table, lose_memory, SlotStep
<1> QED BY <1>1, <1>2, <1>3 DEF HashNext

LEMMA CursorStep ==
  ASSUME NEW M, NEW r \in [m : M, i : Nat, calm : BOOLEAN]
  PROVE  /\ [r EXCEPT !.i = r.i + 1] \in [m : M, i : Nat, calm : BOOLEAN]
         /\ [r EXCEPT !.i = r.i + 1].m = r.m
         /\ [r EXCEPT !.i = r.i + 1].i = r.i + 1
         /\ ([r EXCEPT !.i = r.i + 1].calm <=> r.calm)
OBVIOUS

LEMMA CursorUncalm ==
  ASSUME NEW M, NEW r \in [m : M, i : Nat, calm : BOOLEAN]
  PROVE  /\ [r EXCEPT !.calm = FALSE] \in [m : M, i : Nat, calm : BOOLEAN]
         /\ [r EXCEPT !.calm = FALSE].m = r.m
         /\ ~[r EXCEPT !.calm = FALSE].calm
OBVIOUS

LEMMA HashStepInv ==
  HashInv /\ [HashNext]_hvars => HashInv'
<1> SUFFICES ASSUME HashInv, [HashNext]_hvars PROVE HashInv'
  OBVIOUS
<1> USE DEF HashInv
<1>1. Reached' /\ slot' \in [Slots -> Entries \cup {NoEntry}]
  <2>1. CASE slot' = slot
    BY <2>1 DEF Reached, Reaches, Occupied, HashTypeOK
  <2>2. CASE slot' = NoSlots
    BY <2>2, EmptyIsClear
  <2>3. ASSUME NEW e \in Entries, NEW i \in Probes, Insertion(e, i)
        PROVE  Reached' /\ slot' \in [Slots -> Entries \cup {NoEntry}]
    BY <2>3, InsertReached, InsertSlots
  <2> QED BY <2>1, <2>2, <2>3, SlotSteps DEF SlotStep
<1> DEFINE Others == /\ initialized \in BOOLEAN /\ listed \subseteq Modules
                     /\ reg \in [m : Modules \cup {None}, i : Nat, calm : BOOLEAN]
                     /\ RegNotListed
<1>2. Others'
  <2> USE HashAssumption DEF HashTypeOK, RegNotListed, Registering
  <2>1. CASE register_entry
    <3>1. reg' = [reg EXCEPT !.i = reg.i + 1] /\ listed' = listed
      BY <2>1 DEF register_entry
    <3>2. reg \in [m : Modules \cup {None}, i : Nat, calm : BOOLEAN]
      OBVIOUS
    <3>3. reg' \in [m : Modules \cup {None}, i : Nat, calm : BOOLEAN] /\ reg'.m = reg.m
      BY <3>1, <3>2, CursorStep
    <3> QED BY <2>1, <3>1, <3>3 DEF register_entry
  <2>2. ASSUME NEW m \in Modules,
               register_ask(m) \/ register_refused(m) \/ register_begin(m)
        PROVE  Others'
    <3>1. CASE register_begin(m)
      <4>1. /\ reg' = [m |-> m, i |-> 1, calm |-> TRUE] /\ m \notin listed
            /\ UNCHANGED <<initialized, listed>>
        BY <3>1 DEF register_begin, AlreadyThere
      <4> QED BY <4>1
    <3>2. CASE register_ask(m) \/ register_refused(m)
      BY <3>2 DEF register_ask, register_refused
    <3> QED BY <2>2, <3>1, <3>2
  <2>3. CASE register_no_memory
    BY <2>3 DEF register_no_memory, NoReg
  <2>4. CASE register_end
    BY <2>4 DEF register_end, NoReg
  <2>5. CASE init_table
    <3>1. reg' = [reg EXCEPT !.calm = FALSE] /\ listed' = {} /\ initialized' \in BOOLEAN
      BY <2>5 DEF init_table
    <3>2. reg' \in [m : Modules \cup {None}, i : Nat, calm : BOOLEAN]
      BY <3>1, CursorUncalm
    <3> QED BY <3>1, <3>2
  <2>6. CASE deinit_table
    BY <2>6 DEF deinit_table
  <2>7. CASE lose_memory
    BY <2>7 DEF lose_memory, NoReg
  <2>8. CASE UNCHANGED hvars
    BY <2>8 DEF hvars
  <2> QED BY <2>1, <2>2, <2>3, <2>4, <2>5, <2>6, <2>7, <2>8
          DEF HashNext, Registration
<1> QED BY <1>1, <1>2 DEF HashTypeOK

LEMMA HashStepRefines ==
  HashInv /\ [HashNext]_hvars => [Directory!Next]_Dir
<1> SUFFICES ASSUME HashInv, [HashNext]_hvars
             PROVE  Directory!Next \/ Dir' = Dir
  OBVIOUS
<1>1. CASE slot' = slot
  BY <1>1 DEF Dir, hash_find, FoundAt, Occupied
<1>2. CASE slot' = NoSlots
  BY <1>2, EmptyIsClear DEF Directory!Next
<1>3. ASSUME NEW e \in Entries, NEW i \in Probes, Insertion(e, i)
      PROVE  Directory!Next \/ Dir' = Dir
  BY <1>3, InsertIsAdd DEF HashInv, Directory!Next
<1> QED BY <1>1, <1>2, <1>3, SlotSteps DEF SlotStep, HashInv

LEMMA HashStepNoMemory ==
  HashInv /\ [HashNext]_hvars =>
    (Registering /\ ~Registering' /\ listed' = listed /\ slot' # NoSlots
       => \A s \in Probes : slot[s] # NoEntry)
<1> SUFFICES ASSUME HashInv, [HashNext]_hvars, Registering, ~Registering',
                    listed' = listed, slot' # NoSlots,
                    NEW s \in Probes, slot[s] = NoEntry
             PROVE  FALSE
  OBVIOUS
<1>1. register_no_memory
  <2>1. ~ register_end
    BY DEF register_end, HashInv, RegNotListed
  <2>2. ~ register_entry /\ ~ UNCHANGED hvars
    BY DEF register_entry, Registering, hvars, HashInv, HashTypeOK
  <2>3. ~ init_table /\ ~ deinit_table /\ ~ lose_memory
    BY DEF init_table, deinit_table, lose_memory
  <2>4. ~ \E m \in Modules :
              register_ask(m) \/ register_refused(m) \/ register_begin(m)
    BY DEF register_ask, register_refused, register_begin, Registering
  <2> QED BY <2>1, <2>2, <2>3, <2>4 DEF HashNext, Registration
<1> DEFINE id == Id[TableEntry]
           T  == {i \in Probes : ~Occupied(id, i)}
<1>2. id \in Ids /\ ~ \E i \in Probes : FreeAt(id, i)
  <2>1. TableEntry \in Entries
    BY <1>1, TableEntryType DEF register_no_memory, Skipped, HashInv
  <2> QED BY <1>1, <2>1, HashAssumption DEF register_no_memory
<1> HIDE DEF id
<1>3. PICK k \in Probes : Probe[id][k] = s
  BY <1>2, ProbeOnto
<1>4. k \in T /\ T \subseteq Nat
  BY <1>3, SlotRangeType DEF Occupied, Probes
<1>5. PICK i \in T : \A j \in T : i <= j
  BY <1>4, LeastNumber
<1>6. i \in Probes /\ i \in Nat /\ ~Occupied(id, i)
  BY <1>4, <1>5
<1>7. \A j \in 0 .. i - 1 : j \in Probes /\ j \notin T
  <2> HIDE DEF T
  <2> QED BY <1>5, <1>6, SlotRangeType DEF Probes
<1>8. FreeAt(id, i)
  BY <1>6, <1>7 DEF FreeAt
<1> QED BY <1>2, <1>6, <1>8

-----------------------------------------------------------------------------
(* A registration that no param_init comes across: whatever its cursor has   *)
(* passed can be looked up.                                                  *)

\* The ids in module m's table before index i.
Passed(m, i) ==
  {Id[Table[m][j]] : j \in {k \in DOMAIN Table[m] :
                              k < i /\ Table[m][k] # NoEntry}}

PassedFound ==
  Registering =>
    /\ reg.i >= 1
    /\ reg.calm => \A id \in Passed(reg.m, reg.i) : hash_find(id) # NoEntry

LEMMA PassedIds ==
  ASSUME NEW m \in Modules, NEW i
  PROVE  Passed(m, i) \subseteq Ids
<1> SUFFICES ASSUME NEW j \in DOMAIN Table[m], Table[m][j] # NoEntry
             PROVE  Id[Table[m][j]] \in Ids
  BY DEF Passed
<1>1. Table[m] \in Seq(Entries \cup {NoEntry})
  BY HashAssumption
<1>2. Table[m][j] \in Entries
  BY <1>1
<1> QED BY <1>2, HashAssumption

LEMMA InsertFound ==
  ASSUME HashTypeOK, Reached, NEW e \in Entries, NEW i \in Probes,
         Insertion(e, i)
  PROVE  hash_find(Id[e])' # NoEntry
<1>1. Id[e] \in Ids /\ e # NoEntry
  BY HashAssumption
<1>2. CASE \E k \in Probes : FoundAt(Id[e], k)
  <2>1. PICK k \in Probes : FoundAt(Id[e], k)
    BY <1>2
  <2>2. hash_find(Id[e]) # NoEntry
    BY <1>1, <2>1, FoundIs DEF FoundAt, Occupied
  <2> QED BY <1>1, <1>2, <2>2, InsertKeepsOthers
<1>3. CASE ~ \E k \in Probes : FoundAt(Id[e], k)
  BY <1>1, <1>3, InsertFindsNew, FoundIsAfter
<1> QED BY <1>2, <1>3

\* Until the table is emptied an id that is found stays found.
LEMMA FoundStays ==
  ASSUME HashTypeOK, Reached, NEW id \in Ids, hash_find(id) # NoEntry,
         slot' = slot \/ \E e \in Entries, i \in Probes : Insertion(e, i)
  PROVE  hash_find(id)' # NoEntry
<1>1. CASE slot' = slot
  BY <1>1 DEF hash_find, FoundAt, Occupied
<1>2. ASSUME NEW e \in Entries, NEW i \in Probes, Insertion(e, i)
      PROVE  hash_find(id)' # NoEntry
  <2>1. \E k \in Probes : FoundAt(id, k)
    BY DEF hash_find
  <2> QED BY <1>2, <2>1, InsertKeepsOthers
<1> QED BY <1>1, <1>2

\* The cursor passes one entry: it is in the table now, or was found before.
LEMMA EntryFound ==
  ASSUME HashTypeOK, Reached, register_entry,
         NEW e \in Entries, e = TableEntry
  PROVE  hash_find(Id[e])' # NoEntry
<1>1. Id[e] \in Ids /\ e # NoEntry
  BY HashAssumption
<1>2. CASE Skipped
  <2>1. hash_find(Id[e]) # NoEntry /\ slot' = slot
    BY <1>1, <1>2 DEF register_entry, Skipped
  <2> QED BY <1>1, <2>1, FoundStays
<1>3. CASE ~Skipped
  <2>1. hash_insert(e)
    BY <1>3 DEF register_entry
  <2>2. PICK i \in Probes : Insertion(e, i)
    BY <2>1 DEF hash_insert, Insertion
  <2> QED BY <2>2, InsertFound
<1> QED BY <1>2, <1>3

LEMMA PassedFoundStep ==
  HashInv /\ PassedFound /\ [HashNext]_hvars => PassedFound'
<1> SUFFICES ASSUME HashInv, PassedFound, [HashNext]_hvars, reg'.m # None
             PROVE  PassedFound'
  BY DEF PassedFound, Registering
<1>1. ASSUME reg' = reg,
             slot' = slot \/ \E e \in Entries, i \in Probes : Insertion(e, i)
      PROVE  PassedFound'
  <2>1. Registering /\ reg.m \in Modules
    BY <1>1 DEF Registering, HashInv, HashTypeOK
  <2>2. ASSUME reg.calm, NEW id \in Passed(reg.m, reg.i)
        PROVE  hash_find(id)' # NoEntry
    <3>1. hash_find(id) # NoEntry /\ id \in Ids
      BY <2>1, <2>2, PassedIds DEF PassedFound
    <3> QED BY <1>1, <3>1, FoundStays DEF HashInv
  <2> QED BY <1>1, <2>1, <2>2 DEF PassedFound, Registering
<1>2. CASE register_entry
  <2>1. Registering /\ reg.m \in Modules /\ reg.i \in Nat
    BY <1>2 DEF register_entry, Registering, HashInv, HashTypeOK
  <2>2. slot' = slot \/ \E e \in Entries, i \in Probes : Insertion(e, i)
    BY <1>2, RegistrationSlots DEF HashInv, Registration
  <2>3. /\ reg'.m = reg.m /\ reg'.i = reg.i + 1 /\ (reg'.calm <=> reg.calm)
    <3>1. reg' = [reg EXCEPT !.i = reg.i + 1]
      BY <1>2 DEF register_entry
    <3> QED BY <3>1, CursorStep DEF HashInv, HashTypeOK
  <2>4. ASSUME reg.calm, NEW id \in Passed(reg.m, reg.i + 1)
        PROVE  hash_find(id)' # NoEntry
    <3>1. id \in Ids
      BY <2>1, <2>4, PassedIds
    <3>2. PICK j \in DOMAIN Table[reg.m] :
            j < reg.i + 1 /\ Table[reg.m][j] # NoEntry /\ id = Id[Table[reg.m][j]]
      BY <2>4 DEF Passed
    <3>3. j \in Int
      BY <2>1, HashAssumption
    <3>4. CASE j = reg.i
      <4>1. TableEntry \in Entries /\ id = Id[TableEntry]
        BY <1>2, <2>1, <3>2, <3>4, TableEntryType
           DEF HashInv, register_entry, TableEntry
      <4>2. PICK e \in Entries : e = TableEntry
        BY <4>1
      <4> QED BY <1>2, <4>1, <4>2, EntryFound DEF HashInv
    <3>5. CASE j < reg.i
      <4>1. id \in Passed(reg.m, reg.i)
        BY <3>2, <3>5 DEF Passed
      <4>2. hash_find(id) # NoEntry
        BY <2>1, <2>4, <4>1 DEF PassedFound
      <4> QED BY <2>2, <3>1, <4>2, FoundStays DEF HashInv
    <3> QED BY <2>1, <3>2, <3>3, <3>4, <3>5
  <2>5. reg'.i >= 1
    BY <2>1, <2>3
  <2> QED BY <2>3, <2>4, <2>5 DEF PassedFound
<1>3. ASSUME NEW m \in Modules, register_begin(m)
      PROVE  PassedFound'
  <2>1. reg' = [m |-> m, i |-> 1, calm |-> TRUE]
    BY <1>3 DEF register_begin
  <2>2. \A j \in DOMAIN Table[m] : ~(j < 1)
    BY HashAssumption
  <2>3. Passed(m, 1) = {}
    BY <2>2 DEF Passed
  <2> QED BY <2>1, <2>3 DEF PassedFound
<1>4. CASE init_table
  <2>1. reg' = [reg EXCEPT !.calm = FALSE]
    BY <1>4 DEF init_table
  <2>2. reg'.m = reg.m /\ ~reg'.calm /\ reg'.i = reg.i
    BY <2>1, CursorUncalm DEF HashInv, HashTypeOK
  <2> QED BY <2>2 DEF PassedFound, Registering
<1>5. CASE deinit_table
  BY <1>5 DEF deinit_table, Registering
<1>6. CASE lose_memory \/ register_no_memory \/ register_end
  BY <1>6 DEF lose_memory, register_no_memory, register_end, NoReg
<1>7. ASSUME NEW m \in Modules, register_ask(m) \/ register_refused(m)
      PROVE  PassedFound'
  BY <1>1, <1>7 DEF register_ask, register_refused
<1>8. CASE UNCHANGED hvars
  BY <1>1, <1>8 DEF hvars
<1> QED BY <1>2, <1>3, <1>4, <1>5, <1>6, <1>7, <1>8 DEF HashNext, Registration

\* The last step of a registration: its cursor has passed the whole table.
LEMMA RegisterEndFound ==
  HashInv /\ PassedFound =>
    (register_end /\ reg.calm =>
       \A id \in TableIds(reg.m) : hash_find(id) # NoEntry)
<1> SUFFICES ASSUME HashInv, PassedFound, register_end, reg.calm
             PROVE  \A id \in TableIds(reg.m) : hash_find(id) # NoEntry
  OBVIOUS
<1>1. /\ Registering /\ reg.m \in Modules /\ reg.i \in Nat /\ reg.i >= 1
      /\ reg.i \notin DOMAIN Table[reg.m]
  BY DEF register_end, Registering, HashInv, HashTypeOK, PassedFound
<1>2. Table[reg.m] \in Seq(Entries \cup {NoEntry})
  BY <1>1, HashAssumption
<1>3. \A j \in DOMAIN Table[reg.m] : j < reg.i
  BY <1>1, <1>2
<1>4. TableIds(reg.m) \subseteq Passed(reg.m, reg.i)
  BY <1>3 DEF TableIds, Passed
<1> QED BY <1>1, <1>4 DEF PassedFound

-----------------------------------------------------------------------------
(* The results. *)

LEMMA HashInvariant ==
  HashSpec => []HashInv
<1>1. HashInit => HashInv
  BY HashInitInv
<1>2. HashInv /\ [HashNext]_hvars => HashInv'
  BY HashStepInv
<1> QED BY <1>1, <1>2, PTL DEF HashSpec

\* Every entry that hash_insert has put in the table is found by hash_find, or
\* is shadowed by one with its id, whatever collides with it.
THEOREM EntriesAreFound ==
  HashSpec => []StoredIsFound
<1>1. HashInv => StoredIsFound
  BY StoredIsFoundHolds DEF HashInv
<1> QED BY <1>1, HashInvariant, PTL

\* Lookups through hash_find are those of a directory of ids: the probing table
\* implements IdDirectory.
THEOREM TableIsDirectory ==
  HashSpec => HashIsDirectory
<1>1. HashInit => Directory!Init
  BY HashInitInv
<1>2. HashInv /\ [HashNext]_hvars => [Directory!Next]_Dir
  BY HashStepRefines
<1> QED BY <1>1, <1>2, HashInvariant, PTL
        DEF HashSpec, HashIsDirectory, Directory!Spec, Dir

\* In a table that slot indices can count (PARAM_HASH_SIZE is 256 unless it is
\* redefined), a registration that returns PARAM_ERR_NO_MEMORY has found every
\* slot taken, for any ids and hashes.
THEOREM FullWhenNoMemory ==
  ASSUME IndexFits
  PROVE  HashSpec => NoMemoryOnlyWhenFull
<1> DEFINE A == Registering /\ ~Registering' /\ listed' = listed /\ slot' # NoSlots
                  => \A s \in 0 .. HashSize - 1 : slot[s] # NoEntry
<1>1. Probes = 0 .. HashSize - 1
  BY HashAssumption DEF IndexFits, Probes, SlotRange
<1>2. HashInv /\ [HashNext]_hvars => [A]_hvars
  BY <1>1, HashStepNoMemory
<1> QED BY <1>2, HashInvariant, PTL DEF HashSpec, NoMemoryOnlyWhenFull

\* A registration that returns PARAM_OK leaves every id of the module's table
\* where a lookup finds it, unless param_init emptied the table meanwhile.
THEOREM RegisteredAreFound ==
  HashSpec => RegisteredIsFound
<1> DEFINE A == register_end /\ reg.calm =>
                  \A id \in TableIds(reg.m) : hash_find(id) # NoEntry
<1>1. HashInit => PassedFound
  BY DEF HashInit, PassedFound, NoReg, Registering
<1>2. HashInv /\ PassedFound /\ [HashNext]_hvars => PassedFound' /\ [A]_hvars
  BY PassedFoundStep, RegisterEndFound
<1> QED BY <1>1, <1>2, HashInvariant, PTL DEF HashSpec, RegisteredIsFound
=============================================================================
