----------------------------- MODULE ParamHash ------------------------------
(***************************************************************************)
(* The parameter hash table (param_manager.c): open addressing with linear *)
(* probing over PARAM_HASH_SIZE slots, filled by the two registration      *)
(* calls one table entry at a time while they hold LOCK, and only ever     *)
(* emptied as a whole.  ParamManager keeps the set of registered entries   *)
(* and nothing of the slots; here the slots are the state.                 *)
(*                                                                         *)
(* The hash of an id is a constant: what matters is which ids collide.     *)
(* Ids need not be unique: a table may hold two entries with one id.       *)
(***************************************************************************)
EXTENDS Integers, FiniteSets, Sequences

CONSTANTS
  Entries,     \* parameter entries
  NoEntry,     \* a NULL slot, or a failed lookup
  None,        \* no registration is running
  Ids,         \* parameter ids
  Id,          \* Id[e]: the entry's param_id
  Hash,        \* Hash[id]: the mixed 32-bit hash, before the mask
  HashSize,    \* PARAM_HASH_SIZE
  IndexRange,  \* what a slot index counts modulo (2^8: slots are uint8_t)
  Modules,     \* App modules and IP instances
  Kind,        \* Kind[m]: "app" or "ip"
  Table        \* Table[m]: the module's table of entry pointers

ASSUME HashAssumption ==
  /\ NoEntry \notin Entries /\ None \notin Modules
  /\ Id \in [Entries -> Ids]
  /\ Hash \in [Ids -> Nat]
  /\ HashSize \in Nat \ {0} /\ IndexRange \in Nat \ {0}
  /\ Kind \in [Modules -> {"app", "ip"}]
  /\ Table \in [Modules -> Seq(Entries \cup {NoEntry})]

VARIABLES
  initialized,  \* g_pm.initialized
  slot,         \* g_pm.hash
  listed,       \* modules in g_pm.module_head's list
  reg,          \* the registration that holds LOCK: module and table index;
                \* calm: no param_init has come across it
  asked         \* App modules whose registration found the framework open and
                \* now waits for LOCK

hvars == <<initialized, slot, listed, reg, asked>>

-----------------------------------------------------------------------------
(* Probing.  PARAM_HASH_SIZE and the range of uint8_t are powers of two:    *)
(* masking by the one and truncating to the other keeps the remainder by    *)
(* the smaller of the two, so slots from 256 on are never reached.          *)

SlotRange == IF HashSize < IndexRange THEN HashSize ELSE IndexRange

Probes == 0 .. SlotRange - 1

hash_index == [id \in Ids |-> Hash[id] % SlotRange]

\* Fault: the probe does not go on at slot 0.
Probe_nowrap ==
  [id \in Ids |-> [i \in Probes |->
     IF hash_index[id] + i < SlotRange THEN hash_index[id] + i
                                       ELSE SlotRange - 1]]

\* Probe[id][i]: the slot hash_insert and hash_find visit after i others.
Probe ==
  [id \in Ids |-> [i \in Probes |->
     IF hash_index[id] + i < SlotRange THEN hash_index[id] + i
                                       ELSE hash_index[id] + i - SlotRange]]

Occupied(id, i) == slot[Probe[id][i]] # NoEntry

\* Probe i of hash_find meets id: all slots before it hold other entries.
FoundAt(id, i) ==
  /\ Occupied(id, i) /\ Id[slot[Probe[id][i]]] = id
  /\ \A j \in 0 .. i - 1 : Occupied(id, j) /\ Id[slot[Probe[id][j]]] # id

\* Fault: only the home slot is looked at.
hash_find_home(id) ==
  IF FoundAt(id, 0) THEN slot[Probe[id][0]] ELSE NoEntry

\* hash_find: an empty slot ends the search.
hash_find(id) ==
  IF \E i \in Probes : FoundAt(id, i)
  THEN slot[Probe[id][CHOOSE i \in Probes : FoundAt(id, i)]]
  ELSE NoEntry

\* Probe i of hash_insert is the first empty slot.
FreeAt(id, i) ==
  ~Occupied(id, i) /\ \A j \in 0 .. i - 1 : Occupied(id, j)

\* Fault: the home slot is taken whatever it holds.
hash_insert_home(e) == slot' = [slot EXCEPT ![hash_index[Id[e]]] = e]

\* hash_insert, when it returns true.
hash_insert(e) ==
  \E i \in Probes : /\ FreeAt(Id[e], i)
                    /\ slot' = [slot EXCEPT ![Probe[Id[e]][i]] = e]

-----------------------------------------------------------------------------
(* The life of the table. *)

NoSlots == [s \in 0 .. HashSize - 1 |-> NoEntry]
NoReg   == [m |-> None, i |-> 0, calm |-> FALSE]

HashInit ==
  /\ initialized = FALSE /\ slot = NoSlots /\ listed = {} /\ reg = NoReg
  /\ asked = {}

\* A registration is between its LOCK and its UNLOCK.
Registering == reg.m # None

\* param_init clears everything without LOCK; a storage driver that fails
\* leaves the framework closed.
init_table ==
  /\ ~initialized
  /\ initialized' \in BOOLEAN
  /\ slot' = NoSlots /\ listed' = {}
  /\ reg' = [reg EXCEPT !.calm = FALSE]
  /\ UNCHANGED asked

\* param_deinit
deinit_table ==
  /\ ~Registering
  /\ initialized' = FALSE /\ slot' = NoSlots /\ listed' = {}
  /\ UNCHANGED <<reg, asked>>

\* Power goes: memory starts again from zero.
lose_memory ==
  /\ initialized' = FALSE /\ slot' = NoSlots /\ listed' = {}
  /\ reg' = NoReg /\ asked' = {}

-----------------------------------------------------------------------------
(* Registration: the checks, then one table entry after the other, then the *)
(* list.                                                                    *)

TableIds(m) == {Id[Table[m][i]] : i \in {j \in DOMAIN Table[m] :
                                           Table[m][j] # NoEntry}}

\* param_module_find, and hash_find for every id of the table.
AlreadyThere(m) ==
  m \in listed \/ \E id \in TableIds(m) : hash_find(id) # NoEntry

\* Only param_module_register asks whether the framework is open, before LOCK.
register_ask(m) ==
  /\ Kind[m] = "app" /\ initialized
  /\ asked' = asked \cup {m}
  /\ UNCHANGED <<initialized, slot, listed, reg>>

\* PARAM_ERR_ALREADY_REG
register_refused(m) ==
  /\ ~Registering /\ AlreadyThere(m)
  /\ asked' = asked \ {m}
  /\ UNCHANGED <<initialized, slot, listed, reg>>

\* By now the framework may have been closed, or opened again.
register_begin(m) ==
  /\ ~Registering
  /\ Kind[m] = "app" => m \in asked
  /\ ~AlreadyThere(m)
  /\ reg' = [m |-> m, i |-> 1, calm |-> TRUE]
  /\ asked' = asked \ {m}
  /\ UNCHANGED <<initialized, slot, listed>>

TableEntry == Table[reg.m][reg.i]

\* Only param_hash_insert_entry looks for the id again.
Skipped ==
  \/ TableEntry = NoEntry
  \/ Kind[reg.m] = "ip" /\ hash_find(Id[TableEntry]) # NoEntry

\* Fault: what hash_insert returns is not looked at.
register_entry_unchecked ==
  /\ Registering /\ reg.i \in DOMAIN Table[reg.m]
  /\ IF Skipped \/ ~\E i \in Probes : FreeAt(Id[TableEntry], i)
     THEN slot' = slot ELSE hash_insert(TableEntry)
  /\ reg' = [reg EXCEPT !.i = @ + 1]
  /\ UNCHANGED <<initialized, listed, asked>>

register_entry ==
  /\ Registering /\ reg.i \in DOMAIN Table[reg.m]
  /\ IF Skipped THEN slot' = slot ELSE hash_insert(TableEntry)
  /\ reg' = [reg EXCEPT !.i = @ + 1]
  /\ UNCHANGED <<initialized, listed, asked>>

\* PARAM_ERR_NO_MEMORY: the entries inserted so far stay.
register_no_memory ==
  /\ Registering /\ reg.i \in DOMAIN Table[reg.m]
  /\ ~Skipped /\ ~\E i \in Probes : FreeAt(Id[TableEntry], i)
  /\ reg' = NoReg
  /\ UNCHANGED <<initialized, slot, listed, asked>>

register_end ==
  /\ Registering /\ reg.i \notin DOMAIN Table[reg.m]
  /\ listed' = listed \cup {reg.m}
  /\ reg' = NoReg
  /\ UNCHANGED <<initialized, slot, asked>>

Registration ==
  \/ \E m \in Modules : register_refused(m) \/ register_begin(m)
  \/ register_entry \/ register_no_memory \/ register_end

HashNext ==
  \/ init_table \/ deinit_table \/ lose_memory
  \/ Registration \/ \E m \in Modules : register_ask(m)

HashSpec == HashInit /\ [][HashNext]_hvars

-----------------------------------------------------------------------------
(* Properties. *)

\* Every entry in the table can be found: a lookup of its id does not stop at
\* an empty slot before it, and gives it or one with the same id (hash_insert
\* and hash_find probe alike, and nothing empties a slot in between).
StoredIsFound ==
  \A s \in 0 .. HashSize - 1 :
    slot[s] # NoEntry => /\ hash_find(Id[slot[s]]) # NoEntry
                         /\ Id[hash_find(Id[slot[s]])] = Id[slot[s]]

\* The table implements a directory: an entry that went in is what a lookup
\* of its id returns until the table is emptied, however many others are
\* inserted around it, and no insertion brings up or hides another id
\* (hash_insert and hash_find under the two registration calls).
Directory == INSTANCE IdDirectory WITH dir <- [id \in Ids |-> hash_find(id)]

HashIsDirectory == Directory!Spec

\* Registration gives up with PARAM_ERR_NO_MEMORY only when every slot of the
\* table is taken (param_manager.h:87), wherever its probes start: hash_insert's
\* loop bound and wrap-around miss none, if slot indices can count them all.
NoMemoryOnlyWhenFull ==
  [][Registering /\ ~Registering' /\ listed' = listed /\ slot' # NoSlots
       => \A s \in 0 .. HashSize - 1 : slot[s] # NoEntry]_hvars

\* The range of slot indices covers the table, as 2^8 does 256 slots.
IndexFits == HashSize <= IndexRange

\* PARAM_OK from a registration means that a lookup of any id of the module's
\* table succeeds, though the entries went in one at a time, behind checks that
\* were made before the first of them.  param_init takes no LOCK and may empty
\* the table behind the registration's back; calm leaves that out.
RegisteredIsFound ==
  [][register_end /\ reg.calm =>
       \A id \in TableIds(reg.m) : hash_find(id) # NoEntry]_hvars
=============================================================================
