---------------------------- MODULE IdDirectory -----------------------------
(***************************************************************************)
(* What the parameter table promises the rest of the framework, without    *)
(* hashing and probing: a directory from ids to entries.  An entry enters  *)
(* under its id when the id is free, stays there, and never moves or       *)
(* hides another one; only the whole directory can be emptied.             *)
(***************************************************************************)
CONSTANTS
  Entries,   \* the entries
  NoEntry,   \* what a lookup of an unknown id returns
  Ids,       \* the ids
  Id         \* Id[e]: the id of entry e

VARIABLE dir   \* dir[id]: the entry a lookup of id returns

Init == dir = [id \in Ids |-> NoEntry]

Add(e) ==
  /\ dir[Id[e]] = NoEntry
  /\ dir' = [dir EXCEPT ![Id[e]] = e]

Clear == dir' = [id \in Ids |-> NoEntry]

Next == Clear \/ \E e \in Entries : Add(e)

Spec == Init /\ [][Next]_dir
=============================================================================
