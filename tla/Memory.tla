------------------------------- MODULE Memory -------------------------------
(***************************************************************************)
(* The vector memory (app/memory.py) as worker threads and request threads *)
(* use it at once: a run recalls memories and counts their use, users pin  *)
(* and delete them.  Counting and pinning read the metadata of a memory    *)
(* and write ALL of it back, in two calls of the store and without a lock. *)
(*                                                                         *)
(* An action is one call of the Chroma collection.  What is similar to     *)
(* what is the store's business: a query may find any memories its filter  *)
(* admits.  Texts and embeddings are left out.                             *)
(***************************************************************************)
EXTENDS Naturals, FiniteSets

CONSTANTS
  Ids,           \* identifiers of memories, fresh ones for new memories
  Workspaces,
  Calls,         \* operations, each performed once (a bound)
  TopK           \* MEMORY_TOP_K

ASSUME MemoryAssumption == IsFiniteSet(Ids) /\ TopK \in Nat \ {0}

VARIABLES
  store,    \* the collection: the metadata of every stored memory
  at,       \* per operation: what it does next
  ws,       \* per operation: the workspace it acts for
  found,    \* per operation: the memories it is about
  read,     \* per operation: the metadata it has read
  pin,      \* per operation: the value set_pinned is to write
  home,     \* history: the workspace every memory was stored in
  bumps,    \* history: how often mark_used has written a memory
  asked,    \* history: the last value set_pinned has written
  lapped    \* history: memories written while another operation had read them

operation  == <<at, ws, found, read, pin>>
written    == <<bumps, asked, lapped>>
memoryVars == <<store, operation, home, written>>

Metadata == [workspace : Workspaces, uses : Nat, pinned : BOOLEAN]

Nothing == [i \in {} |-> 0]

MemoryInit ==
  /\ store = Nothing /\ home = Nothing /\ lapped = {}
  /\ at = [c \in Calls |-> "idle"] /\ ws \in [Calls -> Workspaces]
  /\ found = [c \in Calls |-> {}] /\ read = [c \in Calls |-> Nothing]
  /\ pin = [c \in Calls |-> FALSE]
  /\ bumps = [i \in Ids |-> 0] /\ asked = [i \in Ids |-> FALSE]

Go(c, from, to) == at[c] = from /\ at' = [at EXCEPT ![c] = to]

-----------------------------------------------------------------------------
(* The store.                                                              *)

WriteUpsert(new) ==          \* slip: what was deleted meanwhile is stored again
  store' = [i \in DOMAIN store \cup DOMAIN new |->
              IF i \in DOMAIN new THEN new[i] ELSE store[i]]

(* collection.update: unknown ids are ignored.                             *)
Write(new) ==
  store' = [i \in DOMAIN store |-> IF i \in DOMAIN new THEN new[i] ELSE store[i]]

ReadAll(ids) == [i \in ids \cap DOMAIN store |-> store[i]]

(* The memories of ids that another operation is about to write.           *)
Lapping(c, ids) ==
  {i \in ids : \E d \in Calls \ {c} : at[d] \in {"count", "pin"} /\ i \in DOMAIN read[d]}

-----------------------------------------------------------------------------
(* store_failure, store_lesson.                                            *)

Remember(c) ==
  /\ Go(c, "idle", "done")
  /\ \E i \in Ids \ DOMAIN home :
       /\ store' = [j \in DOMAIN store \cup {i} |->
            IF j = i THEN [workspace |-> ws[c], uses |-> 0, pinned |-> FALSE]
                     ELSE store[j]]
       /\ home' = [j \in DOMAIN home \cup {i} |-> IF j = i THEN ws[c] ELSE home[j]]
  /\ UNCHANGED <<ws, found, read, pin, written>>

-----------------------------------------------------------------------------
(* retrieve_similar_failures, then mark_used for what it found (_recall in *)
(* app/pipeline.py).  The count of the collection limits the results; it   *)
(* is taken together with the query, which is answered by some memories.   *)

QueryEverywhere(c, ids) == ids \subseteq DOMAIN store /\ Cardinality(ids) <= TopK  \* slip

Query(c, ids) ==
  /\ ids \subseteq {i \in DOMAIN store : store[i].workspace = ws[c]}
  /\ Cardinality(ids) <= TopK

(* GET /memory/search stops here, and so does a run that finds nothing.    *)
Recall(c) ==
  /\ \E ids \in SUBSET DOMAIN store :
       /\ Query(c, ids)
       /\ found' = [found EXCEPT ![c] = ids]
       /\ \/ ids # {} /\ Go(c, "idle", "recalled")
          \/ Go(c, "idle", "done")
  /\ UNCHANGED <<store, ws, read, pin, home, written>>

ReadUses(c) ==
  /\ Go(c, "recalled", "count")
  /\ read' = [read EXCEPT ![c] = ReadAll(found[c])]
  /\ UNCHANGED <<store, ws, found, pin, home, written>>

WriteUses(c) ==
  /\ Go(c, "count", "done")
  /\ Write([i \in DOMAIN read[c] |-> [read[c][i] EXCEPT !.uses = @ + 1]])
  /\ bumps' = [i \in Ids |-> IF i \in DOMAIN read[c] THEN bumps[i] + 1 ELSE bumps[i]]
  /\ lapped' = lapped \cup Lapping(c, DOMAIN read[c])
  /\ UNCHANGED <<ws, found, read, pin, home, asked>>

-----------------------------------------------------------------------------
(* set_pinned and delete_memory: read, check the workspace, write.         *)

Owned(c, i) == i \in DOMAIN store /\ store[i].workspace = ws[c]

(* The answer is 404 for a memory that is gone or somebody else's.         *)
ReadOwn(c, next) ==
  \E i \in Ids :
    IF Owned(c, i)
    THEN /\ Go(c, "idle", next)
         /\ found' = [found EXCEPT ![c] = {i}]
         /\ read' = [read EXCEPT ![c] = ReadAll({i})]
    ELSE Go(c, "idle", "done") /\ UNCHANGED <<found, read>>

ReadToPin(c) ==
  /\ ReadOwn(c, "pin")
  /\ \E value \in BOOLEAN : pin' = [pin EXCEPT ![c] = value]
  /\ UNCHANGED <<store, ws, home, written>>

WritePinAnew(c) ==                                \* slip: starts a new record
  /\ Go(c, "pin", "done")
  /\ Write([i \in found[c] |-> [workspace |-> ws[c], uses |-> 0, pinned |-> pin[c]]])
  /\ asked' = [i \in Ids |-> IF i \in found[c] THEN pin[c] ELSE asked[i]]
  /\ lapped' = lapped \cup Lapping(c, found[c])
  /\ UNCHANGED <<ws, found, read, pin, home, bumps>>

WritePin(c) ==
  /\ Go(c, "pin", "done")
  /\ Write([i \in DOMAIN read[c] |-> [read[c][i] EXCEPT !.pinned = pin[c]]])
  /\ asked' = [i \in Ids |-> IF i \in DOMAIN read[c] THEN pin[c] ELSE asked[i]]
  /\ lapped' = lapped \cup Lapping(c, DOMAIN read[c])
  /\ UNCHANGED <<ws, found, read, pin, home, bumps>>

ReadToDelete(c) ==
  /\ ReadOwn(c, "delete")
  /\ UNCHANGED <<store, ws, pin, home, written>>

Delete(c) ==
  /\ Go(c, "delete", "done")
  /\ store' = [i \in DOMAIN store \ found[c] |-> store[i]]
  /\ UNCHANGED <<ws, found, read, pin, home, written>>

(* A call of the store raises: mark_used swallows it, an endpoint answers  *)
(* 500.  Nothing is undone, as nothing was written.                        *)
Fail(c) ==
  /\ at[c] \in {"recalled", "count", "pin", "delete"}
  /\ at' = [at EXCEPT ![c] = "done"]
  /\ UNCHANGED <<store, ws, found, read, pin, home, written>>

-----------------------------------------------------------------------------
MemoryNext ==
  \E c \in Calls :
    \/ Remember(c)
    \/ Recall(c) \/ ReadUses(c) \/ WriteUses(c)
    \/ ReadToPin(c) \/ WritePin(c)
    \/ ReadToDelete(c) \/ Delete(c)
    \/ Fail(c)

MemorySpec == MemoryInit /\ [][MemoryNext]_memoryVars

-----------------------------------------------------------------------------
(* Properties.                                                             *)

(* A workspace recalls, pins and deletes its own memories only, although   *)
(* the check and the write are separate calls, and no write moves a memory *)
(* to another one.  (README 217: "Each sees only its own runs and          *)
(* memory".)                                                               *)
OwnMemoriesOnly ==
  /\ \A c \in Calls : \A i \in found[c] : home[i] = ws[c]
  /\ \A i \in DOMAIN store : store[i].workspace = home[i]

(* A use is counted once and a pin stays as it was last set, unless two    *)
(* operations had read the memory at once; and even then a count never     *)
(* exceeds the recalls.  (Whole records are written back, lines 163-164    *)
(* and 245: an overlap loses one of the two changes.)                      *)
KeptUnlessLapped ==
  \A i \in DOMAIN store :
    /\ store[i].uses <= bumps[i]
    /\ i \notin lapped => store[i].uses = bumps[i] /\ store[i].pinned = asked[i]

(* What a user has deleted never comes back, although a run or a pin may   *)
(* write a copy of it that was read before.                                *)
DeletedStaysDeleted ==
  [][\A i \in DOMAIN home \ DOMAIN store : i \notin DOMAIN store']_memoryVars

=============================================================================
