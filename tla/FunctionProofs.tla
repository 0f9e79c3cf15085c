--------------------------- MODULE FunctionProofs ---------------------------
(***************************************************************************)
(* Theorems about what a run goes by: the memories it recalls (Memory),    *)
(* how they are shown in a prompt (Recollection), how answers are read     *)
(* (Critique), and what the code that passed is worth (QualityMetrics);    *)
(* for memories, workspaces, callers, answers, blocks and findings without *)
(* a bound.                                                                *)
(*                                                                         *)
(* The loops of format_memories and _parse_verdict are functions on the    *)
(* number of rounds.  What holds after every round is shown by induction   *)
(* over the set of the numbers for which it does (Onward).                 *)
(***************************************************************************)
EXTENDS Memory, Recollection, Critique, QualityMetrics, FiniteSetTheorems, SequenceTheorems, TLAPS

-----------------------------------------------------------------------------
(* The store.  What makes the properties inductive is what an operation    *)
(* holds between its two calls of the store: memories of its own           *)
(* workspace, counts that are not ahead of their time, and, unless         *)
(* somebody wrote in between (lapped), exactly what is stored.             *)

MTypes ==
  /\ at \in [Calls -> {"idle", "recalled", "count", "pin", "delete", "done"}]
  /\ ws \in [Calls -> Workspaces]
  /\ pin \in [Calls -> BOOLEAN]
  /\ DOMAIN found = Calls /\ DOMAIN read = Calls
  /\ found = [c \in Calls |-> found[c]] /\ read = [c \in Calls |-> read[c]]
  /\ bumps \in [Ids -> Nat] /\ asked \in [Ids -> BOOLEAN]
  /\ DOMAIN home \subseteq Ids /\ lapped \subseteq DOMAIN home

(* What is stored: known memories, in the workspace they were stored in.   *)
StoreInv ==
  /\ DOMAIN store \subseteq DOMAIN home
  /\ \A i \in DOMAIN store : store[i] \in Metadata /\ store[i].workspace = home[i]

(* What operations hold is theirs.                                         *)
HeldInv ==
  \A c \in Calls :
    /\ \A i \in found[c] : i \in DOMAIN home /\ home[i] = ws[c]
    /\ DOMAIN read[c] \subseteq found[c]
    /\ \A i \in DOMAIN read[c] : read[c][i] \in Metadata /\ read[c][i].workspace = ws[c]
    /\ at[c] \in {"idle", "recalled"} => DOMAIN read[c] = {}

(* The copies that are about to be written back.                           *)
CopyInv ==
  \A c \in Calls : at[c] \in {"count", "pin"} =>
    \A i \in DOMAIN read[c] :
      /\ read[c][i].uses <= bumps[i]
      /\ i \in DOMAIN store /\ i \notin lapped => read[c][i] = store[i]

(* Nothing has been counted or asked of a memory before it is stored.      *)
FreshInv == \A i \in Ids \ DOMAIN home : bumps[i] = 0 /\ asked[i] = FALSE

MInv == MTypes /\ StoreInv /\ HeldInv /\ CopyInv /\ FreshInv /\ KeptUnlessLapped

LEMMA MInitial == MemoryInit => MInv
  BY DEF MemoryInit, MInv, MTypes, StoreInv, HeldInv, CopyInv, FreshInv,
         KeptUnlessLapped, Nothing

LEMMA MRemember ==
  ASSUME MInv, NEW c \in Calls, Remember(c) PROVE MInv'
<1> USE DEF MInv, Remember, Go, operation, written
<1>1. MTypes' BY DEF MTypes
<1>2. StoreInv' BY DEF MTypes, StoreInv, Metadata
<1>3. HeldInv' BY DEF MTypes, HeldInv
<1>4. CopyInv' BY DEF MTypes, HeldInv, CopyInv
<1>5. FreshInv' BY DEF MTypes, FreshInv
<1>6. KeptUnlessLapped'
  <2> PICK n \in Ids \ DOMAIN home :
        store' = [j \in DOMAIN store \cup {n} |->
             IF j = n THEN [workspace |-> ws[c], uses |-> 0, pinned |-> FALSE]
                      ELSE store[j]]
    OBVIOUS
  <2> SUFFICES ASSUME NEW i \in DOMAIN store'
               PROVE /\ store'[i].uses <= bumps[i]
                     /\ i \notin lapped => /\ store'[i].uses = bumps[i]
                                           /\ store'[i].pinned = asked[i]
    BY DEF KeptUnlessLapped
  <2>1. CASE i = n
    <3>1. store'[i].uses = 0 /\ store'[i].pinned = FALSE BY <2>1
    <3>2. bumps[i] = 0 /\ asked[i] = FALSE BY <2>1 DEF FreshInv
    <3>3. store'[i].pinned = asked[i] BY <3>1, <3>2, Zenon
    <3> HIDE DEF MInv, Remember
    <3>4. store'[i].uses = bumps[i] /\ store'[i].uses <= bumps[i] BY <3>1, <3>2
    <3> QED BY <3>3, <3>4, Zenon
  <2>2. CASE i # n BY <2>2 DEF KeptUnlessLapped
  <2> QED BY <2>1, <2>2
<1> QED BY <1>1, <1>2, <1>3, <1>4, <1>5, <1>6

LEMMA MRecall ==
  ASSUME MInv, NEW c \in Calls, Recall(c) PROVE MInv'
<1> USE DEF MInv, Recall, Go, Query, operation, written
<1>1. MTypes' BY DEF MTypes
<1>2. StoreInv' BY DEF StoreInv
<1>3. HeldInv'
  <2> SUFFICES ASSUME NEW d \in Calls
               PROVE /\ \A i \in found'[d] : i \in DOMAIN home /\ home[i] = ws[d]
                     /\ DOMAIN read'[d] \subseteq found'[d]
                     /\ \A i \in DOMAIN read'[d] : /\ read'[d][i] \in Metadata
                                                  /\ read'[d][i].workspace = ws[d]
                     /\ at'[d] \in {"idle", "recalled"} => DOMAIN read'[d] = {}
    BY DEF HeldInv
  <2>1. CASE d # c BY <2>1 DEF MTypes, HeldInv
  <2>2. CASE d = c
    <3>1. PICK ids \in SUBSET DOMAIN store :
            /\ ids \subseteq {i \in DOMAIN store : store[i].workspace = ws[c]}
            /\ found' = [found EXCEPT ![c] = ids]
      OBVIOUS
    <3>2. found'[c] = ids /\ read'[c] = read[c] BY <3>1 DEF MTypes
    <3>3. DOMAIN read[c] = {} BY DEF HeldInv
    <3> QED BY <2>2, <3>1, <3>2, <3>3 DEF MTypes, StoreInv, HeldInv
  <2> QED BY <2>1, <2>2
<1>4. CopyInv' BY DEF MTypes, CopyInv
<1>5. FreshInv' BY DEF FreshInv
<1>6. KeptUnlessLapped' BY DEF KeptUnlessLapped
<1> QED BY <1>1, <1>2, <1>3, <1>4, <1>5, <1>6

LEMMA MReadUses ==
  ASSUME MInv, NEW c \in Calls, ReadUses(c) PROVE MInv'
<1> USE DEF MInv, ReadUses, ReadAll, Go, operation, written
<1>1. MTypes' BY DEF MTypes
<1>2. StoreInv' BY DEF StoreInv
<1>3. HeldInv'
  <2> SUFFICES ASSUME NEW d \in Calls
               PROVE /\ \A i \in found'[d] : i \in DOMAIN home /\ home[i] = ws[d]
                     /\ DOMAIN read'[d] \subseteq found'[d]
                     /\ \A i \in DOMAIN read'[d] : /\ read'[d][i] \in Metadata
                                                  /\ read'[d][i].workspace = ws[d]
                     /\ at'[d] \in {"idle", "recalled"} => DOMAIN read'[d] = {}
    BY DEF HeldInv
  <2>1. CASE d # c BY <2>1 DEF MTypes, HeldInv
  <2>2. CASE d = c
    <3>1. found'[c] = found[c] /\ read'[c] = [i \in found[c] \cap DOMAIN store |-> store[i]]
      BY DEF MTypes
    <3> QED BY <2>2, <3>1 DEF MTypes, StoreInv, HeldInv
  <2> QED BY <2>1, <2>2
<1>4. CopyInv'
  <2> SUFFICES ASSUME NEW d \in Calls, at'[d] \in {"count", "pin"},
                      NEW i \in DOMAIN read'[d]
               PROVE /\ read'[d][i].uses <= bumps[i]
                     /\ i \in DOMAIN store /\ i \notin lapped => read'[d][i] = store[i]
    BY DEF CopyInv
  <2>1. CASE d # c BY <2>1 DEF MTypes, CopyInv
  <2>2. CASE d = c
    <3>1. read'[c] = [j \in found[c] \cap DOMAIN store |-> store[j]] BY DEF MTypes
    <3> QED BY <2>2, <3>1 DEF KeptUnlessLapped
  <2> QED BY <2>1, <2>2
<1>5. FreshInv' BY DEF FreshInv
<1>6. KeptUnlessLapped' BY DEF KeptUnlessLapped
<1> QED BY <1>1, <1>2, <1>3, <1>4, <1>5, <1>6

LEMMA MReadOwn ==
  ASSUME MInv, NEW c \in Calls, ReadToPin(c) \/ ReadToDelete(c) PROVE MInv'
<1> USE DEF MInv, ReadToPin, ReadToDelete, ReadOwn, Owned, ReadAll, Go, operation, written
<1>1. MTypes' BY DEF MTypes
<1>2. StoreInv' BY DEF StoreInv
<1> DEFINE Reads(i) ==
      /\ i \in DOMAIN store /\ store[i].workspace = ws[c]
      /\ found'[c] = {i}
      /\ read'[c] = [j \in {i} \cap DOMAIN store |-> store[j]]
<1>a. \/ found'[c] = found[c] /\ read'[c] = read[c] /\ at'[c] = "done"
      \/ at'[c] \in {"pin", "delete"} /\ \E i \in Ids : Reads(i)
  BY DEF MTypes
<1>b. \A d \in Calls \ {c} : found'[d] = found[d] /\ read'[d] = read[d] /\ at'[d] = at[d]
  BY DEF MTypes
<1>3. HeldInv'
  <2> SUFFICES ASSUME NEW d \in Calls
               PROVE /\ \A i \in found'[d] : i \in DOMAIN home /\ home[i] = ws[d]
                     /\ DOMAIN read'[d] \subseteq found'[d]
                     /\ \A i \in DOMAIN read'[d] : /\ read'[d][i] \in Metadata
                                                  /\ read'[d][i].workspace = ws[d]
                     /\ at'[d] \in {"idle", "recalled"} => DOMAIN read'[d] = {}
    BY DEF HeldInv
  <2>1. CASE d # c BY <2>1, <1>b DEF HeldInv
  <2>2. CASE d = c /\ \E i \in Ids : Reads(i) /\ at'[c] \in {"pin", "delete"}
    BY <2>2 DEF StoreInv
  <2>3. CASE d = c /\ found'[c] = found[c] /\ read'[c] = read[c] /\ at'[c] = "done"
    BY <2>3 DEF HeldInv
  <2> QED BY <2>1, <2>2, <2>3, <1>a
<1>4. CopyInv'
  <2> SUFFICES ASSUME NEW d \in Calls, at'[d] \in {"count", "pin"},
                      NEW i \in DOMAIN read'[d]
               PROVE /\ read'[d][i].uses <= bumps[i]
                     /\ i \in DOMAIN store /\ i \notin lapped => read'[d][i] = store[i]
    BY DEF CopyInv
  <2>1. CASE d # c BY <2>1, <1>b DEF CopyInv
  <2>2. CASE d = c BY <2>2, <1>a DEF KeptUnlessLapped
  <2> QED BY <2>1, <2>2
<1>5. FreshInv' BY DEF FreshInv
<1>6. KeptUnlessLapped' BY DEF KeptUnlessLapped
<1> QED BY <1>1, <1>2, <1>3, <1>4, <1>5, <1>6

(* Whoever holds a copy of what is written now finds it lapped.            *)
LEMMA MWriteUses ==
  ASSUME MInv, NEW c \in Calls, WriteUses(c) PROVE MInv'
<1> USE DEF MInv, WriteUses, Write, Go, operation, written
<1>1. MTypes' BY DEF MTypes, HeldInv, Lapping
<1>2. StoreInv' BY DEF StoreInv, HeldInv, Metadata
<1>3. HeldInv' BY DEF MTypes, HeldInv
<1>4. CopyInv'
  <2> SUFFICES ASSUME NEW d \in Calls, at'[d] \in {"count", "pin"},
                      NEW i \in DOMAIN read[d]
               PROVE /\ read[d][i].uses <= bumps'[i]
                     /\ i \in DOMAIN store' /\ i \notin lapped' => read[d][i] = store'[i]
    BY DEF CopyInv
  <2>1. d # c /\ at[d] \in {"count", "pin"} BY DEF MTypes
  <2>2. i \in Ids /\ read[d][i].uses \in Nat /\ bumps[i] \in Nat
    BY DEF MTypes, HeldInv, Metadata
  <2>3. i \in DOMAIN read[c] => i \in lapped' BY <2>1 DEF Lapping
  <2> QED BY <2>1, <2>2, <2>3 DEF CopyInv
<1>5. FreshInv' BY DEF FreshInv, HeldInv
<1>6. KeptUnlessLapped'
  <2> SUFFICES ASSUME NEW i \in DOMAIN store
               PROVE /\ store'[i].uses <= bumps'[i]
                     /\ i \notin lapped' => /\ store'[i].uses = bumps'[i]
                                            /\ store'[i].pinned = asked[i]
    BY DEF KeptUnlessLapped
  <2>1. i \in Ids /\ bumps[i] \in Nat BY DEF MTypes, StoreInv
  <2>2. CASE i \notin DOMAIN read[c] BY <2>1, <2>2 DEF KeptUnlessLapped
  <2>3. CASE i \in DOMAIN read[c]
    <3>1. /\ store'[i].uses = read[c][i].uses + 1
          /\ store'[i].pinned = read[c][i].pinned
          /\ bumps'[i] = bumps[i] + 1
      BY <2>1, <2>3 DEF HeldInv, Metadata, MTypes
    <3>2. read[c][i].uses \in Nat /\ read[c][i].uses <= bumps[i]
      BY <2>3 DEF HeldInv, Metadata, CopyInv
    <3>3. i \notin lapped' => read[c][i] = store[i] BY <2>3 DEF CopyInv
    <3> QED BY <2>1, <3>1, <3>2, <3>3 DEF KeptUnlessLapped
  <2> QED BY <2>2, <2>3
<1> QED BY <1>1, <1>2, <1>3, <1>4, <1>5, <1>6

LEMMA MWritePin ==
  ASSUME MInv, NEW c \in Calls, WritePin(c) PROVE MInv'
<1> USE DEF MInv, WritePin, Write, Go, operation, written
<1>1. MTypes' BY DEF MTypes, HeldInv, Lapping
<1>2. StoreInv'
  <2> SUFFICES ASSUME NEW i \in DOMAIN store
               PROVE store'[i] \in Metadata /\ store'[i].workspace = home[i]
    BY DEF StoreInv
  <2>1. CASE i \notin DOMAIN read[c] BY <2>1 DEF StoreInv
  <2>2. CASE i \in DOMAIN read[c]
    <3>1. store'[i] = [read[c][i] EXCEPT !.pinned = pin[c]] BY <2>2
    <3>2. /\ read[c][i] \in [workspace : Workspaces, uses : Nat, pinned : BOOLEAN]
          /\ read[c][i].workspace = ws[c] /\ home[i] = ws[c]
      BY <2>2 DEF HeldInv, Metadata
    <3>3. pin[c] \in BOOLEAN BY DEF MTypes
    <3> HIDE DEF MInv
    <3>4. [read[c][i] EXCEPT !.pinned = pin[c]]
            \in [workspace : Workspaces, uses : Nat, pinned : BOOLEAN]
      BY <3>2, <3>3
    <3>5. store'[i].workspace = read[c][i].workspace BY <3>1, <3>2
    <3> QED BY <3>1, <3>2, <3>4, <3>5 DEF Metadata
  <2> QED BY <2>1, <2>2
<1>3. HeldInv' BY DEF MTypes, HeldInv
<1>4. CopyInv'
  <2> SUFFICES ASSUME NEW d \in Calls, at'[d] \in {"count", "pin"},
                      NEW i \in DOMAIN read[d]
               PROVE /\ read[d][i].uses <= bumps[i]
                     /\ i \in DOMAIN store' /\ i \notin lapped' => read[d][i] = store'[i]
    BY DEF CopyInv
  <2>1. d # c /\ at[d] \in {"count", "pin"} BY DEF MTypes
  <2>2. i \in DOMAIN read[c] => i \in lapped' BY <2>1 DEF Lapping
  <2> QED BY <2>1, <2>2 DEF CopyInv
<1>5. FreshInv' BY DEF FreshInv, HeldInv, MTypes
<1>6. KeptUnlessLapped'
  <2> SUFFICES ASSUME NEW i \in DOMAIN store
               PROVE /\ store'[i].uses <= bumps[i]
                     /\ i \notin lapped' => /\ store'[i].uses = bumps[i]
                                            /\ store'[i].pinned = asked'[i]
    BY DEF KeptUnlessLapped
  <2>1. i \in Ids BY DEF MTypes, StoreInv
  <2>2. CASE i \notin DOMAIN read[c] BY <2>1, <2>2 DEF KeptUnlessLapped
  <2>3. CASE i \in DOMAIN read[c]
    <3>1. /\ store'[i].uses = read[c][i].uses
          /\ store'[i].pinned = pin[c] /\ asked'[i] = pin[c]
      BY <2>1, <2>3 DEF HeldInv, Metadata, MTypes
    <3>2. read[c][i].uses <= bumps[i] BY <2>3 DEF CopyInv
    <3>3. i \notin lapped' => read[c][i] = store[i] BY <2>3 DEF CopyInv
    <3> QED BY <3>1, <3>2, <3>3 DEF KeptUnlessLapped
  <2> QED BY <2>2, <2>3
<1> QED BY <1>1, <1>2, <1>3, <1>4, <1>5, <1>6

LEMMA MDeleteOrFail ==
  ASSUME MInv, NEW c \in Calls, Delete(c) \/ Fail(c) PROVE MInv'
<1> USE DEF MInv, Delete, Fail, Go, operation, written
<1>1. MTypes' BY DEF MTypes
<1>2. StoreInv' BY DEF StoreInv
<1>3. HeldInv' BY DEF MTypes, HeldInv
<1>4. CopyInv' BY DEF MTypes, CopyInv
<1>5. FreshInv' BY DEF FreshInv
<1>6. KeptUnlessLapped' BY DEF KeptUnlessLapped
<1> QED BY <1>1, <1>2, <1>3, <1>4, <1>5, <1>6

LEMMA MStutter == MInv /\ UNCHANGED memoryVars => MInv'
  BY DEF MInv, MTypes, StoreInv, HeldInv, CopyInv, FreshInv, KeptUnlessLapped,
         memoryVars, operation, written

(* The invariant the three theorems below rest on.                         *)
THEOREM MInvariant == MemorySpec => []MInv
<1>1. MInv /\ [MemoryNext]_memoryVars => MInv'
  <2> SUFFICES ASSUME MInv, [MemoryNext]_memoryVars PROVE MInv' OBVIOUS
  <2>1. CASE UNCHANGED memoryVars BY <2>1, MStutter
  <2>2. CASE MemoryNext
    <3> PICK c \in Calls : \/ Remember(c)
                           \/ Recall(c) \/ ReadUses(c) \/ WriteUses(c)
                           \/ ReadToPin(c) \/ WritePin(c)
                           \/ ReadToDelete(c) \/ Delete(c)
                           \/ Fail(c)
      BY <2>2 DEF MemoryNext
    <3> QED BY MRemember, MRecall, MReadUses, MReadOwn, MWriteUses, MWritePin,
               MDeleteOrFail
  <2> QED BY <2>1, <2>2
<1> QED BY MInitial, <1>1, PTL DEF MemorySpec

(* A workspace recalls, pins and deletes its own memories only, and none   *)
(* is ever moved to another one (_owned and the filter of the query,       *)
(* app/memory.py 131 and 226-229).                                         *)
THEOREM WorkspacesApart == MemorySpec => []OwnMemoriesOnly
<1>1. MInv => OwnMemoriesOnly BY DEF MInv, StoreInv, HeldInv, OwnMemoriesOnly
<1> QED BY MInvariant, <1>1, PTL

(* Counts and pins are lost to overlaps only, and counts never run ahead   *)
(* (mark_used and set_pinned, app/memory.py 155-166 and 240-246).          *)
THEOREM OnlyOverlapsLose == MemorySpec => []KeptUnlessLapped
<1>1. MInv => KeptUnlessLapped BY DEF MInv
<1> QED BY MInvariant, <1>1, PTL

(* A write of an old copy does not bring a deleted memory back             *)
(* (collection.update after collection.delete, app/memory.py 164 and 236). *)
THEOREM NoReturn == MemorySpec => DeletedStaysDeleted
<1>1. ASSUME [MemoryNext]_memoryVars
      PROVE [\A i \in DOMAIN home \ DOMAIN store : i \notin DOMAIN store']_memoryVars
  <2> SUFFICES ASSUME MemoryNext, NEW i \in DOMAIN home \ DOMAIN store
               PROVE i \notin DOMAIN store'
    BY <1>1
  <2> PICK c \in Calls : \/ Remember(c)
                         \/ Recall(c) \/ ReadUses(c) \/ WriteUses(c)
                         \/ ReadToPin(c) \/ WritePin(c)
                         \/ ReadToDelete(c) \/ Delete(c)
                         \/ Fail(c)
    BY DEF MemoryNext
  <2>1. CASE Remember(c) BY <2>1 DEF Remember
  <2>2. CASE WriteUses(c) \/ WritePin(c) BY <2>2 DEF WriteUses, WritePin, Write
  <2>3. CASE Recall(c) \/ ReadUses(c) \/ ReadToPin(c) \/ ReadToDelete(c) \/ Fail(c)
    BY <2>3 DEF Recall, ReadUses, ReadToPin, ReadToDelete, Fail
  <2>4. CASE Delete(c) BY <2>4 DEF Delete
  <2> QED BY <2>1, <2>2, <2>3, <2>4
<1> QED BY <1>1, PTL DEF MemorySpec, DeletedStaysDeleted

-----------------------------------------------------------------------------
(* Induction, as a fact about sets of numbers.                             *)

(* Every nonempty set of natural numbers has a least one.                  *)
LEMMA LeastElement ==
  ASSUME NEW T, T \subseteq Nat, T # {}
  PROVE  \E n \in T : \A m \in T : n <= m
<1> DEFINE Below == {0..n : n \in T}
           Order == StrictSubsetOrdering(Nat)
<1>1. IsWellFoundedOn(Order, FiniteSubsetsOf(Nat))
  BY FS_StrictSubsetOrderingWellFounded
<1>2. Below \subseteq FiniteSubsetsOf(Nat) /\ Below # {}
  <2>1. \A n \in T : 0..n \subseteq Nat /\ IsFiniteSet(0..n)
    BY FS_Interval
  <2> QED
    BY <2>1 DEF FiniteSubsetsOf
<1> HIDE DEF Order, Below
<1>3. PICK B \in Below : \A C \in Below : <<C, B>> \notin Order
  BY <1>1, <1>2, WFMin, Zenon
<1>4. PICK n \in T : B = 0..n
  BY DEF Below
<1>5. ASSUME NEW m \in T, ~(n <= m)
      PROVE  FALSE
  <2>1. 0..m \in Below
    BY DEF Below
  <2>2. 0..m \subseteq 0..n /\ 0..m # 0..n /\ 0..m \subseteq Nat /\ 0..n \subseteq Nat
    <3>1. n \in 0..n /\ n \notin 0..m
      BY <1>5
    <3> QED
      BY <1>5, <3>1
  <2>3. <<0..m, B>> \in Order
    BY <1>4, <2>2 DEF Order, StrictSubsetOrdering
  <2> QED
    BY <1>3, <2>1, <2>3
<1> QED
  BY <1>5

(* A set of numbers that begins at 0 and goes on reaches every number.     *)
LEMMA Onward ==
  ASSUME NEW S, 0 \in S, \A n \in Nat : n \in S => n + 1 \in S
  PROVE  \A n \in Nat : n \in S
<1> SUFFICES ASSUME NEW k \in Nat, k \notin S  PROVE FALSE
  OBVIOUS
<1> DEFINE T == Nat \ S
<1>1. T \subseteq Nat /\ T # {}
  OBVIOUS
<1>2. PICK n \in T : \A m \in T : n <= m
  <2> HIDE DEF T
  <2> QED BY <1>1, LeastElement
<1>3. n \in Nat /\ n # 0
  OBVIOUS
<1>4. n - 1 \in Nat /\ ~(n <= n - 1) /\ (n - 1) + 1 = n
  BY <1>3, SMT
<1>5. n - 1 \in S
  BY <1>2, <1>4
<1>6. n \in S
  <2> DEFINE p == n - 1
  <2>1. p \in Nat /\ p \in S /\ p + 1 = n
    BY <1>4, <1>5
  <2> HIDE DEF p
  <2> QED BY <2>1
<1> QED BY <1>6

-----------------------------------------------------------------------------
(* The loop of format_memories.                                            *)

HeaderOnly == [used |-> Header, entries |-> 0, full |-> FALSE]

Rounds(f, memories, n) ==
  f = [i \in 0..n |-> IF i = 0 THEN HeaderOnly ELSE Take(f[i - 1], memories[i])]

(* The loop is defined: it starts with the header alone and takes the      *)
(* memories one by one.                                                    *)
LEMMA LoopUnfolds ==
  ASSUME NEW memories, Len(memories) \in Nat
  PROVE  Rounds(Loop(memories), memories, Len(memories))
<1> DEFINE S == {n \in Nat : \E f : Rounds(f, memories, n)}
<1>1. 0 \in S
  <2> DEFINE f == [i \in 0..0 |-> HeaderOnly]
  <2>1. \A i \in 0..0 : i = 0
    BY SMT
  <2>2. Rounds(f, memories, 0)
    <3>1. \A i \in 0..0 : f[i] = IF i = 0 THEN HeaderOnly ELSE Take(f[i - 1], memories[i])
      BY <2>1
    <3> QED BY <3>1 DEF Rounds
  <2> QED BY <2>2
<1>2. ASSUME NEW n \in Nat, n \in S  PROVE n + 1 \in S
  <2>1. PICK f : Rounds(f, memories, n)
    BY <1>2
  <2> DEFINE g == [i \in 0..(n + 1) |-> IF i = n + 1 THEN Take(f[n], memories[n + 1]) ELSE f[i]]
  <2>2. \A i \in 0..n : f[i] = IF i = 0 THEN HeaderOnly ELSE Take(f[i - 1], memories[i])
    BY <2>1 DEF Rounds
  <2>3. \A i \in 0..(n + 1) : g[i] = IF i = 0 THEN HeaderOnly ELSE Take(g[i - 1], memories[i])
    <3> TAKE i \in 0..(n + 1)
    <3>1. CASE i = n + 1
      <4>1. i # 0 /\ i - 1 = n /\ n \in 0..(n + 1) /\ n # n + 1
        BY <3>1, SMT
      <4>2. g[i] = Take(f[n], memories[n + 1]) /\ g[n] = f[n]
        BY <3>1, <4>1
      <4> HIDE DEF g
      <4> QED BY <3>1, <4>1, <4>2
    <3>2. CASE i # n + 1
      <4>1. i \in 0..n /\ g[i] = f[i]
        BY <3>2, SMT
      <4>2. CASE i = 0
        BY <2>2, <4>1, <4>2
      <4>3. CASE i # 0
        <5>1. i - 1 \in 0..(n + 1) /\ i - 1 # n + 1
          BY <4>1, <4>3, SMT
        <5>2. g[i - 1] = f[i - 1]
          BY <5>1
        <5> HIDE DEF g
        <5> QED BY <2>2, <4>1, <4>3, <5>2
      <4> QED BY <4>2, <4>3
    <3> QED BY <3>1, <3>2
  <2>4. g = [i \in 0..(n + 1) |-> g[i]]
    OBVIOUS
  <2> HIDE DEF g
  <2>5. Rounds(g, memories, n + 1)
    BY <2>3, <2>4 DEF Rounds
  <2> QED BY <2>5
<1>3. \A n \in Nat : n \in S
  <2> HIDE DEF S
  <2> QED BY <1>1, <1>2, Onward
<1>4. \E f : Rounds(f, memories, Len(memories))
  BY <1>3
<1>5. Loop(memories) = CHOOSE f : Rounds(f, memories, Len(memories))
  BY DEF Loop, Rounds, HeaderOnly
<1> QED BY <1>4, <1>5, Zenon

-----------------------------------------------------------------------------
(* The texts of memories.                                                  *)

OnePiece(rest, t, i) ==
  IF i \in Tags(t) \/ i - 1 \in Tags(t) THEN rest ELSE Append(rest, t[i])

Passes(f, t, n) ==
  f = [i \in 0..n |-> IF i = 0 THEN <<>> ELSE OnePiece(f[i - 1], t, i)]

(* The pass over a text is defined, too.                                   *)
LEMMA PassUnfolds ==
  ASSUME NEW t, Len(t) \in Nat
  PROVE  Passes(Without(t), t, Len(t))
<1> DEFINE S == {n \in Nat : \E f : Passes(f, t, n)}
<1>1. 0 \in S
  <2> DEFINE f == [i \in 0..0 |-> <<>>]
  <2>1. \A i \in 0..0 : i = 0
    BY SMT
  <2>2. Passes(f, t, 0)
    <3>1. \A i \in 0..0 : f[i] = IF i = 0 THEN <<>> ELSE OnePiece(f[i - 1], t, i)
      BY <2>1
    <3> QED BY <3>1 DEF Passes
  <2> QED BY <2>2
<1>2. ASSUME NEW n \in Nat, n \in S  PROVE n + 1 \in S
  <2>1. PICK f : Passes(f, t, n)
    BY <1>2
  <2> DEFINE g == [i \in 0..(n + 1) |-> IF i = n + 1 THEN OnePiece(f[n], t, n + 1) ELSE f[i]]
  <2>2. \A i \in 0..n : f[i] = IF i = 0 THEN <<>> ELSE OnePiece(f[i - 1], t, i)
    BY <2>1 DEF Passes
  <2>3. \A i \in 0..(n + 1) : g[i] = IF i = 0 THEN <<>> ELSE OnePiece(g[i - 1], t, i)
    <3> TAKE i \in 0..(n + 1)
    <3>1. CASE i = n + 1
      <4>1. i # 0 /\ i - 1 = n /\ n \in 0..(n + 1) /\ n # n + 1
        BY <3>1, SMT
      <4>2. g[i] = OnePiece(f[n], t, n + 1) /\ g[n] = f[n]
        BY <3>1, <4>1
      <4> HIDE DEF g
      <4> QED BY <3>1, <4>1, <4>2
    <3>2. CASE i # n + 1
      <4>1. i \in 0..n /\ g[i] = f[i]
        BY <3>2, SMT
      <4>2. CASE i = 0
        BY <2>2, <4>1, <4>2
      <4>3. CASE i # 0
        <5>1. i - 1 \in 0..(n + 1) /\ i - 1 # n + 1
          BY <4>1, <4>3, SMT
        <5>2. g[i - 1] = f[i - 1]
          BY <5>1
        <5> HIDE DEF g
        <5> QED BY <2>2, <4>1, <4>3, <5>2
      <4> QED BY <4>2, <4>3
    <3> QED BY <3>1, <3>2
  <2>4. g = [i \in 0..(n + 1) |-> g[i]]
    OBVIOUS
  <2> HIDE DEF g
  <2>5. Passes(g, t, n + 1)
    BY <2>3, <2>4 DEF Passes
  <2> QED BY <2>5
<1>3. \A n \in Nat : n \in S
  <2> HIDE DEF S
  <2> QED BY <1>1, <1>2, Onward
<1>4. \E f : Passes(f, t, Len(t))
  BY <1>3
<1>5. Without(t) = CHOOSE f : Passes(f, t, Len(t))
  BY DEF Without, Passes, OnePiece
<1> QED BY <1>4, <1>5, Zenon

(* A text without its tags is no longer, and the same if it had none.      *)
LEMMA WithoutTags ==
  ASSUME NEW t \in Seq(Pieces)
  PROVE  LET rest == Without(t)[Len(t)]
         IN  rest \in Seq(Pieces) /\ Len(rest) <= Len(t) /\ (Tags(t) = {} => rest = t)
<1> DEFINE W == Without(t)
           Same(r, i) == Len(r) = i /\ \A k \in 1..i : r[k] = t[k]
           Good(r, i) == /\ r \in Seq(Pieces) /\ Len(r) <= i
                         /\ Tags(t) = {} => Same(r, i)
           S == {i \in Nat : i <= Len(t) => Good(W[i], i)}
<1>1. Len(t) \in Nat
  OBVIOUS
<1>2. W[0] = <<>> /\ \A i \in 1..Len(t) : W[i] = OnePiece(W[i - 1], t, i)
  <2>1. Passes(W, t, Len(t))
    BY <1>1, PassUnfolds
  <2>2. W = [i \in 0..Len(t) |-> IF i = 0 THEN <<>> ELSE OnePiece(W[i - 1], t, i)]
    BY <2>1 DEF Passes
  <2> HIDE DEF W
  <2>3. \A i \in 0..Len(t) : W[i] = IF i = 0 THEN <<>> ELSE OnePiece(W[i - 1], t, i)
    BY <2>2
  <2>4. 0 \in 0..Len(t) /\ \A i \in 1..Len(t) : i \in 0..Len(t) /\ i # 0
    BY <1>1, SMT
  <2> QED BY <2>3, <2>4
<1> HIDE DEF W
<1>3. 0 \in S
  <2>1. <<>> \in Seq(Pieces) /\ Len(<<>>) = 0 /\ Len(<<>>) <= 0 /\ \A k \in 1..0 : FALSE
    BY SMT
  <2>2. Good(<<>>, 0)
    BY <2>1
  <2> QED BY <1>2, <2>2
<1>4. ASSUME NEW i \in Nat, i \in S  PROVE i + 1 \in S
  <2> SUFFICES ASSUME i + 1 <= Len(t)  PROVE Good(W[i + 1], i + 1)
    OBVIOUS
  <2> DEFINE r == W[i]
  <2>1. i + 1 \in 1..Len(t) /\ (i + 1) - 1 = i /\ i <= Len(t)
    BY <1>1, SMT
  <2>2. Good(r, i) /\ t[i + 1] \in Pieces /\ Len(r) \in Nat
    BY <1>4, <2>1
  <2>3. W[i + 1] = OnePiece(r, t, i + 1)
    BY <1>2, <2>1
  <2> HIDE DEF r
  <2>4. CASE i + 1 \in Tags(t) \/ i \in Tags(t)
    <3>1. W[i + 1] = r
      BY <2>1, <2>3, <2>4 DEF OnePiece
    <3>2. Tags(t) # {} /\ Len(r) <= i + 1
      BY <2>2, <2>4
    <3> QED BY <2>2, <3>1, <3>2
  <2>5. CASE ~(i + 1 \in Tags(t) \/ i \in Tags(t))
    <3> DEFINE w == W[i + 1]
    <3>1. w = Append(r, t[i + 1])
      BY <2>1, <2>3, <2>5 DEF OnePiece
    <3>2. /\ w \in Seq(Pieces) /\ Len(w) = Len(r) + 1
          /\ w[Len(r) + 1] = t[i + 1] /\ \A k \in 1..Len(r) : w[k] = r[k]
      BY <2>2, <3>1
    <3>3. ASSUME Tags(t) = {}  PROVE Same(w, i + 1)
      <4>1. Len(r) = i /\ \A k \in 1..i : r[k] = t[k]
        BY <2>2, <3>3
      <4>2. \A k \in 1..(i + 1) : k = i + 1 \/ k \in 1..i
        BY SMT
      <4> HIDE DEF w
      <4>3. \A k \in 1..(i + 1) : w[k] = t[k]
        BY <3>2, <4>1, <4>2
      <4> QED BY <3>2, <4>1, <4>3
    <3>4. Len(w) <= i + 1
      BY <2>2, <3>2, SMT
    <3> HIDE DEF w
    <3> QED BY <3>2, <3>3, <3>4 DEF w
  <2> QED BY <2>4, <2>5
<1>5. \A i \in Nat : i \in S
  <2> HIDE DEF S
  <2> QED BY <1>3, <1>4, Onward
<1> DEFINE r == W[Len(t)]
<1>6. Good(r, Len(t))
  BY <1>1, <1>5
<1> HIDE DEF r
<1>7. ASSUME Tags(t) = {}  PROVE r = t
  <2>1. r \in Seq(Pieces) /\ Len(r) = Len(t) /\ \A k \in 1..Len(t) : r[k] = t[k]
    BY <1>6, <1>7
  <2> QED BY <2>1, SeqEqual
<1> QED BY <1>6, <1>7 DEF r, W

(* A text as it is stored is within its limit, or cut there and marked.    *)
Cut(f, t) ==
  \/ Len(t) <= Limits[f]
  \/ \E u \in Seq(Pieces) : Len(u) = Limits[f] /\ t = u \o Mark

Kept == {m \in [kind : {"failure", "fix"}, text : [Fields -> Seq(Pieces)]] :
           \A f \in Fields : Cut(f, m.text[f])}

LEMMA Trimmed ==
  ASSUME NEW f \in Fields, NEW t \in Seq(Pieces)
  PROVE  /\ Trim(f, t) \in Seq(Pieces) /\ Cut(f, Trim(f, t))
         /\ Cut(f, t) => /\ Len(Trim(f, t)) <= Len(t) /\ Len(t) <= Limits[f] + Suffix
                         /\ Trim(f, t) = t \/ Tags(t) # {}
<1> DEFINE q == Limits[f]
           x == Suffix
           w == Without(t)[Len(t)]
<1>1. q \in Nat /\ x \in Nat
  BY RecollectionAssumption
<1>2. w \in Seq(Pieces) /\ Len(w) \in Nat /\ Len(w) <= Len(t) /\ (Tags(t) = {} => w = t)
  BY WithoutTags
<1>3. Trim(f, t) = IF Len(w) <= q THEN w ELSE SubSeq(w, 1, q) \o Mark
  BY DEF Trim
<1>4. Mark \in Seq(Pieces) /\ Len(Mark) = x
  <2>1. Mark = [i \in 1..x |-> "text"] /\ "text" \in Pieces
    BY DEF Mark, Pieces
  <2> HIDE DEF x
  <2> QED BY <1>1, <2>1
<1>5. \A y : Cut(f, y) <=> Len(y) <= q \/ \E u \in Seq(Pieces) : Len(u) = q /\ y = u \o Mark
  BY DEF Cut
<1>6. Len(t) \in Nat
  OBVIOUS
<1> HIDE DEF q, x, w
<1>7. CASE Len(w) <= q
  <2>1. Trim(f, t) = w
    BY <1>3, <1>7
  <2>2. Cut(f, t) => Len(t) <= q + x
    <3>1. \A u \in Seq(Pieces) : Len(u \o Mark) = Len(u) + x
      BY <1>4
    <3>2. Cut(f, t) => Len(t) <= q \/ Len(t) = q + x
      BY <1>5, <3>1
    <3> QED BY <1>1, <1>6, <3>2, SMT
  <2> QED BY <1>2, <1>5, <1>7, <2>1, <2>2 DEF q, x
<1>8. CASE ~(Len(w) <= q)
  <2> DEFINE v == SubSeq(w, 1, q)
  <2>1. v \in Seq(Pieces) /\ Len(v) = q
    <3>1. q < Len(w) /\ 1 \in Nat
      BY <1>1, <1>2, <1>8, SMT
    <3> QED BY <1>1, <1>2, <3>1
  <2>2. Trim(f, t) = v \o Mark
    BY <1>3, <1>8
  <2> HIDE DEF v
  <2>3. v \o Mark \in Seq(Pieces) /\ Len(v \o Mark) = q + x
    BY <1>4, <2>1
  <2>4. ASSUME Cut(f, t)  PROVE Len(t) = q + x /\ (w = t => v \o Mark = t)
    <3>1. ~(Len(t) <= q)
      BY <1>1, <1>2, <1>6, <1>8, SMT
    <3>2. PICK u \in Seq(Pieces) : Len(u) = q /\ t = u \o Mark
      BY <1>5, <2>4, <3>1
    <3>3. Len(t) = q + x
      <4>1. Len(u \o Mark) = Len(u) + Len(Mark)
        BY <1>4, ConcatProperties
      <4> QED BY <1>4, <3>2, <4>1
    <3>4. ASSUME w = t  PROVE v = u
      <4>1. SubSeq(u \o Mark, 1, q) = u
        <5> DEFINE z == SubSeq(u \o Mark, 1, q)
        <5>1. u \o Mark \in Seq(Pieces) /\ q <= Len(u \o Mark)
          BY <1>1, <1>4, <3>2
        <5>2. z \in Seq(Pieces) /\ Len(z) = q /\ \A k \in 1..q : z[k] = (u \o Mark)[k]
          BY <1>1, <5>1
        <5>3. \A k \in 1..q : (u \o Mark)[k] = u[k]
          BY <1>1, <1>4, <3>2
        <5> HIDE DEF z
        <5>4. z = u
          BY <3>2, <5>2, <5>3, SeqEqual
        <5> QED BY <5>4 DEF z
      <4> QED BY <3>2, <3>4, <4>1 DEF v
    <3> QED BY <3>2, <3>3, <3>4
  <2>5. q + x \in Nat
    BY <1>1, SMT
  <2>6. Cut(f, v \o Mark)
    BY <1>5, <2>1
  <2>7. Cut(f, t) => Len(v \o Mark) <= Len(t) /\ Len(t) <= q + x
    BY <2>3, <2>4, <2>5
  <2>8. Cut(f, t) => v \o Mark = t \/ Tags(t) # {}
    BY <1>2, <2>4
  <2> QED BY <2>2, <2>3, <2>6, <2>7, <2>8 DEF q, x
<1> QED BY <1>7, <1>8

LEMMA EntryIsNatural ==
  ASSUME NEW m \in Kept
  PROVE  Entry(m) \in Nat
<1> DEFINE length(f) == IF f \in Shown(m) THEN Len(Trim(f, m.text[f])) ELSE 0
<1>1. \A f \in Fields : length(f) \in Nat
  <2> TAKE f \in Fields
  <2>1. m.text[f] \in Seq(Pieces)
    BY DEF Kept
  <2>2. Trim(f, m.text[f]) \in Seq(Pieces)
    BY <2>1, Trimmed
  <2> QED BY <2>2
<1>2. /\ length("task") \in Nat /\ length("code") \in Nat
      /\ length("error") \in Nat /\ length("lesson") \in Nat
  <2> HIDE DEF length
  <2> QED BY <1>1 DEF Fields
<1>3. Entry(m) = Labels + length("task") + length("code") + length("error") + length("lesson")
  BY DEF Entry
<1>4. Labels \in Nat
  BY RecollectionAssumption
<1> HIDE DEF length
<1> QED BY <1>2, <1>3, <1>4, SMT

(* What the loop has built after i memories: it is full as soon as it left *)
(* one out, the block is what it was when it took its last memory, and the *)
(* next one did not fit.                                                   *)
Built(r, i) ==
  LET b == Loop(r)[i]
      n == b.entries
  IN  /\ b \in [used : Nat, entries : 0..i, full : BOOLEAN]
      /\ b.full <=> n < i
      /\ Loop(r)[n] = [b EXCEPT !.full = FALSE]
      /\ n > 0 => b.used <= MaxChars
      /\ b.full => b.used + Entry(r[n + 1]) > MaxChars

LEMMA LoopSteps ==
  ASSUME NEW r \in Seq(Kept)
  PROVE  /\ Len(r) \in Nat
         /\ Loop(r)[0] = HeaderOnly
         /\ \A i \in 1..Len(r) : Loop(r)[i] = Take(Loop(r)[i - 1], r[i])
<1>1. Len(r) \in Nat
  OBVIOUS
<1>2. Rounds(Loop(r), r, Len(r))
  BY <1>1, LoopUnfolds
<1> DEFINE L == Loop(r)
<1>3. L = [i \in 0..Len(r) |-> IF i = 0 THEN HeaderOnly ELSE Take(L[i - 1], r[i])]
  BY <1>2 DEF Rounds
<1> HIDE DEF L
<1>4. \A i \in 0..Len(r) : L[i] = IF i = 0 THEN HeaderOnly ELSE Take(L[i - 1], r[i])
  BY <1>3
<1>5. 0 \in 0..Len(r) /\ \A i \in 1..Len(r) : i \in 0..Len(r) /\ i # 0
  BY <1>1, SMT
<1> QED BY <1>1, <1>4, <1>5 DEF L

LEMMA BuiltSoFar ==
  ASSUME NEW r \in Seq(Kept)
  PROVE  \A i \in 0..Len(r) : Built(r, i)
<1> DEFINE L == Loop(r)
           S == {i \in Nat : i <= Len(r) => Built(r, i)}
<1>1. Len(r) \in Nat /\ L[0] = HeaderOnly /\ \A i \in 1..Len(r) : L[i] = Take(L[i - 1], r[i])
  BY LoopSteps
<1>2. 0 \in S
  <2>1. Header \in Nat
    BY RecollectionAssumption
  <2>2. /\ HeaderOnly \in [used : Nat, entries : 0..0, full : BOOLEAN]
        /\ [HeaderOnly EXCEPT !.full = FALSE] = HeaderOnly
        /\ ~HeaderOnly.full /\ HeaderOnly.entries = 0
    <3> DEFINE h == Header
    <3>1. HeaderOnly = [used |-> h, entries |-> 0, full |-> FALSE] /\ h \in Nat
      BY <2>1 DEF HeaderOnly
    <3> HIDE DEF h
    <3>2. ~HeaderOnly.full /\ HeaderOnly.entries = 0
      BY <3>1
    <3>3. 0 \in 0..0
      BY SMT
    <3>4. HeaderOnly \in [used : Nat, entries : 0..0, full : BOOLEAN]
      BY <3>1, <3>3
    <3>5. [HeaderOnly EXCEPT !.full = FALSE] = HeaderOnly
      <4>1. HeaderOnly.full = FALSE
        BY <3>1
      <4> QED BY <3>4, <4>1
    <3> QED BY <3>2, <3>4, <3>5
  <2>3. ~(0 < 0) /\ ~(0 > 0)
    BY SMT
  <2>4. Loop(r)[0] = HeaderOnly
    BY <1>1
  <2>5. Built(r, 0)
    BY <2>2, <2>3, <2>4 DEF Built
  <2> HIDE DEF L
  <2> QED BY <2>5
<1>3. ASSUME NEW i \in Nat, i \in S  PROVE i + 1 \in S
  <2> SUFFICES ASSUME i + 1 <= Len(r)  PROVE Built(r, i + 1)
    OBVIOUS
  <2> DEFINE b == L[i]
             c == L[i + 1]
             n == b.entries
             e == Entry(r[i + 1])
  <2>1. Built(r, i) /\ i + 1 \in 1..Len(r) /\ (i + 1) - 1 = i
    <3>1. i <= Len(r)
      BY <1>1, SMT
    <3> QED BY <1>1, <1>3, <3>1, SMT
  <2>2. c = Take(b, r[i + 1])
    BY <1>1, <2>1
  <2>3. r[i + 1] \in Kept /\ e \in Nat
    <3>1. r[i + 1] \in Kept
      BY <2>1
    <3> QED BY <3>1, EntryIsNatural
  <2>4. MaxChars \in Nat
    BY RecollectionAssumption
  <2>5. /\ b \in [used : Nat, entries : 0..i, full : BOOLEAN] /\ (b.full <=> n < i)
        /\ L[n] = [b EXCEPT !.full = FALSE]
        /\ n > 0 => b.used <= MaxChars
        /\ b.full => b.used + Entry(r[n + 1]) > MaxChars
    BY <2>1 DEF Built
  <2>6. c = IF b.full \/ ~(b.used + e <= MaxChars) THEN [b EXCEPT !.full = TRUE]
            ELSE [b EXCEPT !.used = @ + e, !.entries = @ + 1]
    BY <2>2 DEF Take, Fits
  <2> HIDE DEF L, e
  <2>7. CASE b.full
    <3>1. c = b
      BY <2>5, <2>6, <2>7
    <3>2. n \in 0..(i + 1) /\ n < i + 1
      BY <2>5, SMT
    <3> QED BY <2>5, <2>7, <3>1, <3>2 DEF Built, L
  <2>8. CASE ~b.full /\ ~(b.used + e <= MaxChars)
    <3>1. c = [b EXCEPT !.full = TRUE]
      BY <2>6, <2>8
    <3>2. n = i /\ n < i + 1 /\ n \in 0..(i + 1)
      BY <2>5, <2>8, SMT
    <3>3. /\ c.full /\ c.entries = n /\ c.used = b.used
          /\ c \in [used : Nat, entries : 0..(i + 1), full : BOOLEAN]
      BY <2>5, <3>1, <3>2
    <3>4. [c EXCEPT !.full = FALSE] = [b EXCEPT !.full = FALSE]
      BY <2>5, <3>1
    <3>5. b.used + Entry(r[n + 1]) > MaxChars
      BY <2>3, <2>4, <2>5, <2>8, <3>2, SMT DEF e
    <3> HIDE DEF c
    <3> QED BY <2>5, <3>2, <3>3, <3>4, <3>5 DEF Built, L, c
  <2>9. CASE ~b.full /\ b.used + e <= MaxChars
    <3>1. c = [b EXCEPT !.used = @ + e, !.entries = @ + 1]
      BY <2>6, <2>9
    <3>2. n = i
      BY <2>5, <2>9, SMT
    <3>3. /\ c.entries = i + 1 /\ c.used = b.used + e /\ c.full = FALSE
          /\ c = [used |-> c.used, entries |-> c.entries, full |-> c.full]
      BY <2>5, <2>9, <3>1, <3>2
    <3>4. c.used \in Nat /\ c.entries \in 0..(i + 1) /\ ~(c.entries < i + 1) /\ c.used <= MaxChars
      BY <2>3, <2>5, <2>9, <3>3, SMT
    <3>5. c \in [used : Nat, entries : 0..(i + 1), full : BOOLEAN]
      BY <3>3, <3>4
    <3>6. [c EXCEPT !.full = FALSE] = c /\ L[c.entries] = c
      BY <3>3
    <3> HIDE DEF c
    <3> QED BY <3>3, <3>4, <3>5, <3>6 DEF Built, L, c
  <2> QED BY <2>7, <2>8, <2>9
<1>4. \A i \in Nat : i \in S
  <2> HIDE DEF S
  <2> QED BY <1>2, <1>3, Onward
<1> QED BY <1>1, <1>4

(* The loop over the first k memories runs as the loop over all of them.   *)
LEMMA LoopOfPrefix ==
  ASSUME NEW r \in Seq(Kept), NEW k \in 0..Len(r)
  PROVE  FormatMemories(SubSeq(r, 1, k)) = Loop(r)[k]
<1> DEFINE p == SubSeq(r, 1, k)
           L == Loop(r)
           M == Loop(p)
           S == {i \in Nat : i <= k => M[i] = L[i]}
<1>1. p \in Seq(Kept) /\ Len(p) = k /\ \A i \in 1..k : p[i] = r[i]
  <2>1. k \in Nat /\ Len(r) \in Nat /\ k <= Len(r)
    OBVIOUS
  <2>2. \A i \in 1..k : r[i] \in Kept
    BY <2>1
  <2> QED BY <2>1, <2>2
<1> HIDE DEF p
<1>2. /\ Len(r) \in Nat /\ L[0] = HeaderOnly /\ \A i \in 1..Len(r) : L[i] = Take(L[i - 1], r[i])
      /\ M[0] = HeaderOnly /\ \A i \in 1..k : M[i] = Take(M[i - 1], p[i])
  BY <1>1, LoopSteps
<1>3. k \in Nat /\ k <= Len(r)
  BY <1>2
<1> HIDE DEF L, M
<1>4. 0 \in S
  BY <1>2
<1>5. ASSUME NEW i \in Nat, i \in S  PROVE i + 1 \in S
  <2> SUFFICES ASSUME i + 1 <= k  PROVE M[i + 1] = L[i + 1]
    OBVIOUS
  <2>1. i + 1 \in 1..k /\ i + 1 \in 1..Len(r) /\ (i + 1) - 1 = i /\ i <= k
    BY <1>2, <1>3, SMT
  <2>2. M[i] = L[i]
    BY <1>5, <2>1
  <2> QED BY <1>1, <1>2, <2>1, <2>2
<1>6. \A i \in Nat : i \in S
  <2> HIDE DEF S
  <2> QED BY <1>4, <1>5, Onward
<1> QED BY <1>1, <1>3, <1>6 DEF FormatMemories, p, L, M

-----------------------------------------------------------------------------
RecalledInv == recalled \in Seq(Kept)

LEMMA RecalledKept == RecollectionSpec => []RecalledInv
<1>1. RecollectionInit => RecalledInv
  BY DEF RecollectionInit, RecalledInv
<1>2. ASSUME RecalledInv, AnotherMemory  PROVE RecalledInv'
  <2>1. PICK m \in Remembered : recalled' = Append(recalled, Stored(m))
    BY <1>2 DEF AnotherMemory
  <2>2. m \in [kind : {"failure", "fix"}, text : [Fields -> Seq(Pieces)]]
    BY RecollectionAssumption
  <2>3. \A f \in Fields : m.text[f] \in Seq(Pieces)
    BY <2>2
  <2>4. \A f \in Fields : Trim(f, m.text[f]) \in Seq(Pieces) /\ Cut(f, Trim(f, m.text[f]))
    BY <2>3, Trimmed
  <2> DEFINE text == [f \in Fields |-> Trim(f, m.text[f])]
  <2>5. text \in [Fields -> Seq(Pieces)] /\ \A f \in Fields : Cut(f, text[f])
    BY <2>4
  <2>6. Stored(m) = [m EXCEPT !.text = text]
    BY DEF Stored
  <2> HIDE DEF text
  <2>7. Stored(m) \in Kept
    BY <2>2, <2>5, <2>6 DEF Kept
  <2> QED BY <1>2, <2>1, <2>7 DEF RecalledInv
<1>3. RecalledInv /\ UNCHANGED recalled => RecalledInv'
  BY DEF RecalledInv
<1> QED BY <1>1, <1>2, <1>3, PTL DEF RecollectionSpec

(* The block of format_memories keeps its cap, shows the best memories up  *)
(* to the first that does not fit, and shows texts as they were stored, or *)
(* shorter, if there was a tag in what was stored.                         *)
THEOREM BlocksFit == RecollectionSpec => []BlockFits
<1>1. ASSUME RecalledInv  PROVE BlockFits
  <2> DEFINE r == recalled
             b == FormatMemories(r)
             n == b.entries
  <2>1. r \in Seq(Kept) /\ Len(r) \in Nat /\ Len(r) \in 0..Len(r)
    BY <1>1 DEF RecalledInv
  <2>2. Built(r, Len(r)) /\ b = Loop(r)[Len(r)]
    BY <2>1, BuiltSoFar DEF FormatMemories
  <2>3. /\ b \in [used : Nat, entries : 0..Len(r), full : BOOLEAN]
        /\ b.full <=> n < Len(r)
        /\ Loop(r)[n] = [b EXCEPT !.full = FALSE]
        /\ n > 0 => b.used <= MaxChars
        /\ b.full => b.used + Entry(r[n + 1]) > MaxChars
    BY <2>2 DEF Built
  <2>4. FormatMemories(SubSeq(r, 1, n)) = Loop(r)[n]
    <3>1. n \in 0..Len(r)
      BY <2>3
    <3> HIDE DEF n
    <3> QED BY <2>1, <3>1, LoopOfPrefix
  <2>5. n > 0 => BlockLength(r) <= MaxChars + n
    <3> SUFFICES ASSUME n > 0  PROVE BlockLength(r) <= MaxChars + n
      OBVIOUS
    <3>1. BlockLength(r) = b.used + n
      BY <2>3, SMT DEF BlockLength
    <3>2. b.used \in Nat /\ n \in Nat /\ MaxChars \in Nat /\ b.used <= MaxChars
      BY <2>3, RecollectionAssumption
    <3> QED BY <3>1, <3>2, SMT
  <2>6. b = [FormatMemories(SubSeq(r, 1, n)) EXCEPT !.full = n < Len(r)]
    <3>1. b = [[b EXCEPT !.full = FALSE] EXCEPT !.full = b.full]
      <4> HIDE DEF b
      <4> QED BY <2>3
    <3>2. b.full = (n < Len(r))
      BY <2>3
    <3> QED BY <2>3, <2>4, <3>1, <3>2
  <2>7. ASSUME NEW i \in DOMAIN r, NEW f \in Fields
        PROVE  LET stored == r[i].text[f]
                   shown  == Trim(f, stored)
               IN  /\ Len(shown) <= Len(stored) /\ Len(stored) <= Limits[f] + Suffix
                   /\ shown = stored \/ Tags(stored) # {}
    <3>1. r[i] \in Kept
      BY <2>1
    <3>2. r[i].text[f] \in Seq(Pieces) /\ Cut(f, r[i].text[f])
      BY <3>1 DEF Kept
    <3> QED BY <3>2, Trimmed
  <2> HIDE DEF b
  <2> QED BY <2>3, <2>5, <2>6, <2>7 DEF BlockFits, b
<1> QED BY <1>1, RecalledKept, PTL

-----------------------------------------------------------------------------
(* The loops of _parse_verdict.                                            *)

Unread == [inIssues |-> FALSE, inInstructions |-> FALSE, issues |-> <<>>, instructions |-> <<>>]

FirstLoop(f, text, n) ==
  f = [i \in 0..n |-> IF i = 0 THEN NoVerdict ELSE Heading(f[i - 1], text[i])]
SecondLoop(f, text, n) ==
  f = [i \in 0..n |-> IF i = 0 THEN Unread ELSE Collect(f[i - 1], text[i])]

LEMMA HeadingsUnfolds ==
  ASSUME NEW text, Len(text) \in Nat
  PROVE  FirstLoop(Headings(text), text, Len(text))
<1> DEFINE S == {n \in Nat : \E f : FirstLoop(f, text, n)}
<1>1. 0 \in S
  <2> DEFINE f == [i \in 0..0 |-> NoVerdict]
  <2>1. \A i \in 0..0 : i = 0
    BY SMT
  <2>2. FirstLoop(f, text, 0)
    <3>1. \A i \in 0..0 : f[i] = IF i = 0 THEN NoVerdict ELSE Heading(f[i - 1], text[i])
      BY <2>1
    <3> QED BY <3>1 DEF FirstLoop
  <2> QED BY <2>2
<1>2. ASSUME NEW n \in Nat, n \in S  PROVE n + 1 \in S
  <2>1. PICK f : FirstLoop(f, text, n)
    BY <1>2
  <2> DEFINE g == [i \in 0..(n + 1) |-> IF i = n + 1 THEN Heading(f[n], text[n + 1]) ELSE f[i]]
  <2>2. \A i \in 0..n : f[i] = IF i = 0 THEN NoVerdict ELSE Heading(f[i - 1], text[i])
    BY <2>1 DEF FirstLoop
  <2>3. \A i \in 0..(n + 1) : g[i] = IF i = 0 THEN NoVerdict ELSE Heading(g[i - 1], text[i])
    <3> TAKE i \in 0..(n + 1)
    <3>1. CASE i = n + 1
      <4>1. i # 0 /\ i - 1 = n /\ n \in 0..(n + 1) /\ n # n + 1
        BY <3>1, SMT
      <4>2. g[i] = Heading(f[n], text[n + 1]) /\ g[n] = f[n]
        BY <3>1, <4>1
      <4> HIDE DEF g
      <4> QED BY <3>1, <4>1, <4>2
    <3>2. CASE i # n + 1
      <4>1. i \in 0..n /\ g[i] = f[i]
        BY <3>2, SMT
      <4>2. CASE i = 0
        BY <2>2, <4>1, <4>2
      <4>3. CASE i # 0
        <5>1. i - 1 \in 0..(n + 1) /\ i - 1 # n + 1
          BY <4>1, <4>3, SMT
        <5>2. g[i - 1] = f[i - 1]
          BY <5>1
        <5> HIDE DEF g
        <5> QED BY <2>2, <4>1, <4>3, <5>2
      <4> QED BY <4>2, <4>3
    <3> QED BY <3>1, <3>2
  <2>4. g = [i \in 0..(n + 1) |-> g[i]]
    OBVIOUS
  <2> HIDE DEF g
  <2>5. FirstLoop(g, text, n + 1)
    BY <2>3, <2>4 DEF FirstLoop
  <2> QED BY <2>5
<1>3. \A n \in Nat : n \in S
  <2> HIDE DEF S
  <2> QED BY <1>1, <1>2, Onward
<1>4. \E f : FirstLoop(f, text, Len(text))
  BY <1>3
<1>5. Headings(text) = CHOOSE f : FirstLoop(f, text, Len(text))
  BY DEF Headings, FirstLoop
<1> QED BY <1>4, <1>5, Zenon

LEMMA CollectedUnfolds ==
  ASSUME NEW text, Len(text) \in Nat
  PROVE  SecondLoop(Collected(text), text, Len(text))
<1> DEFINE S == {n \in Nat : \E f : SecondLoop(f, text, n)}
<1>1. 0 \in S
  <2> DEFINE f == [i \in 0..0 |-> Unread]
  <2>1. \A i \in 0..0 : i = 0
    BY SMT
  <2>2. SecondLoop(f, text, 0)
    <3>1. \A i \in 0..0 : f[i] = IF i = 0 THEN Unread ELSE Collect(f[i - 1], text[i])
      BY <2>1
    <3> QED BY <3>1 DEF SecondLoop
  <2> QED BY <2>2
<1>2. ASSUME NEW n \in Nat, n \in S  PROVE n + 1 \in S
  <2>1. PICK f : SecondLoop(f, text, n)
    BY <1>2
  <2> DEFINE g == [i \in 0..(n + 1) |-> IF i = n + 1 THEN Collect(f[n], text[n + 1]) ELSE f[i]]
  <2>2. \A i \in 0..n : f[i] = IF i = 0 THEN Unread ELSE Collect(f[i - 1], text[i])
    BY <2>1 DEF SecondLoop
  <2>3. \A i \in 0..(n + 1) : g[i] = IF i = 0 THEN Unread ELSE Collect(g[i - 1], text[i])
    <3> TAKE i \in 0..(n + 1)
    <3>1. CASE i = n + 1
      <4>1. i # 0 /\ i - 1 = n /\ n \in 0..(n + 1) /\ n # n + 1
        BY <3>1, SMT
      <4>2. g[i] = Collect(f[n], text[n + 1]) /\ g[n] = f[n]
        BY <3>1, <4>1
      <4> HIDE DEF g
      <4> QED BY <3>1, <4>1, <4>2
    <3>2. CASE i # n + 1
      <4>1. i \in 0..n /\ g[i] = f[i]
        BY <3>2, SMT
      <4>2. CASE i = 0
        BY <2>2, <4>1, <4>2
      <4>3. CASE i # 0
        <5>1. i - 1 \in 0..(n + 1) /\ i - 1 # n + 1
          BY <4>1, <4>3, SMT
        <5>2. g[i - 1] = f[i - 1]
          BY <5>1
        <5> HIDE DEF g
        <5> QED BY <2>2, <4>1, <4>3, <5>2
      <4> QED BY <4>2, <4>3
    <3> QED BY <3>1, <3>2
  <2>4. g = [i \in 0..(n + 1) |-> g[i]]
    OBVIOUS
  <2> HIDE DEF g
  <2>5. SecondLoop(g, text, n + 1)
    BY <2>3, <2>4 DEF SecondLoop
  <2> QED BY <2>5
<1>3. \A n \in Nat : n \in S
  <2> HIDE DEF S
  <2> QED BY <1>1, <1>2, Onward
<1>4. \E f : SecondLoop(f, text, Len(text))
  BY <1>3
<1>5. Collected(text) = CHOOSE f : SecondLoop(f, text, Len(text))
  BY DEF Collected, SecondLoop, Unread
<1> QED BY <1>4, <1>5, Zenon

-----------------------------------------------------------------------------
(* Lists of lines.                                                         *)

(* A list of lines at some places, and the line at a later one appended.   *)
LEMMA LineAppended ==
  ASSUME NEW list \in Seq(Lines), NEW n \in Nat, NEW S \in SUBSET (1..n), ListsLinesAt(list, S),
         lines[n + 1] \in Lines
  PROVE  ListsLinesAt(Append(list, lines[n + 1]), S \cup {n + 1})
<1> DEFINE p == n + 1
           R == S \cup {p}
           long == Append(list, lines[p])
<1>1. IsFiniteSet(S) /\ Cardinality(S) \in Nat
  <2>1. IsFiniteSet(1..n)
    <3> DEFINE one == 1
    <3>1. one \in Int /\ n \in Int
      OBVIOUS
    <3>2. IsFiniteSet(one..n)
      <4> HIDE DEF one
      <4> QED BY <3>1, FS_Interval
    <3> QED BY <3>2
  <2>2. IsFiniteSet(S)
    BY <2>1, FS_Subset
  <2> QED BY <2>2, FS_CardinalityType
<1>2. p \in Nat /\ p \notin S
  BY SMT
<1>3. Cardinality(R) = Cardinality(S) + 1
  <2> HIDE DEF p
  <2> QED BY <1>1, <1>2, FS_AddElement
<1>4. Len(list) = Cardinality(S) /\ \A i \in S : list[Cardinality(S \cap 1..i)] = lines[i]
  BY DEF ListsLinesAt
<1>5. Len(long) = Cardinality(R) /\ long[Cardinality(R)] = lines[p]
        /\ \A k \in 1..Cardinality(S) : long[k] = list[k]
  <2> DEFINE x == lines[p]
             c == Cardinality(S)
  <2>1. c \in Nat /\ Len(list) = c /\ Cardinality(R) = c + 1 /\ x \in Lines
    BY <1>1, <1>3, <1>4
  <2> HIDE DEF x, c, R
  <2>2. /\ Len(Append(list, x)) = c + 1 /\ Append(list, x)[c + 1] = x
        /\ \A k \in 1..c : Append(list, x)[k] = list[k]
    BY <2>1
  <2> QED BY <2>1, <2>2 DEF x, c
<1>6. ASSUME NEW i \in R  PROVE long[Cardinality(R \cap 1..i)] = lines[i]
  <2>1. CASE i = p
    <3>1. \A x \in R : x \in 1..p
      BY SMT
    <3>2. R \cap 1..i = R
      BY <2>1, <3>1
    <3> QED BY <1>5, <2>1, <3>2
  <2>2. CASE i \in S
    <3>1. R \cap 1..i = S \cap 1..i
      BY <2>2
    <3>2. Cardinality(S \cap 1..i) \in 1..Cardinality(S)
      <4> DEFINE P == S \cap 1..i
      <4>1. P \subseteq S /\ i \in P
        BY <2>2
      <4> HIDE DEF P
      <4>2. IsFiniteSet(P) /\ Cardinality(P) <= Cardinality(S) /\ Cardinality(P) \in Nat
        BY <1>1, <4>1, FS_Subset, FS_CardinalityType
      <4>3. Cardinality(P) # 0
        BY <4>1, <4>2, FS_EmptySet
      <4>4. Cardinality(P) \in 1..Cardinality(S)
        BY <1>1, <4>2, <4>3
      <4> QED BY <4>4 DEF P
    <3> QED BY <1>4, <1>5, <2>2, <3>1, <3>2
  <2> QED BY <2>1, <2>2
<1> HIDE DEF R, long
<1>7. ListsLinesAt(long, R)
  BY <1>5, <1>6 DEF ListsLinesAt
<1> QED BY <1>7 DEF R, long

-----------------------------------------------------------------------------
(* One line more.                                                          *)

LEMMA LastOfNext ==
  ASSUME NEW n \in Nat, NEW head
  PROVE  /\ \A i \in 1..n : LastOf(head, i, n + 1)
                              <=> LastOf(head, i, n) /\ lines[n + 1].head # head
         /\ LastOf(head, n + 1, n + 1) <=> lines[n + 1].head = head
<1>1. ASSUME NEW i \in 1..n
      PROVE  LastOf(head, i, n + 1) <=> LastOf(head, i, n) /\ lines[n + 1].head # head
  <2>1. \A k : k \in (i + 1)..(n + 1) <=> k \in (i + 1)..n \/ k = n + 1
    BY SMT
  <2> QED BY <2>1 DEF LastOf
<1>2. LastOf(head, n + 1, n + 1) <=> lines[n + 1].head = head
  <2>1. \A k : k \notin ((n + 1) + 1)..(n + 1)
    BY SMT
  <2> QED BY <2>1 DEF LastOf
<1> QED BY <1>1, <1>2

LEMMA SectionNext ==
  ASSUME NEW n \in Nat, NEW head \in {"ISSUES", "INSTRUCTIONS"}
  PROVE  InSection(head, n + 2)
           <=> IF lines[n + 1].head \in {"ISSUES", "INSTRUCTIONS"} THEN lines[n + 1].head = head
               ELSE InSection(head, n + 1)
<1> DEFINE p == n + 1
           Heads == {"ISSUES", "INSTRUCTIONS"}
<1>1. (n + 2) - 1 = p /\ p - 1 = n /\ p \in Nat /\ p \in 1..p
  BY SMT
<1>2. \A j \in 1..p : \A k : k \in (j + 1)..p <=> (k \in (j + 1)..n \/ (k = p /\ j # p))
  BY SMT
<1>3. \A j : j \in 1..p <=> j \in 1..n \/ j = p
  BY SMT
<1>4. \A k : k \notin (p + 1)..n
  BY SMT
<1>5. InSection(head, n + 2)
        <=> \E j \in 1..p : lines[j].head = head /\ \A k \in (j + 1)..p : lines[k].head \notin Heads
  BY <1>1 DEF InSection
<1>6. InSection(head, p)
        <=> \E j \in 1..n : lines[j].head = head /\ \A k \in (j + 1)..n : lines[k].head \notin Heads
  BY <1>1 DEF InSection
<1>7. p \notin 1..n
  BY SMT
<1> HIDE DEF p
<1>8. CASE lines[p].head \in Heads
  <2>1. ASSUME NEW j \in 1..p, lines[j].head = head,
               \A k \in (j + 1)..p : lines[k].head \notin Heads
        PROVE  lines[p].head = head
    BY <1>2, <1>8, <2>1
  <2>2. ASSUME lines[p].head = head  PROVE \A k \in (p + 1)..p : lines[k].head \notin Heads
    BY <1>1, <1>2, <1>4
  <2> QED BY <1>1, <1>5, <1>8, <2>1, <2>2 DEF p
<1>9. CASE lines[p].head \notin Heads
  <2>1. ASSUME NEW j \in 1..p, lines[j].head = head,
               \A k \in (j + 1)..p : lines[k].head \notin Heads
        PROVE  j \in 1..n /\ \A k \in (j + 1)..n : lines[k].head \notin Heads
    BY <1>2, <1>3, <1>9, <2>1
  <2>2. ASSUME NEW j \in 1..n, lines[j].head = head,
               \A k \in (j + 1)..n : lines[k].head \notin Heads
        PROVE  j \in 1..p /\ \A k \in (j + 1)..p : lines[k].head \notin Heads
    BY <1>2, <1>3, <1>9, <2>2
  <2>3. InSection(head, n + 2) <=> InSection(head, p)
    BY <1>5, <1>6, <2>1, <2>2
  <2> QED BY <1>9, <2>3 DEF p
<1> QED BY <1>8, <1>9

LEMMA PlacesNext ==
  ASSUME NEW n \in Nat
  PROVE  /\ IssueLines(n) \in SUBSET (1..n) /\ InstructionLines(n) \in SUBSET (1..n)
         /\ IssueLines(n + 1) = IF InSection("ISSUES", n + 1) /\ lines[n + 1].head = "dash"
                                THEN IssueLines(n) \cup {n + 1} ELSE IssueLines(n)
         /\ InstructionLines(n + 1) =
              IF /\ InSection("INSTRUCTIONS", n + 1)
                 /\ lines[n + 1].head \notin {"blank", "ISSUES", "INSTRUCTIONS"}
              THEN InstructionLines(n) \cup {n + 1} ELSE InstructionLines(n)
<1> DEFINE p == n + 1
<1>1. \A j : j \in 1..p <=> j \in 1..n \/ j = p
  BY SMT
<1> HIDE DEF p
<1>2. IssueLines(p) = IF InSection("ISSUES", p) /\ lines[p].head = "dash"
                      THEN IssueLines(n) \cup {p} ELSE IssueLines(n)
  BY <1>1 DEF IssueLines
<1>3. InstructionLines(p) =
        IF InSection("INSTRUCTIONS", p) /\ lines[p].head \notin {"blank", "ISSUES", "INSTRUCTIONS"}
        THEN InstructionLines(n) \cup {p} ELSE InstructionLines(n)
  BY <1>1 DEF InstructionLines
<1>4. IssueLines(n) \in SUBSET (1..n) /\ InstructionLines(n) \in SUBSET (1..n)
  BY DEF IssueLines, InstructionLines
<1> QED BY <1>2, <1>3, <1>4 DEF p

-----------------------------------------------------------------------------
(* What the loops have read after n lines.                                 *)

Rewrites(n) == \E i \in 1..n : LastOf("VERDICT", i, n) /\ lines[i].rewrite

HeadingsRead(n) ==
  LET v == Headings(lines)[n] IN
  /\ v = [verdict |-> v.verdict, confidence |-> v.confidence, reasoning |-> v.reasoning,
          issues |-> <<>>, instructions |-> <<>>]
  /\ v.verdict = IF Rewrites(n) THEN "REWRITE" ELSE "APPROVED"
  /\ v.confidence \in 0..100
  /\ \A i \in 1..n : LastOf("CONFIDENCE", i, n) /\ Legible(lines[i].number)
                     => v.confidence = AsConfidence(lines[i].number)

SectionsRead(n) ==
  LET sections == Collected(lines)[n] IN
  /\ sections \in [inIssues : BOOLEAN, inInstructions : BOOLEAN,
                issues : Seq(Lines), instructions : Seq(Lines)]
  /\ sections.inIssues <=> InSection("ISSUES", n + 1)
  /\ sections.inInstructions <=> InSection("INSTRUCTIONS", n + 1)
  /\ ListsLinesAt(sections.issues, IssueLines(n))
  /\ ListsLinesAt(sections.instructions, InstructionLines(n))

LEMMA ConfidenceInRange ==
  ASSUME NEW n \in Int \cup {Garbage, NaN}, Legible(n)
  PROVE  AsConfidence(n) \in 0..100
<1>1. CASE n = NaN
  <2>1. AsConfidence(n) = 100
    BY <1>1 DEF AsConfidence
  <2> QED BY <2>1, SMT
<1>2. CASE n # NaN
  <2> DEFINE m == IF n > 100 THEN (n + 50) \div 100 ELSE n
  <2>1. n \in Int
    BY <1>2 DEF Legible
  <2>2. m \in Int
    BY <2>1, SMT
  <2>3. AsConfidence(n) = Clamp(m)
    BY <1>2 DEF AsConfidence
  <2> HIDE DEF m
  <2>4. Clamp(m) \in 0..100
    BY <2>2, SMT DEF Clamp
  <2> QED BY <2>3, <2>4
<1> QED BY <1>1, <1>2

LEMMA HeadingStep ==
  ASSUME NEW n \in Nat, HeadingsRead(n), lines[n + 1] \in Lines,
         Headings(lines)[n + 1] = Heading(Headings(lines)[n], lines[n + 1])
  PROVE  HeadingsRead(n + 1)
<1> DEFINE p == n + 1
           v == Headings(lines)[n]
           w == Headings(lines)[p]
           x == lines[p]
<1>1. /\ v = [verdict |-> v.verdict, confidence |-> v.confidence, reasoning |-> v.reasoning,
              issues |-> <<>>, instructions |-> <<>>]
      /\ v.verdict = IF Rewrites(n) THEN "REWRITE" ELSE "APPROVED"
      /\ v.confidence \in 0..100
      /\ \A i \in 1..n : LastOf("CONFIDENCE", i, n) /\ Legible(lines[i].number)
                         => v.confidence = AsConfidence(lines[i].number)
  BY DEF HeadingsRead
<1>2. /\ w = Heading(v, x) /\ x \in Lines
      /\ x.rewrite \in BOOLEAN /\ x.number \in Int \cup {Garbage, NaN}
  BY CritiqueAssumption
<1>3. \A i : i \in 1..p <=> i \in 1..n \/ i = p
  BY SMT
<1>4. \A head : /\ \A i \in 1..n : LastOf(head, i, p) <=> LastOf(head, i, n) /\ x.head # head
                /\ LastOf(head, p, p) <=> x.head = head
  BY LastOfNext
<1> HIDE DEF v, w, x, p
<1>5. Rewrites(p) <=> IF x.head = "VERDICT" THEN x.rewrite ELSE Rewrites(n)
  <2>1. CASE x.head = "VERDICT"
    BY <1>3, <1>4, <2>1 DEF Rewrites, x
  <2>2. CASE x.head # "VERDICT"
    BY <1>3, <1>4, <2>2 DEF Rewrites
  <2> QED BY <2>1, <2>2
<1>6. CASE x.head = "VERDICT"
  <2>1. w = [v EXCEPT !.verdict = IF x.rewrite THEN "REWRITE" ELSE "APPROVED"]
    BY <1>2, <1>6 DEF Heading
  <2>2. w = [verdict |-> w.verdict, confidence |-> w.confidence, reasoning |-> w.reasoning,
             issues |-> <<>>, instructions |-> <<>>]
          /\ w.confidence = v.confidence
          /\ w.verdict = IF x.rewrite THEN "REWRITE" ELSE "APPROVED"
    BY <1>1, <2>1
  <2>3. ASSUME NEW i \in 1..p, LastOf("CONFIDENCE", i, p), Legible(lines[i].number)
        PROVE  w.confidence = AsConfidence(lines[i].number)
    <3>1. x.head # "CONFIDENCE"
      BY <1>6
    <3>2. i # p
      BY <1>4, <2>3, <3>1
    <3>3. i \in 1..n /\ LastOf("CONFIDENCE", i, n)
      BY <1>3, <1>4, <2>3, <3>2
    <3> QED BY <1>1, <2>2, <2>3, <3>3
  <2>4. w.verdict = IF Rewrites(p) THEN "REWRITE" ELSE "APPROVED"
    BY <1>5, <1>6, <2>2
  <2> QED BY <1>1, <2>2, <2>3, <2>4 DEF HeadingsRead, w, p
<1>7. CASE x.head = "CONFIDENCE"
  <2> DEFINE c == IF Legible(x.number) THEN AsConfidence(x.number)
                  ELSE IF v.verdict = "REWRITE" THEN 50 ELSE 85
  <2>1. c \in 0..100
    <3>1. 50 \in 0..100 /\ 85 \in 0..100
      BY SMT
    <3> QED BY <1>2, <3>1, ConfidenceInRange
  <2>2. w = [v EXCEPT !.confidence = c]
    <3>1. x.head # "VERDICT"
      BY <1>7
    <3> QED BY <1>2, <1>7, <3>1 DEF Heading
  <2>3. Legible(x.number) => c = AsConfidence(x.number)
    OBVIOUS
  <2> HIDE DEF c
  <2>4. w = [verdict |-> w.verdict, confidence |-> w.confidence, reasoning |-> w.reasoning,
             issues |-> <<>>, instructions |-> <<>>]
          /\ w.confidence = c /\ w.verdict = v.verdict
    BY <1>1, <2>2
  <2>5. ASSUME NEW i \in 1..p, LastOf("CONFIDENCE", i, p), Legible(lines[i].number)
        PROVE  w.confidence = AsConfidence(lines[i].number)
    <3>1. i = p
      BY <1>3, <1>4, <1>7, <2>5
    <3> QED BY <2>3, <2>4, <2>5, <3>1 DEF x
  <2>6. w.verdict = IF Rewrites(p) THEN "REWRITE" ELSE "APPROVED"
    BY <1>1, <1>5, <1>7, <2>4
  <2> QED BY <2>1, <2>4, <2>5, <2>6 DEF HeadingsRead, w, p
<1>8. CASE x.head \notin {"VERDICT", "CONFIDENCE"}
  <2>1. w \in {v, [v EXCEPT !.reasoning = x.number]}
    BY <1>2, <1>8 DEF Heading
  <2>2. w = [verdict |-> w.verdict, confidence |-> w.confidence, reasoning |-> w.reasoning,
             issues |-> <<>>, instructions |-> <<>>]
          /\ w.confidence = v.confidence /\ w.verdict = v.verdict
    BY <1>1, <2>1
  <2>3. ASSUME NEW i \in 1..p, LastOf("CONFIDENCE", i, p), Legible(lines[i].number)
        PROVE  w.confidence = AsConfidence(lines[i].number)
    BY <1>1, <1>3, <1>4, <1>8, <2>2, <2>3
  <2>4. w.verdict = IF Rewrites(p) THEN "REWRITE" ELSE "APPROVED"
    BY <1>1, <1>5, <1>8, <2>2
  <2> QED BY <1>1, <2>2, <2>3, <2>4 DEF HeadingsRead, w, p
<1> QED BY <1>6, <1>7, <1>8

LEMMA SectionStep ==
  ASSUME NEW n \in Nat, SectionsRead(n), lines[n + 1] \in Lines,
         Collected(lines)[n + 1] = Collect(Collected(lines)[n], lines[n + 1])
  PROVE  SectionsRead(n + 1)
<1> DEFINE p == n + 1
           f == Collected(lines)[n]
           g == Collected(lines)[p]
           x == lines[p]
           Heads == {"ISSUES", "INSTRUCTIONS"}
<1>1. /\ f \in [inIssues : BOOLEAN, inInstructions : BOOLEAN,
                issues : Seq(Lines), instructions : Seq(Lines)]
      /\ f.inIssues <=> InSection("ISSUES", p)
      /\ f.inInstructions <=> InSection("INSTRUCTIONS", p)
      /\ ListsLinesAt(f.issues, IssueLines(n))
      /\ ListsLinesAt(f.instructions, InstructionLines(n))
  BY DEF SectionsRead
<1>2. g = Collect(f, x) /\ x \in Lines
  OBVIOUS
<1>3. \A head \in Heads : InSection(head, p + 1) <=> IF x.head \in Heads THEN x.head = head
                                                    ELSE InSection(head, p)
  <2>1. n + 2 = p + 1
    BY SMT
  <2> QED BY <2>1, SectionNext
<1>4. /\ IssueLines(p) = IF InSection("ISSUES", p) /\ x.head = "dash"
                         THEN IssueLines(n) \cup {p} ELSE IssueLines(n)
      /\ InstructionLines(p) =
           IF InSection("INSTRUCTIONS", p) /\ x.head \notin {"blank", "ISSUES", "INSTRUCTIONS"}
           THEN InstructionLines(n) \cup {p} ELSE InstructionLines(n)
  BY PlacesNext
<1>5. /\ ListsLinesAt(Append(f.issues, x), IssueLines(n) \cup {p})
      /\ ListsLinesAt(Append(f.instructions, x), InstructionLines(n) \cup {p})
  <2>1. f.issues \in Seq(Lines) /\ f.instructions \in Seq(Lines)
    BY <1>1
  <2>2. IssueLines(n) \in SUBSET (1..n) /\ InstructionLines(n) \in SUBSET (1..n)
    BY PlacesNext
  <2> HIDE DEF f
  <2>3. ListsLinesAt(Append(f.issues, lines[n + 1]), IssueLines(n) \cup {n + 1})
    BY <1>1, <2>1, <2>2, LineAppended
  <2>4. ListsLinesAt(Append(f.instructions, lines[n + 1]), InstructionLines(n) \cup {n + 1})
    BY <1>1, <2>1, <2>2, LineAppended
  <2> QED BY <2>3, <2>4
<1>6. Append(f.issues, x) \in Seq(Lines) /\ Append(f.instructions, x) \in Seq(Lines)
  <2> HIDE DEF f, x
  <2> QED BY <1>1, <1>2
<1> HIDE DEF f, g, x, p
<1>7. CASE x.head \in Heads
  <2>1. g = [f EXCEPT !.inIssues = (x.head = "ISSUES"),
                      !.inInstructions = (x.head = "INSTRUCTIONS")]
    <3>1. CASE x.head = "ISSUES"
      <4>1. g = [f EXCEPT !.inIssues = TRUE, !.inInstructions = FALSE]
        BY <1>2, <3>1 DEF Collect, Sections
      <4> QED BY <3>1, <4>1
    <3>2. CASE x.head = "INSTRUCTIONS"
      <4>1. g = [f EXCEPT !.inIssues = FALSE, !.inInstructions = TRUE]
        BY <1>2, <3>2 DEF Collect, Sections
      <4> QED BY <3>2, <4>1
    <3> QED BY <1>7, <3>1, <3>2
  <2>2. /\ g \in [inIssues : BOOLEAN, inInstructions : BOOLEAN,
                  issues : Seq(Lines), instructions : Seq(Lines)]
        /\ g.issues = f.issues /\ g.instructions = f.instructions
        /\ g.inIssues <=> x.head = "ISSUES"
        /\ g.inInstructions <=> x.head = "INSTRUCTIONS"
    BY <1>1, <2>1
  <2>3. IssueLines(p) = IssueLines(n) /\ InstructionLines(p) = InstructionLines(n)
    BY <1>4, <1>7
  <2>4. /\ g.inIssues <=> InSection("ISSUES", p + 1)
        /\ g.inInstructions <=> InSection("INSTRUCTIONS", p + 1)
    BY <1>3, <1>7, <2>2
  <2> QED BY <1>1, <2>2, <2>3, <2>4 DEF SectionsRead, g, p
<1>8. CASE x.head \notin Heads
  <2> DEFINE li == IF f.inIssues /\ x.head = "dash" THEN Append(f.issues, x) ELSE f.issues
             ln == IF f.inInstructions /\ x.head # "blank" THEN Append(f.instructions, x)
                                                           ELSE f.instructions
  <2>1. g = [f EXCEPT !.issues = li, !.instructions = ln]
    BY <1>2, <1>8 DEF Collect
  <2>2. li \in Seq(Lines) /\ ln \in Seq(Lines)
    BY <1>1, <1>6
  <2>3. ListsLinesAt(li, IssueLines(p)) /\ ListsLinesAt(ln, InstructionLines(p))
    BY <1>1, <1>4, <1>5, <1>8
  <2> HIDE DEF li, ln
  <2>4. /\ g \in [inIssues : BOOLEAN, inInstructions : BOOLEAN,
                  issues : Seq(Lines), instructions : Seq(Lines)]
        /\ g.issues = li /\ g.instructions = ln
        /\ g.inIssues = f.inIssues /\ g.inInstructions = f.inInstructions
    BY <1>1, <2>1, <2>2
  <2>5. /\ g.inIssues <=> InSection("ISSUES", p + 1)
        /\ g.inInstructions <=> InSection("INSTRUCTIONS", p + 1)
    BY <1>1, <1>3, <1>8, <2>4
  <2> QED BY <2>3, <2>4, <2>5 DEF SectionsRead, g, p
<1> QED BY <1>7, <1>8

LEMMA AllLinesRead ==
  ASSUME lines \in Seq(Lines)
  PROVE  HeadingsRead(Len(lines)) /\ SectionsRead(Len(lines))
<1> DEFINE S == {n \in Nat : n <= Len(lines) => HeadingsRead(n) /\ SectionsRead(n)}
           H == Headings(lines)
           F == Collected(lines)
<1>1. Len(lines) \in Nat /\ \A i \in 1..Len(lines) : lines[i] \in Lines
  OBVIOUS
<1>2. /\ \A i \in 0..Len(lines) : H[i] = IF i = 0 THEN NoVerdict ELSE Heading(H[i - 1], lines[i])
      /\ \A i \in 0..Len(lines) : F[i] = IF i = 0 THEN Unread ELSE Collect(F[i - 1], lines[i])
  <2>1. FirstLoop(H, lines, Len(lines)) /\ SecondLoop(F, lines, Len(lines))
    BY <1>1, HeadingsUnfolds, CollectedUnfolds
  <2> HIDE DEF H, F
  <2> QED BY <2>1 DEF FirstLoop, SecondLoop
<1>3. 0 \in S
  <2>1. 0 \in 0..Len(lines)
    BY <1>1, SMT
  <2>2. H[0] = NoVerdict /\ F[0] = Unread
    <3> HIDE DEF H, F
    <3> QED BY <1>2, <2>1
  <2>3. \A i : i \notin 1..0
    BY SMT
  <2>4. HeadingsRead(0)
    <3>1. ~Rewrites(0) /\ 85 \in 0..100
      BY <2>3, SMT DEF Rewrites
    <3>2. /\ NoVerdict.verdict = "APPROVED" /\ NoVerdict.confidence = 85
          /\ NoVerdict = [verdict |-> NoVerdict.verdict, confidence |-> NoVerdict.confidence,
                          reasoning |-> NoVerdict.reasoning, issues |-> <<>>, instructions |-> <<>>]
      BY DEF NoVerdict
    <3> QED BY <2>2, <2>3, <3>1, <3>2 DEF HeadingsRead
  <2>5. SectionsRead(0)
    <3>1. \A head : ~InSection(head, 0 + 1)
      <4>1. \A j : j \notin 1..((0 + 1) - 1)
        BY SMT
      <4> QED BY <4>1 DEF InSection
    <3>2. IssueLines(0) = {} /\ InstructionLines(0) = {}
      BY <2>3 DEF IssueLines, InstructionLines
    <3>3. ListsLinesAt(<<>>, {})
      BY FS_EmptySet DEF ListsLinesAt
    <3>4. /\ Unread \in [inIssues : BOOLEAN, inInstructions : BOOLEAN,
                         issues : Seq(Lines), instructions : Seq(Lines)]
          /\ ~Unread.inIssues /\ ~Unread.inInstructions
          /\ Unread.issues = <<>> /\ Unread.instructions = <<>>
      BY DEF Unread
    <3> QED BY <2>2, <3>1, <3>2, <3>3, <3>4 DEF SectionsRead
  <2> QED BY <2>4, <2>5
<1>4. ASSUME NEW n \in Nat, n \in S  PROVE n + 1 \in S
  <2> SUFFICES ASSUME n + 1 <= Len(lines)  PROVE HeadingsRead(n + 1) /\ SectionsRead(n + 1)
    OBVIOUS
  <2>1. /\ n + 1 \in 1..Len(lines) /\ n + 1 \in 0..Len(lines) /\ n + 1 # 0
        /\ (n + 1) - 1 = n /\ n <= Len(lines)
    BY <1>1, SMT
  <2>2. HeadingsRead(n) /\ SectionsRead(n) /\ lines[n + 1] \in Lines
    BY <1>1, <1>4, <2>1
  <2>3. H[n + 1] = Heading(H[n], lines[n + 1]) /\ F[n + 1] = Collect(F[n], lines[n + 1])
    <3> HIDE DEF H, F
    <3> QED BY <1>2, <2>1
  <2> QED BY <2>2, <2>3, HeadingStep, SectionStep
<1>5. \A n \in Nat : n \in S
  <2> HIDE DEF S
  <2> QED BY <1>3, <1>4, Onward
<1>6. Len(lines) <= Len(lines)
  BY <1>1, SMT
<1> QED BY <1>1, <1>5, <1>6

LinesInv == lines \in Seq(Lines) /\ reply \in Replies

LEMMA VerdictRead ==
  ASSUME LinesInv
  PROVE  VerdictAsWritten
<1> DEFINE n == Len(lines)
           v == Headings(lines)[n]
           sections == Collected(lines)[n]
           w == ParseVerdict(lines)
<1>1. HeadingsRead(n) /\ SectionsRead(n)
  BY AllLinesRead DEF LinesInv
<1>2. /\ v = [verdict |-> v.verdict, confidence |-> v.confidence, reasoning |-> v.reasoning,
              issues |-> <<>>, instructions |-> <<>>]
      /\ v.verdict = IF Rewrites(n) THEN "REWRITE" ELSE "APPROVED"
      /\ v.confidence \in 0..100
      /\ \A i \in 1..n : LastOf("CONFIDENCE", i, n) /\ Legible(lines[i].number)
                         => v.confidence = AsConfidence(lines[i].number)
  BY <1>1 DEF HeadingsRead
<1>3. /\ ListsLinesAt(sections.issues, IssueLines(n))
      /\ ListsLinesAt(sections.instructions, InstructionLines(n))
  BY <1>1 DEF SectionsRead
<1>4. w = IF v.verdict = "REWRITE"
          THEN [v EXCEPT !.issues = sections.issues, !.instructions = sections.instructions] ELSE v
  BY DEF ParseVerdict
<1> HIDE DEF v, sections, w
<1>5. w.verdict = v.verdict /\ w.confidence = v.confidence
  BY <1>2, <1>4
<1>6. CASE Rewrites(n)
  <2>1. w = [v EXCEPT !.issues = sections.issues, !.instructions = sections.instructions]
    BY <1>2, <1>4, <1>6
  <2>2. w.issues = sections.issues /\ w.instructions = sections.instructions
    BY <1>2, <2>1
  <2> QED BY <1>2, <1>3, <1>5, <1>6, <2>2 DEF VerdictAsWritten, Rewrites, w, n
<1>7. CASE ~Rewrites(n)
  <2>1. w = v
    BY <1>2, <1>4, <1>7
  <2>2. w.issues = <<>> /\ w.instructions = <<>>
    BY <1>2, <2>1
  <2> QED BY <1>2, <1>5, <1>7, <2>2 DEF VerdictAsWritten, Rewrites, w, n
<1> QED BY <1>6, <1>7

LEMMA DiagnosisRead ==
  ASSUME reply \in Replies
  PROVE  GarbageChangesNothing
<1> DEFINE d == ParseDiagnosis(reply)
           c == reply.confidence
<1>1. c \in Int \cup {Garbage, NaN, Huge, Absent}
  BY CritiqueAssumption
<1>2. CASE ~reply.object
  <2>1. d.confidence = 60 /\ d.blame = "code"
    BY <1>2 DEF ParseDiagnosis
  <2>2. 60 \in 0..100 /\ 60 \notin 0..29
    BY SMT
  <2> HIDE DEF d
  <2> QED BY <2>1, <2>2 DEF GarbageChangesNothing, d
<1>3. CASE reply.object /\ c = Huge
  <2>1. d = Raised
    BY <1>3 DEF ParseDiagnosis
  <2>2. d.confidence = -1 /\ d.blame = "nobody"
    BY <2>1 DEF Raised
  <2>3. -1 \notin 0..29
    BY SMT
  <2> HIDE DEF d
  <2> QED BY <2>1, <2>2, <2>3 DEF GarbageChangesNothing, d
<1>4. CASE reply.object /\ c # Huge
  <2>1. /\ d.confidence = IF c \in {Absent, Garbage} THEN 60 ELSE IF c = NaN THEN 100 ELSE Clamp(c)
        /\ d.blame = IF reply.blame = "tests" THEN "tests" ELSE "code"
    BY <1>4 DEF ParseDiagnosis
  <2>2. 60 \in 0..100 /\ 60 \notin 0..29 /\ 100 \in 0..100 /\ 100 \notin 0..29
    BY SMT
  <2>3. \A m \in Int : Clamp(m) \in 0..100 /\ (Clamp(m) \in 0..29 => m < 30)
    BY SMT DEF Clamp
  <2>4. d.confidence \in 0..100 /\ (d.confidence \in 0..29 => c \in Int /\ c < 30)
    <3>1. CASE c \in {Absent, Garbage, NaN}
      <4>1. d.confidence \in {60, 100}
        BY <2>1, <3>1
      <4> HIDE DEF d
      <4> QED BY <2>2, <4>1
    <3>2. CASE c \notin {Absent, Garbage, NaN}
      <4>1. c \in Int /\ d.confidence = Clamp(c)
        BY <1>1, <1>4, <2>1, <3>2
      <4> HIDE DEF d, c
      <4> QED BY <2>3, <4>1
    <3> QED BY <3>1, <3>2
  <2>5. d.blame = "tests" => reply.blame = "tests"
    BY <2>1
  <2> HIDE DEF d
  <2> QED BY <1>4, <2>4, <2>5 DEF GarbageChangesNothing, d
<1> QED BY <1>2, <1>3, <1>4

(* However long a reviewer's answer is and in whatever order its headings  *)
(* come, its verdict, confidence, issues and instructions are read as they *)
(* were written, and garbage in a diagnosis stops no run and blames no     *)
(* test (_parse_verdict, _parse_diagnosis).                                *)
THEOREM AnswersReadAsWritten == CritiqueSpec => []AnswersAsWritten
<1>1. CritiqueInit => LinesInv
  BY DEF CritiqueInit, LinesInv
<1>2. LinesInv /\ [AnotherLine]_critiqueVars => LinesInv'
  BY DEF LinesInv, AnotherLine, critiqueVars
<1>3. LinesInv => AnswersAsWritten
  BY VerdictRead, DiagnosisRead DEF LinesInv, AnswersAsWritten
<1> QED BY <1>1, <1>2, <1>3, PTL DEF CritiqueSpec

-----------------------------------------------------------------------------
(* Division and rounding.                                                  *)

(* What the quotient of an integer division is.                            *)
LEMMA Quotient ==
  ASSUME NEW a \in Nat, NEW b \in Nat \ {0}
  PROVE  a \div b \in Nat /\ b * (a \div b) <= a /\ a < b * (a \div b) + b
BY SMT

(* The quotient is the only such number.                                   *)
LEMMA QuotientBounds ==
  ASSUME NEW a \in Nat, NEW b \in Nat \ {0}, NEW q \in Nat
  PROVE  /\ b * q <= a => q <= a \div b
         /\ a < b * q + b => a \div b <= q
<1> DEFINE d == a \div b
<1>1. d \in Nat /\ b * d <= a /\ a < b * d + b
  BY Quotient
<1> HIDE DEF d
<1>2. ASSUME NEW x \in Nat, NEW y \in Nat, x < y  PROVE b * x + b <= b * y
  <2>1. PICK k \in Nat : y = x + 1 + k
    <3>1. y - x - 1 \in Nat /\ y = x + 1 + (y - x - 1)
      BY <1>2, SMT
    <3> QED BY <3>1
  <2>2. b * y = b * x + b + b * k /\ b * k \in Nat
    BY <2>1, SMT
  <2> QED BY <2>2, SMT
<1>3. b * q \in Nat /\ b * d \in Nat
  BY <1>1, SMT
<1>4. ASSUME b * q <= a  PROVE q <= d
  <2>1. CASE d < q
    <3>1. b * d + b <= b * q
      BY <1>1, <1>2, <2>1
    <3> QED BY <1>1, <1>3, <1>4, <3>1, SMT
  <2> QED BY <1>1, <2>1, SMT
<1>5. ASSUME a < b * q + b  PROVE d <= q
  <2>1. CASE q < d
    <3>1. b * q + b <= b * d
      BY <1>1, <1>2, <2>1
    <3> QED BY <1>1, <1>3, <1>5, <3>1, SMT
  <2> QED BY <1>1, <2>1, SMT
<1> QED BY <1>4, <1>5 DEF d

(* A fraction between two whole numbers is rounded to one between them.    *)
LEMMA RoundedBetween ==
  ASSUME NEW a \in Nat, NEW b \in Nat \ {0}, NEW q \in Nat
  PROVE  /\ Rounded(a, b) \in Nat
         /\ q * b <= a => q <= Rounded(a, b)
         /\ a <= q * b => Rounded(a, b) <= q
<1> DEFINE n == 2 * a + b
           m == 2 * b
<1>1. n \in Nat /\ m \in Nat \ {0}
  BY SMT
<1>2. m * q = 2 * (q * b) /\ q * b \in Nat
  BY SMT
<1>3. q * b <= a => m * q <= n
  BY <1>2, SMT
<1>4. a <= q * b => n < m * q + m
  BY <1>2, SMT
<1> HIDE DEF n, m
<1>5. n \div m \in Nat /\ (m * q <= n => q <= n \div m) /\ (n < m * q + m => n \div m <= q)
  BY <1>1, Quotient, QuotientBounds
<1>6. Rounded(a, b) = n \div m
  BY DEF Rounded, n, m
<1> QED BY <1>3, <1>4, <1>5, <1>6

(* The larger of two numerators is rounded to the larger number.           *)
LEMMA RoundedMonotone ==
  ASSUME NEW a \in Nat, NEW b \in Nat \ {0}, NEW c \in Nat, a <= c
  PROVE  Rounded(a, b) <= Rounded(c, b)
<1> DEFINE n == 2 * a + b
           k == 2 * c + b
           m == 2 * b
           d == n \div m
<1>1. n \in Nat /\ k \in Nat /\ m \in Nat \ {0} /\ n <= k
  BY SMT
<1> HIDE DEF n, k, m
<1>2. d \in Nat /\ m * d <= n /\ m * d \in Nat
  BY <1>1, Quotient, SMT
<1>3. m * d <= k
  BY <1>1, <1>2, SMT
<1> HIDE DEF d
<1>4. d <= k \div m
  BY <1>1, <1>2, <1>3, QuotientBounds
<1> QED BY <1>4 DEF Rounded, d, n, k, m

-----------------------------------------------------------------------------
(* The scores.                                                             *)

Scored == [Components -> {NotAvailable} \cup 0..100]

(* Evidence: a report does not count more passed tests than tests, and an  *)
(* audit has counted findings exactly if it tagged some.                   *)
Sound(e) ==
  /\ e \in [report : [passed : Nat, total : Nat, coverage : {NotAvailable} \cup 0..100],
            complexity : Nat,
            scan : [kind : {"missing", "failed", "ran"}, counts : [Severities -> Nat]],
            audit : [kind : {"absent", "secure", "prose", "tagged"},
                     counts : [Severities -> Nat]],
            review : [kind : {"absent", "optimized", "notes"}, numbered : Nat]]
  /\ e.report.passed <= e.report.total
  /\ e.audit.counts = NoFindings <=> e.audit.kind # "tagged"

EvidenceInv == Sound(evidence)

(* Lower(a, b): a and b measure the same, and a is not higher.             *)
Lower(a, b) == (a = NotAvailable <=> b = NotAvailable) /\ a <= b

LEMMA PenaltyIsNatural ==
  ASSUME NEW counts \in [Severities -> Nat]
  PROVE  Penalty(counts, LlmPenalty) \in Nat /\ Penalty(counts, BanditPenalty) \in Nat
<1>1. /\ counts["CRITICAL"] \in Nat /\ counts["HIGH"] \in Nat
      /\ counts["MEDIUM"] \in Nat /\ counts["LOW"] \in Nat
  BY DEF Severities
<1> QED BY <1>1, SMT DEF Penalty, LlmPenalty, BanditPenalty

(* One more finding does not lower a penalty.                              *)
LEMMA PenaltyGrows ==
  ASSUME NEW counts \in [Severities -> Nat], NEW s \in Severities,
         NEW more, more = [counts EXCEPT ![s] = @ + 1]
  PROVE  /\ more \in [Severities -> Nat] /\ more # NoFindings
         /\ Penalty(counts, LlmPenalty) <= Penalty(more, LlmPenalty)
         /\ Penalty(counts, BanditPenalty) <= Penalty(more, BanditPenalty)
<1>1. more \in [Severities -> Nat] /\ more[s] = counts[s] + 1 /\ counts[s] \in Nat
  OBVIOUS
<1>2. \A t \in Severities : counts[t] \in Nat /\ more[t] \in Nat /\ counts[t] <= more[t]
  <2> TAKE t \in Severities
  <2>1. counts[t] \in Nat /\ more[t] = IF t = s THEN counts[t] + 1 ELSE counts[t]
    OBVIOUS
  <2> QED BY <2>1, SMT
<1>3. more # NoFindings
  <2>1. NoFindings[s] = 0
    BY DEF NoFindings
  <2> QED BY <1>1, <2>1, SMT
<1> DEFINE c1 == counts["CRITICAL"]
           c2 == counts["HIGH"]
           c3 == counts["MEDIUM"]
           c4 == counts["LOW"]
           m1 == more["CRITICAL"]
           m2 == more["HIGH"]
           m3 == more["MEDIUM"]
           m4 == more["LOW"]
<1>4. /\ {c1, c2, c3, c4, m1, m2, m3, m4} \subseteq Nat
      /\ c1 <= m1 /\ c2 <= m2 /\ c3 <= m3 /\ c4 <= m4
  BY <1>2 DEF Severities
<1>5. /\ Penalty(counts, LlmPenalty) = c1 * 50 + c2 * 30 + c3 * 15 + c4 * 5
      /\ Penalty(more, LlmPenalty) = m1 * 50 + m2 * 30 + m3 * 15 + m4 * 5
      /\ Penalty(counts, BanditPenalty) = c1 * 0 + c2 * 40 + c3 * 20 + c4 * 5
      /\ Penalty(more, BanditPenalty) = m1 * 0 + m2 * 40 + m3 * 20 + m4 * 5
  BY DEF Penalty, LlmPenalty, BanditPenalty
<1> HIDE DEF c1, c2, c3, c4, m1, m2, m3, m4
<1>6. /\ c1 * 50 + c2 * 30 + c3 * 15 + c4 * 5 <= m1 * 50 + m2 * 30 + m3 * 15 + m4 * 5
      /\ c1 * 0 + c2 * 40 + c3 * 20 + c4 * 5 <= m1 * 0 + m2 * 40 + m3 * 20 + m4 * 5
  BY <1>4, SMT
<1> QED BY <1>1, <1>3, <1>5, <1>6

(* All scores are hundredths, and the complexity is always measured.       *)
LEMMA ScoresRange ==
  ASSUME NEW e, Sound(e)
  PROVE  Scores(e) \in Scored /\ Scores(e)["complexity"] # NotAvailable
<1> DEFINE S == Scores(e)
<1> USE DEF Sound, NotAvailable
<1>1. S["tests"] \in {NotAvailable} \cup 0..100
  <2> DEFINE p == e.report.passed
             t == e.report.total
  <2>1. p \in Nat /\ t \in Nat /\ p <= t
    OBVIOUS
  <2> HIDE DEF p, t
  <2>2. CASE t = 0
    BY <2>2 DEF Scores, t
  <2>3. CASE t # 0
    <3>1. 100 * p \in Nat /\ t \in Nat \ {0} /\ 100 * p <= 100 * t
      BY <2>1, <2>3, SMT
    <3>2. Rounded(100 * p, t) \in 0..100
      <4> DEFINE a == 100 * p
                 q == 100
      <4>1. a \in Nat /\ q \in Nat /\ a <= q * t
        BY <3>1
      <4>2. q = 100
        OBVIOUS
      <4> HIDE DEF a, q
      <4>3. Rounded(a, t) \in Nat /\ Rounded(a, t) <= q
        BY <3>1, <4>1, RoundedBetween
      <4> QED BY <4>2, <4>3, SMT DEF a
    <3> QED BY <2>3, <3>2 DEF Scores, p, t
  <2> QED BY <2>2, <2>3
<1>2. S["coverage"] \in {NotAvailable} \cup 0..100
  BY DEF Scores
<1>3. BanditScore(BanditScan(e.scan)) \in {NotAvailable} \cup 0..100
  <2> DEFINE c == IF e.scan.kind = "ran" THEN e.scan.counts ELSE NoFindings
  <2>1. c \in [Severities -> Nat]
    BY DEF NoFindings
  <2>2. Penalty(c, BanditPenalty) \in Nat
    BY <2>1, PenaltyIsNatural
  <2>3. BanditScan(e.scan).counts = c
    BY DEF BanditScan
  <2> HIDE DEF c
  <2> QED BY <2>2, <2>3, SMT DEF BanditScore, Larger
<1>4. LlmSecurityScore(e.audit) \in {NotAvailable} \cup 0..100
  <2>1. Penalty(e.audit.counts, LlmPenalty) \in Nat
    BY PenaltyIsNatural
  <2> QED BY <2>1, SMT DEF LlmSecurityScore, Larger
<1>5. S["security"] \in {NotAvailable} \cup 0..100
  <2>1. S["security"] = MinKnown(BanditScore(BanditScan(e.scan)), LlmSecurityScore(e.audit))
    BY DEF Scores
  <2> QED BY <1>3, <1>4, <2>1, SMT DEF MinKnown, Smaller
<1>6. S["complexity"] \in 0..100
  <2>1. S["complexity"] = ComplexityScore(e.complexity) /\ e.complexity \in Nat
    BY DEF Scores
  <2> QED BY <2>1, SMT DEF ComplexityScore, Larger
<1>7. S["performance"] \in {NotAvailable} \cup 0..100
  <2>1. S["performance"] = PerformanceScore(e.review) /\ e.review.numbered \in Nat
    BY DEF Scores
  <2> QED BY <2>1, SMT DEF PerformanceScore, Larger
<1>8. S = [c \in Components |-> S[c]]
  BY DEF Scores, Components
<1> HIDE DEF S
<1>9. \A c \in Components : S[c] \in {NotAvailable} \cup 0..100
  BY <1>1, <1>2, <1>5, <1>6, <1>7 DEF Components
<1>10. S \in Scored
  BY <1>8, <1>9 DEF Scored
<1> QED BY <1>6, <1>10, SMT DEF S

-----------------------------------------------------------------------------
(* The weighted average.                                                   *)

Share(s, c) == IF s[c] = NotAvailable THEN 0 ELSE WEIGHTS[c]
Part(s, c)  == IF s[c] = NotAvailable THEN 0 ELSE WEIGHTS[c] * s[c]

LEMMA Summands ==
  ASSUME NEW s \in Scored
  PROVE  /\ Weight(s) = Sum([c \in Components |-> Share(s, c)])
         /\ Total(s) = Sum([c \in Components |-> Part(s, c)])
         /\ \A c \in Components : Share(s, c) \in Nat /\ Part(s, c) \in Nat
         /\ \A c \in Components : WEIGHTS[c] \in Nat \ {0}
<1>1. /\ Weight(s) = Sum([c \in Components |-> Share(s, c)])
      /\ Total(s) = Sum([c \in Components |-> Part(s, c)])
  <2>1. /\ [c \in Components |-> IF c \in Measured(s) THEN WEIGHTS[c] ELSE 0]
             = [c \in Components |-> Share(s, c)]
        /\ [c \in Components |-> IF c \in Measured(s) THEN WEIGHTS[c] * s[c] ELSE 0]
             = [c \in Components |-> Part(s, c)]
    BY DEF Measured, Share, Part
  <2> QED BY <2>1 DEF Weight, Total
<1>2. \A c \in Components : WEIGHTS[c] \in Nat \ {0}
  BY DEF WEIGHTS, Components
<1>3. \A c \in Components : Share(s, c) \in Nat /\ Part(s, c) \in Nat
  <2> TAKE c \in Components
  <2>1. s[c] \in {NotAvailable} \cup 0..100 /\ WEIGHTS[c] \in Nat
    BY <1>2 DEF Scored
  <2>2. ASSUME s[c] # NotAvailable  PROVE WEIGHTS[c] * s[c] \in Nat
    <3>1. s[c] \in Nat
      BY <2>1, <2>2
    <3> QED BY <2>1, <3>1, SMT
  <2> QED BY <2>1, <2>2 DEF Share, Part
<1> QED BY <1>1, <1>2, <1>3

(* Sums are compared by their summands.                                    *)
LEMMA SumMonotone ==
  ASSUME NEW f \in [Components -> Nat], NEW g \in [Components -> Nat],
         \A c \in Components : f[c] <= g[c]
  PROVE  /\ Sum(f) \in Nat /\ Sum(g) \in Nat /\ Sum(f) <= Sum(g)
         /\ \A c \in Components : f[c] < g[c] => Sum(f) < Sum(g)
<1>1. \A c \in Components : f[c] \in Nat /\ g[c] \in Nat
  OBVIOUS
<1>2. {"tests", "coverage", "security", "complexity", "performance"} = Components
  BY DEF Components
<1> DEFINE f1 == f["tests"]
           f2 == f["coverage"]
           f3 == f["security"]
           f4 == f["complexity"]
           f5 == f["performance"]
           g1 == g["tests"]
           g2 == g["coverage"]
           g3 == g["security"]
           g4 == g["complexity"]
           g5 == g["performance"]
<1>3. /\ {f1, f2, f3, f4, f5, g1, g2, g3, g4, g5} \subseteq Nat
      /\ f1 <= g1 /\ f2 <= g2 /\ f3 <= g3 /\ f4 <= g4 /\ f5 <= g5
  BY <1>1, <1>2
<1>4. Sum(f) = f1 + f2 + f3 + f4 + f5 /\ Sum(g) = g1 + g2 + g3 + g4 + g5
  BY DEF Sum
<1>5. ASSUME NEW c \in Components, f[c] < g[c]
      PROVE  f1 < g1 \/ f2 < g2 \/ f3 < g3 \/ f4 < g4 \/ f5 < g5
  BY <1>5 DEF Components
<1> HIDE DEF f1, f2, f3, f4, f5, g1, g2, g3, g4, g5
<1>6. /\ f1 + f2 + f3 + f4 + f5 \in Nat /\ g1 + g2 + g3 + g4 + g5 \in Nat
      /\ f1 + f2 + f3 + f4 + f5 <= g1 + g2 + g3 + g4 + g5
      /\ f1 < g1 \/ f2 < g2 \/ f3 < g3 \/ f4 < g4 \/ f5 < g5
           => f1 + f2 + f3 + f4 + f5 < g1 + g2 + g3 + g4 + g5
  BY <1>3, SMT
<1> QED BY <1>4, <1>5, <1>6

LEMMA SumTimes ==
  ASSUME NEW f \in [Components -> Nat], NEW q \in Nat
  PROVE  /\ [c \in Components |-> q * f[c]] \in [Components -> Nat]
         /\ Sum([c \in Components |-> q * f[c]]) = q * Sum(f)
<1>1. {"tests", "coverage", "security", "complexity", "performance"} = Components
  BY DEF Components
<1>2. \A c \in Components : q * f[c] \in Nat
  <2> TAKE c \in Components
  <2>1. f[c] \in Nat
    OBVIOUS
  <2> QED BY <2>1, SMT
<1>3. ASSUME NEW a \in Nat, NEW b \in Nat, NEW c \in Nat, NEW d \in Nat, NEW e \in Nat
      PROVE  q * a + q * b + q * c + q * d + q * e = q * (a + b + c + d + e)
  BY SMT
<1>4. q * f["tests"] + q * f["coverage"] + q * f["security"] + q * f["complexity"]
        + q * f["performance"]
        = q * (f["tests"] + f["coverage"] + f["security"] + f["complexity"] + f["performance"])
  BY <1>1, <1>3
<1>5. Sum([c \in Components |-> q * f[c]])
        = q * f["tests"] + q * f["coverage"] + q * f["security"] + q * f["complexity"]
            + q * f["performance"]
  BY <1>1 DEF Sum
<1> QED BY <1>2, <1>4, <1>5 DEF Sum

(* What was measured has a weight, and its total lies between the total of *)
(* equal scores that are all lower and that of equal ones that are higher. *)
LEMMA TotalBetween ==
  ASSUME NEW s \in Scored, s["complexity"] # NotAvailable, NEW q \in Nat
  PROVE  /\ Weight(s) \in Nat \ {0} /\ Total(s) \in Nat
         /\ (\A c \in Components : s[c] # NotAvailable => q <= s[c]) => q * Weight(s) <= Total(s)
         /\ (\A c \in Components : s[c] # NotAvailable => s[c] <= q) =>
              /\ Total(s) <= q * Weight(s)
              /\ (\E c \in Components : s[c] # NotAvailable /\ s[c] < q) =>
                   Total(s) < q * Weight(s)
<1> DEFINE f == [c \in Components |-> Share(s, c)]
           g == [c \in Components |-> Part(s, c)]
           h == [c \in Components |-> q * f[c]]
           z == [c \in Components |-> 0]
<1>1. f \in [Components -> Nat] /\ g \in [Components -> Nat] /\ Weight(s) = Sum(f) /\ Total(s) = Sum(g)
  BY Summands
<1>2. \A c \in Components : s[c] \in {NotAvailable} \cup 0..100 /\ WEIGHTS[c] \in Nat \ {0}
  BY Summands DEF Scored
<1>3. \A c \in Components : f[c] = Share(s, c) /\ g[c] = Part(s, c) /\ h[c] = q * f[c]
  OBVIOUS
<1>4. Weight(s) \in Nat \ {0}
  <2>1. "complexity" \in Components
    BY DEF Components
  <2>2. f["complexity"] \in Nat \ {0}
    BY <1>2, <1>3, <2>1 DEF Share
  <2>3. z \in [Components -> Nat] /\ z["complexity"] < f["complexity"]
    BY <2>1, <2>2, SMT
  <2>4. \A c \in Components : z[c] <= f[c]
    <3> TAKE c \in Components
    <3>1. z[c] = 0 /\ f[c] \in Nat
      BY <1>1
    <3> QED BY <3>1, SMT
  <2> HIDE DEF f, z
  <2>5. Sum(z) \in Nat /\ Sum(f) \in Nat /\ Sum(z) < Sum(f)
    BY <1>1, <2>1, <2>3, <2>4, SumMonotone
  <2> QED BY <1>1, <2>5, SMT
<1>5. h \in [Components -> Nat] /\ Sum(h) = q * Weight(s)
  <2> HIDE DEF f
  <2> QED BY <1>1, SumTimes
<1>6. Total(s) \in Nat
  <2>1. \A c \in Components : g[c] <= g[c]
    <3> TAKE c \in Components
    <3>1. g[c] \in Nat
      BY <1>1
    <3> QED BY <3>1, SMT
  <2> HIDE DEF g
  <2> QED BY <1>1, <2>1, SumMonotone
<1>7. ASSUME NEW c \in Components, NEW x \in Nat, NEW y \in Nat, x <= y
      PROVE  WEIGHTS[c] * x <= y * WEIGHTS[c] /\ x * WEIGHTS[c] <= WEIGHTS[c] * y
             /\ (x < y => WEIGHTS[c] * x < y * WEIGHTS[c])
  <2>1. WEIGHTS[c] \in {15, 25, 30}
    BY DEF WEIGHTS, Components
  <2> QED BY <1>7, <2>1, SMT
<1>8. q * 0 = 0
  BY SMT
<1> HIDE DEF f, g, h, z
<1>9. ASSUME \A c \in Components : s[c] # NotAvailable => q <= s[c]
      PROVE  q * Weight(s) <= Total(s)
  <2>1. \A c \in Components : h[c] <= g[c]
    <3> TAKE c \in Components
    <3>1. CASE s[c] = NotAvailable
      <4>1. h[c] = 0 /\ g[c] = 0
        BY <1>3, <1>8, <3>1 DEF Share, Part
      <4> QED BY <4>1, SMT
    <3>2. CASE s[c] # NotAvailable
      <4>1. s[c] \in Nat /\ q <= s[c]
        BY <1>2, <1>9, <3>2
      <4>2. q * WEIGHTS[c] <= WEIGHTS[c] * s[c]
        BY <1>7, <4>1
      <4> QED BY <1>3, <3>2, <4>2 DEF Share, Part
    <3> QED BY <3>1, <3>2
  <2> QED BY <1>1, <1>5, <2>1, SumMonotone
<1>10. ASSUME \A c \in Components : s[c] # NotAvailable => s[c] <= q
       PROVE  /\ Total(s) <= q * Weight(s)
              /\ (\E c \in Components : s[c] # NotAvailable /\ s[c] < q) =>
                   Total(s) < q * Weight(s)
  <2>1. ASSUME NEW c \in Components, s[c] # NotAvailable
        PROVE  g[c] <= h[c] /\ (s[c] < q => g[c] < h[c])
    <3>1. s[c] \in Nat /\ s[c] <= q
      BY <1>2, <1>10, <2>1
    <3>2. WEIGHTS[c] * s[c] <= q * WEIGHTS[c] /\ (s[c] < q => WEIGHTS[c] * s[c] < q * WEIGHTS[c])
      BY <1>7, <3>1
    <3> QED BY <1>3, <2>1, <3>2 DEF Share, Part
  <2>2. \A c \in Components : g[c] <= h[c]
    <3> TAKE c \in Components
    <3>1. CASE s[c] = NotAvailable
      <4>1. h[c] = 0 /\ g[c] = 0
        BY <1>3, <1>8, <3>1 DEF Share, Part
      <4> QED BY <4>1, SMT
    <3> QED BY <2>1, <3>1
  <2>3. Sum(g) <= Sum(h) /\ \A c \in Components : g[c] < h[c] => Sum(g) < Sum(h)
    BY <1>1, <1>5, <2>2, SumMonotone
  <2> QED BY <1>1, <1>5, <2>1, <2>3
<1> QED BY <1>4, <1>6, <1>9, <1>10

LEMMA SumWithOneMore ==
  ASSUME NEW f \in [Components -> Nat], NEW c \in Components, f[c] = 0, NEW v \in Nat,
         NEW g \in [Components -> Nat], g[c] = v, \A d \in Components \ {c} : g[d] = f[d]
  PROVE  Sum(g) = Sum(f) + v
<1> DEFINE f1 == f["tests"]
           f2 == f["coverage"]
           f3 == f["security"]
           f4 == f["complexity"]
           f5 == f["performance"]
           g1 == g["tests"]
           g2 == g["coverage"]
           g3 == g["security"]
           g4 == g["complexity"]
           g5 == g["performance"]
<1>1. {"tests", "coverage", "security", "complexity", "performance"} = Components
  BY DEF Components
<1>2. \A d \in Components : f[d] \in Nat /\ g[d] = IF d = c THEN v ELSE f[d]
  OBVIOUS
<1>3. {f1, f2, f3, f4, f5} \subseteq Nat
  BY <1>1, <1>2
<1>4. \/ f1 = 0 /\ g1 = v /\ g2 = f2 /\ g3 = f3 /\ g4 = f4 /\ g5 = f5
      \/ f2 = 0 /\ g2 = v /\ g1 = f1 /\ g3 = f3 /\ g4 = f4 /\ g5 = f5
      \/ f3 = 0 /\ g3 = v /\ g1 = f1 /\ g2 = f2 /\ g4 = f4 /\ g5 = f5
      \/ f4 = 0 /\ g4 = v /\ g1 = f1 /\ g2 = f2 /\ g3 = f3 /\ g5 = f5
      \/ f5 = 0 /\ g5 = v /\ g1 = f1 /\ g2 = f2 /\ g3 = f3 /\ g4 = f4
  BY <1>2 DEF Components
<1>5. Sum(f) = f1 + f2 + f3 + f4 + f5 /\ Sum(g) = g1 + g2 + g3 + g4 + g5
  BY DEF Sum
<1> HIDE DEF f1, f2, f3, f4, f5, g1, g2, g3, g4, g5
<1> QED BY <1>3, <1>4, <1>5, SMT

(* A component that was not measured adds its weight if it is.             *)
LEMMA MeasuredAsWell ==
  ASSUME NEW s \in Scored, NEW c \in Components, s[c] = NotAvailable,
         NEW p, p = [s EXCEPT ![c] = 100]
  PROVE  Weight(p) = Weight(s) + WEIGHTS[c] /\ Total(p) = Total(s) + 100 * WEIGHTS[c]
<1> DEFINE f == [d \in Components |-> Share(s, d)]
           g == [d \in Components |-> Part(s, d)]
           fp == [d \in Components |-> Share(p, d)]
           gp == [d \in Components |-> Part(p, d)]
<1>1. 100 # NotAvailable /\ 100 \in 0..100
  BY SMT DEF NotAvailable
<1>2. p \in Scored /\ p[c] = 100 /\ \A d \in Components \ {c} : p[d] = s[d]
  <2>1. s \in [Components -> {NotAvailable} \cup 0..100]
    BY DEF Scored
  <2> QED BY <1>1, <2>1 DEF Scored
<1>3. /\ f \in [Components -> Nat] /\ g \in [Components -> Nat]
      /\ fp \in [Components -> Nat] /\ gp \in [Components -> Nat]
      /\ Weight(s) = Sum(f) /\ Total(s) = Sum(g) /\ Weight(p) = Sum(fp) /\ Total(p) = Sum(gp)
      /\ WEIGHTS[c] \in Nat
  BY <1>2, Summands
<1>4. /\ f[c] = 0 /\ fp[c] = WEIGHTS[c] /\ \A d \in Components \ {c} : fp[d] = f[d]
      /\ g[c] = 0 /\ gp[c] = WEIGHTS[c] * 100 /\ \A d \in Components \ {c} : gp[d] = g[d]
  <2>1. \A d \in Components \ {c} : Share(p, d) = Share(s, d) /\ Part(p, d) = Part(s, d)
    BY <1>2 DEF Share, Part
  <2>2. Share(s, c) = 0 /\ Part(s, c) = 0 /\ Share(p, c) = WEIGHTS[c]
          /\ Part(p, c) = WEIGHTS[c] * 100
    BY <1>1, <1>2 DEF Share, Part
  <2> QED BY <2>1, <2>2
<1>5. WEIGHTS[c] * 100 \in Nat /\ WEIGHTS[c] * 100 = 100 * WEIGHTS[c]
  BY <1>3, SMT
<1> HIDE DEF f, g, fp, gp
<1>6. Sum(fp) = Sum(f) + WEIGHTS[c]
  BY <1>3, <1>4, SumWithOneMore
<1>7. Sum(gp) = Sum(g) + WEIGHTS[c] * 100
  BY <1>3, <1>4, <1>5, SumWithOneMore
<1> QED BY <1>3, <1>5, <1>6, <1>7

(* What there is no evidence for is exactly what has no score, but for the *)
(* security after a failed scan.                                           *)
LEMMA SkippedHasNoScore ==
  ASSUME EvidenceInv
  PROVE  \A c \in Components :
           c \in Skipped(evidence) \ FailedScan <=> Scores(evidence)[c] = NotAvailable
<1> DEFINE e == evidence
           S == Scores(e)
<1> USE DEF EvidenceInv, Sound
<1>1. \A c \in Components : c \in Skipped(e) <=>
        CASE c = "tests"       -> e.report.total = 0
          [] c = "coverage"    -> e.report.total = 0 \/ e.report.coverage = NotAvailable
          [] c = "security"    -> e.scan.kind \in {"missing", "failed"} /\ e.audit.kind = "absent"
          [] c = "performance" -> e.review.kind = "absent"
          [] OTHER             -> FALSE
  BY DEF Skipped
<1>2. /\ "tests" \in Skipped(e) <=> e.report.total = 0
      /\ "coverage" \in Skipped(e) <=> e.report.total = 0 \/ e.report.coverage = NotAvailable
      /\ "security" \in Skipped(e)
           <=> e.scan.kind \in {"missing", "failed"} /\ e.audit.kind = "absent"
      /\ "performance" \in Skipped(e) <=> e.review.kind = "absent"
      /\ "complexity" \notin Skipped(e)
  BY <1>1 DEF Components
<1>3. FailedScan = IF e.scan.kind = "failed" THEN {"security"} ELSE {}
  BY DEF FailedScan
<1>4. /\ S["tests"] = (IF e.report.total = 0 THEN NotAvailable
                       ELSE Rounded(100 * e.report.passed, e.report.total))
      /\ S["coverage"] = (IF e.report.total = 0 THEN NotAvailable ELSE e.report.coverage)
      /\ S["security"] = MinKnown(BanditScore(BanditScan(e.scan)), LlmSecurityScore(e.audit))
      /\ S["performance"] = PerformanceScore(e.review)
      /\ S["complexity"] # NotAvailable
  BY ScoresRange DEF Scores
<1>5. "tests" \in Skipped(e) <=> S["tests"] = NotAvailable
  <2>1. ASSUME e.report.total # 0  PROVE S["tests"] # NotAvailable
    <3> DEFINE a == 100 * e.report.passed
               t == e.report.total
    <3>1. a \in Nat /\ t \in Nat \ {0}
      BY <2>1, SMT
    <3> HIDE DEF a, t
    <3>2. Rounded(a, t) \in Nat
      <4>1. 0 \in Nat
        OBVIOUS
      <4> QED BY <3>1, <4>1, RoundedBetween
    <3>3. Rounded(a, t) # NotAvailable
      BY <3>2, SMT DEF NotAvailable
    <3> QED BY <1>4, <2>1, <3>3 DEF a, t
  <2> QED BY <1>2, <1>4, <2>1
<1>6. "coverage" \in Skipped(e) <=> S["coverage"] = NotAvailable
  BY <1>2, <1>4
<1>7. "performance" \in Skipped(e) <=> S["performance"] = NotAvailable
  <2>1. PerformanceScore(e.review) = NotAvailable <=> e.review.kind = "absent"
    BY SMT DEF PerformanceScore, Larger, NotAvailable
  <2> QED BY <1>2, <1>4, <2>1
<1>8. BanditScore(BanditScan(e.scan)) = NotAvailable <=> e.scan.kind = "missing"
  <2> DEFINE c == IF e.scan.kind = "ran" THEN e.scan.counts ELSE NoFindings
             y == Penalty(c, BanditPenalty)
  <2>1. c \in [Severities -> Nat]
    BY DEF NoFindings
  <2>2. y \in Nat
    BY <2>1, PenaltyIsNatural
  <2>3. BanditScore(BanditScan(e.scan))
          = IF e.scan.kind = "missing" THEN NotAvailable ELSE Larger(0, 100 - y)
    BY DEF BanditScan, BanditScore
  <2> HIDE DEF c, y
  <2>4. Larger(0, 100 - y) # NotAvailable
    BY <2>2, SMT DEF Larger, NotAvailable
  <2> QED BY <2>3, <2>4
<1>9. LlmSecurityScore(e.audit) = NotAvailable <=> e.audit.kind = "absent"
  <2> DEFINE y == Penalty(e.audit.counts, LlmPenalty)
  <2>1. y \in Nat
    BY PenaltyIsNatural
  <2>2. LlmSecurityScore(e.audit)
          = IF e.audit.kind = "absent" THEN NotAvailable
            ELSE IF e.audit.kind = "secure" THEN 100
            ELSE IF e.audit.counts = NoFindings THEN 60 ELSE Larger(0, 100 - y)
    BY DEF LlmSecurityScore
  <2> HIDE DEF y
  <2>3. Larger(0, 100 - y) # NotAvailable /\ 100 # NotAvailable /\ 60 # NotAvailable
    BY <2>1, SMT DEF Larger, NotAvailable
  <2> QED BY <2>2, <2>3
<1>10. S["security"] = NotAvailable <=> e.scan.kind = "missing" /\ e.audit.kind = "absent"
  <2> DEFINE b == BanditScore(BanditScan(e.scan))
             l == LlmSecurityScore(e.audit)
  <2>1. MinKnown(b, l) = NotAvailable <=> b = NotAvailable /\ l = NotAvailable
    <3> HIDE DEF b, l
    <3> QED BY DEF MinKnown, Smaller
  <2> QED BY <1>4, <1>8, <1>9, <2>1
<1>11. "security" \in Skipped(e) \ FailedScan <=> S["security"] = NotAvailable
  BY <1>2, <1>3, <1>10
<1>12. \A c \in Components \ {"security"} : c \in Skipped(e) \ FailedScan <=> c \in Skipped(e)
  BY <1>3
<1> HIDE DEF S
<1>13. \A c \in Components : c \in Skipped(e) \ FailedScan <=> S[c] = NotAvailable
  BY <1>2, <1>4, <1>5, <1>6, <1>7, <1>11, <1>12 DEF Components
<1> QED BY <1>13 DEF S

LEMMA SkippedIsWorthLess ==
  ASSUME EvidenceInv
  PROVE  SkippedIsNotPerfect
<1> DEFINE s == Scores(evidence)
           skipped == Skipped(evidence) \ FailedScan
           T == Total(s)
           W == Weight(s)
           O == Overall(s)
           known == {s[c] : c \in {d \in Components : s[d] # NotAvailable}}
<1>1. s \in Scored /\ s["complexity"] # NotAvailable /\ "complexity" \in Components
  BY ScoresRange DEF EvidenceInv, Components
<1> HIDE DEF skipped
<1>2. \A c \in Components : s[c] # NotAvailable => s[c] \in 0..100 /\ s[c] \in known
  BY <1>1 DEF Scored
<1>3. \A k \in known : \E c \in Components : s[c] = k /\ s[c] # NotAvailable
  OBVIOUS
<1> HIDE DEF s
<1>4. W \in Nat \ {0} /\ T \in Nat
  <2>1. 0 \in Nat
    OBVIOUS
  <2> QED BY <1>1, <2>1, TotalBetween
<1>5. O \in Nat /\ \A q \in Nat : (q * W <= T => q <= O) /\ (T <= q * W => O <= q)
  <2>1. O = Rounded(T, W)
    BY DEF Overall
  <2> HIDE DEF T, W
  <2>2. 0 \in Nat
    OBVIOUS
  <2> QED BY <1>4, <2>1, <2>2, RoundedBetween
<1>6. \A q \in Nat :
        /\ (\A c \in Components : s[c] # NotAvailable => q <= s[c]) => q * W <= T
        /\ (\A c \in Components : s[c] # NotAvailable => s[c] <= q) =>
             /\ T <= q * W
             /\ (\E c \in Components : s[c] # NotAvailable /\ s[c] < q) => T < q * W
  BY <1>1, TotalBetween
<1>7. \A k \in known : k \in 0..100
  BY <1>2, <1>3
<1> HIDE DEF T, W, O, known
<1>8. \E low \in known : low <= O
  <2> SUFFICES ASSUME \A low \in known : ~(low <= O)  PROVE FALSE
    OBVIOUS
  <2>1. \A c \in Components : s[c] # NotAvailable => O + 1 <= s[c]
    <3> TAKE c \in Components
    <3> HAVE s[c] # NotAvailable
    <3>1. s[c] \in 0..100 /\ ~(s[c] <= O)
      BY <1>2
    <3> QED BY <1>5, <3>1, SMT
  <2> DEFINE q == O + 1
  <2>2. q \in Nat /\ ~(q <= O)
    BY <1>5, SMT
  <2>3. \A c \in Components : s[c] # NotAvailable => q <= s[c]
    BY <2>1
  <2> HIDE DEF q
  <2>4. q * W <= T
    BY <1>6, <2>2, <2>3
  <2> QED BY <1>5, <2>2, <2>4
<1>9. \E high \in known : O <= high
  <2> SUFFICES ASSUME \A high \in known : ~(O <= high)  PROVE FALSE
    OBVIOUS
  <2> DEFINE q == O - 1
  <2>1. s["complexity"] \in 0..100 /\ ~(O <= s["complexity"])
    BY <1>1, <1>2
  <2>2. \A c \in Components : s[c] # NotAvailable => s[c] <= q
    <3> TAKE c \in Components
    <3> HAVE s[c] # NotAvailable
    <3>1. s[c] \in 0..100 /\ ~(O <= s[c])
      BY <1>2
    <3> QED BY <1>5, <3>1, SMT
  <2>3. q \in Nat /\ ~(O <= q)
    BY <1>5, <2>1, SMT
  <2> HIDE DEF q
  <2>4. T <= q * W
    BY <1>6, <2>2, <2>3
  <2> QED BY <1>5, <2>3, <2>4
<1>10. \E low, high \in known : O \in low..high
  <2>1. PICK low \in known : low <= O
    BY <1>8
  <2>2. PICK high \in known : O <= high
    BY <1>9
  <2>3. low \in 0..100 /\ high \in 0..100
    BY <1>7
  <2>4. O \in low..high
    BY <1>5, <2>1, <2>2, <2>3, SMT
  <2> QED BY <2>4
<1>11. ASSUME NEW c \in Components, s[c] = NotAvailable, known # {100}
       PROVE  T * Weight([s EXCEPT ![c] = 100]) < Total([s EXCEPT ![c] = 100]) * W
  <2> DEFINE w == WEIGHTS[c]
             h == 100
  <2>1. w \in Nat \ {0}
    BY <1>1, Summands
  <2>2. PICK d \in Components : s[d] # NotAvailable /\ s[d] # 100
    <3>1. s["complexity"] \in known
      BY <1>1, <1>2
    <3>2. PICK k \in known : k # 100
      BY <1>11, <3>1
    <3> QED BY <1>3, <3>2
  <2>3. s[d] < 100
    <3>1. s[d] \in 0..100 /\ s[d] # 100
      BY <1>2, <2>2
    <3> QED BY <3>1, SMT
  <2>4. h \in Nat /\ s[d] < h /\ \A e \in Components : s[e] # NotAvailable => s[e] <= h
    <3>1. \A x \in 0..100 : x <= 100
      BY SMT
    <3> QED BY <1>2, <2>3, <3>1
  <2>5. h = 100
    OBVIOUS
  <2> HIDE DEF h
  <2>6. T < h * W
    BY <1>6, <2>2, <2>4
  <2>7. /\ Weight([s EXCEPT ![c] = 100]) = W + w
        /\ Total([s EXCEPT ![c] = 100]) = T + 100 * w
    BY <1>1, <1>11, MeasuredAsWell DEF T, W
  <2> HIDE DEF w
  <2>8. T * w < (100 * W) * w
    <3> DEFINE n == 100 * W
    <3>1. n \in Nat /\ T < n
      BY <1>4, <2>5, <2>6, SMT
    <3> HIDE DEF n
    <3>2. PICK k \in Nat : n = T + 1 + k
      <4>1. n - T - 1 \in Nat /\ n = T + 1 + (n - T - 1)
        BY <1>4, <3>1, SMT
      <4> QED BY <4>1
    <3>3. n * w = T * w + w + k * w /\ k * w \in Nat /\ T * w \in Nat
      BY <1>4, <2>1, <3>2, SMT
    <3>4. T * w < n * w
      BY <2>1, <3>3, SMT
    <3> QED BY <3>4 DEF n
  <2>9. T * (W + w) = T * W + T * w /\ (T + 100 * w) * W = T * W + (100 * W) * w
    BY <1>4, <2>1, SMT
  <2>10. T * W \in Nat /\ T * w \in Nat /\ (100 * W) * w \in Nat
    BY <1>4, <2>1, SMT
  <2>11. T * (W + w) < (T + 100 * w) * W
    BY <2>8, <2>9, <2>10, SMT
  <2> QED BY <2>7, <2>11
<1>12. /\ \A c \in skipped : c \in Components /\ s[c] = NotAvailable
       /\ known = {s[c] : c \in Components \ skipped}
  <2>1. \A c \in Components : c \in skipped <=> s[c] = NotAvailable
    BY SkippedHasNoScore DEF s, skipped
  <2>2. skipped \subseteq Components
    BY DEF Skipped, skipped
  <2>3. Components \ skipped = {d \in Components : s[d] # NotAvailable}
    <3> HIDE DEF skipped
    <3> QED BY <2>1
  <2> HIDE DEF skipped
  <2> QED BY <2>1, <2>2, <2>3 DEF known
<1> HIDE DEF skipped
<1>13. ScoredOn(skipped)
  <2> DEFINE K == {s[c] : c \in Components \ skipped}
  <2>1. \E low, high \in K : O \in low..high
    BY <1>10, <1>12
  <2>2. \A c \in skipped : K # {100} =>
          T * Weight([s EXCEPT ![c] = 100]) < Total([s EXCEPT ![c] = 100]) * W
    BY <1>11, <1>12
  <2> HIDE DEF K
  <2> QED BY <2>1, <2>2 DEF ScoredOn, K, s, T, W, O
<1> QED BY <1>13 DEF SkippedIsNotPerfect, skipped

-----------------------------------------------------------------------------
(* One finding more.                                                       *)

LEMMA OverallMonotone ==
  ASSUME NEW a \in Scored, NEW b \in Scored, a["complexity"] # NotAvailable,
         \A c \in Components : Lower(b[c], a[c])
  PROVE  Overall(b) <= Overall(a)
<1> DEFINE f == [c \in Components |-> Part(b, c)]
           g == [c \in Components |-> Part(a, c)]
<1>1. \A c \in Components : b[c] = NotAvailable <=> a[c] = NotAvailable
  BY DEF Lower
<1>2. Weight(b) = Weight(a)
  <2>1. [c \in Components |-> Share(b, c)] = [c \in Components |-> Share(a, c)]
    BY <1>1 DEF Share
  <2> QED BY <2>1, Summands
<1>3. /\ f \in [Components -> Nat] /\ g \in [Components -> Nat]
      /\ Total(b) = Sum(f) /\ Total(a) = Sum(g)
  BY Summands
<1>4. \A c \in Components : f[c] <= g[c]
  <2> TAKE c \in Components
  <2>1. f[c] = Part(b, c) /\ g[c] = Part(a, c)
    OBVIOUS
  <2>2. CASE a[c] = NotAvailable
    <3>1. f[c] = 0 /\ g[c] = 0
      BY <1>1, <2>1, <2>2 DEF Part
    <3> QED BY <3>1, SMT
  <2>3. CASE a[c] # NotAvailable
    <3> DEFINE x == b[c]
               y == a[c]
    <3>1. x \in 0..100 /\ y \in 0..100 /\ x <= y
      BY <1>1, <2>3 DEF Lower, Scored
    <3>2. f[c] = WEIGHTS[c] * x /\ g[c] = WEIGHTS[c] * y
      BY <1>1, <2>1, <2>3 DEF Part
    <3>3. WEIGHTS[c] \in {15, 25, 30}
      BY DEF WEIGHTS, Components
    <3> HIDE DEF x, y, f, g
    <3>4. WEIGHTS[c] * x <= WEIGHTS[c] * y
      BY <3>1, <3>3, SMT
    <3> QED BY <3>2, <3>4
  <2> QED BY <2>2, <2>3
<1> HIDE DEF f, g
<1>5. Total(b) <= Total(a)
  BY <1>3, <1>4, SumMonotone
<1>6. Weight(a) \in Nat \ {0} /\ Total(a) \in Nat /\ Total(b) \in Nat
  <2>1. 0 \in Nat /\ b["complexity"] # NotAvailable
    BY <1>1 DEF Components
  <2> QED BY <2>1, TotalBetween
<1> QED BY <1>2, <1>5, <1>6, RoundedMonotone DEF Overall

(* The evidence stays sound, and no component is scored higher, unless an  *)
(* audit gets its first tag.                                               *)
LEMMA FindingStep ==
  ASSUME EvidenceInv, AnotherFinding
  PROVE  /\ EvidenceInv'
         /\ \/ \A c \in Components : Lower(Scores(evidence')[c], Scores(evidence)[c])
            \/ ProseGetsATag
<1> DEFINE e == evidence
           n == evidence'
           S == Scores(e)
           N == Scores(n)
           sec(x) == MinKnown(BanditScore(BanditScan(x.scan)), LlmSecurityScore(x.audit))
<1>1. /\ S \in Scored /\ \A c \in Components : S[c] \in Int
  <2>1. S \in Scored
    BY ScoresRange DEF EvidenceInv
  <2>2. \A c \in Components : S[c] \in Int
    BY <2>1, SMT DEF Scored, NotAvailable
  <2> QED BY <2>1, <2>2
<1>2. \A x : /\ Scores(x)["tests"] = (IF x.report.total = 0 THEN NotAvailable
                                      ELSE Rounded(100 * x.report.passed, x.report.total))
             /\ Scores(x)["coverage"]
                  = (IF x.report.total = 0 THEN NotAvailable ELSE x.report.coverage)
             /\ Scores(x)["security"] = sec(x)
             /\ Scores(x)["complexity"] = ComplexityScore(x.complexity)
             /\ Scores(x)["performance"] = PerformanceScore(x.review)
  BY DEF Scores
<1>3. ASSUME \A c \in {"tests", "coverage", "security", "complexity", "performance"} :
               Lower(N[c], S[c])
      PROVE  \A c \in Components : Lower(N[c], S[c])
  BY <1>3 DEF Components
<1>4. \A x \in Int : Lower(x, x)
  BY SMT DEF Lower
<1>5. /\ S["tests"] \in Int /\ S["coverage"] \in Int /\ S["security"] \in Int
      /\ S["complexity"] \in Int /\ S["performance"] \in Int
  BY <1>1 DEF Components
<1>6. CASE MoreComplex
  <2>1. /\ n.complexity = e.complexity + 1 /\ e.complexity \in Nat
        /\ n.report = e.report /\ n.scan = e.scan /\ n.audit = e.audit /\ n.review = e.review
    BY <1>6 DEF MoreComplex, EvidenceInv, Sound
  <2>2. EvidenceInv'
    BY <1>6 DEF MoreComplex, EvidenceInv, Sound
  <2>3. Lower(ComplexityScore(n.complexity), ComplexityScore(e.complexity))
    BY <2>1, SMT DEF ComplexityScore, Larger, Lower, NotAvailable
  <2>4. /\ Lower(N["tests"], S["tests"]) /\ Lower(N["coverage"], S["coverage"])
        /\ Lower(N["security"], S["security"]) /\ Lower(N["performance"], S["performance"])
    BY <1>2, <1>4, <1>5, <2>1
  <2> QED BY <1>2, <1>3, <2>2, <2>3, <2>4
<1>7. CASE IssueFound
  <2>1. PICK s \in Severities : /\ e.scan.kind = "ran"
                                /\ n = [e EXCEPT !.scan.counts[s] = @ + 1]
    BY <1>7 DEF IssueFound
  <2> DEFINE c == e.scan.counts
             m == [c EXCEPT ![s] = @ + 1]
  <2>2. /\ c \in [Severities -> Nat]
        /\ n.scan = [e.scan EXCEPT !.counts = m] /\ n.scan.kind = "ran" /\ n.scan.counts = m
        /\ n.report = e.report /\ n.complexity = e.complexity
        /\ n.audit = e.audit /\ n.review = e.review
    BY <2>1 DEF EvidenceInv, Sound
  <2>3. m \in [Severities -> Nat] /\ Penalty(c, BanditPenalty) <= Penalty(m, BanditPenalty)
    BY <2>2, PenaltyGrows
  <2>4. EvidenceInv'
    <3>1. n = [e EXCEPT !.scan = [e.scan EXCEPT !.counts = m]]
      BY <2>1 DEF EvidenceInv, Sound
    <3> HIDE DEF m
    <3> QED BY <2>3, <3>1 DEF EvidenceInv, Sound
  <2>5. Penalty(c, BanditPenalty) \in Nat /\ Penalty(m, BanditPenalty) \in Nat
    BY <2>2, <2>3, PenaltyIsNatural
  <2>6. /\ BanditScore(BanditScan(e.scan)) = Larger(0, 100 - Penalty(c, BanditPenalty))
        /\ BanditScore(BanditScan(n.scan)) = Larger(0, 100 - Penalty(m, BanditPenalty))
    BY <2>1, <2>2 DEF BanditScore, BanditScan
  <2>7. LlmSecurityScore(e.audit) \in {NotAvailable} \cup 0..100
    <3>1. Penalty(e.audit.counts, LlmPenalty) \in Nat
      BY PenaltyIsNatural DEF EvidenceInv, Sound
    <3> QED BY <3>1, SMT DEF LlmSecurityScore, Larger, NotAvailable
  <2> DEFINE x == Penalty(c, BanditPenalty)
             y == Penalty(m, BanditPenalty)
             l == LlmSecurityScore(e.audit)
  <2>8. x \in Nat /\ y \in Nat /\ x <= y /\ l \in {NotAvailable} \cup 0..100
    BY <2>3, <2>5, <2>7
  <2>9. sec(e) = MinKnown(Larger(0, 100 - x), l) /\ sec(n) = MinKnown(Larger(0, 100 - y), l)
    BY <2>2, <2>6
  <2> HIDE DEF x, y, l, m, c
  <2>10. Lower(MinKnown(Larger(0, 100 - y), l), MinKnown(Larger(0, 100 - x), l))
    BY <2>8, SMT DEF MinKnown, Larger, Smaller, Lower, NotAvailable
  <2>11. /\ Lower(N["tests"], S["tests"]) /\ Lower(N["coverage"], S["coverage"])
         /\ Lower(N["complexity"], S["complexity"]) /\ Lower(N["performance"], S["performance"])
    BY <1>2, <1>4, <1>5, <2>2
  <2>12. Lower(N["security"], S["security"])
    BY <1>2, <2>9, <2>10
  <2> QED BY <1>3, <2>4, <2>11, <2>12
<1>8. CASE AuditTagged
  <2>1. PICK s \in Severities :
          /\ e.audit.kind # "absent"
          /\ n = [e EXCEPT !.audit = [kind |-> "tagged",
                                      counts |-> [e.audit.counts EXCEPT ![s] = @ + 1]]]
    BY <1>8 DEF AuditTagged
  <2> DEFINE c == e.audit.counts
             m == [c EXCEPT ![s] = @ + 1]
  <2>2. /\ c \in [Severities -> Nat] /\ n.audit = [kind |-> "tagged", counts |-> m]
        /\ n.report = e.report /\ n.complexity = e.complexity
        /\ n.scan = e.scan /\ n.review = e.review
    BY <2>1 DEF EvidenceInv, Sound
  <2>3. m \in [Severities -> Nat] /\ m # NoFindings /\ Penalty(c, LlmPenalty) <= Penalty(m, LlmPenalty)
    BY <2>2, PenaltyGrows
  <2>4. EvidenceInv'
    <3>1. n = [e EXCEPT !.audit = [kind |-> "tagged", counts |-> m]]
      BY <2>1 DEF EvidenceInv, Sound
    <3> HIDE DEF m
    <3> QED BY <2>3, <3>1 DEF EvidenceInv, Sound
  <2>5. Penalty(c, LlmPenalty) \in Nat /\ Penalty(m, LlmPenalty) \in Nat
    BY <2>2, <2>3, PenaltyIsNatural
  <2> DEFINE x == Penalty(c, LlmPenalty)
             y == Penalty(m, LlmPenalty)
             b == BanditScore(BanditScan(e.scan))
  <2>6. /\ \/ LlmSecurityScore(e.audit) \in {100, Larger(0, 100 - x)}
           \/ LlmSecurityScore(e.audit) = 60 /\ (50 <= y \/ ProseGetsATag)
        /\ LlmSecurityScore(n.audit) = Larger(0, 100 - y)
    <3>1. /\ e.audit.kind \in {"secure", "prose", "tagged"}
          /\ c = NoFindings <=> e.audit.kind # "tagged"
      BY <2>1 DEF EvidenceInv, Sound
    <3>2. \/ LlmSecurityScore(e.audit) \in {100, Larger(0, 100 - x)}
          \/ LlmSecurityScore(e.audit) = 60 /\ e.audit.kind = "prose"
      <4> HIDE DEF m
      <4> QED BY <3>1 DEF LlmSecurityScore
    <3>3. ASSUME m["CRITICAL"] # 0  PROVE 50 <= y
      <4> DEFINE m1 == m["CRITICAL"]
                 m2 == m["HIGH"]
                 m3 == m["MEDIUM"]
                 m4 == m["LOW"]
      <4> HIDE DEF m
      <4>1. {m1, m2, m3, m4} \subseteq Nat /\ m1 # 0
        BY <2>3, <3>3 DEF Severities
      <4>2. y = m1 * 50 + m2 * 30 + m3 * 15 + m4 * 5
        BY DEF Penalty, LlmPenalty
      <4> HIDE DEF m1, m2, m3, m4, y
      <4>3. 50 <= m1 * 50 + m2 * 30 + m3 * 15 + m4 * 5
        BY <4>1, SMT
      <4> QED BY <4>2, <4>3
    <3>4. e.audit.kind = "prose" /\ m["CRITICAL"] = 0 => ProseGetsATag
      <4> HIDE DEF m
      <4> QED BY <2>2 DEF ProseGetsATag
    <3>5. LlmSecurityScore(n.audit) = Larger(0, 100 - y)
      <4> HIDE DEF m
      <4> QED BY <2>2, <2>3 DEF LlmSecurityScore
    <3> HIDE DEF m, x, y
    <3> QED BY <3>2, <3>5, <3>3, <3>4
  <2>7. b \in {NotAvailable} \cup 0..100
    <3>1. NoFindings \in [Severities -> Nat] /\ e.scan.counts \in [Severities -> Nat]
      BY DEF NoFindings, EvidenceInv, Sound
    <3>2. /\ Penalty(NoFindings, BanditPenalty) \in Nat
          /\ Penalty(e.scan.counts, BanditPenalty) \in Nat
      BY <3>1, PenaltyIsNatural
    <3> QED BY <3>2, SMT DEF BanditScore, BanditScan, Larger, NotAvailable
  <2>8. x \in Nat /\ y \in Nat /\ x <= y
    BY <2>3, <2>5
  <2> DEFINE l == LlmSecurityScore(e.audit)
  <2>9. /\ l \in {100, Larger(0, 100 - x)} \/ (l = 60 /\ (50 <= y \/ ProseGetsATag))
        /\ sec(e) = MinKnown(b, l) /\ sec(n) = MinKnown(b, Larger(0, 100 - y))
    BY <2>2, <2>6
  <2> HIDE DEF x, y, b, l, m, c
  <2>10. Lower(MinKnown(b, Larger(0, 100 - y)), MinKnown(b, l)) \/ ProseGetsATag
    <3>1. CASE l \in {100, Larger(0, 100 - x)} \/ (l = 60 /\ 50 <= y)
      <4>1. Larger(0, 100 - y) <= l /\ l \in 0..100 /\ Larger(0, 100 - y) \in 0..100
        BY <2>8, <3>1, SMT DEF Larger
      <4> QED BY <2>7, <4>1, SMT DEF MinKnown, Smaller, Lower, NotAvailable
    <3> QED BY <2>9, <3>1
  <2>11. /\ Lower(N["tests"], S["tests"]) /\ Lower(N["coverage"], S["coverage"])
         /\ Lower(N["complexity"], S["complexity"]) /\ Lower(N["performance"], S["performance"])
    BY <1>2, <1>4, <1>5, <2>2
  <2>12. Lower(N["security"], S["security"]) \/ ProseGetsATag
    BY <1>2, <2>9, <2>10
  <2> QED BY <1>3, <2>4, <2>11, <2>12
<1>9. CASE PerformanceNoted
  <2>1. /\ e.review.kind \in {"optimized", "notes"} /\ e.review.numbered \in Nat
        /\ n.review = [kind |-> "notes", numbered |-> e.review.numbered + 1]
        /\ n.report = e.report /\ n.complexity = e.complexity
        /\ n.scan = e.scan /\ n.audit = e.audit
    BY <1>9 DEF PerformanceNoted, EvidenceInv, Sound
  <2>2. EvidenceInv'
    BY <1>9 DEF PerformanceNoted, EvidenceInv, Sound
  <2> DEFINE k == e.review.numbered
  <2>3. /\ PerformanceScore(n.review) = Larger(30, 100 - 15 * Larger(1, k + 1))
        /\ PerformanceScore(e.review) \in {100, Larger(30, 100 - 15 * Larger(1, k))}
    BY <2>1 DEF PerformanceScore
  <2> DEFINE r == PerformanceScore(e.review)
  <2>4. k \in Nat /\ r \in {100, Larger(30, 100 - 15 * Larger(1, k))}
    BY <2>1, <2>3
  <2> HIDE DEF k, r
  <2>5. Lower(Larger(30, 100 - 15 * Larger(1, k + 1)), r)
    BY <2>4, SMT DEF Larger, Lower, NotAvailable
  <2>6. /\ Lower(N["tests"], S["tests"]) /\ Lower(N["coverage"], S["coverage"])
        /\ Lower(N["complexity"], S["complexity"]) /\ Lower(N["security"], S["security"])
    BY <1>2, <1>4, <1>5, <2>1
  <2>7. Lower(N["performance"], S["performance"])
    BY <1>2, <2>3, <2>5 DEF r
  <2> QED BY <1>3, <2>2, <2>6, <2>7
<1>10. CASE TestFailed
  <2>1. /\ e.report.passed \in Nat /\ e.report.total \in Nat /\ e.report.passed > 0
        /\ e.report.passed <= e.report.total
        /\ n.report.passed = e.report.passed - 1 /\ n.report.total = e.report.total
        /\ n.report.coverage = e.report.coverage
        /\ n.complexity = e.complexity /\ n.scan = e.scan /\ n.audit = e.audit
        /\ n.review = e.review
    BY <1>10 DEF TestFailed, EvidenceInv, Sound
  <2>2. EvidenceInv'
    <3>1. n = [e EXCEPT !.report = [e.report EXCEPT !.passed = e.report.passed - 1]]
      BY <1>10 DEF TestFailed, EvidenceInv, Sound
    <3>2. e.report.passed - 1 \in Nat /\ e.report.passed - 1 <= e.report.total
      BY <2>1, SMT
    <3>3. n.report \in [passed : Nat, total : Nat, coverage : {NotAvailable} \cup 0..100]
            /\ n.report.passed <= n.report.total
      BY <3>1, <3>2 DEF EvidenceInv, Sound
    <3> QED BY <3>1, <3>3 DEF EvidenceInv, Sound
  <2> DEFINE p == e.report.passed
             q == n.report.passed
             t == e.report.total
  <2>3. ASSUME t # 0  PROVE Lower(Rounded(100 * q, t), Rounded(100 * p, t))
    <3> DEFINE a == 100 * q
               b == 100 * p
    <3>1. a \in Nat /\ b \in Nat /\ a <= b /\ t \in Nat \ {0}
      BY <2>1, <2>3, SMT
    <3>2. 0 \in Nat
      OBVIOUS
    <3> HIDE DEF a, b, p, q, t
    <3>3. /\ Rounded(a, t) \in Nat /\ Rounded(b, t) \in Nat
          /\ Rounded(a, t) <= Rounded(b, t)
      BY <3>1, <3>2, RoundedBetween, RoundedMonotone
    <3>4. Lower(Rounded(a, t), Rounded(b, t))
      BY <3>3, SMT DEF Lower, NotAvailable
    <3> QED BY <3>4 DEF a, b
  <2>4. Lower(N["tests"], S["tests"])
    <3>1. CASE t = 0
      BY <1>2, <1>4, <1>5, <2>1, <3>1
    <3>2. CASE t # 0
      <4>1. S["tests"] = Rounded(100 * p, t) /\ N["tests"] = Rounded(100 * q, t)
        BY <1>2, <2>1, <3>2
      <4> QED BY <2>3, <3>2, <4>1
    <3> QED BY <3>1, <3>2
  <2>5. /\ Lower(N["coverage"], S["coverage"]) /\ Lower(N["performance"], S["performance"])
        /\ Lower(N["complexity"], S["complexity"]) /\ Lower(N["security"], S["security"])
    BY <1>2, <1>4, <1>5, <2>1
  <2> QED BY <1>3, <2>2, <2>4, <2>5
<1> QED BY <1>6, <1>7, <1>8, <1>9, <1>10 DEF AnotherFinding

LEMMA EvidenceKept == MetricsSpec => []EvidenceInv
<1>1. MetricsInit => EvidenceInv
  <2> SUFFICES ASSUME evidence \in Evidence  PROVE EvidenceInv
    BY DEF MetricsInit
  <2>1. PICK n \in Totals :
          evidence.report \in [passed : 0..n, total : {n}, coverage : {NotAvailable} \cup Coverages]
    BY DEF Evidence, Reports
  <2>2. n \in Nat /\ Coverages \subseteq 0..100 /\ Complexities \subseteq Nat
    BY MetricsAssumption
  <2>3. /\ evidence.report \in [passed : Nat, total : Nat, coverage : {NotAvailable} \cup 0..100]
        /\ evidence.report.passed <= evidence.report.total
    <3> DEFINE r == evidence.report
    <3>1. /\ r = [passed |-> r.passed, total |-> r.total, coverage |-> r.coverage]
          /\ r.passed \in 0..n /\ r.total = n /\ r.coverage \in {NotAvailable} \cup Coverages
      BY <2>1
    <3> HIDE DEF r
    <3>2. /\ r.passed \in Nat /\ r.passed <= r.total /\ r.total \in Nat
      BY <2>2, <3>1, SMT
    <3>3. r.coverage \in {NotAvailable} \cup 0..100
      BY <2>2, <3>1
    <3>4. r \in [passed : Nat, total : Nat, coverage : {NotAvailable} \cup 0..100]
      BY <3>1, <3>2, <3>3
    <3> QED BY <3>2, <3>4 DEF r
  <2>4. NoFindings \in [Severities -> Nat]
    BY DEF NoFindings
  <2>5. evidence = [report |-> evidence.report, complexity |-> evidence.complexity,
                    scan |-> evidence.scan, audit |-> evidence.audit, review |-> evidence.review]
    BY DEF Evidence
  <2>6. /\ evidence.complexity \in Nat
        /\ evidence.scan \in [kind : {"missing", "failed", "ran"}, counts : {NoFindings}]
        /\ evidence.audit \in [kind : {"absent", "secure", "prose"}, counts : {NoFindings}]
        /\ evidence.review \in [kind : {"absent", "optimized", "notes"}, numbered : {0}]
    BY <2>2 DEF Evidence, Kinds
  <2> QED BY <2>3, <2>4, <2>5, <2>6 DEF EvidenceInv, Sound
<1>2. EvidenceInv /\ [AnotherFinding]_metricsVars => EvidenceInv'
  BY FindingStep DEF metricsVars, EvidenceInv
<1> QED BY <1>1, <1>2, PTL DEF MetricsSpec

(* Whatever the evidence, the score lies between the scores of what there  *)
(* is evidence for, and what there is none for is worth less than had it   *)
(* been perfect, unless the rest is; but for the security after a failed   *)
(* scan (calculate_quality_metrics).                                       *)
THEOREM SkippedNeverPerfect == MetricsSpec => []SkippedIsNotPerfect
BY EvidenceKept, SkippedIsWorthLess, PTL

(* A failed test, an issue, a tag, a note or a decision point more never   *)
(* raises the score, but for the first tag of an audit that was prose      *)
(* (calculate_quality_metrics).                                            *)
THEOREM FindingsNeverRaise == MetricsSpec => FindingsOnlyLower
<1>1. ASSUME EvidenceInv, EvidenceInv', [AnotherFinding]_metricsVars
      PROVE  [findings' = findings + 1
                => \/ Overall(Scores(evidence')) <= Overall(Scores(evidence))
                   \/ ProseGetsATag]_metricsVars
  <2>1. CASE AnotherFinding
    <3>1. \/ \A c \in Components : Lower(Scores(evidence')[c], Scores(evidence)[c])
          \/ ProseGetsATag
      BY <1>1, <2>1, FindingStep
    <3>2. Scores(evidence) \in Scored /\ Scores(evidence)["complexity"] # NotAvailable
      BY <1>1, ScoresRange DEF EvidenceInv
    <3>3. Scores(evidence') \in Scored
      BY <1>1, ScoresRange DEF EvidenceInv
    <3>4. Overall(Scores(evidence')) <= Overall(Scores(evidence)) \/ ProseGetsATag
      BY <3>1, <3>2, <3>3, OverallMonotone
    <3> QED BY <3>4
  <2>2. CASE UNCHANGED metricsVars
    BY <2>2
  <2> QED BY <1>1, <2>1, <2>2
<1> QED BY <1>1, EvidenceKept, PTL DEF MetricsSpec, FindingsOnlyLower

=============================================================================
