------------------------------- MODULE Memory -------------------------------
(***************************************************************************)
(* The three keepers of a character's memory: the database file, what a    *)
(* consolidation stores in it, and the care list with its own file. The    *)
(* code gives them no variable in common: a consolidation calls the        *)
(* repository and the list, and awaits each. So a behaviour here is one of *)
(* a single keeper, told apart by "part", while the others rest.           *)
(***************************************************************************)
EXTENDS Storage, Consolidation, CareList

VARIABLE part    \* whose behaviour this is

memoryVars == <<storageVars, consVars, careVars, part>>

MemoryInit ==
  /\ StorageInit /\ ConsInit /\ CareInit
  /\ \/ part = "storage"
     \/ part \in {"consolidation", "care"} /\ disk = Fresh

StoragePart ==
  part = "storage" /\ StorageNext /\ UNCHANGED <<consVars, careVars, part>>
ConsPart ==
  part = "consolidation" /\ ConsNext /\ UNCHANGED <<storageVars, careVars, part>>
CarePart ==
  part = "care" /\ CareNext /\ UNCHANGED <<storageVars, consVars, part>>

MemoryNext == StoragePart \/ ConsPart \/ CarePart

MemorySpec == MemoryInit /\ [][MemoryNext]_memoryVars
=============================================================================
