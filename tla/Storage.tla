------------------------------- MODULE Storage -------------------------------
(***************************************************************************)
(* The database file from its first opening on: Migrations until it is     *)
(* open, then the calls of Transactions on the connection open() left.     *)
(* cursor() raises while there is no connection, and a process that dies   *)
(* takes its threads and its open transaction with it.                     *)
(***************************************************************************)
EXTENDS Migrations, Transactions

CONSTANT Followed       \* files on which calls are made: none of them reads a table

storageVars == <<mvars, tvars>>

StorageInit == MigInit /\ TxInit

OpenStep == Upgrade /\ UNCHANGED tvars

Serving == pc = "open" /\ orig \in Followed

CallStep == Serving /\ TxNext /\ UNCHANGED mvars

Crash ==
    /\ Die
    /\ holder' = Nobody /\ pending' = {} /\ conn' = "open"
    /\ call' = [c \in Callers |->
                  IF call[c].at \in Ended \cup {"idle"} THEN [call[c] EXCEPT !.lost = FALSE]
                  ELSE [call[c] EXCEPT !.at = "cancelled", !.lost = FALSE]]
    /\ UNCHANGED stored

StorageNext == OpenStep \/ CallStep \/ Crash

StorageSpec == StorageInit /\ [][StorageNext]_storageVars

StorageTypeOK == MigTypeOK /\ TxTypeOK
=============================================================================
