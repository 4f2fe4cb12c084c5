---------------------------- MODULE Transactions ----------------------------
(***************************************************************************)
(* The one database connection and the calls that share it: cursor() with  *)
(* its lock, commit, rollback on a database error, backup() and close()    *)
(* (src/storage/database.py), under run_async's worker pool and timeouts   *)
(* (src/core/async_utils.py).                                              *)
(*                                                                         *)
(* A call writes Statements rows and commits.  A row is named by its call  *)
(* <<caller, number>> and the statement.  All calls share the connection   *)
(* and so its one open transaction "pending".  A statement handed to the   *)
(* connection's thread runs even if the call that awaits it is cancelled,  *)
(* so a cancellation falls between two statements.                         *)
(***************************************************************************)
EXTENDS Integers, FiniteSets

CONSTANTS Callers,      \* threads that use the repository
          OnLoop,       \* those of them on a running event loop: bridged by the pool
          Workers,      \* threads of the pool (4)
          Statements,   \* statements of a write, more than one for some
          CallMax,      \* calls per caller
          Nobody        \* no thread

ASSUME TxAssumption ==
    /\ OnLoop \subseteq Callers /\ Nobody \notin Callers
    /\ Workers \in Nat \ {0} /\ Statements \in Nat \ {0} /\ CallMax \in Nat

VARIABLES
    holder,     \* the thread inside cursor()
    pending,    \* rows of the connection's open transaction
    stored,     \* rows committed
    call,       \* per caller: its number, what it does, how far it is
    conn        \* "open" or "closed"

tvars == <<holder, pending, stored, call, conn>>

Kinds == {"write", "backup", "model"}
Stages == {"idle", "queued", "waiting", "inside", "committed", "generating",
           "done", "failed", "cancelled"}
Ended == {"done", "failed", "cancelled"}

CallRows == Callers \X (1 .. CallMax) \X (1 .. Statements)

TxTypeOK ==
    /\ holder \in Callers \cup {Nobody}
    /\ pending \subseteq CallRows /\ stored \subseteq CallRows
    /\ call \in [Callers -> [n : 0 .. CallMax, kind : Kinds, at : Stages,
                             written : 0 .. Statements, lost : BOOLEAN]]
    /\ conn \in {"open", "closed"}

TxInit ==
    /\ holder = Nobody /\ pending = {} /\ stored = {} /\ conn = "open"
    /\ call = [c \in Callers |-> [n |-> 0, kind |-> "write", at |-> "idle",
                                  written |-> 0, lost |-> FALSE]]

At(c, stage) == call[c].at = stage

To(c, stage) == call' = [call EXCEPT ![c].at = stage]

(***************************************************************************)
(* run_async(): a caller with no event loop runs the coroutine itself, one *)
(* on a loop hands it to the pool.  _call_llm() of the consolidator puts   *)
(* its model calls into the same pool.  "lost" is a worker that is held by *)
(* something its caller has given up.                                      *)
(***************************************************************************)
InPool(c) == c \in OnLoop \/ call[c].kind = "model"

Busy == {c \in Callers :
            \/ call[c].lost
            \/ InPool(c) /\ call[c].at \in {"waiting", "inside", "committed", "generating"}}

Call(c) ==
    /\ call[c].at \in Ended \cup {"idle"} /\ call[c].n < CallMax
    /\ ~ call[c].lost
    /\ \E kind \in Kinds :
        call' = [call EXCEPT ![c] =
                [n |-> @.n + 1, kind |-> kind, written |-> 0, lost |-> FALSE,
                 at |-> IF c \in OnLoop \/ kind = "model" THEN "queued" ELSE "waiting"]]
    /\ UNCHANGED <<holder, pending, stored, conn>>

StartWorker(c) ==
    /\ At(c, "queued") /\ Cardinality(Busy) < Workers
    /\ To(c, IF call[c].kind = "model" THEN "generating" ELSE "waiting")
    /\ UNCHANGED <<holder, pending, stored, conn>>

Generated(c) ==
    /\ At(c, "generating")
    /\ \/ To(c, "done") \/ To(c, "failed")
    /\ UNCHANGED <<holder, pending, stored, conn>>

(* The model answers a call that was given up, or the thread gets its lock *)
(* or its error, finds itself cancelled and lets go: the worker is free.   *)
WorkerFreed(c) ==
    /\ call[c].lost
    /\ call' = [call EXCEPT ![c].lost = FALSE]
    /\ UNCHANGED <<holder, pending, stored, conn>>

(* cursor(): the lock, which a thread waits for up to CURSOR_LOCK_TIMEOUT. *)
Enter(c) ==
    /\ At(c, "waiting") /\ holder = Nobody /\ conn = "open"
    /\ holder' = c
    /\ To(c, "inside")
    /\ UNCHANGED <<pending, stored, conn>>

LockTimeout(c) ==
    /\ At(c, "waiting") /\ holder # Nobody
    /\ To(c, "failed")
    /\ UNCHANGED <<holder, pending, stored, conn>>

NotOpened(c) ==
    /\ At(c, "waiting") /\ conn = "closed"
    /\ To(c, "failed")
    /\ UNCHANGED <<holder, pending, stored, conn>>

Statement(c) ==
    /\ At(c, "inside") /\ call[c].kind = "write" /\ call[c].written < Statements
    /\ pending' = pending \cup {<<c, call[c].n, call[c].written + 1>>}
    /\ call' = [call EXCEPT ![c].written = @ + 1]
    /\ UNCHANGED <<holder, stored, conn>>

(* A database error: rollback on the shared connection, close, release.    *)
Rollback(c) ==
    /\ At(c, "inside")
    /\ pending' = {}
    /\ holder' = Nobody
    /\ To(c, "failed")
    /\ UNCHANGED <<stored, conn>>

Commit(c) ==
    /\ At(c, "inside") /\ call[c].kind = "write" /\ call[c].written = Statements
    /\ stored' = stored \cup pending /\ pending' = {}
    /\ To(c, "committed")
    /\ UNCHANGED <<holder, conn>>

(* backup(): commit what is open, then VACUUM INTO, both under the lock.   *)
UnlockedFault(c) ==
    /\ At(c, "waiting") /\ call[c].kind = "backup"
    /\ stored' = stored \cup pending /\ pending' = {}
    /\ To(c, "done")
    /\ UNCHANGED <<holder, conn>>

BackupCommit(c) ==
    /\ At(c, "inside") /\ call[c].kind = "backup"
    /\ stored' = stored \cup pending /\ pending' = {}
    /\ To(c, "committed")
    /\ UNCHANGED <<holder, conn>>

Leave(c) ==
    /\ At(c, "committed")
    /\ holder' = Nobody
    /\ To(c, "done")
    /\ UNCHANGED <<pending, stored, conn>>

(***************************************************************************)
(* The timeout of run_async, or of _call_llm.  A call still queued is      *)
(* withdrawn.  One inside is cancelled: CancelledError is no aiosqlite     *)
(* error, so cursor() closes and releases and does not roll back.  A       *)
(* thread that waits for the lock, and a model call that runs, cannot be   *)
(* interrupted: without a worker between it is the caller who waits.       *)
(***************************************************************************)
Timeout(c) ==
    /\ \/ call[c].at \in {"queued", "inside", "committed", "generating"}
       \/ At(c, "waiting") /\ InPool(c)
    /\ holder' = IF holder = c THEN Nobody ELSE holder
    /\ call' = [call EXCEPT ![c].at = "cancelled",
                            ![c].lost = call[c].at \in {"generating", "waiting"}]
    /\ UNCHANGED <<pending, stored, conn>>

(* close(): takes the lock; closing the connection drops what is open.     *)
Close ==
    /\ conn = "open" /\ holder = Nobody
    /\ conn' = "closed"
    /\ pending' = {}
    /\ UNCHANGED <<holder, stored, call>>

Step(c) ==
    \/ StartWorker(c) \/ Generated(c) \/ WorkerFreed(c) \/ Enter(c) \/ LockTimeout(c)
    \/ NotOpened(c) \/ Statement(c) \/ Rollback(c) \/ Commit(c) \/ BackupCommit(c)
    \/ Leave(c) \/ Timeout(c)

TxNext == Close \/ \E c \in Callers : Call(c) \/ Step(c)

TxSpec == TxInit /\ [][TxNext]_tvars

(***************************************************************************)
(* Properties.                                                             *)
(***************************************************************************)
RowsOf(c, rows) == {r \in rows : r[1] = c /\ r[2] = call[c].n}

(***************************************************************************)
(* The connection's one transaction is never shared: while a call is       *)
(* inside nothing of it is on disk, once it says done all of it is, and    *)
(* once it says failed nothing of it is on disk or left open.              *)
(***************************************************************************)
CallsAtomic ==
    \A c \in Callers :
        /\ At(c, "inside") => RowsOf(c, stored) = {}
        /\ At(c, "done") /\ call[c].kind = "write"
             => Cardinality(RowsOf(c, stored)) = Statements
        /\ At(c, "failed") => RowsOf(c, stored \cup pending) = {}
=============================================================================
