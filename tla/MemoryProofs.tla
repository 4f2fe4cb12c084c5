------------------------- MODULE MemoryProofs -------------------------
(***************************************************************************)
(* What the keepers of a memory promise: the calls on the one connection,  *)
(* the consolidation of what was said, the migrations of the file and the  *)
(* care list, for any callers, rows, limits and bounds.                    *)
(***************************************************************************)
EXTENDS Memory, FiniteSetTheorems, SequenceTheorems, WellFoundedInduction, TLAPS

(* The calls on the connection (Transactions).                             *)
USE TxAssumption DEF TxAssumption

(* Who is between Enter and Leave holds the lock, and nobody else.         *)
HolderInside == \A c \in Callers : holder = c <=> call[c].at \in {"inside", "committed"}

(* The rows of the current call of c, up to a statement.                   *)
Upto(c, n) == {<<c, call[c].n, i>> : i \in 1 .. n}

(* Before a call is inside nothing of it is written, and one that is not a *)
(* write writes nothing ...                                                *)
NotBegun ==
    \A c \in Callers :
        /\ call[c].at # "idle" => call[c].n # 0
        /\ call[c].at \in {"idle", "queued", "waiting", "generating"} => call[c].written = 0
        /\ call[c].kind # "write" => call[c].written = 0
        /\ call[c].at = "generating" => call[c].kind = "model"

(* ... and each stage knows its rows on disk and in the open transaction.  *)
(* A cancelled call knows neither.                                         *)
KnownOf(c) ==
    /\ call[c].at \in {"idle", "queued", "waiting", "generating", "failed"}
         => RowsOf(c, stored) = {} /\ RowsOf(c, pending) = {}
    /\ call[c].at = "inside"
         => RowsOf(c, stored) = {} /\ RowsOf(c, pending) = Upto(c, call[c].written)
    /\ call[c].at \in {"committed", "done"}
         => /\ RowsOf(c, pending) = {}
            /\ call[c].kind = "write" => RowsOf(c, stored) = Upto(c, Statements)

RowsKnown == \A c \in Callers : KnownOf(c)

(* No row is of a call to come.                                            *)
NoneAhead == \A r \in stored \cup pending : r[2] <= call[r[1]].n

TxInv == TxTypeOK /\ HolderInside /\ NotBegun /\ RowsKnown /\ NoneAhead

-----------------------------------------------------------------------------
(* The rows of a whole call are as many as its statements.                 *)
LEMMA WholeCount ==
  ASSUME NEW c, NEW n
  PROVE  Cardinality({<<c, n, i>> : i \in 1 .. Statements}) = Statements
<1> DEFINE S == 1 .. Statements
           T == {<<c, n, i>> : i \in S}
           f == [i \in S |-> <<c, n, i>>]
<1>1. IsFiniteSet(S) /\ Cardinality(S) = Statements
  BY FS_Interval
<1>2. f \in Bijection(S, T)
  <2>1. f \in [S -> T]
    OBVIOUS
  <2>2. \A i, j \in S : f[i] = f[j] => i = j
    OBVIOUS
  <2>3. \A t \in T : \E i \in S : f[i] = t
    OBVIOUS
  <2>. QED BY <2>1, <2>2, <2>3 DEF Bijection, Injection, Surjection, IsInjective
<1>3. Cardinality(T) = Cardinality(S)
  <2>1. ExistsBijection(S, T)
    BY <1>2 DEF ExistsBijection
  <2>. QED BY <1>1, <2>1, FS_Bijection
<1>. QED BY <1>1, <1>3

LEMMA TxInvInit == TxInit => TxInv
BY DEF TxInit, TxInv, TxTypeOK, HolderInside, NotBegun, RowsKnown, KnownOf,
       NoneAhead, RowsOf, Kinds, Stages

LEMMA TxInvCallsAtomic == TxInv => CallsAtomic
<1> SUFFICES ASSUME TxInv, NEW c \in Callers
             PROVE  /\ At(c, "inside") => RowsOf(c, stored) = {}
                    /\ At(c, "done") /\ call[c].kind = "write"
                         => Cardinality(RowsOf(c, stored)) = Statements
                    /\ At(c, "failed") => RowsOf(c, stored \cup pending) = {}
  BY DEF CallsAtomic
<1>1. At(c, "inside") => RowsOf(c, stored) = {}
  BY DEF TxInv, RowsKnown, KnownOf, At
<1>2. At(c, "done") /\ call[c].kind = "write" => Cardinality(RowsOf(c, stored)) = Statements
  <2>1. SUFFICES ASSUME At(c, "done"), call[c].kind = "write"
                 PROVE  Cardinality(RowsOf(c, stored)) = Statements
    OBVIOUS
  <2>2. RowsOf(c, stored) = {<<c, call[c].n, i>> : i \in 1 .. Statements}
    BY <2>1 DEF TxInv, RowsKnown, KnownOf, At, Upto
  <2>. QED BY <2>2, WholeCount
<1>3. At(c, "failed") => RowsOf(c, stored \cup pending) = {}
  BY DEF TxInv, RowsKnown, KnownOf, At, RowsOf
<1>. QED BY <1>1, <1>2, <1>3
-----------------------------------------------------------------------------
LEMMA TypesStep == TxInv /\ [TxNext]_tvars => TxTypeOK'
<1> SUFFICES ASSUME TxTypeOK, NotBegun, [TxNext]_tvars PROVE TxTypeOK'
  BY DEF TxInv
<1> USE DEF TxTypeOK, Kinds, Stages, CallRows
<1>1. CASE UNCHANGED tvars
  BY <1>1 DEF tvars
<1>2. CASE Close
  BY <1>2 DEF Close
<1>3. ASSUME NEW c \in Callers, Call(c) PROVE TxTypeOK'
  BY <1>3 DEF Call
<1>4. ASSUME NEW c \in Callers, Step(c) PROVE TxTypeOK'
  <2>1. CASE StartWorker(c) \/ Generated(c) \/ LockTimeout(c) \/ NotOpened(c)
    BY <2>1 DEF StartWorker, Generated, LockTimeout, NotOpened, To
  <2>2. CASE WorkerFreed(c)
    BY <2>2 DEF WorkerFreed
  <2>3. CASE Enter(c)
    BY <2>3 DEF Enter, To
  <2>4. CASE Statement(c)
    <3>1. call[c].n \in 1 .. CallMax
      BY <2>4 DEF Statement, At, NotBegun
    <3>2. call[c].written + 1 \in 1 .. Statements
      BY <2>4 DEF Statement
    <3>3. <<c, call[c].n, call[c].written + 1>> \in Callers \X (1 .. CallMax) \X (1 .. Statements)
      BY <3>1, <3>2
    <3>4. pending' \subseteq CallRows /\ stored' \subseteq CallRows
      BY <2>4, <3>3 DEF Statement
    <3>5. call' \in [Callers -> [n : 0 .. CallMax, kind : Kinds, at : Stages,
                                written : 0 .. Statements, lost : BOOLEAN]]
      BY <2>4, <3>2 DEF Statement
    <3>6. UNCHANGED <<holder, conn>>
      BY <2>4 DEF Statement
    <3>. QED BY <3>4, <3>5, <3>6
  <2>5. CASE Rollback(c) \/ Commit(c) \/ BackupCommit(c) \/ Leave(c)
    BY <2>5 DEF Rollback, Commit, BackupCommit, Leave, To
  <2>6. CASE Timeout(c)
    <3> DEFINE late == call[c].at \in {"generating", "waiting"}
    <3>1. call' = [call EXCEPT ![c] = [@ EXCEPT !.at = "cancelled", !.lost = late]]
      BY <2>6 DEF Timeout
    <3>2. late \in BOOLEAN
      OBVIOUS
    <3> HIDE DEF late
    <3>3. call' \in [Callers -> [n : 0 .. CallMax, kind : Kinds, at : Stages,
                                written : 0 .. Statements, lost : BOOLEAN]]
      BY <3>1, <3>2
    <3>. QED BY <2>6, <3>3 DEF Timeout
  <2>. QED BY <1>4, <2>1, <2>2, <2>3, <2>4, <2>5, <2>6 DEF Step
<1>. QED BY <1>1, <1>2, <1>3, <1>4 DEF TxNext

LEMMA HolderStep == TxInv /\ [TxNext]_tvars => HolderInside'
<1> SUFFICES ASSUME TxTypeOK, HolderInside, [TxNext]_tvars PROVE HolderInside'
  BY DEF TxInv
<1> USE DEF TxTypeOK, HolderInside
<1>1. CASE UNCHANGED tvars
  BY <1>1 DEF tvars
<1>2. CASE Close
  BY <1>2 DEF Close
<1>3. ASSUME NEW c \in Callers, Call(c) PROVE HolderInside'
  BY <1>3 DEF Call, Ended
<1>4. ASSUME NEW c \in Callers, Step(c) PROVE HolderInside'
  <2>1. CASE StartWorker(c) \/ Generated(c) \/ LockTimeout(c) \/ NotOpened(c)
    BY <2>1 DEF StartWorker, Generated, LockTimeout, NotOpened, To, At
  <2>2. CASE WorkerFreed(c) \/ Statement(c)
    BY <2>2 DEF WorkerFreed, Statement
  <2>3. CASE Enter(c)
    BY <2>3 DEF Enter, To, At
  <2>4. CASE Commit(c) \/ BackupCommit(c)
    BY <2>4 DEF Commit, BackupCommit, To, At
  <2>5. CASE Rollback(c) \/ Leave(c)
    BY <2>5 DEF Rollback, Leave, To, At
  <2>6. CASE Timeout(c)
    BY <2>6 DEF Timeout
  <2>. QED BY <1>4, <2>1, <2>2, <2>3, <2>4, <2>5, <2>6 DEF Step
<1>. QED BY <1>1, <1>2, <1>3, <1>4 DEF TxNext

LEMMA NotBegunStep == TxInv /\ [TxNext]_tvars => NotBegun'
<1> SUFFICES ASSUME TxTypeOK, NotBegun, [TxNext]_tvars PROVE NotBegun'
  BY DEF TxInv
<1> USE DEF TxTypeOK, NotBegun
<1>1. CASE UNCHANGED tvars
  BY <1>1 DEF tvars
<1>2. CASE Close
  BY <1>2 DEF Close
<1>3. ASSUME NEW c \in Callers, Call(c) PROVE NotBegun'
  BY <1>3 DEF Call
<1>4. ASSUME NEW c \in Callers, Step(c) PROVE NotBegun'
  <2>1. CASE StartWorker(c)
    BY <2>1 DEF StartWorker, To, At
  <2>2. CASE WorkerFreed(c)
    BY <2>2 DEF WorkerFreed
  <2>3. CASE Statement(c)
    BY <2>3 DEF Statement, At
  <2>4. CASE Generated(c) \/ LockTimeout(c) \/ NotOpened(c) \/ Enter(c)
    BY <2>4 DEF Generated, LockTimeout, NotOpened, Enter, To, At
  <2>5. CASE Commit(c) \/ BackupCommit(c) \/ Rollback(c) \/ Leave(c)
    BY <2>5 DEF Commit, BackupCommit, Rollback, Leave, To, At
  <2>6. CASE Timeout(c)
    BY <2>6 DEF Timeout, At
  <2>. QED BY <1>4, <2>1, <2>2, <2>3, <2>4, <2>5, <2>6 DEF Step
<1>. QED BY <1>1, <1>2, <1>3, <1>4 DEF TxNext

LEMMA NoneAheadStep == TxInv /\ [TxNext]_tvars => NoneAhead'
<1> SUFFICES ASSUME TxTypeOK, NoneAhead, [TxNext]_tvars PROVE NoneAhead'
  BY DEF TxInv
<1> USE DEF TxTypeOK, CallRows
<1>1. CASE UNCHANGED tvars
  BY <1>1 DEF tvars, NoneAhead
<1>2. CASE Close
  BY <1>2 DEF Close, NoneAhead
<1>3. ASSUME NEW c \in Callers, Call(c) PROVE NoneAhead'
  BY <1>3 DEF Call, NoneAhead
<1>4. ASSUME NEW c \in Callers, Step(c) PROVE NoneAhead'
  <2>1. CASE StartWorker(c) \/ Generated(c) \/ LockTimeout(c) \/ NotOpened(c)
    BY <2>1 DEF StartWorker, Generated, LockTimeout, NotOpened, To, NoneAhead
  <2>2. CASE WorkerFreed(c) \/ Enter(c)
    BY <2>2 DEF WorkerFreed, Enter, To, NoneAhead
  <2>3. CASE Statement(c)
    <3>1. \A d \in Callers : call'[d].n = call[d].n
      BY <2>3 DEF Statement
    <3>2. call[c].n <= call[c].n
      OBVIOUS
    <3>. QED BY <2>3, <3>1, <3>2 DEF Statement, NoneAhead
  <2>4. CASE Rollback(c) \/ Commit(c) \/ BackupCommit(c) \/ Leave(c) \/ Timeout(c)
    BY <2>4 DEF Rollback, Commit, BackupCommit, Leave, Timeout, To, NoneAhead
  <2>. QED BY <1>4, <2>1, <2>2, <2>3, <2>4 DEF Step
<1>. QED BY <1>1, <1>2, <1>3, <1>4 DEF TxNext

(* The rows of a call that another one does not concern: as they were, on  *)
(* disk or not; or committed by the other, with none of its own among them;*)
(* or rolled back, with none of its own either.                            *)
LEMMA OthersKnown ==
  ASSUME TxTypeOK, NEW d \in Callers, KnownOf(d), call'[d] = call[d],
         \/ RowsOf(d, pending)' = RowsOf(d, pending) /\ UNCHANGED stored
         \/ /\ call[d].at # "inside" /\ pending' = {}
            /\ stored' \in {stored, stored \cup pending}
  PROVE  KnownOf(d)'
BY DEF KnownOf, RowsOf, Upto

LEMMA RowsStep == TxInv /\ [TxNext]_tvars => RowsKnown'
<1> SUFFICES ASSUME TxInv, [TxNext]_tvars, NEW d \in Callers PROVE KnownOf(d)'
  BY DEF RowsKnown
<1>0. TxTypeOK /\ HolderInside /\ NotBegun /\ KnownOf(d) /\ NoneAhead
  BY DEF TxInv, RowsKnown
<1>1. CASE UNCHANGED tvars
  BY <1>0, <1>1 DEF tvars, KnownOf, RowsOf, Upto
<1>2. CASE Close
  <2>1. call[d].at # "inside"
    BY <1>0, <1>2 DEF Close, HolderInside, TxTypeOK
  <2>. QED BY <1>0, <1>2, <2>1, OthersKnown DEF Close
<1>3. ASSUME NEW c \in Callers, Call(c) PROVE KnownOf(d)'
  <2>1. CASE d # c
    BY <1>0, <1>3, <2>1, OthersKnown DEF Call, TxTypeOK, RowsOf
  <2>2. CASE d = c
    <3>1. call'[d].n = call[d].n + 1 /\ call'[d].at \in {"queued", "waiting"}
      BY <1>0, <1>3, <2>2 DEF Call, TxTypeOK
    <3>2. \A r \in stored \cup pending : r[1] = d => r[2] # call[d].n + 1
      BY <1>0 DEF NoneAhead, TxTypeOK
    <3>3. RowsOf(d, stored)' = {} /\ RowsOf(d, pending)' = {}
      BY <1>3, <3>1, <3>2 DEF RowsOf, Call
    <3>. QED BY <3>1, <3>3 DEF KnownOf
  <2>. QED BY <2>1, <2>2
<1>4. ASSUME NEW c \in Callers, Step(c) PROVE KnownOf(d)'
  <2>1. CASE d # c
    <3>1. CASE StartWorker(c) \/ Generated(c) \/ LockTimeout(c) \/ NotOpened(c)
      BY <1>0, <2>1, <3>1, OthersKnown
         DEF StartWorker, Generated, LockTimeout, NotOpened, To, TxTypeOK, RowsOf
    <3>2. CASE WorkerFreed(c) \/ Enter(c) \/ Leave(c) \/ Timeout(c)
      BY <1>0, <2>1, <3>2, OthersKnown
         DEF WorkerFreed, Enter, Leave, Timeout, To, TxTypeOK, RowsOf
    <3>3. CASE Statement(c)
      <4>1. RowsOf(d, pending)' = RowsOf(d, pending)
        BY <1>0, <2>1, <3>3 DEF Statement, RowsOf, TxTypeOK
      <4>. QED BY <1>0, <2>1, <3>3, <4>1, OthersKnown DEF Statement, TxTypeOK
    <3>4. CASE Rollback(c) \/ Commit(c) \/ BackupCommit(c)
      <4>1. call[d].at # "inside"
        BY <1>0, <2>1, <3>4 DEF Rollback, Commit, BackupCommit, At, HolderInside
      <4>. QED BY <1>0, <2>1, <3>4, <4>1, OthersKnown
               DEF Rollback, Commit, BackupCommit, To, TxTypeOK
    <3>. QED BY <1>4, <3>1, <3>2, <3>3, <3>4 DEF Step
  <2>2. CASE d = c
    <3>1. CASE StartWorker(c) \/ LockTimeout(c) \/ NotOpened(c)
      BY <1>0, <2>2, <3>1
         DEF StartWorker, LockTimeout, NotOpened, To, At, TxTypeOK, KnownOf, RowsOf
    <3>2. CASE Generated(c)
      BY <1>0, <2>2, <3>2 DEF Generated, To, At, TxTypeOK, NotBegun, KnownOf, RowsOf
    <3>3. CASE WorkerFreed(c)
      BY <1>0, <2>2, <3>3 DEF WorkerFreed, TxTypeOK, KnownOf, RowsOf, Upto
    <3>4. CASE Enter(c)
      <4>1. /\ call'[d].at = "inside" /\ call'[d].written = 0 /\ call'[d].n = call[d].n
            /\ UNCHANGED <<stored, pending>>
        BY <1>0, <2>2, <3>4 DEF Enter, To, At, TxTypeOK, NotBegun
      <4>2. RowsOf(d, stored)' = {} /\ RowsOf(d, pending)' = {}
        BY <1>0, <2>2, <3>4, <4>1 DEF Enter, At, KnownOf, RowsOf
      <4>3. Upto(d, call[d].written)' = {}
        BY <4>1 DEF Upto
      <4>. QED BY <4>1, <4>2, <4>3 DEF KnownOf
    <3>5. CASE Statement(c)
      <4> DEFINE n == call[d].n
                 w == call[d].written
      <4>1. /\ call'[d].at = "inside" /\ call'[d].written = w + 1 /\ call'[d].n = n
            /\ pending' = pending \cup {<<d, n, w + 1>>} /\ stored' = stored
        BY <1>0, <2>2, <3>5 DEF Statement, At, TxTypeOK
      <4>2. RowsOf(d, pending) = {<<d, n, i>> : i \in 1 .. w} /\ RowsOf(d, stored) = {}
        BY <1>0, <2>2, <3>5 DEF Statement, At, KnownOf, Upto
      <4>3. RowsOf(d, pending)' = RowsOf(d, pending) \cup {<<d, n, w + 1>>}
        BY <4>1 DEF RowsOf
      <4>4. w \in Nat
        BY <1>0 DEF TxTypeOK
      <4>5. Upto(d, call[d].written)' = {<<d, n, i>> : i \in 1 .. (w + 1)}
        BY <4>1 DEF Upto
      <4>6. 1 .. (w + 1) = (1 .. w) \cup {w + 1}
        BY <4>4
      <4>7. Upto(d, call[d].written)' = {<<d, n, i>> : i \in 1 .. w} \cup {<<d, n, w + 1>>}
        BY <4>5, <4>6
      <4>8. RowsOf(d, stored)' = {}
        BY <4>1, <4>2 DEF RowsOf
      <4>. QED BY <4>1, <4>2, <4>3, <4>7, <4>8 DEF KnownOf
    <3>6. CASE Commit(c)
      <4>1. /\ call'[d].at = "committed" /\ call'[d].n = call[d].n
            /\ call[d].at = "inside" /\ call[d].written = Statements
            /\ stored' = stored \cup pending /\ pending' = {}
        BY <1>0, <2>2, <3>6 DEF Commit, To, At, TxTypeOK
      <4>2. RowsOf(d, stored)' = RowsOf(d, pending)
        BY <1>0, <4>1 DEF KnownOf, RowsOf
      <4>3. RowsOf(d, pending) = Upto(d, Statements)
        BY <1>0, <4>1 DEF KnownOf
      <4>4. Upto(d, Statements)' = Upto(d, Statements)
        BY <4>1 DEF Upto
      <4>5. RowsOf(d, pending)' = {}
        BY <4>1 DEF RowsOf
      <4>. QED BY <4>1, <4>2, <4>3, <4>4, <4>5 DEF KnownOf
    <3>7. CASE BackupCommit(c)
      BY <1>0, <2>2, <3>7 DEF BackupCommit, To, At, TxTypeOK, KnownOf, RowsOf
    <3>8. CASE Rollback(c)
      BY <1>0, <2>2, <3>8 DEF Rollback, To, At, TxTypeOK, KnownOf, RowsOf
    <3>9. CASE Leave(c)
      BY <1>0, <2>2, <3>9 DEF Leave, To, At, TxTypeOK, KnownOf, RowsOf, Upto
    <3>10. CASE Timeout(c)
      BY <1>0, <2>2, <3>10 DEF Timeout, TxTypeOK, KnownOf
    <3>. QED BY <1>4, <3>1, <3>2, <3>3, <3>4, <3>5, <3>6, <3>7, <3>8, <3>9, <3>10 DEF Step
  <2>. QED BY <2>1, <2>2
<1>. QED BY <1>1, <1>2, <1>3, <1>4 DEF TxNext
-----------------------------------------------------------------------------
LEMMA TxInductive == TxSpec => []TxInv
<1>1. TxInv /\ [TxNext]_tvars => TxInv'
  BY TypesStep, HolderStep, NotBegunStep, NoneAheadStep, RowsStep DEF TxInv
<1>. QED BY TxInvInit, <1>1, PTL DEF TxSpec

(***************************************************************************)
(* However many calls share the connection's one transaction, and whichever*)
(* of them are cancelled half done: nothing of a call is on disk while it  *)
(* is inside, all of it once it says done, nothing of it anywhere once it  *)
(* says failed (cursor() in database.py, run_async in async_utils.py).     *)
(***************************************************************************)
THEOREM CallsAreAtomic == TxSpec => []CallsAtomic
BY TxInductive, TxInvCallsAtomic, PTL

(* The types of the calls, rows and lock.                                  *)
THEOREM CallTypes == TxSpec => []TxTypeOK
<1>1. TxInv => TxTypeOK
  BY DEF TxInv
<1>. QED BY TxInductive, <1>1, PTL

HIDE TxAssumption DEF TxAssumption
-----------------------------------------------------------------------------
(* The consolidation (Consolidation).                                      *)
USE ConsolidationAssumption DEF ConsolidationAssumption

(* Of the types, those the rest needs. *)
Types ==
  /\ spoken \in 0..TurnMax /\ last \in Turn \cup {NoTurn}
  /\ at \in Places /\ failed \in BOOLEAN /\ news \in BOOLEAN /\ fresh \in BOOLEAN
  /\ buffered \in Seq(Turn) /\ seenIds \subseteq Turn
  /\ handed \subseteq 1..TurnMax
  /\ extracted \in [1..TurnMax -> Nat]

(* Where the facts of the batch have not been sought yet, and after.       *)
Before == {"observe", "ask", "facts"}
After  == {"experience", "insight", "relationship", "prune", "finish"}

(* Until its facts are sought the batch is the buffer, and what is seen    *)
(* waits there.                                                            *)
BatchIsBuffer ==
  /\ at \in Before => batch = buffered /\ ~failed
  /\ \A t \in seenIds : t.id \in TurnIds(buffered)

(* A step that has not failed has extracted what the buffer holds.         *)
DoneOrFailed ==
  at \in After /\ ~failed => \A i \in TurnIds(buffered) : extracted[i] > 0

(* What waits has not been extracted, unless that has just been done.      *)
WaitsUndone ==
  \/ at \in After /\ ~failed
  \/ \A i \in TurnIds(buffered) : extracted[i] = 0

(* The latest turn of an exchange is new; none waits or is extracted unless*)
(* it was handed over, nor handed over before it is spoken.                *)
LastIsNew ==
  /\ handed \subseteq 1..spoken /\ last.id <= spoken
  /\ TurnIds(buffered) \subseteq handed
  /\ at \in {"asked", "replied"} => last.id \notin handed
  /\ \A i \in 1..TurnMax : extracted[i] > 0 => i \in handed

(* The flag speaks of this batch, as long as an insight may come of it.    *)
NewsIsFresh ==
  at \in Before \cup {"experience", "insight"} => (news => fresh)

ConsInv == /\ Types /\ BatchIsBuffer /\ DoneOrFailed /\ WaitsUndone /\ LastIsNew
        /\ NewsIsFresh /\ TurnsKept /\ ExtractedOnce
-----------------------------------------------------------------------------
LEMMA IdsEmpty == TurnIds(<<>>) = {}
BY DEF TurnIds

LEMMA IdsAppend ==
  ASSUME NEW s \in Seq(Turn), NEW t \in Turn
  PROVE  /\ Append(s, t) \in Seq(Turn)
         /\ TurnIds(Append(s, t)) = TurnIds(s) \cup {t.id}
<1>1. /\ Append(s, t) \in Seq(Turn) /\ Len(s) \in Nat
      /\ DOMAIN s = 1..Len(s) /\ DOMAIN Append(s, t) = 1..(Len(s) + 1)
      /\ \A i \in 1..Len(s) : Append(s, t)[i] = s[i]
      /\ Append(s, t)[Len(s) + 1] = t
  OBVIOUS
<1>2. 1..(Len(s) + 1) = 1..Len(s) \cup {Len(s) + 1}
  BY <1>1
<1>3. TurnIds(Append(s, t)) = {Append(s, t)[i].id : i \in 1..Len(s)} \cup {t.id}
  BY <1>1, <1>2 DEF TurnIds
<1>4. {Append(s, t)[i].id : i \in 1..Len(s)} = TurnIds(s)
  BY <1>1 DEF TurnIds
<1>. QED BY <1>1, <1>3, <1>4

LEMMA ConsInvInit == ConsInit => ConsInv
<1> SUFFICES ASSUME ConsInit PROVE ConsInv
  OBVIOUS
<1>1. spoken \in 0..TurnMax /\ last \in Turn \cup {NoTurn} /\ at \in Places
  BY DEF ConsInit, Places
<1>2. failed \in BOOLEAN /\ news \in BOOLEAN /\ fresh \in BOOLEAN
  BY DEF ConsInit
<1>3. buffered \in Seq(Turn) /\ seenIds \subseteq Turn /\ handed \subseteq 1..TurnMax
  BY DEF ConsInit
<1>4. extracted \in [1..TurnMax -> Nat]
  BY DEF ConsInit
<1>5. Types
  BY <1>1, <1>2, <1>3, <1>4 DEF Types
<1>. QED BY <1>5, IdsEmpty
         DEF ConsInit, NoTurn, ConsInv, BatchIsBuffer, DoneOrFailed, WaitsUndone, LastIsNew,
             NewsIsFresh, TurnsKept, ExtractedOnce, Before, After

(* A step of the conversation: at most new turns.                          *)
LEMMA SayingNew ==
  ASSUME Types, NEW n \in 1..2, NEW role \in Speakers, Saying(n, role)
  PROVE  /\ spoken' \in 0..TurnMax /\ last' \in Turn
         /\ last'.id = spoken' /\ spoken' > spoken
<1>1. spoken \in Nat /\ spoken' = spoken + n /\ spoken' <= TurnMax
  BY DEF Saying, Types
<1>2. last' = [id |-> spoken', role |-> role]
  BY <1>1 DEF Saying
<1>. QED BY <1>1, <1>2 DEF Turn

LEMMA TalkStep ==
  ASSUME ConsInv, UserTurn \/ ReplyTurn \/ Abort \/ Speak \/ Forget
  PROVE  ConsInv'
<1>0. Types /\ LastIsNew
  BY DEF ConsInv
<1>1. UNCHANGED <<buffered, seenIds, batch, failed, news, fresh, handed, gone, extracted>>
  BY DEF UserTurn, ReplyTurn, Abort, Speak, Forget, queue, task, told
<1>2. \/ spoken' = spoken /\ last' = last /\ at = "asked" /\ at' = "idle"
      \/ spoken' = spoken /\ last' = NoTurn /\ at = "idle" /\ at' = "idle"
      \/ /\ spoken' \in 0..TurnMax /\ last' \in Turn
         /\ last'.id = spoken' /\ spoken' > spoken
         /\ at \in {"idle", "asked", "replied"} /\ at' \in {"idle", "asked", "replied"}
  <2>1. CASE UserTurn \/ ReplyTurn
    BY <1>0, <2>1, SayingNew DEF UserTurn, ReplyTurn, Speakers
  <2>2. CASE Speak
    BY <1>0, <2>2, SayingNew DEF Speak, Speakers
  <2>3. CASE Abort \/ Forget
    BY <2>3 DEF Abort, Forget, talk
  <2>. QED BY <2>1, <2>2, <2>3
<1>3. Types'
  BY <1>0, <1>1, <1>2 DEF Types, Places
<1>4. LastIsNew'
  BY <1>0, <1>1, <1>2 DEF Types, LastIsNew, NoTurn
<1>5. at \notin Before \cup After /\ at' \notin Before \cup After
  BY <1>2 DEF Before, After
<1>. QED BY <1>1, <1>3, <1>4, <1>5
         DEF ConsInv, BatchIsBuffer, DoneOrFailed, WaitsUndone, NewsIsFresh, TurnsKept,
             ExtractedOnce, Before, After

(* A consolidation begins, of what the buffer then holds.                  *)
LEMMA StartKnown ==
  ASSUME NEW turns, Start(turns), buffered' = turns, failed \in BOOLEAN,
         news \in BOOLEAN
  PROVE  /\ at' \in {"prune", "observe"} /\ failed' = FALSE
         /\ at' = "prune" => TurnIds(buffered') = {}
         /\ at' = "observe" => batch' = buffered' /\ news' = FALSE
         /\ news' \in BOOLEAN /\ fresh' \in BOOLEAN
BY IdsEmpty DEF Start

LEMMA BeginStep ==
  ASSUME ConsInv, PostProcess \/ Save
  PROVE  ConsInv'
<1>0. Types /\ BatchIsBuffer /\ WaitsUndone /\ LastIsNew /\ TurnsKept /\ ExtractedOnce
  BY DEF ConsInv
<1>1. CASE Save
  <2>1. /\ Start(buffered) /\ at = "idle"
        /\ UNCHANGED <<spoken, last, buffered, seenIds, handed, gone, extracted>>
    BY <1>1 DEF Save, queue, told
  <2>2. /\ at' \in {"prune", "observe"} /\ failed' = FALSE
        /\ at' = "prune" => TurnIds(buffered) = {}
        /\ at' = "observe" => batch' = buffered /\ news' = FALSE
        /\ news' \in BOOLEAN /\ fresh' \in BOOLEAN
    BY <1>0, <2>1, StartKnown DEF Types
  <2>3. Types'
    BY <1>0, <2>1, <2>2 DEF Types, Places
  <2>4. \A i \in TurnIds(buffered) : extracted[i] = 0
    BY <1>0, <2>1 DEF WaitsUndone, After
  <2>. QED BY <1>0, <2>1, <2>2, <2>3, <2>4
           DEF ConsInv, BatchIsBuffer, DoneOrFailed, WaitsUndone, LastIsNew, NewsIsFresh,
               TurnsKept, ExtractedOnce, Before, After
<1>2. CASE PostProcess /\ at' = "idle"
  <2>1. at = "replied" /\ UNCHANGED <<spoken, last, buffered, seenIds, handed, gone,
                                      extracted, batch, failed, news, fresh>>
    BY <1>2, <1>0 DEF PostProcess, AddPending, Start, talk, task, Types
  <2>2. Types'
    BY <1>0, <1>2, <2>1 DEF Types, Places
  <2>. QED BY <1>0, <1>2, <2>1, <2>2
           DEF ConsInv, BatchIsBuffer, DoneOrFailed, WaitsUndone, LastIsNew, NewsIsFresh,
               TurnsKept, ExtractedOnce, Before, After
<1>3. CASE PostProcess /\ at' # "idle"
  <2>1. /\ AddPending(last) /\ Start(buffered') /\ at = "replied" /\ last # NoTurn
        /\ UNCHANGED <<spoken, last, gone, extracted>>
    BY <1>3 DEF PostProcess, talk
  <2>2. last \in Turn
    BY <1>0, <2>1 DEF Types
  <2>3. /\ buffered' \in Seq(Turn)
        /\ TurnIds(buffered') = TurnIds(buffered) \cup {last.id}
    BY <1>0, <2>1, <2>2, IdsAppend DEF AddPending, Types, BatchIsBuffer
  <2>4. /\ at' \in {"prune", "observe"} /\ failed' = FALSE
        /\ at' = "prune" => TurnIds(buffered') = {}
        /\ at' = "observe" => batch' = buffered' /\ news' = FALSE
        /\ news' \in BOOLEAN /\ fresh' \in BOOLEAN
    BY <1>0, <2>1, StartKnown DEF Types
  <2>5. handed' = handed \cup {last.id} /\ last.id \in 1..TurnMax
        /\ seenIds' = seenIds \cup {last}
    BY <2>1, <2>2 DEF AddPending, Turn
  <2>6. Types'
    BY <1>0, <2>1, <2>2, <2>3, <2>4, <2>5 DEF Types, Places
  <2>7. extracted[last.id] = 0
    BY <1>0, <2>1, <2>5 DEF LastIsNew, Types
  <2>8. \A i \in TurnIds(buffered') : extracted[i] = 0
    BY <1>0, <2>1, <2>3, <2>7 DEF WaitsUndone, After
  <2>9. BatchIsBuffer'
    BY <1>0, <2>3, <2>4, <2>5 DEF BatchIsBuffer, Before
  <2>10. last.id \in 1..spoken
    BY <1>0, <2>1, <2>2, <2>5 DEF LastIsNew, Types
  <2>11. LastIsNew'
    BY <1>0, <2>1, <2>3, <2>4, <2>5, <2>10 DEF LastIsNew
  <2>. QED BY <1>0, <2>1, <2>3, <2>4, <2>5, <2>6, <2>8, <2>9, <2>11
           DEF ConsInv, DoneOrFailed, WaitsUndone, NewsIsFresh,
               TurnsKept, ExtractedOnce, Before, After
<1>. QED BY <1>1, <1>2, <1>3
-----------------------------------------------------------------------------
(* The steps that do not touch the facts, and end in no new insight but by *)
(* Reflect.                                                                *)
LEMMA ElsewhereStep ==
  ASSUME ConsInv,
         \/ Observe \/ Ask \/ Experience \/ Reflect \/ Relate \/ Prune \/ Overturn
         \/ UNCHANGED consVars
  PROVE  ConsInv'
<1>0. Types /\ BatchIsBuffer /\ DoneOrFailed /\ WaitsUndone /\ LastIsNew /\ NewsIsFresh
      /\ TurnsKept /\ ExtractedOnce
  BY DEF ConsInv
<1>1. UNCHANGED <<spoken, last, buffered, seenIds, handed, gone, extracted>>
  BY DEF Observe, Ask, Experience, Reflect, Relate, Prune, Overturn, consVars, talk,
         queue, told
<1>2. /\ \/ at \in Before /\ at' \in Before /\ batch' = batch
         \/ at \in After /\ at' \in After
         \/ at \notin Before \cup After /\ at' = at
      /\ failed' = failed /\ at' \in Places
  BY <1>0 DEF Observe, Ask, Experience, Reflect, Relate, Prune, Overturn, consVars, task,
              Before, After, Types, Places
<1>3. news' \in BOOLEAN /\ fresh' \in BOOLEAN /\ NewsIsFresh'
  <2>1. CASE Experience
    <3>1. \/ news' = TRUE /\ fresh' = TRUE
          \/ at = "experience" /\ UNCHANGED <<news, fresh>>
      BY <2>1 DEF Experience
    <3>2. CASE news' = TRUE /\ fresh' = TRUE
      BY <3>2 DEF NewsIsFresh
    <3>3. CASE at = "experience" /\ UNCHANGED <<news, fresh>>
      BY <1>0, <3>3 DEF Types, NewsIsFresh
    <3>. QED BY <3>1, <3>2, <3>3
  <2>2. CASE Reflect \/ Relate \/ Prune
    BY <1>0, <2>2 DEF Reflect, Relate, Prune, task, Before, Types, NewsIsFresh
  <2>3. CASE Observe \/ Ask \/ Overturn \/ UNCHANGED consVars
    <3>1. /\ UNCHANGED <<news, fresh>>
          /\ at' # at => at \in Before
      BY <2>3 DEF Observe, Ask, Overturn, consVars, task, Before
    <3>. QED BY <1>0, <3>1 DEF Before, Types, NewsIsFresh
  <2>. QED BY <2>1, <2>2, <2>3
<1>4. Types'
  BY <1>0, <1>1, <1>2, <1>3 DEF Types
<1>. QED BY <1>0, <1>1, <1>2, <1>3, <1>4
         DEF ConsInv, BatchIsBuffer, DoneOrFailed, WaitsUndone, LastIsNew, TurnsKept,
             ExtractedOnce, Before, After

LEMMA FactsStep ==
  ASSUME ConsInv, Facts
  PROVE  ConsInv'
<1>0. Types /\ BatchIsBuffer /\ WaitsUndone /\ LastIsNew /\ NewsIsFresh
      /\ TurnsKept /\ ExtractedOnce
  BY DEF ConsInv
<1>1. /\ at = "facts" /\ at' = "experience" /\ batch = buffered /\ ~failed
      /\ UNCHANGED <<spoken, last, buffered, seenIds, handed, gone>>
  BY <1>0 DEF Facts, talk, queue, BatchIsBuffer, Before
<1>2. \A i \in TurnIds(buffered) : extracted[i] = 0
  BY <1>0, <1>1 DEF WaitsUndone, After
<1>3. NewsIsFresh' /\ news' \in BOOLEAN /\ fresh' \in BOOLEAN
  <2>1. CASE UNCHANGED <<news, fresh>>
    BY <1>0, <1>1, <2>1 DEF NewsIsFresh, Before, Types
  <2>2. CASE \E found \in {FALSE, UserSpeaks(batch)} :
               news' = (news \/ found) /\ fresh' = (fresh \/ found)
    <3>1. PICK found \in {FALSE, UserSpeaks(batch)} :
            news' = (news \/ found) /\ fresh' = (fresh \/ found)
      BY <2>2
    <3>2. found \in BOOLEAN
      BY DEF UserSpeaks
    <3>3. news => fresh
      BY <1>0, <1>1 DEF NewsIsFresh, Before
    <3>. QED BY <1>0, <3>1, <3>2, <3>3 DEF Types, NewsIsFresh
  <2>. QED BY <2>1, <2>2 DEF Facts
<1>4. CASE failed' = TRUE /\ UNCHANGED extracted
  <2>1. Types'
    BY <1>0, <1>1, <1>3, <1>4 DEF Types, Places
  <2>. QED BY <1>0, <1>1, <1>2, <1>3, <1>4, <2>1
           DEF ConsInv, BatchIsBuffer, DoneOrFailed, WaitsUndone, LastIsNew, TurnsKept,
               ExtractedOnce, Before, After
<1>5. CASE failed' = failed /\ extracted' = [i \in DOMAIN extracted |->
                                             IF i \in TurnIds(batch) THEN extracted[i] + 1
                                                                     ELSE extracted[i]]
  <2>1. \A i \in 1..TurnMax :
          extracted'[i] = IF i \in TurnIds(buffered) THEN 1 ELSE extracted[i]
    BY <1>0, <1>1, <1>2, <1>5 DEF Types
  <2>2. Types'
    BY <1>0, <1>1, <1>3, <1>5 DEF Types, Places
  <2>3. \A i \in TurnIds(buffered) : i \in 1..TurnMax
    BY <1>0 DEF Types, LastIsNew
  <2>4. LastIsNew'
    BY <1>0, <1>1, <2>1 DEF LastIsNew
  <2>5. BatchIsBuffer' /\ DoneOrFailed' /\ WaitsUndone'
    BY <1>0, <1>1, <1>5, <2>1, <2>3
       DEF BatchIsBuffer, DoneOrFailed, WaitsUndone, Before, After
  <2>6. TurnsKept' /\ ExtractedOnce'
    <3>1. \A i \in 1..TurnMax : extracted'[i] > 0 \/ extracted'[i] = extracted[i]
      BY <2>1
    <3>2. handed \subseteq 1..TurnMax
      BY <1>0 DEF Types
    <3>3. TurnsKept'
      BY <1>0, <1>1, <2>1, <3>1, <3>2 DEF TurnsKept
    <3>4. ExtractedOnce'
      BY <1>0, <2>1 DEF ExtractedOnce
    <3>. QED BY <3>3, <3>4
  <2>. QED BY <1>3, <2>2, <2>4, <2>5, <2>6 DEF ConsInv
<1>. QED BY <1>4, <1>5 DEF Facts

(* The end of a batch, and of the process.                                 *)
LEMMA EndStep ==
  ASSUME ConsInv, Finish \/ Restart
  PROVE  ConsInv'
<1>0. Types /\ BatchIsBuffer /\ DoneOrFailed /\ WaitsUndone /\ LastIsNew
      /\ TurnsKept /\ ExtractedOnce
  BY DEF ConsInv
<1>1. CASE Finish
  <2>1. /\ at = "finish" /\ at' = "idle"
        /\ UNCHANGED <<spoken, last, handed, gone, extracted, failed, news, fresh>>
    BY <1>1 DEF Finish, talk, task, told
  <2>2. \/ failed /\ UNCHANGED <<buffered, seenIds>>
        \/ ~failed /\ buffered' = <<>> /\ seenIds' = {}
    BY <1>1 DEF Finish
  <2>0. <<>> \in Seq(Turn)
    OBVIOUS
  <2>3. Types'
    BY <1>0, <2>0, <2>1, <2>2 DEF Types, Places
  <2>. QED BY <1>0, <2>1, <2>2, <2>3, IdsEmpty
           DEF ConsInv, BatchIsBuffer, DoneOrFailed, WaitsUndone, LastIsNew, NewsIsFresh,
               TurnsKept, ExtractedOnce, Before, After
<1>2. CASE Restart
  <2>1. /\ at' = "idle" /\ last' = NoTurn /\ buffered' = <<>> /\ seenIds' = {}
        /\ news' = FALSE /\ failed' = FALSE /\ fresh' = FALSE
        /\ gone' = gone \cup TurnIds(buffered)
        /\ UNCHANGED <<spoken, handed, extracted>>
    BY <1>2 DEF Restart
  <2>0. <<>> \in Seq(Turn)
    OBVIOUS
  <2>2. Types'
    BY <1>0, <2>0, <2>1 DEF Types, Places
  <2>. QED BY <1>0, <2>1, <2>2, IdsEmpty
           DEF ConsInv, Types, BatchIsBuffer, DoneOrFailed, WaitsUndone, LastIsNew,
               NewsIsFresh, NoTurn, TurnsKept, ExtractedOnce, Before, After
<1>. QED BY <1>1, <1>2

LEMMA ConsInductive == ConsSpec => []ConsInv
<1>1. ConsInv /\ [ConsNext]_consVars => ConsInv'
  BY TalkStep, BeginStep, ElsewhereStep, FactsStep, EndStep DEF ConsNext
<1>. QED BY ConsInvInit, <1>1, PTL DEF ConsSpec
-----------------------------------------------------------------------------
(* Whatever call, parse or write of a consolidation fails, and in whatever *)
(* order /save, restarts and consolidations come: what was handed over is  *)
(* extracted, waits, or was lost with the process (consolidate, step 8).   *)
THEOREM NothingForgotten == ConsSpec => []TurnsKept
<1>1. ConsInv => TurnsKept
  BY DEF ConsInv
<1>. QED BY ConsInductive, <1>1, PTL

(* ... and it is extracted once: no turn is handed over twice, and none is *)
(* left in the buffer once its facts are taken (consolidate, add_pending). *)
THEOREM ExtractedAtMostOnce == ConsSpec => []ExtractedOnce
<1>1. ConsInv => ExtractedOnce
  BY DEF ConsInv
<1>. QED BY ConsInductive, <1>1, PTL
-----------------------------------------------------------------------------
(* The insights stay a sequence, of whatever they are.                     *)
Image(s) == {s[n] : n \in DOMAIN s}
IsList(s) == s \in Seq(Image(s))

LEMMA ListOf ==
  ASSUME NEW S, NEW s \in Seq(S)
  PROVE  IsList(s)
BY DEF IsList, Image

LEMMA ListExcept ==
  ASSUME NEW s, IsList(s), NEW i, NEW x
  PROVE  IsList([s EXCEPT ![i] = x]) /\ Len([s EXCEPT ![i] = x]) = Len(s)
<1> DEFINE f == [n \in 1..Len(s) |-> IF n = i THEN x ELSE s[n]]
<1>1. Len(s) \in Nat /\ DOMAIN s = 1..Len(s) /\ \A n \in 1..Len(s) : s[n] \in Image(s)
  BY DEF IsList, Image
<1>2. [s EXCEPT ![i] = x] = f
  BY <1>1 DEF IsList
<1>3. f \in Seq(Image(s) \cup {x}) /\ Len(f) = Len(s)
  BY <1>1
<1>. QED BY <1>2, <1>3, ListOf

LEMMA ListAppend ==
  ASSUME NEW s, IsList(s), NEW x
  PROVE  IsList(Append(s, x))
<1>1. Append(s, x) \in Seq(Image(s) \cup {x})
  BY DEF IsList
<1>. QED BY <1>1, ListOf

LEMMA PrunedList ==
  ASSUME IsList(insights), PruneInsights
  PROVE  IsList(insights') /\ Len(insights') <= Len(insights)
<1> DEFINE size == IF Len(insights) > MaxInsights THEN MaxInsights ELSE Len(insights)
<1>1. size \in Nat /\ size <= Len(insights)
  BY DEF IsList
<1>2. PICK S, kept : insights' = [n \in 1..size |-> insights[kept[n]]]
  BY DEF PruneInsights
<1> DEFINE T == {insights[kept[n]] : n \in 1..size}
<1>3. insights' \in Seq(T) /\ Len(insights') = size
  <2> HIDE DEF size
  <2>. QED BY <1>1, <1>2
<1>. QED BY <1>1, <1>3, ListOf

LEMMA ListInit == ConsInit => IsList(insights)
<1>1. <<>> \in Seq({})
  OBVIOUS
<1>. QED BY <1>1, ListOf DEF ConsInit

(* Nothing but Reflect adds an insight.                                    *)
LEMMA ListStep ==
  ASSUME IsList(insights), [ConsNext]_consVars
  PROVE  IsList(insights') /\ (Len(insights') > Len(insights) => Reflect)
<1>1. Len(insights) \in Nat
  BY DEF IsList
<1>2. CASE UNCHANGED insights
  BY <1>1, <1>2
<1>3. CASE Overturn
  <2>1. PICK i \in DOMAIN insights : insights' = [insights EXCEPT ![i] = Suspected(insights[i])]
    BY <1>3 DEF Overturn
  <2> DEFINE t == [insights EXCEPT ![i] = Suspected(insights[i])]
  <2>2. IsList(t) /\ Len(t) = Len(insights)
    BY ListExcept, Zenon
  <2>. QED BY <1>1, <2>1, <2>2
<1>4. CASE Reflect
  BY <1>4, ListAppend DEF Reflect
<1>5. CASE Prune
  BY <1>1, <1>2, <1>5, PrunedList DEF Prune
<1>6. CASE UserTurn \/ ReplyTurn \/ Abort \/ Speak \/ Forget \/ PostProcess \/ Save
  BY <1>2, <1>6 DEF UserTurn, ReplyTurn, Abort, Speak, Forget, PostProcess, Save, store
<1>7. CASE Observe \/ Ask \/ Facts \/ Experience
  BY <1>2, <1>7 DEF Observe, Ask, Facts, Experience, store
<1>8. CASE Relate \/ Finish \/ Restart
  BY <1>2, <1>8 DEF Relate, Finish, Restart, store
<1>9. CASE UNCHANGED consVars
  BY <1>2, <1>9 DEF consVars, store
<1>. QED BY <1>3, <1>4, <1>5, <1>6, <1>7, <1>8, <1>9 DEF ConsNext

(* An insight of level 1 is drawn only from a batch that brought something *)
(* new, whatever batch the flag was last set for (_batch_new_info).        *)
THEOREM InsightsEarned == ConsSpec => InsightEarned
<1>1. IsList(insights) /\ [ConsNext]_consVars => IsList(insights)'
  BY ListStep
<1>2. ConsInv /\ IsList(insights) /\ [ConsNext]_consVars
        => (Len(insights') > Len(insights) /\ Level = 1 => fresh)
  <2> SUFFICES ASSUME ConsInv, IsList(insights), [ConsNext]_consVars,
                      Len(insights') > Len(insights), Level = 1
               PROVE  fresh
    OBVIOUS
  <2>1. Reflect
    BY ListStep
  <2>2. at = "insight" /\ news
    <3>1. insights' # insights
      OBVIOUS
    <3>. QED BY <2>1, <3>1 DEF Reflect
  <2>. QED BY <2>2 DEF ConsInv, NewsIsFresh
<1>3. ConsSpec => []IsList(insights)
  BY ListInit, <1>1, PTL DEF ConsSpec
<1>. QED BY ConsInductive, <1>2, <1>3, PTL DEF ConsSpec, InsightEarned

HIDE ConsolidationAssumption DEF ConsolidationAssumption
-----------------------------------------------------------------------------
(* The migrations (Migrations).                                            *)

USE MigAssumption DEF MigAssumption

LEMMA LegacyFile ==
  ASSUME NEW d \in Legacies
  PROVE  IsLegacy(d) /\ d \in Files
BY DEF IsLegacy

(* The image of a finite set under a function is finite.                   *)
LEMMA ImageFinite ==
  ASSUME NEW S, IsFiniteSet(S), NEW f
  PROVE  IsFiniteSet({f[x] : x \in S})
<1> DEFINE T == {f[x] : x \in S}
           g == [x \in S |-> f[x]]
<1>1. g \in Surjection(S, T)
  BY DEF Surjection
<1>. QED BY <1>1, FS_Surjection

LEMMA TableTypes ==
  ASSUME NEW S
  PROVE  /\ Absent \in Table(S) /\ {} \in Present(S)
         /\ \A t \in Table(S) : t # Absent => t \in Present(S)
         /\ \A t \in Present(S) : t \in Table(S) /\ t \subseteq S /\ IsFiniteSet(t)
         /\ \A t \in Table(S) : Rows(t) \in Present(S)
         /\ \A t \in SUBSET S : IsFiniteSet(t) => t \in Present(S)
<1>1. IsFiniteSet({})
  BY FS_EmptySet
<1>. QED BY <1>1 DEF Table, Present, Rows

LEMMA WithoutType ==
  ASSUME NEW S, NEW t, NEW sids
  PROVE  /\ t \in Present(S) => Without(t, sids) \in Present(S)
         /\ t \in Table(S) => Without(t, sids) \in Table(S)
<1>1. CASE t = Absent
  BY <1>1 DEF Without
<1>2. CASE t # Absent
  <2>1. Without(t, sids) \subseteq t
    BY <1>2 DEF Without
  <2>2. t \in Present(S) => Without(t, sids) \in Present(S)
    BY <2>1, FS_Subset DEF Present
  <2>. QED BY <1>2, <2>2, TableTypes
<1>. QED BY <1>1, <1>2

LEMMA MovedType ==
  ASSUME NEW S, NEW t, NEW from, NEW to,
         \A r \in S : [r EXCEPT !.sid = to] \in S
  PROVE  /\ t \in Present(S) => Moved(t, from, to) \in Present(S)
         /\ t \in Table(S) => Moved(t, from, to) \in Table(S)
<1>1. CASE t = Absent
  BY <1>1 DEF Moved
<1>2. CASE t # Absent
  <2> DEFINE f == [r \in S |-> IF r.sid = from THEN [r EXCEPT !.sid = to] ELSE r]
  <2>1. ASSUME t \in Present(S) PROVE Moved(t, from, to) \in Present(S)
    <3>1. t \subseteq S /\ IsFiniteSet(t)
      BY <2>1 DEF Present
    <3>2. Moved(t, from, to) = {f[r] : r \in t}
      BY <1>2, <3>1 DEF Moved
    <3>3. Moved(t, from, to) \subseteq S
      BY <1>2, <3>1 DEF Moved
    <3> HIDE DEF f
    <3>4. IsFiniteSet({f[r] : r \in t})
      BY <3>1, ImageFinite
    <3>. QED BY <3>2, <3>3, <3>4 DEF Present
  <2>. QED BY <1>2, <2>1, TableTypes
<1>. QED BY <1>1, <1>2

(* A file in which one column or table is another.                         *)
LEMMA FileWith ==
  ASSUME NEW d \in Files
  PROVE  /\ \A v \in Table(FactRows) :
              /\ [d EXCEPT !.user_facts = v] \in Files
              /\ [d EXCEPT !.old_user_facts = v] \in Files
              /\ [d EXCEPT !.user_facts_archive = v] \in Files
              /\ [d EXCEPT !.facts_v2 = v] \in Files
         /\ \A v \in Table(NoteRows) :
              /\ [d EXCEPT !.reflections = v] \in Files
              /\ [d EXCEPT !.reflections_archive = v] \in Files
         /\ \A v \in Table(Copies) : [d EXCEPT !.insights_v2 = v] \in Files
         /\ \A v \in Table(Scores) :
              /\ [d EXCEPT !.metrics = v] \in Files
              /\ [d EXCEPT !.old_metrics = v] \in Files
         /\ \A v \in Table(TurnRows) : [d EXCEPT !.turns = v] \in Files
         /\ \A v \in SUBSET (Sessions \X Roles) : [d EXCEPT !.roles = v] \in Files
         /\ \A v \in [Sessions -> Sessions \cup {Absent}] : [d EXCEPT !.home = v] \in Files
         /\ \A v \in BOOLEAN : [d EXCEPT !.session_column = v] \in Files
         /\ \A v \in 0 .. CURRENT_SCHEMA_VERSION : [d EXCEPT !.ver = v] \in Files
         /\ \A v \in {"key", "session_key"} : [d EXCEPT !.uniq = v] \in Files
         /\ \A v \in {"dimension", "session_dimension"} : [d EXCEPT !.pk = v] \in Files
BY DEF Files

LEMMA FileParts ==
  ASSUME NEW d \in Files
  PROVE  /\ d.user_facts \in Table(FactRows) /\ d.old_user_facts \in Table(FactRows)
         /\ d.user_facts_archive \in Table(FactRows) /\ d.facts_v2 \in Table(FactRows)
         /\ d.reflections \in Table(NoteRows) /\ d.reflections_archive \in Table(NoteRows)
         /\ d.insights_v2 \in Table(Copies)
         /\ d.metrics \in Table(Scores) /\ d.old_metrics \in Table(Scores)
         /\ d.turns \in Table(TurnRows) /\ d.roles \in SUBSET (Sessions \X Roles)
         /\ d.home \in [Sessions -> Sessions \cup {Absent}]
BY DEF Files

LEMMA CreatedType ==
  ASSUME NEW d \in Files
  PROVE  AfterCreate(d) \in Files
<1> DEFINE metrics == IF d.metrics = Absent THEN {Defaults}
                      ELSE IF \E s \in d.metrics : s.sid = "default" THEN d.metrics
                      ELSE IF d.pk = "dimension" /\ d.metrics # {} THEN d.metrics
                      ELSE d.metrics \cup {Defaults}
           pk == IF d.metrics = Absent THEN "session_dimension" ELSE d.pk
           col == IF d.metrics = Absent THEN TRUE ELSE d.session_column
<1>1. /\ Rows(d.facts_v2) \in Table(FactRows) /\ Rows(d.insights_v2) \in Table(Copies)
      /\ Rows(d.turns) \in Table(TurnRows)
  BY FileParts, TableTypes
<1>2. metrics \in Table(Scores)
  <2>1. Defaults \in Scores
    BY DEF Defaults, Scores
  <2>2. {Defaults} \in Present(Scores)
    BY <2>1, FS_Singleton DEF Present
  <2>3. d.metrics # Absent => d.metrics \cup {Defaults} \in Present(Scores)
    <3>1. d.metrics # Absent => d.metrics \subseteq Scores /\ IsFiniteSet(d.metrics)
      BY FileParts, TableTypes
    <3>. QED BY <2>1, <3>1, FS_AddElement DEF Present
  <2>4. d.metrics \in Table(Scores)
    BY FileParts
  <2>. QED BY <2>2, <2>3, <2>4, TableTypes
<1>3. pk \in {"dimension", "session_dimension"} /\ col \in BOOLEAN
  BY DEF Files
<1> DEFINE half == [[[d EXCEPT !.facts_v2 = Rows(d.facts_v2)]
                      EXCEPT !.insights_v2 = Rows(d.insights_v2)]
                      EXCEPT !.turns = Rows(d.turns)]
<1> DEFINE whole == [[[half EXCEPT !.metrics = metrics]
                       EXCEPT !.pk = pk]
                       EXCEPT !.session_column = col]
<1>4. AfterCreate(d) = whole
  BY DEF AfterCreate, Files
<1>5. half \in Files
  BY <1>1, FileWith
<1> HIDE DEF half
<1> HIDE DEF metrics, pk, col
<1>6. whole \in Files
  BY <1>1, <1>2, <1>3, <1>5, FileWith
<1> HIDE DEF whole
<1>. QED BY <1>4, <1>6

LEMMA MoveType ==
  ASSUME NEW d \in Files, NEW from, NEW to \in Sessions
  PROVE  MoveSession(d, from, to) \in Files
<1>1. /\ \A r \in FactRows : [r EXCEPT !.sid = to] \in FactRows
      /\ \A r \in NoteRows : [r EXCEPT !.sid = to] \in NoteRows
      /\ \A r \in Copies : [r EXCEPT !.sid = to] \in Copies
      /\ \A r \in TurnRows : [r EXCEPT !.sid = to] \in TurnRows
      /\ \A r \in Scores : [r EXCEPT !.sid = to] \in Scores
  BY DEF FactRows, NoteRows, Copies, TurnRows, Scores
<1>2. /\ Moved(d.user_facts, from, to) \in Table(FactRows)
      /\ Moved(d.facts_v2, from, to) \in Table(FactRows)
      /\ Moved(d.reflections, from, to) \in Table(NoteRows)
      /\ Moved(d.insights_v2, from, to) \in Table(Copies)
      /\ Moved(d.turns, from, to) \in Table(TurnRows)
  BY <1>1, FileParts, MovedType
<1>3. Moved(Without(d.metrics, {to}), from, to) \in Table(Scores)
  BY <1>1, FileParts, WithoutType, MovedType
<1>h. Rehomed(d.home, from, to) \in [Sessions -> Sessions \cup {Absent}]
  BY FileParts DEF Rehomed
<1> DEFINE half == [[[[d EXCEPT !.home = Rehomed(d.home, from, to)]
                      EXCEPT !.user_facts = Moved(d.user_facts, from, to)]
                      EXCEPT !.facts_v2 = Moved(d.facts_v2, from, to)]
                      EXCEPT !.reflections = Moved(d.reflections, from, to)]
<1> DEFINE whole == [[[half EXCEPT !.insights_v2 = Moved(d.insights_v2, from, to)]
                       EXCEPT !.turns = Moved(d.turns, from, to)]
                       EXCEPT !.metrics = Moved(Without(d.metrics, {to}), from, to)]
<1>4. MoveSession(d, from, to) = whole
  BY DEF MoveSession, Files
<1>5. half \in Files
  BY <1>2, <1>h, FileWith
<1> HIDE DEF half
<1>6. whole \in Files
  BY <1>2, <1>3, <1>5, FileWith
<1> HIDE DEF whole
<1>. QED BY <1>4, <1>6

LEMMA DropType ==
  ASSUME NEW d \in Files, NEW sids
  PROVE  DropSessions(d, sids) \in Files
<1>1. /\ Without(d.user_facts, sids) \in Table(FactRows)
      /\ Without(d.facts_v2, sids) \in Table(FactRows)
      /\ Without(d.reflections, sids) \in Table(NoteRows)
      /\ Without(d.insights_v2, sids) \in Table(Copies)
      /\ Without(d.turns, sids) \in Table(TurnRows)
      /\ Without(d.metrics, sids) \in Table(Scores)
  BY FileParts, WithoutType
<1> DEFINE roles == {p \in d.roles : p[1] \notin sids}
           home == [s \in Sessions |-> IF d.home[s] \in sids THEN Absent ELSE d.home[s]]
<1>2. roles \in SUBSET (Sessions \X Roles) /\ home \in [Sessions -> Sessions \cup {Absent}]
  BY FileParts
<1> DEFINE half == [[[[d EXCEPT !.home = home]
                      EXCEPT !.user_facts = Without(d.user_facts, sids)]
                      EXCEPT !.facts_v2 = Without(d.facts_v2, sids)]
                      EXCEPT !.reflections = Without(d.reflections, sids)]
<1> DEFINE whole == [[[[half EXCEPT !.insights_v2 = Without(d.insights_v2, sids)]
                        EXCEPT !.turns = Without(d.turns, sids)]
                        EXCEPT !.metrics = Without(d.metrics, sids)]
                        EXCEPT !.roles = roles]
<1>3. DropSessions(d, sids) = whole
  BY DEF DropSessions, Files
<1> HIDE DEF home
<1>4. half \in Files
  BY <1>1, <1>2, FileWith
<1> HIDE DEF half
<1> HIDE DEF roles
<1>5. whole \in Files
  BY <1>1, <1>2, <1>4, FileWith
<1> HIDE DEF whole
<1>. QED BY <1>3, <1>5

LEMMA RenameType ==
  ASSUME NEW d \in Files, NEW from, NEW rid \in Roles
  PROVE  RenameRole(d, from, rid) \in Files
<1> DEFINE roles == IF \E p \in d.roles : p[1] = rid THEN d.roles \ {<<from, rid>>}
                    ELSE (d.roles \ {<<from, rid>>}) \cup {<<rid, rid>>}
<1>1. roles \in SUBSET (Sessions \X Roles)
  BY FileParts
<1>2. RenameRole(d, from, rid) = [d EXCEPT !.roles = roles]
  BY DEF RenameRole, Files
<1> HIDE DEF roles
<1>. QED BY <1>1, <1>2, FileWith

LEMMA RotateKeeps ==
  ASSUME NEW s \in Seq(Files)
  PROVE  /\ Rotate(s) \in Seq(Files) /\ Len(Rotate(s)) <= KeepMax
         /\ Len(s) <= KeepMax => Rotate(s) = s
<1>1. CASE Len(s) <= KeepMax
  BY <1>1 DEF Rotate, Newest
<1>2. CASE ~(Len(s) <= KeepMax)
  <2>1. Rotate(s) = SubSeq(s, Len(s) - KeepMax + 1, Len(s))
    BY <1>2 DEF Rotate, Newest
  <2>2. Len(s) \in Nat /\ Len(s) - KeepMax + 1 \in Nat /\ Len(s) - KeepMax + 1 >= 1
    BY <1>2
  <2>. QED BY <1>2, <2>1, <2>2
<1>. QED BY <1>1, <1>2

(* From the first script on, the new tables are there, and a script that   *)
(* copies a table finds it.                                                *)
Prepared == Steps \ {"closed", "backup", "create", "failed"}

TablesThere ==
  /\ pc \in Prepared => /\ work.facts_v2 \in Present(FactRows)
                        /\ work.insights_v2 \in Present(Copies)
  /\ pc = "v4_copy" => work.user_facts \in Present(FactRows)
  /\ pc = "v5_copy" => work.reflections \in Present(NoteRows)

(* The file after a step, for what the connection sees.                    *)
Seen(d) == work' = d /\ disk' \in {disk, d}

LEMMA RebuildStep ==
  ASSUME work \in Files,
         \/ AddColumns \/ UkRename \/ UkCreate \/ UkCopy \/ UkDrop
         \/ RmRename \/ RmCreate \/ RmCopy \/ RmDrop
  PROVE  /\ work' \in Files /\ disk' \in {disk, work'}
         /\ work'.facts_v2 = work.facts_v2 /\ work'.insights_v2 = work.insights_v2
<1> USE FileParts DEF Autocommit
<1>0. \A S : Absent \in Table(S) /\ {} \in Table(S)
  BY TableTypes
<1> DEFINE Spared(d) == d.facts_v2 = work.facts_v2 /\ d.insights_v2 = work.insights_v2
<1>1. CASE AddColumns
  <2>1. [work EXCEPT !.session_column = TRUE] \in Files
    BY FileWith
  <2>. QED BY <1>1, <2>1 DEF AddColumns, Files
<1>2. CASE UkRename
  <2> DEFINE d == [[work EXCEPT !.old_user_facts = work.user_facts] EXCEPT !.user_facts = Absent]
  <2>1. d \in Files
    BY <1>0, FileWith
  <2>3. Spared(d)
    BY DEF Files
  <2>2. \/ work' = d /\ disk' = d
        \/ work' = work /\ disk' = disk
    BY <1>2 DEF UkRename
  <2> HIDE DEF d
  <2>. QED BY <2>1, <2>2, <2>3
<1>3. CASE UkCreate
  <2> DEFINE d == [[work EXCEPT !.user_facts = {}] EXCEPT !.uniq = "session_key"]
  <2>1. d \in Files
    BY <1>0, FileWith
  <2>3. Spared(d)
    BY DEF Files
  <2>2. work' = d /\ disk' = d
    BY <1>3 DEF UkCreate
  <2> HIDE DEF d
  <2>. QED BY <2>1, <2>2, <2>3
<1>4. CASE UkCopy
  <2> DEFINE d == [work EXCEPT !.user_facts = work.old_user_facts]
  <2>1. d \in Files
    BY <1>0, FileWith
  <2>3. Spared(d)
    BY DEF Files
  <2>2. work' = d /\ disk' = d
    BY <1>4 DEF UkCopy
  <2> HIDE DEF d
  <2>. QED BY <2>1, <2>2, <2>3
<1>5. CASE UkDrop
  <2> DEFINE d == [work EXCEPT !.old_user_facts = Absent]
  <2>1. d \in Files
    BY <1>0, FileWith
  <2>3. Spared(d)
    BY DEF Files
  <2>2. work' = d /\ disk' = d
    BY <1>5 DEF UkDrop
  <2> HIDE DEF d
  <2>. QED BY <2>1, <2>2, <2>3
<1>6. CASE RmRename
  <2> DEFINE d == [[work EXCEPT !.old_metrics = work.metrics] EXCEPT !.metrics = Absent]
  <2>1. d \in Files
    BY <1>0, FileWith
  <2>3. Spared(d)
    BY DEF Files
  <2>2. \/ work' = d /\ disk' = d
        \/ work' = work /\ disk' = disk
    BY <1>6 DEF RmRename
  <2> HIDE DEF d
  <2>. QED BY <2>1, <2>2, <2>3
<1>7. CASE RmCreate
  <2> DEFINE d == [[work EXCEPT !.metrics = {}] EXCEPT !.pk = "session_dimension"]
  <2>1. d \in Files
    BY <1>0, FileWith
  <2>3. Spared(d)
    BY DEF Files
  <2>2. work' = d /\ disk' = d
    BY <1>7 DEF RmCreate
  <2> HIDE DEF d
  <2>. QED BY <2>1, <2>2, <2>3
<1>8. CASE RmCopy
  <2> DEFINE d == [work EXCEPT !.metrics = work.old_metrics]
  <2>1. d \in Files
    BY <1>0, FileWith
  <2>3. Spared(d)
    BY DEF Files
  <2>2. work' = d /\ disk' = d
    BY <1>8 DEF RmCopy
  <2> HIDE DEF d
  <2>. QED BY <2>1, <2>2, <2>3
<1>9. CASE RmDrop
  <2> DEFINE d == [work EXCEPT !.old_metrics = Absent]
  <2>1. d \in Files
    BY <1>0, FileWith
  <2>3. Spared(d)
    BY DEF Files
  <2>2. work' = d /\ disk' = d
    BY <1>9 DEF RmDrop
  <2> HIDE DEF d
  <2>. QED BY <2>1, <2>2, <2>3
<1>. QED BY <1>1, <1>2, <1>3, <1>4, <1>5, <1>6, <1>7, <1>8, <1>9

(* What the merge of one role leaves, before it is written down.           *)
MergedRole(d, rid, canonical) ==
  DropSessions(RenameRole(MoveSession(d, canonical, rid), canonical, rid),
               OldSessions(d, rid) \ {canonical})

LEMMA MergedType ==
  ASSUME NEW d \in Files, NEW rid \in Roles, NEW canonical,
         d.facts_v2 \in Present(FactRows), d.insights_v2 \in Present(Copies)
  PROVE  /\ MergedRole(d, rid, canonical) \in Files
         /\ MergedRole(d, rid, canonical).facts_v2 \in Present(FactRows)
         /\ MergedRole(d, rid, canonical).insights_v2 \in Present(Copies)
<1> DEFINE m == MoveSession(d, canonical, rid)
           n == RenameRole(m, canonical, rid)
           sids == OldSessions(d, rid) \ {canonical}
<1>0. rid \in Sessions
  OBVIOUS
<1>1. m \in Files
  BY <1>0, MoveType
<1>2. /\ m.facts_v2 = Moved(d.facts_v2, canonical, rid)
      /\ m.insights_v2 = Moved(d.insights_v2, canonical, rid)
  BY DEF MoveSession, Files
<1>3. /\ \A r \in FactRows : [r EXCEPT !.sid = rid] \in FactRows
      /\ \A r \in Copies : [r EXCEPT !.sid = rid] \in Copies
  BY <1>0 DEF FactRows, Copies
<1>4. m.facts_v2 \in Present(FactRows) /\ m.insights_v2 \in Present(Copies)
  BY <1>2, <1>3, MovedType
<1> HIDE DEF m
<1>5. n \in Files
  BY <1>1, RenameType
<1>6. n.facts_v2 = m.facts_v2 /\ n.insights_v2 = m.insights_v2
  BY <1>1 DEF RenameRole, Files
<1> HIDE DEF n
<1>7. DropSessions(n, sids) \in Files
  BY <1>5, DropType
<1>8. /\ DropSessions(n, sids).facts_v2 = Without(n.facts_v2, sids)
      /\ DropSessions(n, sids).insights_v2 = Without(n.insights_v2, sids)
  BY <1>5 DEF DropSessions, Files
<1> HIDE DEF sids
<1>9. /\ DropSessions(n, sids).facts_v2 \in Present(FactRows)
      /\ DropSessions(n, sids).insights_v2 \in Present(Copies)
  BY <1>4, <1>6, <1>8, WithoutType
<1>. QED BY <1>7, <1>9 DEF MergedRole, m, n, sids

LEMMA NextThere ==
  ASSUME NEW d \in Files
  PROVE  /\ NextScript(d) \in {"v4_copy", "v5_copy", "v6_facts", "stamp"}
         /\ NextScript(d) = "v4_copy" => d.user_facts \in Present(FactRows)
         /\ NextScript(d) = "v5_copy" => d.reflections \in Present(NoteRows)
<1>1. d.user_facts \in Table(FactRows) /\ d.reflections \in Table(NoteRows)
  BY FileParts
<1>. QED BY <1>1, TableTypes DEF NextScript, V4Due, V5Due

LEMMA FactsCopied ==
  ASSUME NEW d \in Files, d.facts_v2 \in Present(FactRows),
         d.user_facts \in Present(FactRows)
  PROVE  d.facts_v2 \cup Unclaimed(d.user_facts, d.facts_v2) \in Present(FactRows)
<1>1. Unclaimed(d.user_facts, d.facts_v2) \subseteq d.user_facts
  BY DEF Unclaimed
<1>2. IsFiniteSet(Unclaimed(d.user_facts, d.facts_v2))
  BY <1>1, FS_Subset DEF Present
<1>3. IsFiniteSet(d.facts_v2 \cup Unclaimed(d.user_facts, d.facts_v2))
  BY <1>2, FS_Union DEF Present
<1>. QED BY <1>1, <1>3 DEF Present

LEMMA NotesCopied ==
  ASSUME NEW d \in Files, d.insights_v2 \in Present(Copies),
         d.reflections \in Present(NoteRows)
  PROVE  d.insights_v2 \cup {CopyOf(r, d.insights_v2) : r \in d.reflections} \in Present(Copies)
<1> DEFINE f == [r \in NoteRows |-> CopyOf(r, d.insights_v2)]
           T == {CopyOf(r, d.insights_v2) : r \in d.reflections}
<1>1. d.reflections \subseteq NoteRows /\ IsFiniteSet(d.reflections)
  BY DEF Present
<1>2. T = {f[r] : r \in d.reflections}
  BY <1>1
<1>3. \A r \in NoteRows : CopyOf(r, d.insights_v2) \in Copies
  <2> TAKE r \in NoteRows
  <2> DEFINE same == {n \in d.insights_v2 : n.id = r.id}
  <2>1. same \subseteq d.insights_v2 /\ IsFiniteSet(d.insights_v2)
    BY DEF Present
  <2>2. IsFiniteSet(same)
    BY <2>1, FS_Subset
  <2> HIDE DEF same
  <2>3. Cardinality(same) \in Nat
    BY <2>2, FS_CardinalityType
  <2>4. CopyOf(r, d.insights_v2) = [id |-> r.id, sid |-> r.sid, copy |-> Cardinality(same)]
    BY DEF CopyOf, same
  <2>. QED BY <2>3, <2>4 DEF Copies, NoteRows
<1>4. T \subseteq Copies
  BY <1>1, <1>3
<1> HIDE DEF f
<1>5. IsFiniteSet(T)
  BY <1>1, <1>2, ImageFinite
<1> HIDE DEF T
<1>6. IsFiniteSet(d.insights_v2 \cup T)
  BY <1>5, FS_Union DEF Present
<1>. QED BY <1>4, <1>6 DEF T, Present

LEMMA ScriptStep ==
  ASSUME work \in Files, TablesThere,
         V4Copy \/ V4Rename \/ V5Copy \/ V5Rename \/ V6DropFacts \/ V6DropReflections
  PROVE  /\ work' \in Files /\ disk' = work' /\ Kept
         /\ work'.facts_v2 \in Present(FactRows) /\ work'.insights_v2 \in Present(Copies)
         /\ pc' = "v4_copy" => work'.user_facts \in Present(FactRows)
         /\ pc' = "v5_copy" => work'.reflections \in Present(NoteRows)
         /\ pc' \in {"v4_rename", "v5_rename", "v4_copy", "v5_copy", "v6_facts",
                     "v6_reflections", "stamp"}
<1> USE DEF Autocommit, Goto
<1>0. \A S : Absent \in Table(S) /\ {} \in Table(S) /\ Present(S) \subseteq Table(S)
  BY TableTypes
<1>a. work.facts_v2 \in Present(FactRows) /\ work.insights_v2 \in Present(Copies)
  BY DEF TablesThere, Prepared, Steps, V4Copy, V4Rename, V5Copy, V5Rename, V6DropFacts,
         V6DropReflections
<1>b. work.user_facts \in Table(FactRows) /\ work.reflections \in Table(NoteRows)
  BY FileParts
<1>1. CASE V4Copy
  <2>1. work.user_facts \in Present(FactRows)
    BY <1>1 DEF TablesThere, V4Copy
  <2> DEFINE all == work.facts_v2 \cup Unclaimed(work.user_facts, work.facts_v2)
             d == [work EXCEPT !.facts_v2 = all]
  <2>2. all \in Present(FactRows)
    BY <1>a, <2>1, FactsCopied
  <2>3. work' = d /\ disk' = d /\ pc' = "v4_rename" /\ Kept
    BY <1>1 DEF V4Copy
  <2> HIDE DEF all
  <2>4. d \in Files
    BY <1>0, <2>2, FileWith
  <2>5. d.facts_v2 = all /\ d.insights_v2 = work.insights_v2
    BY DEF Files
  <2> HIDE DEF d
  <2>. QED BY <1>a, <2>2, <2>3, <2>4, <2>5
<1>2. CASE V4Rename
  <2> DEFINE d == [[work EXCEPT !.user_facts_archive = work.user_facts]
                     EXCEPT !.user_facts = Absent]
  <2>1. work' = d /\ disk' = d /\ pc' = NextScript(d) /\ Kept
    BY <1>2 DEF V4Rename
  <2>2. d \in Files
    BY <1>0, <1>b, FileWith
  <2>3. d.facts_v2 = work.facts_v2 /\ d.insights_v2 = work.insights_v2
    BY DEF Files
  <2> HIDE DEF d
  <2>. QED BY <1>a, <2>1, <2>2, <2>3, NextThere
<1>3. CASE V5Copy
  <2>1. work.reflections \in Present(NoteRows)
    BY <1>3 DEF TablesThere, V5Copy
  <2> DEFINE all == work.insights_v2 \cup {CopyOf(r, work.insights_v2) : r \in work.reflections}
             d == [work EXCEPT !.insights_v2 = all]
  <2>2. all \in Present(Copies)
    BY <1>a, <2>1, NotesCopied
  <2>3. work' = d /\ disk' = d /\ pc' = "v5_rename" /\ Kept
    BY <1>3 DEF V5Copy
  <2> HIDE DEF all
  <2>4. d \in Files
    BY <1>0, <2>2, FileWith
  <2>5. d.insights_v2 = all /\ d.facts_v2 = work.facts_v2
    BY DEF Files
  <2> HIDE DEF d
  <2>. QED BY <1>a, <2>2, <2>3, <2>4, <2>5
<1>4. CASE V5Rename
  <2> DEFINE d == [[work EXCEPT !.reflections_archive = work.reflections]
                     EXCEPT !.reflections = Absent]
  <2>1. work' = d /\ disk' = d /\ pc' = NextScript(d) /\ Kept
    BY <1>4 DEF V5Rename
  <2>2. d \in Files
    BY <1>0, <1>b, FileWith
  <2>3. d.facts_v2 = work.facts_v2 /\ d.insights_v2 = work.insights_v2
    BY DEF Files
  <2> HIDE DEF d
  <2>. QED BY <1>a, <2>1, <2>2, <2>3, NextThere
<1>5. CASE V6DropFacts
  <2> DEFINE d == [work EXCEPT !.user_facts_archive = Absent]
  <2>1. work' = d /\ disk' = d /\ pc' = "v6_reflections" /\ Kept
    BY <1>5 DEF V6DropFacts
  <2>2. d \in Files
    BY <1>0, FileWith
  <2>3. d.facts_v2 = work.facts_v2 /\ d.insights_v2 = work.insights_v2
    BY DEF Files
  <2> HIDE DEF d
  <2>. QED BY <1>a, <2>1, <2>2, <2>3
<1>6. CASE V6DropReflections
  <2> DEFINE d == [work EXCEPT !.reflections_archive = Absent]
  <2>1. work' = d /\ disk' = d /\ pc' = "stamp" /\ Kept
    BY <1>6 DEF V6DropReflections
  <2>2. d \in Files
    BY <1>0, FileWith
  <2>3. d.facts_v2 = work.facts_v2 /\ d.insights_v2 = work.insights_v2
    BY DEF Files
  <2> HIDE DEF d
  <2>. QED BY <1>a, <2>1, <2>2, <2>3
<1>. QED BY <1>1, <1>2, <1>3, <1>4, <1>5, <1>6

LEMMA OpeningStep ==
  ASSUME work \in Files, disk \in Files, Open \/ Backup \/ CreateTables
  PROVE  /\ work' \in Files /\ disk' \in Files
         /\ pc' \in {"backup", "create", "columns", "failed"}
         /\ pc' = "columns" => /\ work'.facts_v2 \in Present(FactRows)
                               /\ work'.insights_v2 \in Present(Copies)
         /\ disk' \in {disk, work'}
         /\ seen' \in {seen, work.ver}
<1>1. CASE Open \/ Backup
  BY <1>1 DEF Open, Backup, Goto, Kept
<1>2. CASE CreateTables
  <2>1. CASE pc' = "failed"
    BY <1>2, <2>1 DEF CreateTables, Goto, Kept, Autocommit
  <2>2. CASE pc' # "failed"
    <3>1. /\ work' = AfterCreate(work) /\ disk' = AfterCreate(work) /\ pc' = "columns"
          /\ seen' = work.ver
      BY <1>2, <2>2 DEF CreateTables, Goto, Autocommit
    <3>2. AfterCreate(work) \in Files
      BY CreatedType
    <3>3. /\ AfterCreate(work).facts_v2 = Rows(work.facts_v2)
          /\ AfterCreate(work).insights_v2 = Rows(work.insights_v2)
      BY DEF AfterCreate, Files
    <3>4. Rows(work.facts_v2) \in Present(FactRows) /\ Rows(work.insights_v2) \in Present(Copies)
      BY FileParts, TableTypes
    <3>. QED BY <3>1, <3>2, <3>3, <3>4
  <2>. QED BY <2>1, <2>2
<1>. QED BY <1>1, <1>2

MergeOf(rid, canonical) ==
  IF Collide(work.user_facts, canonical, rid) \/ Collide(work.facts_v2, canonical, rid)
  THEN /\ Goto("failed") /\ work' = disk
       /\ UNCHANGED disk /\ Kept
  ELSE /\ Uncommitted(MergedRole(work, rid, canonical))
       /\ UNCHANGED <<pc, seen, backups, crashes, orig, unsaved>>

LEMMA RoleStep ==
  ASSUME work \in Files, disk \in Files, TablesThere,
         SeedRoles \/ MergeRole \/ Merged \/ Flush
  PROVE  /\ work' \in Files /\ disk' \in {disk, work}
         /\ pc' \in {"merge", "failed", "flush", "v4_copy", "v5_copy", "v6_facts", "stamp"}
         /\ pc' # "failed" => /\ work'.facts_v2 \in Present(FactRows)
                              /\ work'.insights_v2 \in Present(Copies)
         /\ pc' = "v4_copy" => work'.user_facts \in Present(FactRows)
         /\ pc' = "v5_copy" => work'.reflections \in Present(NoteRows)
         /\ UNCHANGED <<seen, backups, crashes, orig, unsaved>>
<1>a. work.facts_v2 \in Present(FactRows) /\ work.insights_v2 \in Present(Copies)
  BY DEF TablesThere, Prepared, Steps, SeedRoles, MergeRole, Merged, Flush
<1>1. CASE SeedRoles
  <2>1. CASE work.roles = {}
    <3>1. PICK rid \in Roles : work' = [work EXCEPT !.roles = {<<"default", rid>>}]
      BY <1>1, <2>1 DEF SeedRoles, Uncommitted
    <3> DEFINE roles == {<<"default", rid>>}
               d == [work EXCEPT !.roles = roles]
    <3>2. roles \in SUBSET (Sessions \X Roles)
      OBVIOUS
    <3>3. d.facts_v2 = work.facts_v2 /\ d.insights_v2 = work.insights_v2
      BY DEF Files
    <3>4. work' = d
      BY <3>1
    <3> HIDE DEF roles
    <3>5. d \in Files
      BY <3>2, FileWith
    <3> HIDE DEF d
    <3>6. /\ disk' = disk /\ pc' = "merge"
          /\ UNCHANGED <<seen, backups, crashes, orig, unsaved>>
      BY <1>1, <2>1 DEF SeedRoles, Uncommitted, Goto, Kept
    <3>. QED BY <1>a, <3>3, <3>4, <3>5, <3>6
  <2>2. CASE work.roles # {}
    BY <1>1, <1>a, <2>2 DEF SeedRoles, Goto, Kept
  <2>. QED BY <2>1, <2>2
<1>2. CASE MergeRole
  <2>0. PICK rid \in Roles :
          \E canonical \in MostTurns(work, OldSessions(work, rid)) : MergeOf(rid, canonical)
    BY <1>2 DEF MergeRole, MergeOf, MergedRole, Kept
  <2>1. PICK canonical \in MostTurns(work, OldSessions(work, rid)) : MergeOf(rid, canonical)
    BY <2>0
  <2>2. CASE Collide(work.user_facts, canonical, rid) \/ Collide(work.facts_v2, canonical, rid)
    BY <2>1, <2>2 DEF MergeOf, Goto, Kept
  <2>3. CASE ~ (Collide(work.user_facts, canonical, rid) \/ Collide(work.facts_v2, canonical, rid))
    <3>1. /\ work' = MergedRole(work, rid, canonical) /\ disk' = disk /\ pc' = pc
          /\ UNCHANGED <<seen, backups, crashes, orig, unsaved>>
      BY <2>1, <2>3 DEF MergeOf, Uncommitted
    <3>2. pc' = "merge"
      BY <1>2, <3>1 DEF MergeRole
    <3>3. OldSessions(work, rid) \subseteq Sessions
      BY DEF OldSessions
    <3>. QED BY <1>a, <3>1, <3>2, <3>3, MergedType
  <2>. QED BY <2>2, <2>3
<1>3. CASE Merged
  <2>1. /\ work' = work /\ disk' = disk /\ pc' \in {"stamp", "flush"}
        /\ UNCHANGED <<seen, backups, crashes, orig, unsaved>>
    BY <1>3 DEF Merged, Goto, Kept
  <2>. QED BY <1>a, <2>1
<1>4. CASE Flush
  <2>1. /\ work' = work /\ disk' = work /\ pc' = NextScript(work)
        /\ UNCHANGED <<seen, backups, crashes, orig, unsaved>>
    BY <1>4 DEF Flush, Goto, Kept
  <2>. QED BY <1>a, <2>1, NextThere
<1>. QED BY <1>1, <1>2, <1>3, <1>4

LEMMA LastStep ==
  ASSUME work \in Files, disk \in Files, TablesThere, Stamp \/ Index \/ Die
  PROVE  /\ work' \in Files /\ disk' \in {disk, work}
         /\ pc' \in {"index", "open", "closed"}
         /\ pc' # "closed" => /\ work'.facts_v2 \in Present(FactRows)
                              /\ work'.insights_v2 \in Present(Copies)
         /\ UNCHANGED <<seen, backups, orig, unsaved>>
         /\ crashes' = crashes \/ (crashes < CrashMax /\ crashes' = crashes + 1)
<1>1. CASE Stamp
  <2> DEFINE d == [work EXCEPT !.ver = CURRENT_SCHEMA_VERSION]
  <2>1. CURRENT_SCHEMA_VERSION \in 0 .. CURRENT_SCHEMA_VERSION
    BY DEF CURRENT_SCHEMA_VERSION
  <2>2. d \in Files
    BY <2>1, FileWith
  <2>3. d.facts_v2 = work.facts_v2 /\ d.insights_v2 = work.insights_v2
    BY DEF Files
  <2>4. /\ work' = d /\ disk' = disk /\ pc' = "index"
        /\ UNCHANGED <<seen, backups, crashes, orig, unsaved>>
    BY <1>1 DEF Stamp, Uncommitted, Goto, Kept
  <2> HIDE DEF d
  <2>5. work.facts_v2 \in Present(FactRows) /\ work.insights_v2 \in Present(Copies)
    BY <1>1 DEF TablesThere, Prepared, Steps, Stamp
  <2>. QED BY <2>2, <2>3, <2>4, <2>5
<1>2. CASE Index
  <2>1. work.facts_v2 \in Present(FactRows) /\ work.insights_v2 \in Present(Copies)
    BY <1>2 DEF TablesThere, Prepared, Steps, Index
  <2>. QED BY <1>2, <2>1 DEF Index, Goto, Kept
<1>3. CASE Die
  BY <1>3 DEF Die, Goto
<1>. QED BY <1>1, <1>2, <1>3

MigTyped == MigTypeOK /\ TablesThere

LEMMA MigTypedInit ==
  MigInit => MigTyped
<1>. SUFFICES ASSUME MigInit PROVE MigTyped
  OBVIOUS
<1>1. disk \in Files /\ work = disk /\ orig = disk
  BY LegacyFile DEF MigInit
<1>2. /\ pc = "closed" /\ seen = 0 /\ backups = <<>> /\ crashes = 0
      /\ unsaved = FALSE
  BY DEF MigInit
<1>3. backups \in Seq(Files) /\ Len(backups) <= KeepMax
  BY <1>2
<1>4. TablesThere
  BY <1>2 DEF TablesThere, Prepared
<1>5. seen \in 0 .. CURRENT_SCHEMA_VERSION /\ crashes \in 0 .. CrashMax
  BY <1>2 DEF CURRENT_SCHEMA_VERSION
<1>. QED BY <1>1, <1>2, <1>3, <1>4, <1>5 DEF MigTyped, MigTypeOK, Steps

LEMMA MigTypedStep ==
  MigTyped /\ [MigNext]_mvars => MigTyped'
<1>. SUFFICES ASSUME MigTyped, [MigNext]_mvars PROVE MigTyped'
  OBVIOUS
<1>a. /\ work \in Files /\ disk \in Files /\ orig \in Files /\ TablesThere
      /\ pc \in Steps /\ seen \in 0 .. CURRENT_SCHEMA_VERSION
      /\ backups \in Seq(Files) /\ Len(backups) <= KeepMax
      /\ crashes \in 0 .. CrashMax /\ unsaved \in BOOLEAN
  BY DEF MigTyped, MigTypeOK
<1>b. work.ver \in 0 .. CURRENT_SCHEMA_VERSION
  BY <1>a DEF Files
<1> USE DEF MigTyped, MigTypeOK, TablesThere, Steps, Prepared
<1>1. CASE Open \/ Backup \/ CreateTables
  <2>1. /\ work' \in Files /\ disk' \in Files
        /\ pc' \in {"backup", "create", "columns", "failed"}
        /\ pc' = "columns" => /\ work'.facts_v2 \in Present(FactRows)
                              /\ work'.insights_v2 \in Present(Copies)
        /\ seen' \in {seen, work.ver}
    BY <1>1, <1>a, OpeningStep
  <2>2. /\ UNCHANGED <<crashes, orig>>
        /\ unsaved' \in {unsaved, TRUE}
        /\ backups' \in {backups, Rotate(Append(backups, work))}
    BY <1>1 DEF Open, Backup, CreateTables, Kept
  <2>3. Append(backups, work) \in Seq(Files)
    BY <1>a
  <2>5. /\ Rotate(Append(backups, work)) \in Seq(Files)
        /\ Len(Rotate(Append(backups, work))) <= KeepMax
    BY <2>3, RotateKeeps
  <2>4. backups' \in Seq(Files) /\ Len(backups') <= KeepMax
    BY <1>a, <2>2, <2>5
  <2>. QED BY <1>a, <1>b, <2>1, <2>2, <2>4
<1>2. CASE AddColumns \/ UkRename \/ UkCreate \/ UkCopy \/ UkDrop
             \/ RmRename \/ RmCreate \/ RmCopy \/ RmDrop
  <2>1. /\ work' \in Files /\ disk' \in {disk, work'}
        /\ work'.facts_v2 = work.facts_v2 /\ work'.insights_v2 = work.insights_v2
    BY <1>2, <1>a, RebuildStep
  <2>2. Kept /\ pc \in Prepared
        /\ pc' \in {"uk_rename", "uk_create", "uk_copy", "uk_drop", "rm_rename", "rm_create",
                    "rm_copy", "rm_drop", "roles"}
    BY <1>2 DEF AddColumns, UkRename, UkCreate, UkCopy, UkDrop, RmRename, RmCreate, RmCopy,
                RmDrop, Goto
  <2>. QED BY <1>a, <2>1, <2>2 DEF Kept
<1>3. CASE SeedRoles \/ MergeRole \/ Merged \/ Flush
  <2>1. /\ work' \in Files /\ disk' \in {disk, work}
        /\ pc' \in {"merge", "failed", "flush", "v4_copy", "v5_copy", "v6_facts", "stamp"}
        /\ pc' # "failed" => /\ work'.facts_v2 \in Present(FactRows)
                             /\ work'.insights_v2 \in Present(Copies)
        /\ pc' = "v4_copy" => work'.user_facts \in Present(FactRows)
        /\ pc' = "v5_copy" => work'.reflections \in Present(NoteRows)
        /\ UNCHANGED <<seen, backups, crashes, orig, unsaved>>
    BY <1>3, <1>a, RoleStep
  <2>. QED BY <1>a, <2>1
<1>4. CASE V4Copy \/ V4Rename \/ V5Copy \/ V5Rename \/ V6DropFacts \/ V6DropReflections
  <2>1. /\ work' \in Files /\ disk' = work' /\ Kept
        /\ work'.facts_v2 \in Present(FactRows) /\ work'.insights_v2 \in Present(Copies)
        /\ pc' = "v4_copy" => work'.user_facts \in Present(FactRows)
        /\ pc' = "v5_copy" => work'.reflections \in Present(NoteRows)
        /\ pc' \in {"v4_rename", "v5_rename", "v4_copy", "v5_copy", "v6_facts",
                    "v6_reflections", "stamp"}
    BY <1>4, <1>a, ScriptStep
  <2>. QED BY <1>a, <2>1 DEF Kept
<1>5. CASE Stamp \/ Index \/ Die
  <2>1. /\ work' \in Files /\ disk' \in {disk, work}
        /\ pc' \in {"index", "open", "closed"}
        /\ pc' # "closed" => /\ work'.facts_v2 \in Present(FactRows)
                             /\ work'.insights_v2 \in Present(Copies)
        /\ UNCHANGED <<seen, backups, orig, unsaved>>
        /\ crashes' = crashes \/ (crashes < CrashMax /\ crashes' = crashes + 1)
    BY <1>5, <1>a, LastStep
  <2>. QED BY <1>a, <2>1
<1>6. CASE UNCHANGED mvars
  BY <1>a, <1>6 DEF mvars
<1>. QED BY <1>1, <1>2, <1>3, <1>4, <1>5, <1>6 DEF MigNext, Upgrade

(***************************************************************************)
(* BackupHolds.  An old file is not touched before a backup was tried, and *)
(* every start adds one snapshot at most: as long as the starts are fewer  *)
(* than the snapshots kept, none is rotated out.                           *)
(***************************************************************************)
Owed == /\ orig # Fresh /\ orig.ver < CURRENT_SCHEMA_VERSION
        /\ ~ unsaved /\ crashes < KeepMax

Untouched == pc \in {"closed", "backup"}

Snapshots ==
  Owed => /\ Len(backups) <= crashes + (IF Untouched THEN 0 ELSE 1)
          /\ disk # orig \/ ~ Untouched => \E i \in 1 .. Len(backups) : backups[i] = orig
          /\ pc = "backup" => work = disk

LEMMA SnapshotsInit ==
  MigInit => Snapshots
BY DEF MigInit, Snapshots, Untouched

LEMMA SnapshotsStep ==
  MigTypeOK /\ Snapshots /\ [MigNext]_mvars => Snapshots'
<1>. SUFFICES ASSUME MigTypeOK, Snapshots, [MigNext]_mvars, Owed' PROVE Snapshots'
  BY DEF Snapshots
<1>a. /\ backups \in Seq(Files) /\ Len(backups) <= KeepMax /\ Len(backups) \in Nat
      /\ crashes \in Nat /\ work \in Files /\ disk \in Files
      /\ unsaved \in BOOLEAN
  BY DEF MigTypeOK
<1>b. disk.ver \in 0 .. CURRENT_SCHEMA_VERSION
  BY <1>a DEF Files
<1>1. CASE Open
  <2>1. /\ UNCHANGED <<disk, backups, crashes, orig, unsaved>> /\ work' = disk
        /\ pc = "closed"
        /\ pc' = IF disk # Fresh /\ disk.ver < CURRENT_SCHEMA_VERSION THEN "backup" ELSE "create"
    BY <1>1 DEF Open, Kept, Goto
  <2>2. Owed
    BY <2>1 DEF Owed
  <2>. QED BY <1>a, <1>b, <2>1, <2>2 DEF Snapshots, Untouched, Owed
<1>2. CASE Backup
  <2>1. /\ UNCHANGED <<disk, work, crashes, orig>> /\ pc = "backup" /\ pc' = "create"
        /\ \/ backups' = Rotate(Append(backups, work)) /\ UNCHANGED unsaved
           \/ unsaved' = TRUE
    BY <1>2 DEF Backup, Goto
  <2>2. backups' = Rotate(Append(backups, work)) /\ UNCHANGED unsaved
    BY <2>1 DEF Owed
  <2>3. Owed /\ crashes < KeepMax
    BY <2>1, <2>2 DEF Owed
  <2>4. /\ Len(backups) <= crashes /\ work = disk
        /\ disk # orig => \E i \in 1 .. Len(backups) : backups[i] = orig
    BY <1>a, <2>1, <2>3 DEF Snapshots, Untouched
  <2> DEFINE more == Append(backups, work)
  <2>5. /\ more \in Seq(Files) /\ Len(more) = Len(backups) + 1
        /\ \A i \in 1 .. Len(backups) : more[i] = backups[i]
        /\ more[Len(more)] = work
    BY <1>a
  <2>6. Len(more) <= KeepMax /\ Len(more) <= crashes + 1
    BY <1>a, <2>3, <2>4, <2>5
  <2>7. backups' = more
    BY <2>2, <2>5, <2>6, RotateKeeps
  <2> HIDE DEF more
  <2>8. \E i \in 1 .. Len(more) : more[i] = orig
    <3>1. CASE disk = orig
      <4>1. Len(more) \in 1 .. Len(more)
        BY <1>a, <2>5
      <4>. QED BY <3>1, <4>1, <2>4, <2>5
    <3>2. CASE disk # orig
      <4>1. PICK i \in 1 .. Len(backups) : backups[i] = orig
        BY <2>4, <3>2
      <4>2. i \in 1 .. Len(more) /\ more[i] = orig
        BY <1>a, <2>5, <4>1
      <4>. QED BY <4>2
    <3>. QED BY <3>1, <3>2
  <2>. QED BY <2>1, <2>6, <2>7, <2>8 DEF Snapshots, Untouched
<1>3. CASE Die
  <2>1. /\ UNCHANGED <<disk, backups, orig, unsaved>> /\ pc' = "closed"
        /\ crashes' = crashes + 1
    BY <1>3 DEF Die, Goto
  <2>2. Owed
    BY <1>a, <2>1 DEF Owed
  <2>. QED BY <1>a, <2>1, <2>2 DEF Snapshots, Untouched
<1>4. CASE UNCHANGED mvars
  BY <1>4 DEF mvars, Snapshots, Untouched, Owed
<1>5. CASE MigNext /\ ~ Open /\ ~ Backup /\ ~ Die
  <2>1. /\ UNCHANGED <<backups, crashes, orig, unsaved>>
        /\ ~ Untouched /\ ~ Untouched'
    <3>1. CASE CreateTables
      BY <3>1 DEF CreateTables, Kept, Goto, Untouched
    <3>2. CASE AddColumns \/ UkRename \/ UkCreate \/ UkCopy \/ UkDrop
               \/ RmRename \/ RmCreate \/ RmCopy \/ RmDrop
      BY <3>2 DEF AddColumns, UkRename, UkCreate, UkCopy, UkDrop, RmRename, RmCreate, RmCopy,
                  RmDrop, Kept, Goto, Untouched
    <3>3. CASE SeedRoles \/ MergeRole
      BY <3>3 DEF SeedRoles, MergeRole, Kept, Goto, Untouched
    <3>4. CASE Merged \/ Flush \/ V4Copy \/ V4Rename \/ V5Copy \/ V5Rename
               \/ V6DropFacts \/ V6DropReflections \/ Stamp \/ Index
      BY <3>4 DEF Merged, Flush, V4Copy, V4Rename, V5Copy, V5Rename, V6DropFacts,
                  V6DropReflections, Stamp, Index, NextScript, Kept, Goto, Untouched
    <3>. QED BY <1>5, <3>1, <3>2, <3>3, <3>4 DEF MigNext, Upgrade
  <2>2. Owed
    BY <2>1 DEF Owed
  <2>. QED BY <2>1, <2>2 DEF Snapshots, Untouched
<1>. QED BY <1>1, <1>2, <1>3, <1>4, <1>5

(***************************************************************************)
(* MergeAtomic and FactsStay.                                              *)
(***************************************************************************)
(* The facts the user told before this program, of the old file o.         *)
Told(o) == UserFacts(o.user_facts) \cup UserFacts(o.facts_v2)

FactsOf(d) == Rows(d.user_facts) \cup Rows(d.old_user_facts) \cup Rows(d.facts_v2)

(* No session is left to merge.                                            *)
Settled(d) == d.roles # {} /\ \A p \in d.roles : p[1] = p[2]

Beaten(d, r) ==
  \E x \in Rows(d.facts_v2) : x.id # r.id /\ x.key = r.key /\ x.sid = d.home[r.sid]

(* FactsStay of any file on the way, without the archive, which v6 drops.  *)
Safe(o, d) ==
  \A r \in Told(o) : \/ d.home[r.sid] = Absent
                     \/ \E a \in FactsOf(d) : a.id = r.id
                     \/ Settled(d) /\ Beaten(d, r)

(* A fact keeps its key and stands where its session stands, but in the    *)
(* table renamed for a rebuild, which no merge looks at.                   *)
Traced(o, d) ==
  \A r \in Told(o) :
    /\ \A a \in FactsOf(d) : a.id = r.id => a.key = r.key /\ a.kind = "user_fact"
    /\ \A a \in Rows(d.user_facts) \cup Rows(d.facts_v2) :
         a.id = r.id => a.sid = d.home[r.sid]
    /\ \A a \in Rows(d.old_user_facts) : a.id = r.id => a.sid = r.sid

(* A pair is one of the old file or of a role with itself; where the old   *)
(* file had none there is one at most.                                     *)
Mapped(o, d) ==
  /\ o.roles = {} => \A p, q \in d.roles : p = q
  /\ o.roles # {} => d.roles # {} /\ \A p \in d.roles : p \in o.roles \/ p[1] = p[2]

Gone(d, sid) ==
  /\ \A r \in Rows(d.user_facts) : r.sid # sid
  /\ \A r \in Rows(d.facts_v2) : r.sid # sid
  /\ \A r \in Rows(d.reflections) : r.sid # sid
  /\ \A r \in Rows(d.insights_v2) : r.sid # sid
  /\ \A r \in Rows(d.turns) : r.sid # sid

(* MergeAtomic of any file on the way.                                     *)
Placed(o, d) ==
  \A p \in o.roles :
    p[1] # p[2] /\ (\A q \in o.roles : q[2] # p[1])
                => /\ p \in d.roles => Of(o.turns, p[1]) \subseteq Rows(d.turns)
                   /\ p \notin d.roles => Gone(d, p[1])

(* Nothing is merged before user_facts has its new constraint.             *)
Rebuildable(o, d) ==
  OldUnique(d) => d.old_user_facts = Absent /\ o.roles \subseteq d.roles /\ d.home = AtHome

(* A fact of the old table whose place in the new one is taken.            *)
PlaceTaken(d, a) == \E x \in Rows(d.facts_v2) : x.key = a.key /\ x.sid = a.sid

Sound(o, d) == /\ Safe(o, d) /\ Traced(o, d) /\ Mapped(o, d)
                     /\ Placed(o, d) /\ Rebuildable(o, d)

Rebuilt == Prepared \ {"columns", "uk_rename", "uk_create", "uk_copy"}
Copying == {"flush", "v4_copy", "v4_rename", "v5_copy", "v5_rename"}

(* Where the steps of open() stand.                                        *)
Halfway ==
  /\ pc \in {"uk_create", "uk_copy"} => orig.roles \subseteq work.roles /\ work.home = AtHome
  /\ pc = "uk_create" => work.user_facts = Absent
  /\ pc = "uk_copy" => Rows(work.user_facts) = {} /\ work.uniq = "session_key"
  /\ pc = "uk_drop" => work.user_facts = work.old_user_facts
  /\ pc \in Rebuilt => ~ OldUnique(work)
  /\ pc = "merge" => work.roles # {}
  /\ pc \in Copying => Settled(work)
  /\ pc = "v4_rename" =>
       \A a \in UserFacts(work.user_facts) : PlaceTaken(work, a)

MigKept ==
  orig \in Legacies /\ Sound(orig, disk) /\ Sound(orig, work) /\ Halfway

-----------------------------------------------------------------------------
(* What Sound looks at is the same in both files.                          *)
SameRows(d, e) ==
  /\ Rows(e.user_facts) = Rows(d.user_facts) /\ (e.user_facts = Absent <=> d.user_facts = Absent)
  /\ Rows(e.old_user_facts) = Rows(d.old_user_facts)
  /\ e.old_user_facts = Absent <=> d.old_user_facts = Absent
  /\ e.uniq = d.uniq /\ e.roles = d.roles /\ e.home = d.home
  /\ Rows(e.facts_v2) = Rows(d.facts_v2) /\ Rows(e.reflections) = Rows(d.reflections)
  /\ Rows(e.insights_v2) = Rows(d.insights_v2) /\ Rows(e.turns) = Rows(d.turns)

LEMMA SoundSame ==
  ASSUME NEW o, NEW d, NEW e, SameRows(d, e), Sound(o, d)
  PROVE  Sound(o, e)
<1> USE DEF Sound, SameRows
<1>1. FactsOf(e) = FactsOf(d)
  BY DEF FactsOf
<1>2. Safe(o, e)
  BY <1>1 DEF Safe, Settled, Beaten
<1>3. Traced(o, e)
  BY <1>1 DEF Traced
<1>4. Mapped(o, e)
  BY DEF Mapped
<1>5. Placed(o, e)
  BY DEF Placed, Gone
<1>6. Rebuildable(o, e)
  BY DEF Rebuildable, OldUnique
<1>. QED BY <1>2, <1>3, <1>4, <1>5, <1>6

(* The old file itself.                                                    *)
LEMMA SoundOld ==
  ASSUME NEW o \in Legacies
  PROVE  Sound(o, o)
<1> USE LegacyFile
<1>1. Told(o) \subseteq FactsOf(o)
  BY DEF Told, UserFacts, FactsOf
<1>2. \A a, b \in FactsOf(o) : a.id = b.id => a = b
  BY DEF IsLegacy, Numbered, FactsOf
<1>3. \A r \in Told(o) : r.kind = "user_fact"
  BY DEF Told, UserFacts
<1>4. Safe(o, o)
  BY <1>1 DEF Safe
<1>a. o.home = AtHome /\ \A r \in Told(o) : r.sid \in Sessions
  <2>1. Rows(o.user_facts) \subseteq FactRows /\ Rows(o.facts_v2) \subseteq FactRows
    BY FileParts, TableTypes
  <2>. QED BY <2>1 DEF IsLegacy, Told, UserFacts, FactRows
<1>5. Traced(o, o)
  BY <1>1, <1>2, <1>3, <1>a DEF Traced, FactsOf, AtHome
<1>6. Mapped(o, o)
  BY DEF Mapped
<1>7. Placed(o, o)
  BY DEF Placed, Of
<1>8. Rebuildable(o, o)
  BY <1>a DEF Rebuildable, IsLegacy
<1>. QED BY <1>4, <1>5, <1>6, <1>7, <1>8 DEF Sound

(* The mark of a table that does not exist is not itself a table.          *)
NotATable == \A rows \in {FactRows, NoteRows, Copies, TurnRows} : Absent \notin SUBSET rows

(* What a merge does to the rows of one table.                             *)
Renamed(b, from, to) == IF b.sid = from THEN [b EXCEPT !.sid = to] ELSE b

(* The rows of u are those of t, moved from one session to another and     *)
(* without some.                                                           *)
Merges(t, u, from, to, sids) ==
  /\ t = Absent => u = Absent
  /\ \A r \in Rows(u) : r.sid \notin sids /\ \E b \in Rows(t) : r = Renamed(b, from, to)
  /\ \A b \in Rows(t) : Renamed(b, from, to).sid \notin sids => Renamed(b, from, to) \in Rows(u)

LEMMA MergedRows ==
  ASSUME NEW S, Absent \notin SUBSET S, NEW t \in Table(S),
         NEW from, NEW to, NEW sids, \A r \in S : [r EXCEPT !.sid = to] \in S
  PROVE  Merges(t, Without(Moved(t, from, to), sids), from, to, sids)
<1>1. CASE t = Absent
  BY <1>1 DEF Without, Moved, Rows, Merges
<1>2. CASE t # Absent
  <2> DEFINE m == {Renamed(r, from, to) : r \in t}
             u == {r \in m : r.sid \notin sids}
  <2>1. t \subseteq S
    BY <1>2 DEF Table, Present
  <2>2. m \subseteq S /\ u \subseteq S
    BY <2>1 DEF Renamed
  <2>3. m # Absent /\ u # Absent
    BY <2>2
  <2>4. Moved(t, from, to) = m
    BY <1>2 DEF Moved, Renamed
  <2>5. Without(m, sids) = u
    BY <2>3 DEF Without
  <2>6. Rows(t) = t /\ Rows(u) = u
    BY <1>2, <2>3 DEF Rows
  <2> HIDE DEF m, u
  <2>7. \A r : r \in u <=> r \in m /\ r.sid \notin sids
    BY DEF u
  <2>8. \A r : r \in m <=> \E b \in t : r = Renamed(b, from, to)
    BY DEF m
  <2>. QED BY <1>2, <2>4, <2>5, <2>6, <2>7, <2>8 DEF Merges
<1>. QED BY <1>1, <1>2

Removed(home, sids) == [s \in Sessions |-> IF home[s] \in sids THEN Absent ELSE home[s]]

FieldsMerged(d, rid, from) ==
  LET e == MergedRole(d, rid, from)
        sids == OldSessions(d, rid) \ {from}
    IN  /\ Merges(d.user_facts, e.user_facts, from, rid, sids)
        /\ Merges(d.facts_v2, e.facts_v2, from, rid, sids)
        /\ Merges(d.reflections, e.reflections, from, rid, sids)
        /\ Merges(d.insights_v2, e.insights_v2, from, rid, sids)
        /\ Merges(d.turns, e.turns, from, rid, sids)
        /\ e.old_user_facts = d.old_user_facts /\ e.uniq = d.uniq
        /\ e.home = Removed(Rehomed(d.home, from, rid), sids)
        /\ e.roles = {p \in IF \E p \in d.roles : p[1] = rid
                            THEN d.roles \ {<<from, rid>>}
                            ELSE (d.roles \ {<<from, rid>>}) \cup {<<rid, rid>>} :
                        p[1] \notin sids}

LEMMA MergedFields ==
  ASSUME NotATable, NEW d \in Files, NEW rid \in Roles, NEW from
  PROVE  FieldsMerged(d, rid, from)
<1> DEFINE m == MoveSession(d, from, rid)
           n == RenameRole(m, from, rid)
           sids == OldSessions(d, rid) \ {from}
           e == DropSessions(n, sids)
<1>0. rid \in Sessions
  OBVIOUS
<1>1. m \in Files
  BY <1>0, MoveType
<1>2. /\ m.user_facts = Moved(d.user_facts, from, rid)
      /\ m.facts_v2 = Moved(d.facts_v2, from, rid)
      /\ m.reflections = Moved(d.reflections, from, rid)
      /\ m.insights_v2 = Moved(d.insights_v2, from, rid)
      /\ m.turns = Moved(d.turns, from, rid)
      /\ m.old_user_facts = d.old_user_facts /\ m.uniq = d.uniq /\ m.roles = d.roles
      /\ m.home = Rehomed(d.home, from, rid)
  BY DEF MoveSession, Files
<1> HIDE DEF m
<1>3. n \in Files
  BY <1>1, RenameType
<1>4. /\ n.user_facts = m.user_facts /\ n.facts_v2 = m.facts_v2
      /\ n.reflections = m.reflections /\ n.insights_v2 = m.insights_v2
      /\ n.turns = m.turns /\ n.old_user_facts = m.old_user_facts /\ n.uniq = m.uniq
      /\ n.home = m.home
      /\ n.roles = IF \E p \in m.roles : p[1] = rid
                   THEN m.roles \ {<<from, rid>>}
                   ELSE (m.roles \ {<<from, rid>>}) \cup {<<rid, rid>>}
  BY <1>1 DEF RenameRole, Files
<1> HIDE DEF n
<1> HIDE DEF sids
<1>5. /\ e.user_facts = Without(n.user_facts, sids) /\ e.facts_v2 = Without(n.facts_v2, sids)
      /\ e.reflections = Without(n.reflections, sids)
      /\ e.insights_v2 = Without(n.insights_v2, sids)
      /\ e.turns = Without(n.turns, sids)
      /\ e.old_user_facts = n.old_user_facts /\ e.uniq = n.uniq
      /\ e.home = Removed(n.home, sids)
      /\ e.roles = {p \in n.roles : p[1] \notin sids}
  BY <1>3 DEF DropSessions, Removed, Files
<1> HIDE DEF e
<1>6. /\ \A r \in FactRows : [r EXCEPT !.sid = rid] \in FactRows
      /\ \A r \in NoteRows : [r EXCEPT !.sid = rid] \in NoteRows
      /\ \A r \in Copies : [r EXCEPT !.sid = rid] \in Copies
      /\ \A r \in TurnRows : [r EXCEPT !.sid = rid] \in TurnRows
  BY <1>0 DEF FactRows, NoteRows, Copies, TurnRows
<1>7. \A S \in {FactRows, NoteRows, Copies, TurnRows} : Absent \notin SUBSET S
  BY DEF NotATable
<1>8. ASSUME NEW S \in {FactRows, NoteRows, Copies, TurnRows}, NEW t \in Table(S)
      PROVE  Merges(t, Without(Moved(t, from, rid), sids), from, rid, sids)
  <2>1. Absent \notin SUBSET S /\ \A r \in S : [r EXCEPT !.sid = rid] \in S
    BY <1>6, <1>7
  <2>. QED BY <2>1, MergedRows DEF Merges
<1>9. /\ Merges(d.user_facts, e.user_facts, from, rid, sids)
      /\ Merges(d.facts_v2, e.facts_v2, from, rid, sids)
      /\ Merges(d.reflections, e.reflections, from, rid, sids)
      /\ Merges(d.insights_v2, e.insights_v2, from, rid, sids)
      /\ Merges(d.turns, e.turns, from, rid, sids)
  BY <1>2, <1>4, <1>5, <1>8, FileParts
<1>. QED BY <1>2, <1>4, <1>5, <1>9 DEF FieldsMerged, MergedRole, m, n, e, sids

LEMMA MergedSound ==
  ASSUME NotATable, NEW o \in Legacies,
         NEW d \in Files, Sound(o, d), ~ OldUnique(d), d.roles # {},
         NEW rid \in Roles, NEW from \in OldSessions(d, rid)
  PROVE  LET e == MergedRole(d, rid, from)
         IN  /\ Sound(o, e)
             /\ ~ OldUnique(e) /\ e.roles # {}
<1> DEFINE sids == OldSessions(d, rid) \ {from}
           e == MergedRole(d, rid, from)
<1>1. /\ Merges(d.user_facts, e.user_facts, from, rid, sids)
      /\ Merges(d.facts_v2, e.facts_v2, from, rid, sids)
      /\ Merges(d.reflections, e.reflections, from, rid, sids)
      /\ Merges(d.insights_v2, e.insights_v2, from, rid, sids)
      /\ Merges(d.turns, e.turns, from, rid, sids)
      /\ e.old_user_facts = d.old_user_facts /\ e.uniq = d.uniq
      /\ e.home = Removed(Rehomed(d.home, from, rid), sids)
      /\ e.roles = {p \in IF \E p \in d.roles : p[1] = rid
                          THEN d.roles \ {<<from, rid>>}
                          ELSE (d.roles \ {<<from, rid>>}) \cup {<<rid, rid>>} :
                      p[1] \notin sids}
  <2>1. FieldsMerged(d, rid, from)
    BY MergedFields
  <2>. QED BY <2>1 DEF FieldsMerged
<1>2. /\ <<from, rid>> \in d.roles /\ from # rid
      /\ \A s \in sids : s # rid /\ s # from /\ <<s, rid>> \in d.roles
  BY DEF OldSessions
<1> HIDE DEF e, sids
<1>a. /\ Safe(o, d) /\ Traced(o, d) /\ Mapped(o, d) /\ Placed(o, d) /\ Rebuildable(o, d)
  BY DEF Sound
<1>b. IsLegacy(o) /\ \A p, q \in o.roles : p[1] = q[1] => p = q
  BY LegacyFile DEF IsLegacy
<1>c. /\ rid \in Sessions /\ from \in Sessions /\ sids \subseteq Sessions
      /\ Absent \notin Sessions /\ \A r \in Told(o) : r.sid \in Sessions
  <2>1. Rows(o.user_facts) \subseteq FactRows /\ Rows(o.facts_v2) \subseteq FactRows
    BY LegacyFile, FileParts, TableTypes
  <2>. QED BY <2>1 DEF Told, UserFacts, FactRows, OldSessions, sids
<1>4. o.roles # {} => <<from, rid>> \in o.roles
  BY <1>2, <1>a DEF Mapped
(* Where a session stands afterwards.                                      *)
<1>5. ASSUME NEW s \in Sessions
      PROVE  e.home[s] = IF d.home[s] \in sids THEN Absent
                         ELSE IF d.home[s] = from THEN rid ELSE d.home[s]
  BY <1>1, <1>2 DEF Removed, Rehomed
<1>6. ASSUME NEW a \in Rows(d.user_facts) \cup Rows(d.facts_v2)
      PROVE  /\ Renamed(a, from, rid).id = a.id /\ Renamed(a, from, rid).key = a.key
             /\ Renamed(a, from, rid).kind = a.kind
             /\ Renamed(a, from, rid).sid = IF a.sid = from THEN rid ELSE a.sid
  <2>1. a \in FactRows
    BY FileParts, TableTypes
  <2>. QED BY <2>1 DEF Renamed, FactRows
<1>7. Safe(o, e)
  <2> SUFFICES ASSUME NEW r \in Told(o), e.home[r.sid] # Absent
               PROVE  \E b \in FactsOf(e) : b.id = r.id
    BY DEF Safe
  <2>1. ~ Settled(d)
    BY <1>2 DEF Settled
  <2>0. d.home[r.sid] \notin sids /\ d.home[r.sid] # Absent
    BY <1>2, <1>5, <1>c
  <2>2. PICK a \in FactsOf(d) : a.id = r.id
    BY <1>a, <2>0, <2>1 DEF Safe
  <2>3. CASE a \in Rows(d.old_user_facts)
    BY <1>1, <2>2, <2>3 DEF FactsOf
  <2>4. CASE a \in Rows(d.user_facts) \cup Rows(d.facts_v2)
    <3>1. a.sid \notin sids
      BY <1>a, <2>0, <2>2, <2>4 DEF Traced
    <3>2. Renamed(a, from, rid).sid \notin sids
      BY <1>2, <1>6, <2>4, <3>1
    <3>3. Renamed(a, from, rid) \in FactsOf(e)
      BY <1>1, <2>4, <3>2 DEF Merges, FactsOf
    <3>. QED BY <1>6, <2>2, <2>4, <3>3
  <2>. QED BY <2>2, <2>3, <2>4 DEF FactsOf
<1>8. Traced(o, e)
  <2> SUFFICES ASSUME NEW r \in Told(o)
               PROVE  /\ \A b \in Rows(e.user_facts) \cup Rows(e.facts_v2) :
                           b.id = r.id => /\ b.key = r.key /\ b.kind = "user_fact"
                                          /\ b.sid = e.home[r.sid]
                      /\ \A b \in Rows(e.old_user_facts) :
                           b.id = r.id => /\ b.key = r.key /\ b.kind = "user_fact"
                                          /\ b.sid = r.sid
    BY DEF Traced, FactsOf
  <2>1. ASSUME NEW b \in Rows(e.old_user_facts), b.id = r.id
        PROVE  b.key = r.key /\ b.kind = "user_fact" /\ b.sid = r.sid
    BY <1>1, <1>a, <2>1 DEF Traced, FactsOf
  <2>2. ASSUME NEW b \in Rows(e.user_facts) \cup Rows(e.facts_v2), b.id = r.id
        PROVE  b.key = r.key /\ b.kind = "user_fact" /\ b.sid = e.home[r.sid]
    <3>1. PICK a \in Rows(d.user_facts) \cup Rows(d.facts_v2) : b = Renamed(a, from, rid)
      BY <1>1, <2>2 DEF Merges
    <3>2. b.key = a.key /\ b.kind = a.kind /\ b.sid = IF a.sid = from THEN rid ELSE a.sid
      BY <1>6, <3>1
    <3>3. a \in FactsOf(d) /\ a.id = r.id
      BY <1>6, <2>2, <3>1 DEF FactsOf
    <3>4. a.key = r.key /\ a.kind = "user_fact" /\ a.sid = d.home[r.sid]
      BY <1>a, <3>1, <3>3 DEF Traced
    <3>5. b.sid \notin sids
      BY <1>1, <2>2 DEF Merges
    <3>6. d.home[r.sid] \notin sids
      BY <1>2, <3>2, <3>4, <3>5
    <3>. QED BY <1>5, <1>c, <3>2, <3>4, <3>6
  <2>. QED BY <2>1, <2>2
<1>9. Mapped(o, e) /\ e.roles # {}
  <2>1. e.roles # {}
    <3>1. rid \notin sids
      BY <1>2
    <3>2. CASE \E p \in d.roles : p[1] = rid
      <4>1. PICK p \in d.roles : p[1] = rid
        BY <3>2
      <4>2. p # <<from, rid>>
        BY <1>2, <4>1
      <4>3. p \in e.roles
        BY <1>1, <3>1, <4>1, <4>2
      <4>. QED BY <4>3
    <3>3. CASE ~ \E p \in d.roles : p[1] = rid
      <4>1. <<rid, rid>> \in e.roles
        BY <1>1, <3>1, <3>3
      <4>. QED BY <4>1
    <3>. QED BY <3>2, <3>3
  <2>2. \A p \in e.roles : (p \in d.roles /\ p # <<from, rid>>) \/ p = <<rid, rid>>
    BY <1>1
  <2>3. o.roles = {} => \A p \in d.roles : p = <<from, rid>>
    BY <1>2, <1>a DEF Mapped
  <2>4. o.roles = {} => \A p, q \in e.roles : p = q
    BY <2>2, <2>3
  <2>5. o.roles # {} => \A p \in e.roles : p \in o.roles \/ p[1] = p[2]
    BY <1>a, <2>2 DEF Mapped
  <2>. QED BY <2>1, <2>4, <2>5 DEF Mapped
<1>10. Placed(o, e)
  <2> SUFFICES ASSUME NEW p \in o.roles, p[1] # p[2], \A q \in o.roles : q[2] # p[1]
               PROVE  /\ p \in e.roles => Of(o.turns, p[1]) \subseteq Rows(e.turns)
                      /\ p \notin e.roles => Gone(e, p[1])
    BY DEF Placed
  <2>0. p[1] # rid
    BY <1>4
  <2>1. ASSUME p \in e.roles PROVE Of(o.turns, p[1]) \subseteq Rows(e.turns)
    <3>1. p \in d.roles /\ p[1] \notin sids /\ p # <<from, rid>>
      BY <1>1, <2>0, <2>1
    <3>2. p[1] # from
      BY <1>4, <1>b, <3>1
    <3>3. Of(o.turns, p[1]) \subseteq Rows(d.turns)
      BY <1>a, <3>1 DEF Placed
    <3>4. \A x \in Of(o.turns, p[1]) : Renamed(x, from, rid) = x /\ x.sid \notin sids
      BY <3>1, <3>2 DEF Of, Renamed
    <3>. QED BY <1>1, <3>3, <3>4 DEF Merges
  <2>2. ASSUME p \notin e.roles PROVE Gone(e, p[1])
    <3> DEFINE Left(t) == \A r \in Rows(t) : r.sid # p[1]
    <3>0. \A S : \A b \in {r \in FactRows \cup NoteRows \cup Copies \cup TurnRows : TRUE} :
            Renamed(b, from, rid).sid = IF b.sid = from THEN rid ELSE b.sid
      BY DEF Renamed, FactRows, NoteRows, Copies, TurnRows
    <3>1. ASSUME NEW t, NEW u, Merges(t, u, from, rid, sids),
                 Rows(t) \subseteq FactRows \cup NoteRows \cup Copies \cup TurnRows,
                 p \notin d.roles => Left(t)
          PROVE  Left(u)
      <4> SUFFICES ASSUME NEW r \in Rows(u), r.sid = p[1] PROVE FALSE
        OBVIOUS
      <4>1. PICK b \in Rows(t) : r = Renamed(b, from, rid)
        BY <3>1 DEF Merges
      <4>2. r.sid = IF b.sid = from THEN rid ELSE b.sid
        BY <3>0, <3>1, <4>1
      <4>3. b.sid # from /\ b.sid = p[1]
        BY <2>0, <4>2
      <4>4. p \in d.roles
        BY <3>1, <4>3
      <4>5. p \in d.roles \ {<<from, rid>>} => p[1] \in sids
        BY <1>1, <2>2
      <4>6. p = <<from, rid>> \/ p[1] \in sids
        BY <4>4, <4>5
      <4>7. p[1] \notin sids
        BY <3>1 DEF Merges
      <4>. QED BY <4>3, <4>6, <4>7
    <3>2. /\ Rows(d.user_facts) \subseteq FactRows /\ Rows(d.facts_v2) \subseteq FactRows
          /\ Rows(d.reflections) \subseteq NoteRows /\ Rows(d.insights_v2) \subseteq Copies
          /\ Rows(d.turns) \subseteq TurnRows
      BY FileParts, TableTypes
    <3>3. p \notin d.roles => /\ Left(d.user_facts) /\ Left(d.facts_v2) /\ Left(d.reflections)
                              /\ Left(d.insights_v2) /\ Left(d.turns)
      BY <1>a DEF Placed, Gone
    <3> HIDE DEF Left
    <3>4. /\ Left(e.user_facts) /\ Left(e.facts_v2) /\ Left(e.reflections)
          /\ Left(e.insights_v2) /\ Left(e.turns)
      BY <1>1, <3>1, <3>2, <3>3
    <3>. QED BY <3>4 DEF Gone, Left
  <2>. QED BY <2>1, <2>2
<1>11. ~ OldUnique(e)
  BY <1>1 DEF OldUnique, Merges
<1>12. Rebuildable(o, e)
  BY <1>11 DEF Rebuildable
<1>. QED BY <1>7, <1>8, <1>9, <1>10, <1>11, <1>12 DEF Sound, e, sids

(* The other steps: of the rebuild, with the facts in another table ...    *)
LEMMA RebuiltSound ==
  ASSUME NEW o, NEW d, NEW e, Sound(o, d),
         FactsOf(e) = FactsOf(d), e.roles = d.roles, e.facts_v2 = d.facts_v2, e.home = d.home,
         e.reflections = d.reflections, e.insights_v2 = d.insights_v2, e.turns = d.turns,
         \/ Rows(e.user_facts) \subseteq Rows(d.user_facts)
         \/ o.roles \subseteq d.roles /\ d.home = AtHome,
         \/ Rows(e.old_user_facts) \subseteq Rows(d.old_user_facts)
         \/ o.roles \subseteq d.roles /\ d.home = AtHome,
         o \in Legacies, ~ OldUnique(e)
  PROVE  Sound(o, e)
<1> USE DEF Sound
<1>1. Safe(o, e)
  BY DEF Safe, Settled, Beaten
<1>2. \A r \in Told(o) : r.sid \in Sessions
  <2>1. Rows(o.user_facts) \subseteq FactRows /\ Rows(o.facts_v2) \subseteq FactRows
    BY LegacyFile, FileParts, TableTypes
  <2>. QED BY <2>1 DEF Told, UserFacts, FactRows
<1>3. Traced(o, e)
  <2> SUFFICES ASSUME NEW r \in Told(o)
               PROVE  /\ \A a \in FactsOf(e) : a.id = r.id => a.key = r.key /\ a.kind = "user_fact"
                      /\ \A a \in Rows(e.user_facts) \cup Rows(e.facts_v2) :
                           a.id = r.id => a.sid = e.home[r.sid]
                      /\ \A a \in Rows(e.old_user_facts) : a.id = r.id => a.sid = r.sid
    BY DEF Traced
  <2>1. CASE d.home = AtHome
    <3>1. \A a \in FactsOf(d) : a.id = r.id => a.sid = r.sid
      BY <1>2, <2>1 DEF Traced, FactsOf, AtHome
    <3>2. e.home[r.sid] = r.sid
      BY <1>2, <2>1 DEF AtHome
    <3>. QED BY <3>1, <3>2 DEF Traced, FactsOf
  <2>2. CASE d.home # AtHome
    BY <2>2 DEF Traced, FactsOf
  <2>. QED BY <2>1, <2>2
<1>4. Mapped(o, e) /\ Placed(o, e)
  BY DEF Mapped, Placed, Gone
<1>. QED BY <1>1, <1>3, <1>4 DEF Rebuildable

(* ... of the first mapping, where there was none ...                      *)
LEMMA SeededSound ==
  ASSUME NEW o, NEW d, NEW e, NEW p, Sound(o, d), d.roles = {},
         e.roles = {p}, e.home = d.home, e.user_facts = d.user_facts,
         e.old_user_facts = d.old_user_facts, e.facts_v2 = d.facts_v2, ~ OldUnique(e)
  PROVE  Sound(o, e)
<1> USE DEF Sound
<1>1. o.roles = {}
  BY DEF Mapped
<1>2. Safe(o, e) /\ Traced(o, e)
  BY DEF Safe, Settled, Traced, FactsOf
<1>3. Mapped(o, e) /\ Placed(o, e) /\ Rebuildable(o, e)
  BY <1>1 DEF Mapped, Placed, Rebuildable
<1>. QED BY <1>2, <1>3

(* ... and of the scripts: a fact is copied, or beaten by one that is in   *)
(* the new table already; the old table goes when each of them is.         *)
LEMMA CopiedSound ==
  ASSUME NEW o, NEW d, NEW e, Sound(o, d), e.roles = d.roles, e.home = d.home,
         Rows(e.facts_v2) = Rows(d.facts_v2) \cup Unclaimed(d.user_facts, d.facts_v2),
         d.user_facts # Absent, d.facts_v2 # Absent,
         e.user_facts = d.user_facts, e.old_user_facts = d.old_user_facts, e.uniq = d.uniq,
         e.reflections = d.reflections, e.insights_v2 = d.insights_v2, e.turns = d.turns
  PROVE  /\ Sound(o, e)
         /\ \A a \in UserFacts(e.user_facts) : PlaceTaken(e, a)
<1> USE DEF Sound
<1>1. Unclaimed(d.user_facts, d.facts_v2) \subseteq Rows(d.user_facts)
  BY DEF Unclaimed, Rows
<1>2. FactsOf(e) = FactsOf(d)
  BY <1>1 DEF FactsOf
<1>a. Rows(e.user_facts) \cup Rows(e.facts_v2) = Rows(d.user_facts) \cup Rows(d.facts_v2)
  BY <1>1
<1>3. Safe(o, e) /\ Traced(o, e) /\ Mapped(o, e)
  BY <1>2, <1>a DEF Safe, Settled, Beaten, Traced, Mapped
<1>4. Placed(o, e)
  BY <1>1 DEF Placed, Gone
<1>5. Rebuildable(o, e)
  BY DEF Rebuildable, OldUnique
<1>6. ASSUME NEW a \in UserFacts(e.user_facts) PROVE PlaceTaken(e, a)
  <2>1. a \in d.user_facts /\ a.kind = "user_fact"
    BY <1>6 DEF UserFacts, Rows
  <2>2. CASE a \in Unclaimed(d.user_facts, d.facts_v2)
    BY <2>2 DEF PlaceTaken
  <2>3. CASE a \notin Unclaimed(d.user_facts, d.facts_v2)
    <3>1. PICK t \in d.facts_v2 : t.sid = a.sid /\ t.key = a.key
      BY <2>1, <2>3 DEF Unclaimed
    <3>2. t \in Rows(e.facts_v2)
      BY <3>1 DEF Rows
    <3>. QED BY <3>1, <3>2 DEF PlaceTaken
  <2>. QED BY <2>2, <2>3
<1>. QED BY <1>3, <1>4, <1>5, <1>6

LEMMA ArchivedSound ==
  ASSUME NEW o, NEW d, NEW e, Sound(o, d), e.roles = d.roles, e.home = d.home, Settled(d),
         \A a \in UserFacts(d.user_facts) : PlaceTaken(d, a),
         e.user_facts = Absent, e.old_user_facts = d.old_user_facts, e.facts_v2 = d.facts_v2,
         e.reflections = d.reflections, e.insights_v2 = d.insights_v2, e.turns = d.turns
  PROVE  Sound(o, e)
<1> USE DEF Sound
<1>1. Rows(e.user_facts) = {} /\ FactsOf(e) \subseteq FactsOf(d)
  BY DEF Rows, FactsOf
<1>2. Safe(o, e)
  <2> SUFFICES ASSUME NEW r \in Told(o), d.home[r.sid] # Absent
               PROVE  (\E a \in FactsOf(e) : a.id = r.id) \/ (Settled(e) /\ Beaten(e, r))
    BY DEF Safe
  <2>1. Settled(e)
    BY DEF Settled
  <2>2. CASE Beaten(d, r)
    BY <2>1, <2>2 DEF Beaten
  <2>3. CASE \E a \in FactsOf(d) : a.id = r.id
    <3>1. PICK a \in FactsOf(d) : a.id = r.id
      BY <2>3
    <3>2. a.key = r.key /\ a.kind = "user_fact"
      BY <3>1 DEF Traced
    <3>3. CASE a \in FactsOf(e)
      BY <3>1, <3>3
    <3>4. CASE a \notin FactsOf(e)
      <4>1. a \in Rows(d.user_facts) /\ a \in UserFacts(d.user_facts)
        BY <3>2, <3>4 DEF FactsOf, UserFacts
      <4>2. PICK x \in Rows(d.facts_v2) : x.key = a.key /\ x.sid = a.sid
        BY <4>1 DEF PlaceTaken
      <4>3. a.sid = d.home[r.sid]
        BY <3>1, <4>1 DEF Traced
      <4>4. CASE x.id = r.id
        BY <4>2, <4>4 DEF FactsOf
      <4>5. CASE x.id # r.id
        BY <2>1, <3>2, <4>2, <4>3, <4>5 DEF Beaten
      <4>. QED BY <4>4, <4>5
    <3>. QED BY <3>3, <3>4
  <2>. QED BY <2>2, <2>3 DEF Safe
<1>3. Traced(o, e) /\ Mapped(o, e)
  BY <1>1 DEF Traced, Mapped
<1>4. Placed(o, e)
  BY <1>1 DEF Placed, Gone
<1>. QED BY <1>2, <1>3, <1>4 DEF Rebuildable, OldUnique

LEMMA NotesSound ==
  ASSUME NEW o, NEW d, NEW e, Sound(o, d), e.roles = d.roles, e.home = d.home,
         \A r \in Rows(e.reflections) : r \in Rows(d.reflections),
         \A c \in Rows(e.insights_v2) : \/ c \in Rows(d.insights_v2)
                                        \/ \E r \in Rows(d.reflections) : c.sid = r.sid,
         e.user_facts = d.user_facts, e.old_user_facts = d.old_user_facts, e.uniq = d.uniq,
         e.facts_v2 = d.facts_v2, e.turns = d.turns
  PROVE  Sound(o, e)
<1> USE DEF Sound
<1>1. FactsOf(e) = FactsOf(d)
  BY DEF FactsOf
<1>2. Safe(o, e) /\ Traced(o, e) /\ Mapped(o, e)
  BY <1>1 DEF Safe, Settled, Beaten, Traced, Mapped
<1>3. Placed(o, e)
  BY DEF Placed, Gone
<1>. QED BY <1>2, <1>3 DEF Rebuildable, OldUnique

LEMMA MigKeptInit ==
  MigInit => MigKept
<1>. SUFFICES ASSUME MigInit PROVE MigKept
  OBVIOUS
<1>1. /\ orig \in Legacies /\ work = orig /\ disk = orig /\ pc = "closed"
  BY DEF MigInit
<1>. QED BY <1>1, SoundOld DEF MigKept, Halfway, Rebuilt, Prepared, Copying

(* A step that the facts and the roles do not see.                         *)
LEMMA PlainStep ==
  ASSUME MigKept, UNCHANGED orig,
         SameRows(work, work') \/ work' = disk, disk' \in {disk, work, work'}
  PROVE  /\ Sound(orig, disk)' /\ Sound(orig, work)' /\ orig' \in Legacies
         /\ SameRows(work, work') /\ ~ OldUnique(work) => ~ OldUnique(work)'
<1>1. Sound(orig, disk) /\ Sound(orig, work) /\ orig \in Legacies
  BY DEF MigKept
<1>2. Sound(orig, work')
  BY <1>1, SoundSame
<1>3. Sound(orig, disk')
  BY <1>1, <1>2
<1>4. SameRows(work, work') /\ ~ OldUnique(work) => ~ OldUnique(work')
  BY DEF SameRows, OldUnique
<1>. QED BY <1>1, <1>2, <1>3, <1>4

LEMMA PlainSteps ==
  ASSUME MigTyped, MigKept,
         \/ Open \/ Backup \/ CreateTables \/ AddColumns
         \/ RmRename \/ RmCreate \/ RmCopy \/ RmDrop
         \/ Merged \/ Flush \/ V6DropFacts \/ V6DropReflections \/ Stamp \/ Index \/ Die
  PROVE  MigKept'
<1> USE DEF Goto, Kept, Autocommit, Uncommitted
<1>0. work \in Files /\ Halfway /\ TablesThere
  BY DEF MigTyped, MigTypeOK, MigKept
<1> DEFINE Past == {"rm_rename", "rm_create", "rm_copy", "rm_drop", "roles", "v6_facts",
                     "v6_reflections", "stamp", "index", "open"}
<1>1. CASE Open \/ Die
  <2>1. /\ UNCHANGED <<orig, disk>> /\ work' = disk
        /\ pc' \in {"closed", "backup", "create"}
    BY <1>1 DEF Open, Die
  <2>. QED BY <2>1, PlainStep DEF MigKept, Halfway, Rebuilt, Prepared, Copying
<1>2. CASE Backup
  <2>1. UNCHANGED <<orig, disk, work>> /\ pc' = "create"
    BY <1>2 DEF Backup
  <2>2. SameRows(work, work')
    BY <2>1 DEF SameRows
  <2>. QED BY <2>1, <2>2, PlainStep DEF MigKept, Halfway, Rebuilt, Prepared, Copying
<1>3. CASE CreateTables
  <2>1. CASE pc' = "failed"
    <3>1. UNCHANGED <<orig, disk, work>>
      BY <1>3, <2>1 DEF CreateTables
    <3>2. SameRows(work, work')
      BY <3>1 DEF SameRows
    <3>. QED BY <2>1, <3>1, <3>2, PlainStep DEF MigKept, Halfway, Rebuilt, Prepared, Copying
  <2>2. CASE pc' # "failed"
    <3>1. /\ work' = AfterCreate(work) /\ disk' = AfterCreate(work) /\ pc' = "columns"
          /\ UNCHANGED orig
      BY <1>3, <2>2 DEF CreateTables
    <3>2. \A t : Rows(Rows(t)) = Rows(t)
      BY DEF Rows
    <3>3. LET e == AfterCreate(work) IN
            /\ e.user_facts = work.user_facts /\ e.old_user_facts = work.old_user_facts
            /\ e.uniq = work.uniq /\ e.roles = work.roles /\ e.home = work.home
            /\ e.facts_v2 = Rows(work.facts_v2) /\ e.insights_v2 = Rows(work.insights_v2)
            /\ e.turns = Rows(work.turns) /\ e.reflections = work.reflections
      BY <1>0 DEF AfterCreate, Files
    <3>4. SameRows(work, work')
      BY <3>1, <3>2, <3>3 DEF SameRows
    <3>. QED BY <3>1, <3>4, PlainStep DEF MigKept, Halfway, Rebuilt, Prepared, Copying
  <2>. QED BY <2>1, <2>2
<1>4. CASE AddColumns
  <2>1. /\ work' = [work EXCEPT !.session_column = TRUE] /\ disk' = work'
        /\ UNCHANGED orig /\ pc' = "uk_rename"
    BY <1>4 DEF AddColumns
  <2>2. SameRows(work, work')
    BY <1>0, <2>1 DEF SameRows, Files
  <2>. QED BY <2>1, <2>2, PlainStep DEF MigKept, Halfway, Rebuilt, Prepared, Copying
<1>5. CASE RmRename \/ RmCreate \/ RmCopy \/ RmDrop \/ V6DropFacts \/ V6DropReflections
            \/ Stamp \/ Index
  <2>1. /\ UNCHANGED orig /\ disk' \in {disk, work, work'}
        /\ pc \in Rebuilt /\ pc' \in Past
    BY <1>5 DEF RmRename, RmCreate, RmCopy, RmDrop, V6DropFacts, V6DropReflections, Stamp,
                Index, Rebuilt, Prepared, Steps
  <2>2. SameRows(work, work')
    <3>1. CASE RmRename
      BY <1>0, <3>1 DEF RmRename, SameRows, Files
    <3>2. CASE RmCreate
      BY <1>0, <3>2 DEF RmCreate, SameRows, Files
    <3>3. CASE RmCopy \/ RmDrop
      BY <1>0, <3>3 DEF RmCopy, RmDrop, SameRows, Files
    <3>4. CASE V6DropFacts \/ V6DropReflections
      BY <1>0, <3>4 DEF V6DropFacts, V6DropReflections, SameRows, Files
    <3>5. CASE Stamp \/ Index
      BY <1>0, <3>5 DEF Stamp, Index, SameRows, Files
    <3>. QED BY <1>5, <3>1, <3>2, <3>3, <3>4, <3>5
  <2>3. ~ OldUnique(work)
    BY <1>0, <2>1 DEF Halfway
  <2>4. ~ OldUnique(work)' /\ Sound(orig, disk)' /\ Sound(orig, work)'
        /\ orig' \in Legacies
    BY <2>1, <2>2, <2>3, PlainStep
  <2>5. Halfway'
    BY <2>1, <2>4 DEF Halfway, Copying
  <2>. QED BY <2>4, <2>5 DEF MigKept
<1>6. CASE Merged \/ Flush
  <2>1. /\ UNCHANGED <<orig, work>> /\ disk' \in {disk, work, work'}
        /\ pc \in {"merge", "flush"}
        /\ pc' \in {"flush", "v4_copy", "v5_copy", "v6_facts", "stamp"}
    BY <1>0, <1>6, NextThere DEF Merged, Flush
  <2>2. SameRows(work, work')
    BY <2>1 DEF SameRows
  <2>3. ~ OldUnique(work)
    BY <1>0, <2>1 DEF Halfway, Rebuilt, Prepared, Steps
  <2>4. ~ OldUnique(work)' /\ Sound(orig, disk)' /\ Sound(orig, work)'
        /\ orig' \in Legacies
    BY <2>1, <2>2, <2>3, PlainStep
  <2>5. Settled(work)
    <3>1. CASE Flush
      BY <1>0, <3>1 DEF Halfway, Flush, Copying
    <3>2. CASE Merged
      <4>1. work.roles # {} /\ \A rid \in Roles : OldSessions(work, rid) = {}
        BY <1>0, <3>2 DEF Halfway, Merged
      <4>2. work.roles \subseteq Sessions \X Roles
        BY <1>0, FileParts
      <4>3. ASSUME NEW p \in work.roles, p[1] # p[2] PROVE FALSE
        <5>1. p = <<p[1], p[2]>> /\ p[1] \in Sessions /\ p[2] \in Roles
          BY <4>2
        <5>2. p[1] \in OldSessions(work, p[2])
          BY <4>3, <5>1 DEF OldSessions
        <5>. QED BY <4>1, <5>1, <5>2
      <4>. QED BY <4>1, <4>3 DEF Settled
    <3>. QED BY <1>6, <3>1, <3>2
  <2>6. Halfway'
    BY <2>1, <2>4, <2>5 DEF Halfway, Copying
  <2>. QED BY <2>4, <2>6 DEF MigKept
<1>. QED BY <1>1, <1>2, <1>3, <1>4, <1>5, <1>6

LEMMA UkSteps ==
  ASSUME MigTyped, MigKept, UkRename \/ UkCreate \/ UkCopy \/ UkDrop
  PROVE  MigKept'
<1> USE DEF Goto, Kept, Autocommit
<1>0. work \in Files /\ Halfway
  BY DEF MigTyped, MigTypeOK, MigKept
<1>a. Sound(orig, disk) /\ Sound(orig, work) /\ orig \in Legacies
  BY DEF MigKept
<1>b. Rows(Absent) = {} /\ Rows({}) = {}
  BY DEF Rows
<1>1. CASE UkRename
  <2>1. CASE OldUnique(work)
    <3> DEFINE e == [work EXCEPT !.old_user_facts = work.user_facts, !.user_facts = Absent]
    <3>1. /\ work' = e /\ disk' = e /\ pc' = "uk_create" /\ UNCHANGED orig
      BY <1>1, <2>1 DEF UkRename
    <3>2. /\ e.user_facts = Absent /\ e.old_user_facts = work.user_facts
          /\ e.roles = work.roles /\ e.facts_v2 = work.facts_v2 /\ e.home = work.home
          /\ e.reflections = work.reflections /\ e.insights_v2 = work.insights_v2
          /\ e.turns = work.turns
      BY <1>0 DEF Files
    <3> HIDE DEF e
    <3>3. work.old_user_facts = Absent /\ orig.roles \subseteq work.roles /\ work.home = AtHome
      BY <1>a, <2>1 DEF Sound, Rebuildable
    <3>4. FactsOf(e) = FactsOf(work)
      BY <1>b, <3>2, <3>3 DEF FactsOf
    <3>5. Sound(orig, e)
      BY <1>a, <3>2, <3>3, <3>4, RebuiltSound DEF OldUnique
    <3>. QED BY <1>a, <3>1, <3>2, <3>3, <3>5 DEF MigKept, Halfway, Rebuilt, Copying
  <2>2. CASE ~ OldUnique(work)
    <3>1. UNCHANGED <<orig, disk, work>> /\ pc' = "rm_rename"
      BY <1>1, <2>2 DEF UkRename
    <3>2. ~ OldUnique(work')
      BY <2>2, <3>1
    <3>. QED BY <1>a, <3>1, <3>2 DEF MigKept, Halfway, Copying
  <2>. QED BY <2>1, <2>2
<1>2. CASE UkCreate
  <2> DEFINE e == [work EXCEPT !.user_facts = {}, !.uniq = "session_key"]
  <2>1. /\ work' = e /\ disk' = e /\ pc' = "uk_copy" /\ UNCHANGED orig
    BY <1>2 DEF UkCreate
  <2>2. /\ e.user_facts = {} /\ e.old_user_facts = work.old_user_facts /\ e.uniq = "session_key"
        /\ e.roles = work.roles /\ e.facts_v2 = work.facts_v2 /\ e.home = work.home
        /\ e.reflections = work.reflections /\ e.insights_v2 = work.insights_v2
        /\ e.turns = work.turns
    BY <1>0 DEF Files
  <2> HIDE DEF e
  <2>3. work.user_facts = Absent /\ orig.roles \subseteq work.roles /\ work.home = AtHome
    BY <1>0, <1>2 DEF UkCreate, Halfway
  <2>4. FactsOf(e) = FactsOf(work)
    BY <1>b, <2>2, <2>3 DEF FactsOf
  <2>5. Sound(orig, e)
    BY <1>a, <2>2, <2>3, <2>4, RebuiltSound DEF OldUnique
  <2>. QED BY <1>a, <1>b, <2>1, <2>2, <2>3, <2>5 DEF MigKept, Halfway, Rebuilt, Copying
<1>3. CASE UkCopy
  <2> DEFINE e == [work EXCEPT !.user_facts = work.old_user_facts]
  <2>1. /\ work' = e /\ disk' = e /\ pc' = "uk_drop" /\ UNCHANGED orig
    BY <1>3 DEF UkCopy
  <2>2. /\ e.user_facts = work.old_user_facts /\ e.old_user_facts = work.old_user_facts
        /\ e.uniq = work.uniq
        /\ e.roles = work.roles /\ e.facts_v2 = work.facts_v2 /\ e.home = work.home
        /\ e.reflections = work.reflections /\ e.insights_v2 = work.insights_v2
        /\ e.turns = work.turns
    BY <1>0 DEF Files
  <2> HIDE DEF e
  <2>3. /\ Rows(work.user_facts) = {} /\ work.uniq = "session_key"
        /\ orig.roles \subseteq work.roles /\ work.home = AtHome
    BY <1>0, <1>3 DEF UkCopy, Halfway
  <2>4. FactsOf(e) = FactsOf(work)
    BY <2>2, <2>3 DEF FactsOf
  <2>5. Sound(orig, e) /\ ~ OldUnique(e)
    BY <1>a, <2>2, <2>3, <2>4, RebuiltSound DEF OldUnique
  <2>. QED BY <1>a, <2>1, <2>2, <2>5 DEF MigKept, Halfway, Copying
<1>4. CASE UkDrop
  <2> DEFINE e == [work EXCEPT !.old_user_facts = Absent]
  <2>1. /\ work' = e /\ disk' = e /\ pc' = "rm_rename" /\ UNCHANGED orig
    BY <1>4 DEF UkDrop
  <2>2. /\ e.user_facts = work.user_facts /\ e.old_user_facts = Absent /\ e.uniq = work.uniq
        /\ e.roles = work.roles /\ e.facts_v2 = work.facts_v2 /\ e.home = work.home
        /\ e.reflections = work.reflections /\ e.insights_v2 = work.insights_v2
        /\ e.turns = work.turns
    BY <1>0 DEF Files
  <2> HIDE DEF e
  <2>3. work.user_facts = work.old_user_facts /\ ~ OldUnique(work)
    BY <1>0, <1>4 DEF UkDrop, Halfway, Rebuilt, Prepared, Steps
  <2>4. FactsOf(e) = FactsOf(work)
    BY <1>b, <2>2, <2>3 DEF FactsOf
  <2>5. ~ OldUnique(e)
    BY <2>2, <2>3 DEF OldUnique
  <2>6. Sound(orig, e)
    BY <1>a, <1>b, <2>2, <2>4, <2>5, RebuiltSound
  <2>. QED BY <1>a, <2>1, <2>5, <2>6 DEF MigKept, Halfway, Copying
<1>. QED BY <1>1, <1>2, <1>3, <1>4

LEMMA ScriptSteps ==
  ASSUME NotATable, MigTyped, MigKept, V4Copy \/ V4Rename \/ V5Copy \/ V5Rename
  PROVE  MigKept'
<1> USE DEF Goto, Kept, Autocommit
<1>0. work \in Files /\ Halfway /\ TablesThere
  BY DEF MigTyped, MigTypeOK, MigKept
<1>a. Sound(orig, disk) /\ Sound(orig, work) /\ orig \in Legacies
  BY DEF MigKept
<1>b. Rows(Absent) = {}
  BY DEF Rows
<1>c. ~ OldUnique(work)
  BY <1>0 DEF Halfway, Rebuilt, Prepared, Steps, V4Copy, V4Rename, V5Copy, V5Rename
<1>d. work.facts_v2 \in Present(FactRows) /\ work.insights_v2 \in Present(Copies)
  BY <1>0 DEF TablesThere, Prepared, Steps, V4Copy, V4Rename, V5Copy, V5Rename
<1>e. Absent \notin Present(FactRows) /\ Absent \notin Present(NoteRows)
      /\ Absent \notin Present(Copies)
  BY DEF NotATable, Present
<1>1. CASE V4Copy
  <2> DEFINE e == [work EXCEPT !.facts_v2 =
                     work.facts_v2 \cup Unclaimed(work.user_facts, work.facts_v2)]
  <2>1. /\ work' = e /\ disk' = e /\ pc' = "v4_rename" /\ UNCHANGED orig
    BY <1>1 DEF V4Copy
  <2>2. /\ e.facts_v2 = work.facts_v2 \cup Unclaimed(work.user_facts, work.facts_v2)
        /\ e.user_facts = work.user_facts /\ e.old_user_facts = work.old_user_facts
        /\ e.uniq = work.uniq /\ e.roles = work.roles /\ e.home = work.home
        /\ e.reflections = work.reflections /\ e.insights_v2 = work.insights_v2
        /\ e.turns = work.turns
    BY <1>0 DEF Files
  <2>3. Settled(work) /\ work.user_facts \in Present(FactRows)
    BY <1>0, <1>1 DEF V4Copy, Halfway, Copying, TablesThere
  <2>4. e.facts_v2 \in Present(FactRows)
    BY <1>0, <1>d, <2>2, <2>3, FactsCopied
  <2>5. /\ Rows(e.facts_v2) = Rows(work.facts_v2) \cup Unclaimed(work.user_facts, work.facts_v2)
        /\ work.user_facts # Absent /\ work.facts_v2 # Absent
    BY <1>d, <1>e, <2>2, <2>3, <2>4 DEF Rows
  <2> HIDE DEF e
  <2>6. /\ Sound(orig, e)
        /\ \A a \in UserFacts(e.user_facts) :
             PlaceTaken(e, a)
    BY <1>a, <2>2, <2>5, CopiedSound
  <2>7. Settled(e) /\ ~ OldUnique(e)
    BY <1>c, <2>2, <2>3 DEF Settled, OldUnique
  <2>. QED BY <1>a, <2>1, <2>6, <2>7 DEF MigKept, Halfway
<1>2. CASE V4Rename
  <2> DEFINE e == [work EXCEPT !.user_facts_archive = work.user_facts, !.user_facts = Absent]
  <2>1. /\ work' = e /\ disk' = e /\ pc' = NextScript(e) /\ UNCHANGED orig
    BY <1>2 DEF V4Rename
  <2>2. /\ e.user_facts = Absent /\ e.old_user_facts = work.old_user_facts
        /\ e.facts_v2 = work.facts_v2 /\ e.roles = work.roles /\ e.home = work.home
        /\ e.reflections = work.reflections /\ e.insights_v2 = work.insights_v2
        /\ e.turns = work.turns
    BY <1>0 DEF Files
  <2> HIDE DEF e
  <2>3. /\ Settled(work)
        /\ \A a \in UserFacts(work.user_facts) :
             PlaceTaken(work, a)
    BY <1>0, <1>2 DEF V4Rename, Halfway, Copying
  <2>4. Sound(orig, e)
    BY <1>a, <2>2, <2>3, ArchivedSound
  <2>5. pc' \in {"v5_copy", "v6_facts", "stamp"} /\ ~ OldUnique(e) /\ Settled(e)
    BY <2>1, <2>2, <2>3 DEF NextScript, V4Due, OldUnique, Settled
  <2>. QED BY <1>a, <2>1, <2>4, <2>5 DEF MigKept, Halfway, Copying
<1>3. CASE V5Copy
  <2> DEFINE e == [work EXCEPT !.insights_v2 =
                     work.insights_v2 \cup {CopyOf(r, work.insights_v2) : r \in work.reflections}]
  <2>1. /\ work' = e /\ disk' = e /\ pc' = "v5_rename" /\ UNCHANGED orig
    BY <1>3 DEF V5Copy
  <2>2. /\ e.insights_v2 = work.insights_v2
                             \cup {CopyOf(r, work.insights_v2) : r \in work.reflections}
        /\ e.user_facts = work.user_facts /\ e.old_user_facts = work.old_user_facts
        /\ e.uniq = work.uniq /\ e.roles = work.roles /\ e.facts_v2 = work.facts_v2
        /\ e.home = work.home
        /\ e.reflections = work.reflections /\ e.turns = work.turns
    BY <1>0 DEF Files
  <2> HIDE DEF e
  <2>3. work.reflections \in Present(NoteRows)
    BY <1>0, <1>3 DEF V5Copy, TablesThere
  <2>4. Rows(work.reflections) = work.reflections /\ Rows(work.insights_v2) = work.insights_v2
    BY <1>d, <1>e, <2>3 DEF Rows
  <2>5. \A c \in Rows(e.insights_v2) : \/ c \in Rows(work.insights_v2)
                                       \/ \E r \in Rows(work.reflections) : c.sid = r.sid
    <3>1. Rows(e.insights_v2) \subseteq e.insights_v2
      BY DEF Rows
    <3>2. \A r : CopyOf(r, work.insights_v2).sid = r.sid
      BY DEF CopyOf
    <3>. QED BY <2>2, <2>4, <3>1, <3>2
  <2>6. Sound(orig, e) /\ ~ OldUnique(e)
    BY <1>a, <1>c, <2>2, <2>5, NotesSound DEF OldUnique
  <2>7. Settled(e)
    BY <1>0, <1>3, <2>2 DEF V5Copy, Halfway, Copying, Settled
  <2>. QED BY <1>a, <2>1, <2>6, <2>7 DEF MigKept, Halfway, Copying
<1>4. CASE V5Rename
  <2> DEFINE e == [work EXCEPT !.reflections_archive = work.reflections, !.reflections = Absent]
  <2>1. /\ work' = e /\ disk' = e /\ pc' = NextScript(e) /\ UNCHANGED orig
    BY <1>4 DEF V5Rename
  <2>2. /\ e.reflections = Absent
        /\ e.user_facts = work.user_facts /\ e.old_user_facts = work.old_user_facts
        /\ e.uniq = work.uniq /\ e.roles = work.roles /\ e.facts_v2 = work.facts_v2
        /\ e.home = work.home
        /\ e.insights_v2 = work.insights_v2 /\ e.turns = work.turns
    BY <1>0 DEF Files
  <2> HIDE DEF e
  <2>3. Sound(orig, e) /\ ~ OldUnique(e)
    BY <1>a, <1>b, <1>c, <2>2, NotesSound DEF OldUnique
  <2>4. pc' \in {"v4_copy", "v5_copy", "v6_facts", "stamp"}
    BY <2>1 DEF NextScript
  <2>5. Settled(e)
    BY <1>0, <1>4, <2>2 DEF V5Rename, Halfway, Copying, Settled
  <2>. QED BY <1>a, <2>1, <2>3, <2>4, <2>5 DEF MigKept, Halfway, Copying
<1>. QED BY <1>1, <1>2, <1>3, <1>4

LEMMA RoleSteps ==
  ASSUME NotATable, MigTyped, MigKept, SeedRoles \/ MergeRole
  PROVE  MigKept'
<1> USE DEF Goto, Kept, Uncommitted
<1>0. work \in Files /\ Halfway
  BY DEF MigTyped, MigTypeOK, MigKept
<1>a. Sound(orig, disk) /\ Sound(orig, work) /\ orig \in Legacies
  BY DEF MigKept
<1>c. ~ OldUnique(work)
  BY <1>0 DEF Halfway, Rebuilt, Prepared, Steps, SeedRoles, MergeRole
<1>1. CASE SeedRoles
  <2>1. CASE work.roles = {}
    <3>1. PICK rid \in Roles : work' = [work EXCEPT !.roles = {<<"default", rid>>}]
      BY <1>1, <2>1 DEF SeedRoles
    <3>2. UNCHANGED <<orig, disk>> /\ pc' = "merge"
      BY <1>1, <2>1 DEF SeedRoles
    <3>3. /\ work'.roles = {<<"default", rid>>}
          /\ work'.user_facts = work.user_facts /\ work'.uniq = work.uniq
          /\ work'.old_user_facts = work.old_user_facts /\ work'.facts_v2 = work.facts_v2
          /\ work'.home = work.home
      BY <1>0, <3>1 DEF Files
    <3>4. ~ OldUnique(work')
      BY <1>c, <3>3 DEF OldUnique
    <3>5. Sound(orig, work')
      BY <1>a, <2>1, <3>3, <3>4, SeededSound
    <3>. QED BY <1>a, <3>2, <3>3, <3>4, <3>5 DEF MigKept, Halfway, Copying
  <2>2. CASE work.roles # {}
    <3>1. UNCHANGED <<orig, disk, work>> /\ pc' = "merge"
      BY <1>1, <2>2 DEF SeedRoles
    <3>2. ~ OldUnique(work')
      BY <1>c, <3>1
    <3>. QED BY <1>a, <2>2, <3>1, <3>2 DEF MigKept, Halfway, Copying
  <2>. QED BY <2>1, <2>2
<1>2. CASE MergeRole
  <2>1. PICK rid \in Roles :
          \E canonical \in MostTurns(work, OldSessions(work, rid)) : MergeOf(rid, canonical)
    BY <1>2 DEF MergeRole, MergeOf, MergedRole
  <2>2. PICK canonical \in MostTurns(work, OldSessions(work, rid)) : MergeOf(rid, canonical)
    BY <2>1
  <2>3. CASE pc' = "failed"
    <3>1. UNCHANGED <<orig, disk>> /\ work' = disk
      BY <1>2, <2>2, <2>3 DEF MergeRole, MergeOf
    <3>. QED BY <1>a, <2>3, <3>1 DEF MigKept, Halfway, Copying, Rebuilt, Prepared
  <2>4. CASE pc' # "failed"
    <3>1. UNCHANGED <<orig, disk, pc>> /\ work' = MergedRole(work, rid, canonical)
      BY <2>2, <2>4 DEF MergeOf
    <3>2. canonical \in OldSessions(work, rid)
      BY DEF MostTurns
    <3>3. pc = "merge" /\ work.roles # {}
      BY <1>0, <1>2 DEF MergeRole, Halfway
    <3>4. /\ Sound(orig, MergedRole(work, rid, canonical))
          /\ ~ OldUnique(MergedRole(work, rid, canonical))
          /\ MergedRole(work, rid, canonical).roles # {}
      BY <1>0, <1>a, <1>c, <3>2, <3>3, MergedSound
    <3>. QED BY <1>a, <3>1, <3>3, <3>4 DEF MigKept, Halfway, Copying
  <2>. QED BY <2>3, <2>4
<1>. QED BY <1>1, <1>2

LEMMA MigKeptStep ==
  ASSUME NotATable
  PROVE  MigTyped /\ MigKept /\ [MigNext]_mvars => MigKept'
<1>. SUFFICES ASSUME MigTyped, MigKept, [MigNext]_mvars PROVE MigKept'
  OBVIOUS
<1>1. CASE UNCHANGED mvars
  BY <1>1 DEF mvars, MigKept, Halfway
<1>2. CASE MigNext
  BY <1>2, PlainSteps, UkSteps, ScriptSteps, RoleSteps DEF MigNext, Upgrade
<1>. QED BY <1>1, <1>2

LEMMA MigKeptHolds ==
  ASSUME MigTyped, MigKept
  PROVE  FactsStay /\ MergeAtomic
<1>1. disk \in Files /\ Sound(orig, disk)
  BY DEF MigTyped, MigTypeOK, MigKept
<1>2. FactsStay
  BY <1>1 DEF FactsStay, Sound, Safe, Told, FactsOf, Beaten, Superseded, Ids
<1>3. MergeAtomic
  <2> SUFFICES ASSUME NEW p \in orig.roles, p[1] # p[2], \A q \in orig.roles : q[2] # p[1]
               PROVE  IF p \in disk.roles
                      THEN Of(orig.turns, p[1]) \subseteq Rows(disk.turns)
                      ELSE \A table \in {disk.user_facts, disk.facts_v2, disk.reflections,
                                          disk.insights_v2, disk.turns} : Of(table, p[1]) = {}
    BY DEF MergeAtomic
  <2>1. /\ p \in disk.roles => Of(orig.turns, p[1]) \subseteq Rows(disk.turns)
        /\ p \notin disk.roles => Gone(disk, p[1])
    BY <1>1 DEF Sound, Placed
  <2>. QED BY <2>1 DEF Gone, Of
<1>. QED BY <1>2, <1>3

(***************************************************************************)
(* The theorems on the file, over every behaviour of the memory: a step of *)
(* it is a step of open(), a crash, or none of the file at all.            *)
(***************************************************************************)
LEMMA FileOfMemory == MemorySpec => MigSpec
<1>1. MemoryInit => MigInit
  BY DEF MemoryInit, StorageInit
<1>2. [MemoryNext]_memoryVars => [MigNext]_mvars
  BY DEF MemoryNext, memoryVars, StoragePart, ConsPart, CarePart, StorageNext, OpenStep,
         CallStep, Crash, storageVars, MigNext
<1>. QED BY <1>1, <1>2, PTL DEF MemorySpec, MigSpec

LEMMA MigTypesHold == MigSpec => []MigTyped
BY MigTypedInit, MigTypedStep, PTL DEF MigSpec

(* The types of the file, and of all its snapshots, at every step.         *)
THEOREM FileTypes == MemorySpec => []MigTypeOK
<1>1. MigTyped => MigTypeOK
  BY DEF MigTyped
<1>. QED BY <1>1, FileOfMemory, MigTypesHold, PTL

(***************************************************************************)
(* As long as there have been fewer starts than snapshots kept, and no     *)
(* backup failed, an old file that has changed is there as it was, as one  *)
(* of the snapshots, wherever the process died (open, _backup_db).         *)
(***************************************************************************)
THEOREM BackupStays == MemorySpec => []BackupHolds
<1>1. MigTyped => MigTypeOK
  BY DEF MigTyped
<1>2. Snapshots => BackupHolds
  BY DEF Snapshots, Owed, BackupHolds
<1>. QED BY <1>1, <1>2, FileOfMemory, MigTypesHold, SnapshotsInit, SnapshotsStep, PTL
         DEF MigSpec

LEMMA MigKeptAlways ==
  ASSUME NotATable
  PROVE  MemorySpec => [](MigTyped /\ MigKept)
<1>1. MigTyped /\ MigKept /\ [MigNext]_mvars => MigKept'
  BY MigKeptStep
<1>. QED BY <1>1, FileOfMemory, MigTypesHold, MigKeptInit, PTL DEF MigSpec

(***************************************************************************)
(* Whatever older versions left behind, wherever the process dies, and     *)
(* however often: a fact the user told is still in some table, unless its  *)
(* session was dropped or has a newer fact of the same key                 *)
(* (initialize in database.py: #UK-001, #SR-002, v4 to v6).                *)
(***************************************************************************)
THEOREM FactsAreKept ==
  ASSUME NotATable
  PROVE  MemorySpec => []FactsStay
<1>1. MigTyped /\ MigKept => FactsStay
  BY MigKeptHolds
<1>. QED BY <1>1, MigKeptAlways, PTL

(* The merge of sessions is one transaction for all their tables: on disk  *)
(* a session is mapped and whole, or gone everywhere (#SR-002).            *)
THEOREM MergesAreAtomic ==
  ASSUME NotATable
  PROVE  MemorySpec => []MergeAtomic
<1>1. MigTyped /\ MigKept => MergeAtomic
  BY MigKeptHolds
<1>. QED BY <1>1, MigKeptAlways, PTL

HIDE MigAssumption DEF MigAssumption
USE TxAssumption DEF TxAssumption

(* A crash takes the calls with it, and what is committed stays.           *)
LEMMA TxCrash == TxInv /\ Crash => TxInv'
<1> SUFFICES ASSUME TxInv, Crash PROVE TxInv'
  OBVIOUS
<1>0. TxTypeOK /\ HolderInside /\ NotBegun /\ RowsKnown /\ NoneAhead
  BY DEF TxInv
<1>1. /\ holder' = Nobody /\ pending' = {} /\ conn' = "open" /\ stored' = stored
      /\ call' = [c \in Callers |->
                    IF call[c].at \in Ended \cup {"idle"} THEN [call[c] EXCEPT !.lost = FALSE]
                    ELSE [call[c] EXCEPT !.at = "cancelled", !.lost = FALSE]]
  BY DEF Crash
<1>2. ASSUME NEW c \in Callers
      PROVE  /\ call'[c].n = call[c].n /\ call'[c].kind = call[c].kind
             /\ call'[c].written = call[c].written
             /\ call'[c].at = IF call[c].at \in Ended \cup {"idle"} THEN call[c].at
                              ELSE "cancelled"
             /\ call'[c] \in [n : 0 .. CallMax, kind : Kinds, at : Stages,
                              written : 0 .. Statements, lost : BOOLEAN]
  BY <1>0, <1>1 DEF TxTypeOK, Stages
<1>3. TxTypeOK'
  BY <1>0, <1>1, <1>2 DEF TxTypeOK
<1>4. HolderInside'
  BY <1>0, <1>1, <1>2 DEF HolderInside, Ended, TxTypeOK
<1>5. NotBegun'
  BY <1>0, <1>2 DEF NotBegun, Ended
<1>6. RowsKnown'
  <2> SUFFICES ASSUME NEW c \in Callers PROVE KnownOf(c)'
    BY DEF RowsKnown
  <2>1. KnownOf(c)
    BY <1>0 DEF RowsKnown
  <2>2. RowsOf(c, pending)' = {} /\ RowsOf(c, stored)' = RowsOf(c, stored)
    BY <1>1, <1>2 DEF RowsOf
  <2>3. Upto(c, Statements)' = Upto(c, Statements)
    BY <1>2 DEF Upto
  <2>4. call'[c].at \in {"idle", "failed", "done", "cancelled"}
    BY <1>2 DEF Ended
  <2>5. call'[c].at # "cancelled" => call'[c].at = call[c].at
    BY <1>2
  <2>. QED BY <1>2, <2>1, <2>2, <2>3, <2>4, <2>5 DEF KnownOf
<1>7. NoneAhead'
  BY <1>0, <1>1, <1>2 DEF NoneAhead, TxTypeOK, CallRows
<1>. QED BY <1>3, <1>4, <1>5, <1>6, <1>7 DEF TxInv

(* ... so the calls are atomic across crashes and restarts as well (Crash  *)
(* in Storage: the connection and its open transaction go with the process).*)
THEOREM CallsSurviveCrashes == MemorySpec => []CallsAtomic
<1>1. MemoryInit => TxInv
  BY TxInvInit DEF MemoryInit, StorageInit
<1>2. TxInv /\ [MemoryNext]_memoryVars => TxInv'
  <2>1. [MemoryNext]_memoryVars => [TxNext]_tvars \/ Crash
    BY DEF MemoryNext, memoryVars, StoragePart, ConsPart, CarePart, StorageNext, OpenStep,
           CallStep, storageVars
  <2>2. TxInv /\ [TxNext]_tvars => TxInv'
    BY TypesStep, HolderStep, NotBegunStep, NoneAheadStep, RowsStep DEF TxInv
  <2>. QED BY <2>1, <2>2, TxCrash
<1>. QED BY <1>1, <1>2, TxInvCallsAtomic, PTL DEF MemorySpec
HIDE TxAssumption DEF TxAssumption
-----------------------------------------------------------------------------
(* The care list (CareList).                                               *)
USE CareAssumption DEF CareAssumption

LEMMA BelowWellFounded ==
  IsWellFoundedOn({p \in Nat \X Nat : p[1] < p[2]}, Nat)
BY NatLessThanWellFounded DEF OpToRel

LEMMA Least ==
  ASSUME NEW S \in SUBSET Nat, S # {}
  PROVE  \E n \in S : \A m \in S : n <= m
<1>1. PICK n \in S : \A m \in S : <<m, n>> \notin {p \in Nat \X Nat : p[1] < p[2]}
  BY BelowWellFounded, WFMin
<1>2. ASSUME NEW m \in S PROVE n <= m
  <2>1. m \in Nat /\ n \in Nat
    OBVIOUS
  <2>2. ~(m < n)
    BY <1>1, <2>1
  <2>. QED BY <2>1, <2>2
<1>. QED BY <1>2

(* The n-th of some places is one of them, with n of them up to it.         *)
LEMMA NthIn ==
  ASSUME NEW L \in Nat, NEW S \in SUBSET (1..L), NEW n \in 1..Cardinality(S)
  PROVE  Nth(S, n) \in S /\ Cardinality({j \in S : j <= Nth(S, n)}) = n
<1> DEFINE Below(m) == {j \in S : j <= m}
            M == {m \in Nat : Cardinality(Below(m)) >= n}
<1>0. \A j \in S : j \in Nat /\ 1 <= j /\ j <= L
  OBVIOUS
<1>1. IsFiniteSet(S)
  <2>1. IsFiniteSet(1..L)
    BY FS_Interval
  <2>. QED BY <2>1, FS_Subset
<1>2. \A m \in Nat : IsFiniteSet(Below(m)) /\ Cardinality(Below(m)) \in Nat
  <2>1. \A m \in Nat : IsFiniteSet(Below(m))
    BY <1>1, FS_Subset
  <2>. QED BY <2>1, FS_CardinalityType
<1>3. Cardinality(S) \in Nat /\ n \in Nat /\ n > 0
  BY <1>1, FS_CardinalityType
<1>4. L \in M
  <2>1. Below(L) = S
    BY <1>0
  <2> HIDE DEF Below
  <2>. QED BY <1>3, <2>1
<1>5. PICK m \in M : \A k \in M : m <= k
  BY <1>4, Least
<1>6. m # 0
  <2>1. Below(0) = {}
    <3>1. \A j \in S : ~(j <= 0)
      BY <1>0
    <3>. QED BY <3>1
  <2> HIDE DEF Below
  <2>2. Cardinality(Below(0)) = 0
    BY <2>1, FS_EmptySet
  <2>3. 0 \notin M
    BY <1>3, <2>2
  <2>. QED BY <2>3
<1>7. m - 1 \in Nat /\ Cardinality(Below(m - 1)) < n
  <2>1. m \in Nat /\ m - 1 \in Nat /\ ~(m <= m - 1)
    BY <1>6
  <2>2. m - 1 \notin M
    BY <1>5, <2>1
  <2> HIDE DEF Below
  <2>. QED BY <1>2, <1>3, <2>1, <2>2
<1>8. m \in S
  <2> SUFFICES ASSUME m \notin S PROVE FALSE
    OBVIOUS
  <2>1. Below(m) = Below(m - 1)
    <3>1. \A j \in S : j <= m <=> j <= m - 1
      BY <1>0, <1>7
    <3>. QED BY <3>1
  <2> HIDE DEF Below
  <2>2. Cardinality(Below(m)) >= n /\ Cardinality(Below(m)) < n
    BY <1>7, <2>1
  <2>. QED BY <1>2, <1>3, <2>2
<1>9. Cardinality(Below(m)) = n
  <2>1. Below(m) = Below(m - 1) \cup {m}
    <3>1. \A j \in S : j <= m <=> j <= m - 1 \/ j = m
      BY <1>0, <1>7
    <3>. QED BY <1>8, <3>1
  <2>2. m \notin Below(m - 1)
    BY <1>7
  <2> HIDE DEF Below
  <2>3. Cardinality(Below(m)) = Cardinality(Below(m - 1)) + 1
    BY <1>2, <1>7, <2>1, <2>2, FS_AddElement
  <2>. QED BY <1>2, <1>3, <1>7, <2>3
<1>. QED BY <1>8, <1>9 DEF Nth

(* A list on which nothing is twice, of entries born up to n, and none of  *)
(* those that are over and saved so is active.                             *)
Fine(l, n, over) ==
  /\ l \in Seq(Entry)
  /\ \A i, j \in Live(l) : l[i].content = l[j].content => i = j
  /\ \A i, j \in DOMAIN l : l[i].self = l[j].self => i = j
  /\ \A i \in DOMAIN l : l[i].self \in 1 .. n
  /\ \A i \in Live(l) : l[i].self \notin over

(* Each entry of k is one of l: no two the same, and none active again.    *)
LEMMA FineTaken ==
  ASSUME NEW l, NEW n, NEW over, Fine(l, n, over), NEW k \in Seq(Entry),
         NEW m \in [DOMAIN k -> DOMAIN l], \A i, j \in DOMAIN k : m[i] = m[j] => i = j,
         \A i \in DOMAIN k : /\ k[i].self = l[m[i]].self /\ k[i].content = l[m[i]].content
                             /\ k[i].status = "active" => l[m[i]].status = "active"
  PROVE  Fine(k, n, over)
BY DEF Fine, Live

LEMMA FineChanged ==
  ASSUME NEW l, NEW n, NEW over, Fine(l, n, over), NEW k, DOMAIN k = DOMAIN l,
         k = [i \in DOMAIN l |-> k[i]],
         \A i \in DOMAIN l : /\ k[i] \in Entry
                             /\ k[i].self = l[i].self /\ k[i].content = l[i].content
                             /\ k[i].status = "active" => l[i].status = "active"
  PROVE  Fine(k, n, over)
<1>1. l \in Seq(Entry) /\ DOMAIN l = 1 .. Len(l) /\ Len(l) \in Nat
  BY DEF Fine
<1>2. k \in Seq(Entry)
  BY <1>1
<1> DEFINE m == [i \in DOMAIN k |-> i]
<1>3. m \in [DOMAIN k -> DOMAIN l] /\ \A i \in DOMAIN k : m[i] = i
  OBVIOUS
<1> HIDE DEF m
<1>. QED BY <1>2, <1>3, FineTaken

LEMMA FineRemoved ==
  ASSUME NEW l, NEW n, NEW over, Fine(l, n, over), NEW v \in DOMAIN l
  PROVE  Fine(RemoveAt(l, v), n, over)
<1>1. /\ l \in Seq(Entry) /\ DOMAIN l = 1 .. Len(l) /\ Len(l) \in Nat
      /\ v \in Nat /\ 1 <= v /\ v <= Len(l)
  BY DEF Fine
<1> DEFINE a == SubSeq(l, 1, v - 1)
           b == SubSeq(l, v + 1, Len(l))
           k == a \o b
           m == [i \in DOMAIN k |-> IF i < v THEN i ELSE i + 1]
<1>2. a \in Seq(Entry) /\ Len(a) = v - 1 /\ \A i \in 1 .. v - 1 : a[i] = l[i]
  BY <1>1
<1>3. b \in Seq(Entry) /\ Len(b) = Len(l) - v /\ \A i \in 1 .. Len(l) - v : b[i] = l[v + i]
  BY <1>1
<1> HIDE DEF a, b
<1>a. k \in Seq(Entry) /\ Len(k) = Len(a) + Len(b)
      /\ \A i \in 1 .. Len(k) : k[i] = IF i <= Len(a) THEN a[i] ELSE b[i - Len(a)]
  <2>1. a \in Seq(Entry) /\ b \in Seq(Entry)
    BY <1>2, <1>3
  <2>2. /\ a \o b \in Seq(Entry) /\ Len(a \o b) = Len(a) + Len(b)
        /\ \A i \in 1 .. Len(a) + Len(b) :
             (a \o b)[i] = IF i <= Len(a) THEN a[i] ELSE b[i - Len(a)]
    BY <2>1, ConcatProperties, Zenon
  <2>. QED BY <2>2
<1>b. k = RemoveAt(l, v)
  BY DEF RemoveAt, a, b
<1> HIDE DEF k
<1>c. Len(k) = Len(l) - 1
  BY <1>1, <1>2, <1>3, <1>a
<1>4. k \in Seq(Entry) /\ DOMAIN k = 1 .. Len(k) /\ Len(k) \in Nat
  BY <1>a
<1>5. ASSUME NEW i \in DOMAIN k
      PROVE  k[i] = l[IF i < v THEN i ELSE i + 1]
  <2>0. i \in Nat /\ 1 <= i /\ i <= Len(l) - 1
    BY <1>1, <1>4, <1>c
  <2>1. CASE i < v
    <3>1. i <= Len(a) /\ i \in 1 .. v - 1
      BY <1>1, <1>2, <2>0, <2>1
    <3>2. k[i] = a[i]
      BY <1>a, <1>4, <3>1
    <3>. QED BY <1>2, <2>1, <3>1, <3>2
  <2>2. CASE ~(i < v)
    <3>1. k[i] = b[i - (v - 1)]
      <4>1. ~(i <= Len(a))
        BY <1>1, <1>2, <2>0, <2>2
      <4>. QED BY <1>a, <1>2, <1>4, <4>1
    <3>2. i - (v - 1) \in 1 .. Len(l) - v /\ v + (i - (v - 1)) = i + 1
      BY <1>1, <2>0, <2>2
    <3>. QED BY <1>3, <2>2, <3>1, <3>2
  <2>. QED BY <2>1, <2>2
<1>d. \A i \in DOMAIN k : i \in Nat /\ 1 <= i /\ i <= Len(l) - 1
  BY <1>1, <1>4, <1>c
<1>7. /\ m \in [DOMAIN k -> DOMAIN l]
      /\ \A i \in DOMAIN k : m[i] = IF i < v THEN i ELSE i + 1
      /\ \A i, j \in DOMAIN k : m[i] = m[j] => i = j
  BY <1>1, <1>d
<1> HIDE DEF m
<1>8. \A i \in DOMAIN k : k[i] = l[m[i]]
  BY <1>5, <1>7
<1>. QED BY <1>4, <1>b, <1>7, <1>8, FineTaken

LEMMA FinePicked ==
  ASSUME NEW l, NEW n, NEW over, Fine(l, n, over), NEW S \in SUBSET DOMAIN l
  PROVE  Fine(Picked(l, S), n, over)
<1>1. l \in Seq(Entry) /\ DOMAIN l = 1 .. Len(l) /\ Len(l) \in Nat
  BY DEF Fine
<1>2. IsFiniteSet(S) /\ Cardinality(S) \in Nat
  <2>1. IsFiniteSet(1 .. Len(l))
    BY <1>1, FS_Interval
  <2>2. IsFiniteSet(S)
    BY <1>1, <2>1, FS_Subset
  <2>. QED BY <2>2, FS_CardinalityType
<1> DEFINE k == Picked(l, S)
           m == [i \in DOMAIN k |-> Nth(S, i)]
<1>3. \A i \in 1 .. Cardinality(S) :
        Nth(S, i) \in S /\ Cardinality({j \in S : j <= Nth(S, i)}) = i
  BY <1>1, NthIn
<1>4. /\ DOMAIN k = 1 .. Cardinality(S) /\ k = [i \in 1 .. Cardinality(S) |-> k[i]]
      /\ \A i \in DOMAIN k : k[i] = l[Nth(S, i)]
  BY DEF Picked
<1> HIDE DEF k
<1>a. \A j \in DOMAIN l : l[j] \in Entry
  BY <1>1
<1>5. \A i \in DOMAIN k : Nth(S, i) \in DOMAIN l /\ k[i] \in Entry
  BY <1>3, <1>4, <1>a
<1>6. k \in Seq(Entry)
  <2>1. k \in [1 .. Cardinality(S) -> Entry]
    BY <1>4, <1>5
  <2>. QED BY <1>2, <2>1
<1>7. \A i, j \in DOMAIN k : Nth(S, i) = Nth(S, j) => i = j
  BY <1>3, <1>4
<1>8. m \in [DOMAIN k -> DOMAIN l] /\ \A i \in DOMAIN k : m[i] = Nth(S, i)
  BY <1>5
<1> HIDE DEF m
<1>9. \A i, j \in DOMAIN k : m[i] = m[j] => i = j
  BY <1>7, <1>8
<1>10. \A i \in DOMAIN k : k[i] = l[m[i]]
  BY <1>4, <1>8
<1>11. Fine(k, n, over)
  BY <1>6, <1>8, <1>9, <1>10, FineTaken
<1>. QED BY <1>11 DEF k

(* Of the numbers past the length of a list one is free: NextId finds it.  *)
LEMMA NextIdType ==
  ASSUME NEW l \in Seq(Entry)
  PROVE  NextId(l) \in Nat \ {0}
<1> DEFINE L == Len(l)
           S == (L + 1) .. (2 * L + 1)
           free == S \ Numbers(l)
           Next2 == CHOOSE n \in S : n \notin Numbers(l) /\ (L + 1) .. (n - 1) \subseteq Numbers(l)
<1>1. L \in Nat /\ DOMAIN l = 1 .. L /\ \A i \in DOMAIN l : l[i] \in Entry
  OBVIOUS
<1>2. IsFiniteSet(S) /\ Cardinality(S) = L + 1
  <2>1. L + 1 \in Int /\ 2 * L + 1 \in Int /\ L + 1 <= 2 * L + 1
    BY <1>1
  <2>2. Cardinality(S) = (2 * L + 1) - (L + 1) + 1
    BY <1>1, <2>1, FS_Interval
  <2>. QED BY <1>1, <2>1, <2>2, FS_Interval
<1>3. IsFiniteSet(Numbers(l)) /\ Cardinality(Numbers(l)) <= L /\ Cardinality(Numbers(l)) \in Nat
  <2> DEFINE f == [i \in 1 .. L |-> l[i].id]
  <2>1. f \in Surjection(1 .. L, Numbers(l))
    BY <1>1 DEF Surjection, Numbers
  <2>2. IsFiniteSet(1 .. L) /\ Cardinality(1 .. L) = L
    BY <1>1, FS_Interval
  <2> HIDE DEF f
  <2>3. IsFiniteSet(Numbers(l)) /\ Cardinality(Numbers(l)) <= L
    BY <2>1, <2>2, FS_Surjection
  <2>. QED BY <2>3, FS_CardinalityType
<1>4. free # {}
  <2> SUFFICES ASSUME free = {} PROVE FALSE
    OBVIOUS
  <2>1. S \subseteq Numbers(l)
    OBVIOUS
  <2> HIDE DEF S
  <2>2. Cardinality(S) <= Cardinality(Numbers(l))
    BY <1>3, <2>1, FS_Subset
  <2>. QED BY <1>1, <1>2, <1>3, <2>2
<1>5. free \in SUBSET Nat
  BY <1>1
<1>6. PICK n \in free : \A m \in free : n <= m
  BY <1>4, <1>5, Least
<1>7. (L + 1) .. (n - 1) \subseteq Numbers(l)
  <2> SUFFICES ASSUME NEW m \in (L + 1) .. (n - 1), m \notin Numbers(l) PROVE FALSE
    OBVIOUS
  <2>1. n \in S /\ m \in Int /\ n \in Int /\ m <= n - 1 /\ L + 1 <= m
    BY <1>1
  <2>2. m \in free
    BY <1>1, <2>1
  <2>3. n <= m
    BY <1>6, <2>2
  <2>. QED BY <2>1, <2>3
<1>8. Next2 \in S
  BY <1>7
<1>9. NextId(l) = Next2
  BY DEF NextId
<1> HIDE DEF Next2
<1>. QED BY <1>1, <1>8, <1>9

LEMMA FineAdded ==
  ASSUME born \in Nat, closed \subseteq 1 .. born, NEW l, Fine(l, born, closed),
         NEW c \in Contents, NEW p \in Given
  PROVE  Fine(Added(l, c, p), born + 1, closed)
<1>1. /\ l \in Seq(Entry) /\ DOMAIN l = 1 .. Len(l) /\ Len(l) \in Nat
      /\ \A i \in DOMAIN l : l[i].self \in 1 .. born
  BY DEF Fine
<1>2. Fine(l, born + 1, closed)
  BY <1>1 DEF Fine
<1>3. CASE \E i \in Live(l) : l[i].content = c
  BY <1>2, <1>3 DEF Added
<1>4. CASE ~ \E i \in Live(l) : l[i].content = c
  <2> DEFINE e == [id |-> NextId(l), self |-> born + 1, content |-> c, prio |-> p,
                   status |-> "active"]
             k == Append(l, e)
  <2>1. Added(l, c, p) = k
    BY <1>4 DEF Added
  <2>2. e \in Entry
    <3>1. NextId(l) \in Nat \ {0}
      BY <1>1, NextIdType
    <3>2. p \in 0..100 /\ born + 1 \in Nat
      OBVIOUS
    <3>. QED BY <3>1, <3>2 DEF Entry, Statuses
  <2>3. e.self = born + 1 /\ e.content = c /\ e.self \notin closed
    OBVIOUS
  <2> HIDE DEF e
  <2>4. /\ k \in Seq(Entry) /\ DOMAIN k = 1 .. Len(l) + 1
        /\ \A i \in 1 .. Len(l) : k[i] = l[i]
        /\ k[Len(l) + 1] = e
    BY <1>1, <2>2
  <2> HIDE DEF k
  <2>5. \A i \in DOMAIN k : (i \in DOMAIN l /\ k[i] = l[i]) \/ (i = Len(l) + 1 /\ k[i] = e)
    BY <1>1, <2>4
  <2>6. \A i \in Live(k) : i \in Live(l) \/ i = Len(l) + 1
    BY <2>5 DEF Live
  <2>7. \A i, j \in Live(k) : k[i].content = k[j].content => i = j
    BY <1>4, <2>3, <2>5, <2>6 DEF Fine, Live
  <2>8. \A i \in DOMAIN l : l[i].self # born + 1
    BY <1>1
  <2>9. \A i, j \in DOMAIN k : k[i].self = k[j].self => i = j
    BY <2>3, <2>5, <2>8 DEF Fine
  <2>10. \A i \in DOMAIN k : k[i].self \in 1 .. born + 1
    BY <1>1, <2>3, <2>5
  <2>11. \A i \in Live(k) : k[i].self \notin closed
    BY <2>3, <2>5 DEF Fine, Live
  <2>. QED BY <2>1, <2>4, <2>7, <2>9, <2>10, <2>11 DEF Fine
<1>. QED BY <1>3, <1>4

LEMMA VictimThere ==
  ASSUME NEW l \in Seq(Entry), l # <<>>
  PROVE  Victim(l) \in DOMAIN l
<1>1. DOMAIN l = 1 .. Len(l) /\ Len(l) \in Nat /\ \A i \in DOMAIN l : l[i] \in Entry
  OBVIOUS
<1>a. \A e \in Entry : e.prio \in Nat
  <2>1. \A e \in Entry : e.prio \in 0..100
    BY DEF Entry
  <2>2. 0..100 \subseteq Nat
    OBVIOUS
  <2> HIDE CareAssumption
  <2>. QED BY <2>1, <2>2, Zenon
<1>2. \A i \in DOMAIN l : i \in Nat /\ l[i].prio \in Nat
  BY <1>1, <1>a
<1>3. DOMAIN l # {}
  <2>1. Len(l) # 0
    BY EmptySeq
  <2>2. 1 \in 1 .. Len(l)
    BY <1>1, <2>1
  <2>. QED BY <1>1, <2>2
<1>4. ASSUME NEW S \in SUBSET DOMAIN l, S # {} PROVE First(S) \in S
  <2>1. \E i \in S : \A j \in S : i <= j
    BY <1>2, <1>4, Least
  <2>. QED BY <2>1 DEF First
<1>5. Faintest(l) \in DOMAIN l
  <2> DEFINE P == {l[i].prio : i \in DOMAIN l}
  <2>0. P \in SUBSET Nat /\ P # {}
    BY <1>2, <1>3
  <2>1. PICK p \in P : \A q \in P : p <= q
    BY <2>0, Least
  <2> DEFINE I == {i \in DOMAIN l : l[i].prio = p}
  <2>2. I # {} /\ I \in SUBSET Nat
    BY <1>2, <2>1
  <2>3. PICK i \in I : \A j \in I : i <= j
    BY <2>2, Least
  <2>4. ASSUME NEW j \in DOMAIN l
        PROVE  l[i].prio < l[j].prio \/ (l[i].prio = l[j].prio /\ i <= j)
    <3>1. l[i].prio = p /\ p <= l[j].prio /\ p \in Nat /\ l[j].prio \in Nat
      BY <1>2, <2>1
    <3>2. CASE l[j].prio = p
      BY <2>3, <3>1, <3>2
    <3>3. CASE l[j].prio # p
      BY <3>1, <3>3
    <3>. QED BY <3>2, <3>3
  <2>5. i \in DOMAIN l
    OBVIOUS
  <2>. QED BY <2>4, <2>5 DEF Faintest
<1>. QED BY <1>4, <1>5 DEF Victim

LEMMA FineEvicted ==
  ASSUME NEW l, NEW n, NEW over, Fine(l, n, over)
  PROVE  Fine(Evicted(l), n, over)
<1>1. ASSUME NEW k, Fine(k, n, over) PROVE Fine(EvictedOnce(k), n, over)
  <2>1. CASE Len(k) > MaxEntries
    <3>1. k \in Seq(Entry) /\ k # <<>>
      BY <1>1, <2>1 DEF Fine
    <3>2. Victim(k) \in DOMAIN k
      BY <3>1, VictimThere
    <3>3. Fine(RemoveAt(k, Victim(k)), n, over)
      BY <1>1, <3>2, FineRemoved
    <3>. QED BY <2>1, <3>3 DEF EvictedOnce
  <2>2. CASE ~(Len(k) > MaxEntries)
    BY <1>1, <2>2 DEF EvictedOnce
  <2>. QED BY <2>1, <2>2
<1>. QED BY <1>1 DEF Evicted

(* What a save, or a failed one, does.                                     *)
Listed == Fine(list, born, closed) /\ Fine(mindFile.list, born, closed)
            /\ born \in Nat /\ closed \subseteq 1 .. born /\ mindFile.torn \in BOOLEAN

LEMMA FineEmpty ==
  ASSUME NEW n, NEW over PROVE Fine(<<>>, n, over)
BY DEF Fine, Live

LEMMA FineLater ==
  ASSUME NEW l, NEW n \in Nat, NEW over, Fine(l, n, over)
  PROVE  Fine(l, n + 1, over)
<1>1. \A i \in DOMAIN l : l[i].self \in 1 .. n
  BY DEF Fine
<1>. QED BY <1>1 DEF Fine

LEMMA SaveStep ==
  ASSUME Listed, NEW l, SaveList(l), born' \in {born, born + 1}, Fine(l, born', closed)
  PROVE  Listed'
<1>1. born' \in Nat /\ closed \subseteq 1 .. born' /\ Fine(mindFile.list, born', closed)
  BY FineLater DEF Listed
<1>2. list' = l
  BY DEF SaveList
<1>3. CASE mindFile' = Whole(l) /\ closed' = closed \cup Over(l)
  <2>1. Over(l) \subseteq 1 .. born'
    BY DEF Over, Fine
  <2>2. \A i \in Live(l) : l[i].self \notin Over(l)
    BY DEF Over, Fine, Live
  <2>3. Fine(l, born', closed')
    BY <1>3, <2>2 DEF Fine
  <2>4. mindFile'.list = l /\ mindFile'.torn = FALSE
    BY <1>3 DEF Whole
  <2>. QED BY <1>1, <1>2, <1>3, <2>1, <2>3, <2>4 DEF Listed
<1>4. CASE mindFile' = Torn /\ UNCHANGED closed
  <2>1. mindFile'.list = <<>> /\ mindFile'.torn = TRUE
    BY <1>4 DEF Torn
  <2>. QED BY <1>1, <1>2, <1>4, <2>1, FineEmpty DEF Listed
<1>5. CASE UNCHANGED <<mindFile, closed>>
  BY <1>1, <1>2, <1>5 DEF Listed
<1>. QED BY <1>3, <1>4, <1>5 DEF SaveList

(* What is done to an entry that is still the same one.                    *)
LEMMA Weakened ==
  ASSUME NEW p \in 0..100
  PROVE  Scaled(90, p) \in 0..100
BY DEF Scaled

Same(a, b) == /\ a \in Entry /\ a.self = b.self /\ a.content = b.content
              /\ a.status = "active" => b.status = "active"

LEMMA EntryChanges ==
  ASSUME NEW e \in Entry
  PROVE  /\ Same(e, e)
         /\ \A s \in Statuses \ {"active"} : Same([e EXCEPT !.status = s], e)
         /\ \A p \in 0..100 : Same([e EXCEPT !.prio = p], e)
         /\ Same([e EXCEPT !.prio = Scaled(90, e.prio)], e)
         /\ \A good \in BOOLEAN : /\ Same(Judged(e, good), e)
                                  /\ Same([Judged(e, good) EXCEPT !.status = "resolved"], e)
<1>1. \A s \in Statuses \ {"active"}, x \in Entry :
        x.self = e.self /\ x.content = e.content => Same([x EXCEPT !.status = s], e)
  BY DEF Same, Entry, Statuses
<1>2. ASSUME NEW p \in 0..100 PROVE Same([e EXCEPT !.prio = p], e)
  BY DEF Same, Entry
<1>3. e.prio \in 0..100
  BY DEF Entry
<1>4. Scaled(90, e.prio) \in 0..100
  BY <1>3, Weakened
<1>5. ASSUME NEW good \in BOOLEAN PROVE Same(Judged(e, good), e)
  <2> DEFINE p == IF ~good THEN Scaled(90, e.prio) ELSE IF e.prio > 95 THEN 100 ELSE e.prio + 5
  <2>1. p \in 0..100
    BY <1>3, <1>4
  <2>2. Judged(e, good) = [e EXCEPT !.prio = p]
    BY DEF Judged
  <2> HIDE DEF p
  <2>. QED BY <1>2, <2>1, <2>2
<1>6. ASSUME NEW good \in BOOLEAN PROVE Same([Judged(e, good) EXCEPT !.status = "resolved"], e)
  <2>1. "resolved" \in Statuses \ {"active"}
    BY DEF Statuses
  <2>. QED BY <1>1, <1>5, <2>1 DEF Same
<1>7. Same(e, e)
  BY DEF Same
<1>. QED BY <1>1, <1>2, <1>4, <1>5, <1>6, <1>7

LEMMA FineSame ==
  ASSUME NEW l, NEW n, NEW over, Fine(l, n, over), NEW k, DOMAIN k = DOMAIN l,
         k = [i \in DOMAIN l |-> k[i]], \A i \in DOMAIN l : Same(k[i], l[i])
  PROVE  Fine(k, n, over)
BY FineChanged DEF Same

LEMMA FineEntries ==
  ASSUME NEW l, NEW n, NEW over, Fine(l, n, over)
  PROVE  \A i \in DOMAIN l : l[i] \in Entry
BY DEF Fine

LEMMA FineRefreshed ==
  ASSUME NEW l, NEW n, NEW over, Fine(l, n, over), NEW late
  PROVE  Fine(Refreshed(l, late), n, over)
<1> DEFINE k == Refreshed(l, late)
<1>1. /\ DOMAIN k = DOMAIN l /\ k = [i \in DOMAIN l |-> k[i]]
      /\ \A i \in DOMAIN l : k[i] = IF i \in late THEN [l[i] EXCEPT !.status = "expired"]
                                    ELSE l[i]
  BY DEF Refreshed
<1>2. "expired" \in Statuses \ {"active"}
  BY DEF Statuses
<1> HIDE DEF k
<1>3. \A i \in DOMAIN l : Same(k[i], l[i])
  BY <1>1, <1>2, FineEntries, EntryChanges
<1>4. Fine(k, n, over)
  BY <1>1, <1>3, FineSame
<1>. QED BY <1>4 DEF k

LEMMA FineArchived ==
  ASSUME NEW l, NEW n, NEW over, Fine(l, n, over)
  PROVE  Fine(Archived(l), n, over)
<1> DEFINE k == Archived(l)
<1>1. /\ DOMAIN k = DOMAIN l /\ k = [i \in DOMAIN l |-> k[i]]
      /\ \A i \in DOMAIN l : k[i] \in {[l[i] EXCEPT !.status = "decayed"], l[i]}
  BY DEF Archived
<1>2. "decayed" \in Statuses \ {"active"}
  BY DEF Statuses
<1> HIDE DEF k
<1>3. \A i \in DOMAIN l : Same(k[i], l[i])
  BY <1>1, <1>2, FineEntries, EntryChanges
<1>4. Fine(k, n, over)
  BY <1>1, <1>3, FineSame
<1>. QED BY <1>4 DEF k

CareInv ==
  /\ Listed
  /\ loaded \in BOOLEAN /\ (~ loaded => list = <<>>)
  /\ round \in 0..MaxRounds /\ care \in Nat /\ judging \in BOOLEAN /\ used \in 0..WorkMax

LEMMA CareInvInit == CareInit => CareInv
<1> SUFFICES ASSUME CareInit PROVE CareInv
  OBVIOUS
<1>1. mindFile.list = <<>> /\ mindFile.torn = FALSE
  BY DEF CareInit, Whole
<1>2. /\ list = <<>> /\ loaded = FALSE /\ round = 0 /\ care = 0 /\ judging = FALSE
      /\ used = 0 /\ born = 0 /\ closed = {}
  BY DEF CareInit
<1>3. Listed
  BY <1>1, <1>2, FineEmpty DEF Listed
<1>4. 0 \in 0..MaxRounds /\ 0 \in 0..WorkMax
  OBVIOUS
<1>. QED BY <1>2, <1>3, <1>4 DEF CareInv

LEMMA KnownFine ==
  ASSUME CareInv
  PROVE  Fine(Known, born, closed)
BY DEF CareInv, Listed, Known

(* The list is another one, and nothing is saved.                          *)
LEMMA UnsavedStep ==
  ASSUME CareInv, Fine(list', born, closed), UNCHANGED <<mindFile, born, closed>>
  PROVE  Listed'
BY DEF CareInv, Listed

LEMMA UpdatesStep ==
  ASSUME CareInv, Updates(Known)
  PROVE  Listed'
<1>1. Fine(Known, born, closed) /\ born \in Nat /\ closed \subseteq 1 .. born /\ Listed
  BY KnownFine DEF CareInv, Listed
<1> DEFINE Spared(dropped) == Picked(Known, {i \in DOMAIN Known : Known[i].content \notin dropped})
            New(dropped, c, p, adds) == IF adds THEN Added(Spared(dropped), c, p) ELSE Spared(dropped)
<1>2. PICK dropped \in SUBSET Contents, c \in Contents, p \in Given, adds \in BOOLEAN :
        /\ SaveList(Evicted(New(dropped, c, p, adds)))
        /\ born' = IF adds THEN born + 1 ELSE born
  BY DEF Updates
<1> DEFINE k == Spared(dropped)
<1>3. Fine(k, born, closed)
  BY <1>1, FinePicked
<1>4. SaveList(Evicted(IF adds THEN Added(k, c, p) ELSE k))
  BY <1>2
<1> HIDE DEF k
<1>5. CASE adds
  <2>1. Fine(Added(k, c, p), born + 1, closed)
    BY <1>1, <1>3, FineAdded
  <2>2. Fine(Evicted(Added(k, c, p)), born + 1, closed)
    BY <2>1, FineEvicted
  <2>3. SaveList(Evicted(Added(k, c, p))) /\ born' = born + 1
    BY <1>2, <1>4, <1>5
  <2>. QED BY <1>1, <2>2, <2>3, SaveStep
<1>6. CASE ~ adds
  <2>1. Fine(Evicted(k), born, closed)
    BY <1>3, FineEvicted
  <2>2. SaveList(Evicted(k)) /\ born' = born
    BY <1>2, <1>4, <1>6
  <2>. QED BY <1>1, <2>1, <2>2, SaveStep
<1>. QED BY <1>5, <1>6

LEMMA ThinkStep ==
  ASSUME CareInv, Think
  PROVE  Listed'
<1>1. Fine(Known, born, closed) /\ Listed
  BY KnownFine DEF CareInv
<1>2. PICK late \in Late(Known) :
        \E picked \in SUBSET Live(Refreshed(Known, late)) :
          SaveList(Evicted(Archived(
            [i \in DOMAIN Refreshed(Known, late) |->
               IF i \in picked THEN [Refreshed(Known, late)[i] EXCEPT !.prio = Scaled(90, @)]
                               ELSE Refreshed(Known, late)[i]])))
  BY DEF Think
<1> DEFINE l == Refreshed(Known, late)
<1>3. Fine(l, born, closed)
  BY <1>1, FineRefreshed
<1>4. PICK picked \in SUBSET Live(l) :
        SaveList(Evicted(Archived(
          [i \in DOMAIN l |-> IF i \in picked THEN [l[i] EXCEPT !.prio = Scaled(90, @)]
                                              ELSE l[i]])))
  BY <1>2
<1> HIDE DEF l
<1> DEFINE k == [i \in DOMAIN l |-> IF i \in picked THEN [l[i] EXCEPT !.prio = Scaled(90, @)]
                                                    ELSE l[i]]
<1>5. /\ DOMAIN k = DOMAIN l /\ k = [i \in DOMAIN l |-> k[i]]
      /\ \A i \in DOMAIN l : k[i] \in {[l[i] EXCEPT !.prio = Scaled(90, l[i].prio)], l[i]}
  OBVIOUS
<1>6. SaveList(Evicted(Archived(k)))
  BY <1>4
<1> HIDE DEF k
<1>7. \A i \in DOMAIN l : Same(k[i], l[i])
  BY <1>3, <1>5, FineEntries, EntryChanges
<1>8. Fine(k, born, closed)
  BY <1>3, <1>5, <1>7, FineSame
<1>9. Fine(Evicted(Archived(k)), born, closed)
  BY <1>8, FineArchived, FineEvicted
<1>10. born' = born
  BY DEF Think
<1>. QED BY <1>1, <1>6, <1>9, <1>10, SaveStep

LEMMA ResolveStep ==
  ASSUME CareInv, ResolveMatching
  PROVE  Listed'
<1>1. Fine(Known, born, closed) /\ Listed /\ born' = born
  BY KnownFine DEF CareInv, ResolveMatching
<1>2. PICK late \in Late(Known) :
        \/ list' = Refreshed(Known, late) /\ UNCHANGED <<mindFile, closed>>
        \/ \E hit \in (SUBSET Live(Refreshed(Known, late))) \ {{}} :
             SaveList([i \in DOMAIN Refreshed(Known, late) |->
                         IF i \in hit
                         THEN [Refreshed(Known, late)[i] EXCEPT !.status = "resolved"]
                         ELSE Refreshed(Known, late)[i]])
  BY DEF ResolveMatching
<1> DEFINE l == Refreshed(Known, late)
<1>3. Fine(l, born, closed)
  BY <1>1, FineRefreshed
<1>4. CASE list' = l /\ UNCHANGED <<mindFile, closed>>
  BY <1>1, <1>3, <1>4, UnsavedStep
<1>5. CASE \E hit \in (SUBSET Live(l)) \ {{}} :
             SaveList([i \in DOMAIN l |-> IF i \in hit THEN [l[i] EXCEPT !.status = "resolved"]
                                          ELSE l[i]])
  <2> HIDE DEF l
  <2>1. PICK hit \in (SUBSET Live(l)) \ {{}} :
             SaveList([i \in DOMAIN l |-> IF i \in hit THEN [l[i] EXCEPT !.status = "resolved"]
                                          ELSE l[i]])
    BY <1>5
  <2> DEFINE k == [i \in DOMAIN l |-> IF i \in hit THEN [l[i] EXCEPT !.status = "resolved"]
                                      ELSE l[i]]
  <2>2. /\ DOMAIN k = DOMAIN l /\ k = [i \in DOMAIN l |-> k[i]]
        /\ \A i \in DOMAIN l : k[i] \in {[l[i] EXCEPT !.status = "resolved"], l[i]}
    OBVIOUS
  <2>3. SaveList(k)
    BY <2>1
  <2>4. "resolved" \in Statuses \ {"active"}
    BY DEF Statuses
  <2> HIDE DEF k
  <2>5. \A i \in DOMAIN l : Same(k[i], l[i])
    BY <1>3, <2>2, <2>4, FineEntries, EntryChanges
  <2>6. Fine(k, born, closed)
    BY <1>3, <2>2, <2>5, FineSame
  <2>. QED BY <1>1, <2>3, <2>6, SaveStep
<1>. QED BY <1>2, <1>4, <1>5

LEMMA OutcomeStep ==
  ASSUME CareInv, RecordOutcome
  PROVE  Listed'
<1>1. Fine(Known, born, closed) /\ Listed /\ born' = born
  BY KnownFine DEF CareInv, RecordOutcome
<1> DEFINE l == Known
           target == {i \in Live(l) : l[i].id = care}
           t == First(target)
           k(good) == [i \in DOMAIN l |->
                         IF i = t THEN [Judged(l[i], good) EXCEPT !.status = "resolved"]
                         ELSE IF i \in Live(l) /\ (IsPlan(l[i]) <=> IsPlan(l[t]))
                              THEN Judged(l[i], good) ELSE l[i]]
<1>2. PICK good \in BOOLEAN :
        IF target = {} THEN list' = l /\ UNCHANGED <<mindFile, closed>>
        ELSE SaveList(k(good))
  BY DEF RecordOutcome
<1>3. CASE target = {}
  BY <1>1, <1>2, <1>3, UnsavedStep
<1>4. CASE target # {}
  <2>1. SaveList(k(good))
    BY <1>2, <1>4
  <2> DEFINE h == k(good)
  <2> HIDE DEF t
  <2>2. /\ DOMAIN h = DOMAIN l /\ h = [i \in DOMAIN l |-> h[i]]
        /\ \A i \in DOMAIN l : h[i] \in {[Judged(l[i], good) EXCEPT !.status = "resolved"],
                                         Judged(l[i], good), l[i]}
    OBVIOUS
  <2>3. SaveList(h)
    BY <2>1
  <2> HIDE DEF h, l
  <2>4. \A i \in DOMAIN l : Same(h[i], l[i])
    BY <1>1, <2>2, FineEntries, EntryChanges DEF l
  <2>5. Fine(h, born, closed)
    BY <1>1, <2>2, <2>4, FineSame DEF l
  <2>. QED BY <1>1, <2>3, <2>5, SaveStep
<1>. QED BY <1>3, <1>4

LEMMA AttributeStep ==
  ASSUME CareInv, Attribute
  PROVE  Listed' /\ care' \in Nat
<1>1. Fine(Known, born, closed) /\ UNCHANGED <<mindFile, born, closed>>
  BY KnownFine DEF Attribute
<1>2. PICK late \in Late(Known) :
        /\ list' = Refreshed(Known, late)
        /\ care' \in {0} \cup {Refreshed(Known, late)[i].id : i \in Live(Refreshed(Known, late))}
  BY DEF Attribute
<1>3. Fine(Refreshed(Known, late), born, closed)
  BY <1>1, FineRefreshed
<1>4. \A e \in Entry : e.id \in Nat
  BY DEF Entry
<1>5. \A i \in Live(Refreshed(Known, late)) : Refreshed(Known, late)[i] \in Entry
  BY <1>3, FineEntries DEF Live
<1>. QED BY <1>1, <1>2, <1>3, <1>4, <1>5, UnsavedStep

LEMMA CareStep == CareInv /\ [CareNext]_careVars => CareInv'
<1> SUFFICES ASSUME CareInv, [CareNext]_careVars PROVE CareInv'
  OBVIOUS
<1>0. /\ Listed /\ loaded \in BOOLEAN /\ (~ loaded => list = <<>>)
      /\ round \in 0..MaxRounds /\ care \in Nat /\ judging \in BOOLEAN /\ used \in 0..WorkMax
  BY DEF CareInv
<1>w. Working => loaded' = TRUE /\ used' \in 0..WorkMax
  BY <1>0 DEF Working
<1>1. CASE UNCHANGED careVars
  BY <1>1 DEF careVars, CareInv, Listed
<1>2. CASE Think
  <2>1. Listed'
    BY <1>2, ThinkStep
  <2>2. loaded' = TRUE /\ used' \in 0..WorkMax /\ round' = 1 /\ UNCHANGED <<care, judging>>
    BY <1>2, <1>w DEF Think
  <2>3. 1 \in 0..MaxRounds
    OBVIOUS
  <2>. QED BY <1>0, <2>1, <2>2, <2>3 DEF CareInv
<1>3. CASE Ponder
  <2>1. Listed'
    <3>1. CASE Updates(Known)
      BY <3>1, UpdatesStep
    <3>2. CASE list' = Known /\ UNCHANGED <<mindFile, born, closed>>
      BY <3>2, KnownFine, UnsavedStep
    <3>. QED BY <1>3, <3>1, <3>2 DEF Ponder
  <2>2. loaded' = TRUE /\ used' \in 0..WorkMax /\ UNCHANGED <<care, judging>>
    BY <1>3, <1>w DEF Ponder
  <2>3. round' \in 0..MaxRounds
    BY <1>0, <1>3 DEF Ponder
  <2>. QED BY <1>0, <2>1, <2>2, <2>3 DEF CareInv
<1>4. CASE Attribute
  <2>1. Listed' /\ care' \in Nat
    BY <1>4, AttributeStep
  <2>2. loaded' = TRUE /\ used' \in 0..WorkMax /\ UNCHANGED <<round, judging>>
    BY <1>4, <1>w DEF Attribute
  <2>. QED BY <1>0, <2>1, <2>2 DEF CareInv
<1>5. CASE Note
  <2>1. Listed'
    BY <1>5, UpdatesStep DEF Note
  <2>2. loaded' = TRUE /\ used' \in 0..WorkMax /\ UNCHANGED <<round, care, judging>>
    BY <1>5, <1>w DEF Note
  <2>. QED BY <1>0, <2>1, <2>2 DEF CareInv
<1>6. CASE ResolveMatching
  <2>1. Listed'
    BY <1>6, ResolveStep
  <2>2. loaded' = TRUE /\ used' \in 0..WorkMax /\ UNCHANGED <<round, care, judging>>
    BY <1>6, <1>w DEF ResolveMatching
  <2>. QED BY <1>0, <2>1, <2>2 DEF CareInv
<1>7. CASE Answer
  BY <1>0, <1>7 DEF Answer, CareInv, Listed
<1>8. CASE RecordOutcome
  <2>1. Listed'
    BY <1>8, OutcomeStep
  <2>2. loaded' = TRUE /\ used' \in 0..WorkMax /\ judging' = FALSE /\ care' = 0
        /\ UNCHANGED round
    BY <1>8, <1>w DEF RecordOutcome
  <2>. QED BY <1>0, <2>1, <2>2 DEF CareInv
<1>9. CASE Reopen
  <2>1. /\ list' = <<>> /\ loaded' = FALSE /\ round' = 0 /\ care' = 0 /\ judging' = FALSE
        /\ UNCHANGED <<mindFile, used, born, closed>>
    BY <1>9 DEF Reopen
  <2>2. Listed'
    BY <1>0, <2>1, FineEmpty DEF Listed
  <2>3. 0 \in 0..MaxRounds
    OBVIOUS
  <2>. QED BY <1>0, <2>1, <2>2, <2>3 DEF CareInv
<1>. QED BY <1>1, <1>2, <1>3, <1>4, <1>5, <1>6, <1>7, <1>8, <1>9 DEF CareNext

LEMMA CareOfMemory == MemorySpec => []CareInv
<1>1. MemoryInit => CareInv
  BY CareInvInit DEF MemoryInit
<1>2. [MemoryNext]_memoryVars => [CareNext]_careVars
  BY DEF MemoryNext, memoryVars, StoragePart, ConsPart, CarePart, careVars
<1>. QED BY <1>1, <1>2, CareStep, PTL DEF MemorySpec

(* The types of the list, of what its file holds and of the think loop.    *)
THEOREM CareTypes == MemorySpec => []CareTypeOK
<1>1. CareInv => CareTypeOK
  BY DEF CareInv, Listed, Fine, CareTypeOK
<1>. QED BY <1>1, CareOfMemory, PTL

(***************************************************************************)
(* However the think loop, the consolidator, the memory agent and the      *)
(* answers take turns on the list, and whenever it is read again from its  *)
(* file: it holds nothing twice that is active (apply_updates).            *)
(***************************************************************************)
THEOREM NothingTwice == MemorySpec => []NoTwins
<1>1. CareInv => NoTwins
  BY DEF CareInv, Listed, Fine, NoTwins
<1>. QED BY <1>1, CareOfMemory, PTL

(* What is over, and was saved so, is never active again, whichever later  *)
(* save fails or tears the file (_save_quiet, _load_once).                 *)
THEOREM SettledForGood == MemorySpec => []StaysSettled
<1>1. CareInv => StaysSettled
  BY KnownFine DEF Fine, StaysSettled
<1>. QED BY <1>1, CareOfMemory, PTL
HIDE CareAssumption DEF CareAssumption
=============================================================================
