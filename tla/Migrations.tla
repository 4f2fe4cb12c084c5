----------------------------- MODULE Migrations -----------------------------
(***************************************************************************)
(* Opening the database file: backup, creation of missing tables, the      *)
(* schema migrations, the version stamp (src/storage/database.py), with a  *)
(* process that may die between any two statements.                        *)
(*                                                                         *)
(* "disk" is what is committed in the file, "work" what the connection     *)
(* sees.  executescript() commits what is open and then runs each of its   *)
(* statements in a transaction of its own; a statement given to execute()  *)
(* that changes rows opens a transaction that the next script, or          *)
(* commit(), ends; one that changes a table takes effect at once.          *)
(*                                                                         *)
(* A table is Absent or a set of rows.  A row keeps its number "id" through*)
(* every copy, so that a property can follow it; insights_v2 has no key    *)
(* but its own number, so there a row also says how often it was copied.   *)
(* Columns other than session_id, and indexes, are left out.               *)
(*                                                                         *)
(* "home" is history, kept in the file so that it is committed and rolled  *)
(* back with it: under which name the rows of each session now stand, or   *)
(* Absent once #SR-002 has dropped them.                                   *)
(***************************************************************************)
EXTENDS Integers, Sequences, FiniteSets

CONSTANTS Sessions,     \* session ids
          Roles,        \* role ids: a role's own session has its name
          Keys,         \* (category, fact_key) pairs
          Legacies,     \* database files that older versions left behind
          KeepMax,      \* db_backup_keep
          CrashMax,     \* how often the process dies or fails on the way
          Absent        \* a table that does not exist

CURRENT_SCHEMA_VERSION == 6

FactRows == [id : Nat, sid : Sessions, key : Keys, kind : {"user_fact", "agent_fact"}]
NoteRows == [id : Nat, sid : Sessions]                \* of reflections
Copies   == [id : Nat, sid : Sessions, copy : Nat]    \* of insights_v2
Scores   == [sid : Sessions, value : Nat]             \* relationship_metrics
TurnRows == [id : Nat, sid : Sessions]                \* conversation_turns

Present(rows) == {table \in SUBSET rows : IsFiniteSet(table)}
Table(rows)   == {Absent} \cup Present(rows)

(***************************************************************************)
(* The file.  uniq is the constraint user_facts was created with, pk the   *)
(* key of relationship_metrics; roles holds the pairs of session_roles.    *)
(***************************************************************************)
Files ==
    [ver : 0 .. CURRENT_SCHEMA_VERSION,
     uniq : {"key", "session_key"}, pk : {"dimension", "session_dimension"},
     user_facts : Table(FactRows), old_user_facts : Table(FactRows),
     user_facts_archive : Table(FactRows), facts_v2 : Table(FactRows),
     reflections : Table(NoteRows), reflections_archive : Table(NoteRows),
     insights_v2 : Table(Copies),
     metrics : Table(Scores), old_metrics : Table(Scores),
     session_column : BOOLEAN,
     turns : Table(TurnRows),
     roles : SUBSET (Sessions \X Roles),
     home : [Sessions -> Sessions \cup {Absent}]]

Rows(table) == IF table = Absent THEN {} ELSE table

OldUnique(d) == d.user_facts # Absent /\ d.uniq = "key"

(* The number says which fact a row is, in whatever table it stands.       *)
Numbered(d) ==
    LET facts == Rows(d.user_facts) \cup Rows(d.old_user_facts) \cup Rows(d.facts_v2)
    IN  \A a, b \in facts : a.id = b.id => a = b

AtHome == [s \in Sessions |-> s]

(* What older versions left: a session has one role (PRIMARY KEY), and a   *)
(* table is renamed for a rebuild only in the first place.                 *)
IsLegacy(d) ==
    /\ d \in Files /\ Numbered(d)
    /\ d.home = AtHome
    /\ \A p, q \in d.roles : p[1] = q[1] => p = q
    /\ OldUnique(d) => d.old_user_facts = Absent

ASSUME MigAssumption ==
    /\ Roles \subseteq Sessions
    /\ "default" \in Sessions
    /\ Absent \notin Sessions
    /\ KeepMax \in Nat /\ CrashMax \in Nat
    /\ \A d \in Legacies : IsLegacy(d)

Fresh == [ver |-> 0, uniq |-> "session_key", pk |-> "session_dimension",
          user_facts |-> Absent, old_user_facts |-> Absent,
          user_facts_archive |-> Absent, facts_v2 |-> Absent,
          reflections |-> Absent, reflections_archive |-> Absent,
          insights_v2 |-> Absent, metrics |-> Absent, old_metrics |-> Absent,
          session_column |-> TRUE, turns |-> Absent, roles |-> {},
          home |-> AtHome]

VARIABLES
    disk,      \* the file as committed
    work,      \* the file as the connection sees it
    pc,        \* the step open() is at
    seen,      \* current_version: the stamp initialize() read
    backups,   \* snapshots in backups/, oldest first
    crashes,   \* deaths and failures so far
    orig,      \* history: the file before this program first opened it
    unsaved    \* history: a backup failed

mvars == <<disk, work, pc, seen, backups, crashes, orig, unsaved>>

Steps == {"closed", "backup", "create", "columns", "uk_rename", "uk_create",
          "uk_copy", "uk_drop", "rm_rename", "rm_create", "rm_copy", "rm_drop",
          "roles", "merge", "flush", "v4_copy", "v4_rename", "v5_copy",
          "v5_rename", "v6_facts", "v6_reflections", "stamp", "index",
          "open", "failed"}

MigTypeOK ==
    /\ disk \in Files /\ work \in Files /\ orig \in Files
    /\ pc \in Steps
    /\ seen \in 0 .. CURRENT_SCHEMA_VERSION
    /\ backups \in Seq(Files) /\ Len(backups) <= KeepMax
    /\ crashes \in 0 .. CrashMax
    /\ unsaved \in BOOLEAN

MigInit ==
    /\ disk \in Legacies
    /\ work = disk /\ orig = disk
    /\ pc = "closed" /\ seen = 0
    /\ backups = <<>> /\ crashes = 0
    /\ unsaved = FALSE

Goto(step) == pc' = step

(* A statement in a transaction of its own, and one in an open transaction. *)
Autocommit(d) == disk' = d /\ work' = d
Uncommitted(d) == work' = d /\ UNCHANGED disk

Kept == UNCHANGED <<seen, backups, crashes, orig, unsaved>>

(***************************************************************************)
(* open(): connect, then the backup, which is taken when the file existed, *)
(* is not empty and is stamped behind the program.  A backup that fails    *)
(* is logged and the migration goes on.                                    *)
(***************************************************************************)
StampedOnlyFault ==
    /\ pc = "closed"
    /\ Goto(IF disk.ver \in 1 .. CURRENT_SCHEMA_VERSION - 1 THEN "backup" ELSE "create")
    /\ work' = disk
    /\ UNCHANGED disk /\ Kept

Open ==
    /\ pc = "closed"
    /\ Goto(IF disk # Fresh /\ disk.ver < CURRENT_SCHEMA_VERSION THEN "backup" ELSE "create")
    /\ work' = disk
    /\ UNCHANGED disk /\ Kept

Newest(s, n) == IF Len(s) <= n THEN s ELSE SubSeq(s, Len(s) - n + 1, Len(s))

Rotate(s) == Newest(s, KeepMax)

Backup ==
    /\ pc = "backup"
    /\ \/ backups' = Rotate(Append(backups, work)) /\ UNCHANGED unsaved
       \/ unsaved' = TRUE /\ UNCHANGED backups
    /\ Goto("create")
    /\ UNCHANGED <<disk, work, seen, crashes, orig>>

(***************************************************************************)
(* initialize(): the first script.  Every statement of it is IF NOT        *)
(* EXISTS or OR IGNORE and none depends on another, so running it in part  *)
(* and again is running it once.  Its INSERT names the column session_id   *)
(* of relationship_metrics: a file from before that column makes it fail.  *)
(***************************************************************************)
Defaults == [sid |-> "default", value |-> 0]

AfterCreate(d) ==
    [d EXCEPT !.facts_v2 = Rows(@), !.insights_v2 = Rows(@), !.turns = Rows(@),
              !.metrics = IF d.metrics = Absent
                          THEN {Defaults}
                          ELSE IF \E s \in d.metrics : s.sid = "default" THEN @
                               ELSE IF d.pk = "dimension" /\ d.metrics # {} THEN @
                               ELSE @ \cup {Defaults},
              !.pk = IF d.metrics = Absent THEN "session_dimension" ELSE @,
              !.session_column = IF d.metrics = Absent THEN TRUE ELSE @]

CreateTables ==
    /\ pc = "create"
    /\ IF work.metrics # Absent /\ ~ work.session_column
       THEN /\ Goto("failed")
            /\ UNCHANGED <<disk, work>> /\ Kept
       ELSE /\ Autocommit(AfterCreate(work))
            /\ seen' = work.ver
            /\ Goto("columns")
            /\ UNCHANGED <<backups, crashes, orig, unsaved>>

(* The missing columns, one ALTER TABLE each. *)
AddColumns ==
    /\ pc = "columns"
    /\ Autocommit([work EXCEPT !.session_column = TRUE])
    /\ Goto("uk_rename")
    /\ Kept

(***************************************************************************)
(* #UK-001: user_facts is rebuilt with the constraint per session.  Four   *)
(* statements of a script: a death leaves what the first ones did.         *)
(***************************************************************************)
UkRename ==
    /\ pc = "uk_rename"
    /\ IF OldUnique(work)
       THEN /\ Autocommit([work EXCEPT !.old_user_facts = work.user_facts,
                                       !.user_facts = Absent])
            /\ Goto("uk_create")
       ELSE Goto("rm_rename") /\ UNCHANGED <<disk, work>>
    /\ Kept

UkCreate ==
    /\ pc = "uk_create"
    /\ Autocommit([work EXCEPT !.user_facts = {}, !.uniq = "session_key"])
    /\ Goto("uk_copy")
    /\ Kept

UkCopy ==
    /\ pc = "uk_copy"
    /\ Autocommit([work EXCEPT !.user_facts = work.old_user_facts])
    /\ Goto("uk_drop")
    /\ Kept

UkDrop ==
    /\ pc = "uk_drop"
    /\ Autocommit([work EXCEPT !.old_user_facts = Absent])
    /\ Goto("rm_rename")
    /\ Kept

(* #RM-001: the same for relationship_metrics and its key. *)
RmRename ==
    /\ pc = "rm_rename"
    /\ IF work.pk = "dimension"
       THEN /\ Autocommit([work EXCEPT !.old_metrics = work.metrics, !.metrics = Absent])
            /\ Goto("rm_create")
       ELSE Goto("roles") /\ UNCHANGED <<disk, work>>
    /\ Kept

RmCreate ==
    /\ pc = "rm_create"
    /\ Autocommit([work EXCEPT !.metrics = {}, !.pk = "session_dimension"])
    /\ Goto("rm_copy")
    /\ Kept

RmCopy ==
    /\ pc = "rm_copy"
    /\ Autocommit([work EXCEPT !.metrics = work.old_metrics])
    /\ Goto("rm_drop")
    /\ Kept

RmDrop ==
    /\ pc = "rm_drop"
    /\ Autocommit([work EXCEPT !.old_metrics = Absent])
    /\ Goto("roles")
    /\ Kept

(* #SR-001: the first mapping of the default session, to the name found in *)
(* personality.json (any role here).                                       *)
SeedRoles ==
    /\ pc = "roles"
    /\ IF work.roles = {}
       THEN \E rid \in Roles : Uncommitted([work EXCEPT !.roles = {<<"default", rid>>}])
       ELSE UNCHANGED <<disk, work>>
    /\ Goto("merge")
    /\ Kept

(***************************************************************************)
(* #SR-002: one role, one session.  Of a role's sessions with another name *)
(* the one with the most turns is moved under the role's name, and the     *)
(* others are deleted, in the open transaction.  A row that collides with  *)
(* one the role already has (UNIQUE) makes open() fail, rolled back.       *)
(***************************************************************************)
OldSessions(d, rid) == {sid \in Sessions \ {rid} : <<sid, rid>> \in d.roles}

Of(rows, sid) == {r \in Rows(rows) : r.sid = sid}

Moved(table, from, to) ==
    IF table = Absent THEN Absent
    ELSE {IF r.sid = from THEN [r EXCEPT !.sid = to] ELSE r : r \in table}

Without(table, sids) ==
    IF table = Absent THEN Absent ELSE {r \in table : r.sid \notin sids}

Rehomed(home, from, to) == [s \in Sessions |-> IF home[s] = from THEN to ELSE home[s]]

OldTablesOnlyFault(d, from, to) ==
    [d EXCEPT !.home = Rehomed(@, from, to), !.user_facts = Moved(@, from, to), !.reflections = Moved(@, from, to),
              !.insights_v2 = Moved(@, from, to), !.turns = Moved(@, from, to),
              !.metrics = Moved(Without(@, {to}), from, to)]

MoveSession(d, from, to) ==
    [d EXCEPT !.home = Rehomed(@, from, to),
              !.user_facts = Moved(@, from, to), !.facts_v2 = Moved(@, from, to),
              !.reflections = Moved(@, from, to), !.insights_v2 = Moved(@, from, to),
              !.turns = Moved(@, from, to),
              !.metrics = Moved(Without(@, {to}), from, to)]

DropSessions(d, sids) ==
    [d EXCEPT !.home = [s \in Sessions |-> IF @[s] \in sids THEN Absent ELSE @[s]],
              !.user_facts = Without(@, sids), !.facts_v2 = Without(@, sids),
              !.reflections = Without(@, sids), !.insights_v2 = Without(@, sids),
              !.turns = Without(@, sids), !.metrics = Without(@, sids),
              !.roles = {p \in @ : p[1] \notin sids}]

RenameRole(d, from, rid) ==
    [d EXCEPT !.roles = IF \E p \in @ : p[1] = rid
                        THEN @ \ {<<from, rid>>}
                        ELSE (@ \ {<<from, rid>>}) \cup {<<rid, rid>>}]

Collide(table, from, to) ==
    \E a \in Of(table, from), b \in Of(table, to) : a.key = b.key

MostTurns(d, sids) ==
    {s \in sids : \A t \in sids : Cardinality(Of(d.turns, s)) >= Cardinality(Of(d.turns, t))}

MergeRole ==
    /\ pc = "merge"
    /\ \E rid \in Roles : \E canonical \in MostTurns(work, OldSessions(work, rid)) :
        IF Collide(work.user_facts, canonical, rid) \/ Collide(work.facts_v2, canonical, rid)
        THEN /\ Goto("failed") /\ work' = disk
             /\ UNCHANGED disk /\ Kept
        ELSE LET others == OldSessions(work, rid) \ {canonical}
             IN  /\ Uncommitted(DropSessions(
                        RenameRole(MoveSession(work, canonical, rid), canonical, rid), others))
                 /\ UNCHANGED pc /\ Kept

(* The scripts of v4, v5 and v6 run by the stamp read at the start and by  *)
(* the tables that are there.                                              *)
V4Due(d) == seen < 4 /\ d.user_facts # Absent
V5Due(d) == seen < 5 /\ d.reflections # Absent
V6Due(d) == seen < 6 /\ (d.user_facts_archive # Absent \/ d.reflections_archive # Absent)

NextScript(d) == IF V4Due(d) THEN "v4_copy"
                 ELSE IF V5Due(d) THEN "v5_copy"
                 ELSE IF V6Due(d) THEN "v6_facts" ELSE "stamp"

Merged ==
    /\ pc = "merge"
    /\ \A rid \in Roles : OldSessions(work, rid) = {}
    /\ Goto(IF NextScript(work) = "stamp" THEN "stamp" ELSE "flush")
    /\ UNCHANGED <<disk, work>> /\ Kept

(* executescript() commits first. *)
Flush ==
    /\ pc = "flush"
    /\ disk' = work /\ UNCHANGED work
    /\ Goto(NextScript(work))
    /\ Kept

(***************************************************************************)
(* v4: the facts users told move to facts_v2, where what is there already  *)
(* stays; the old table is renamed.  v5: the same for reflections, whose   *)
(* new table has no constraint to ignore.  v6: the renamed tables go.      *)
(***************************************************************************)
GlobalKeyFault(rows, taken) ==
    {r \in rows : r.kind = "user_fact" /\ ~ \E t \in taken : t.key = r.key}

Unclaimed(rows, taken) ==
    {r \in rows : r.kind = "user_fact"
                  /\ ~ \E t \in taken : t.sid = r.sid /\ t.key = r.key}

V4Copy ==
    /\ pc = "v4_copy"
    /\ Autocommit([work EXCEPT !.facts_v2 = @ \cup Unclaimed(work.user_facts, @)])
    /\ Goto("v4_rename")
    /\ Kept

V4Rename ==
    /\ pc = "v4_rename"
    /\ LET d == [work EXCEPT !.user_facts_archive = work.user_facts, !.user_facts = Absent]
       IN  Autocommit(d) /\ Goto(NextScript(d))
    /\ Kept

CopyOf(r, notes) == [id |-> r.id, sid |-> r.sid,
                     copy |-> Cardinality({n \in notes : n.id = r.id})]

V5Copy ==
    /\ pc = "v5_copy"
    /\ Autocommit([work EXCEPT !.insights_v2 =
                       @ \cup {CopyOf(r, work.insights_v2) : r \in work.reflections}])
    /\ Goto("v5_rename")
    /\ Kept

V5Rename ==
    /\ pc = "v5_rename"
    /\ LET d == [work EXCEPT !.reflections_archive = work.reflections, !.reflections = Absent]
       IN  Autocommit(d) /\ Goto(NextScript(d))
    /\ Kept

V6DropFacts ==
    /\ pc = "v6_facts"
    /\ Autocommit([work EXCEPT !.user_facts_archive = Absent])
    /\ Goto("v6_reflections")
    /\ Kept

V6DropReflections ==
    /\ pc = "v6_reflections"
    /\ Autocommit([work EXCEPT !.reflections_archive = Absent])
    /\ Goto("stamp")
    /\ Kept

Stamp ==
    /\ pc = "stamp"
    /\ Uncommitted([work EXCEPT !.ver = CURRENT_SCHEMA_VERSION])
    /\ Goto("index")
    /\ Kept

(* The indexes are one more script: it commits the stamp. *)
Index ==
    /\ pc = "index"
    /\ disk' = work /\ UNCHANGED work
    /\ Goto("open")
    /\ Kept

(* The process dies, or a statement fails and open() raises: the program   *)
(* ends and is started again.                                              *)
Die ==
    /\ pc # "closed" /\ crashes < CrashMax
    /\ crashes' = crashes + 1
    /\ Goto("closed") /\ work' = disk
    /\ UNCHANGED <<disk, seen, backups, orig, unsaved>>

Upgrade ==
    \/ Open \/ Backup \/ CreateTables \/ AddColumns
    \/ UkRename \/ UkCreate \/ UkCopy \/ UkDrop
    \/ RmRename \/ RmCreate \/ RmCopy \/ RmDrop
    \/ SeedRoles \/ MergeRole \/ Merged \/ Flush
    \/ V4Copy \/ V4Rename \/ V5Copy \/ V5Rename
    \/ V6DropFacts \/ V6DropReflections \/ Stamp \/ Index

MigNext == Upgrade \/ Die

MigSpec == MigInit /\ [][MigNext]_mvars

(***************************************************************************)
(* Properties.                                                             *)
(***************************************************************************)
Ids(rows) == {r.id : r \in Rows(rows)}
UserFacts(rows) == {r \in Rows(rows) : r.kind = "user_fact"}

(* A fact of the old file whose key the new table had already, for its own *)
(* session or for the one that this is merged into: the copy of v4 skips   *)
(* it, as UNIQUE(session_id, category, fact_key) says.                     *)
Superseded(r) ==
    \E x \in Rows(disk.facts_v2) :
        x.id # r.id /\ x.key = r.key /\ x.sid = disk.home[r.sid]

(***************************************************************************)
(* Wherever the process dies, however often, a fact the user told is still *)
(* in some table of the file, unless #SR-002 dropped its session or the    *)
(* same session has a newer fact of its key.                               *)
(***************************************************************************)
FactsStay ==
    \A r \in UserFacts(orig.user_facts) \cup UserFacts(orig.facts_v2) :
        \/ disk.home[r.sid] = Absent
        \/ r.id \in Ids(disk.user_facts) \cup Ids(disk.old_user_facts)
                     \cup Ids(disk.user_facts_archive) \cup Ids(disk.facts_v2)
        \/ Superseded(r)

(***************************************************************************)
(* The merge of sessions is one transaction: on disk a session is either   *)
(* mapped to its role and has its turns, or is gone from every table.  (A  *)
(* session with the name of another role can get the rows of that role.)   *)
(***************************************************************************)
MergeAtomic ==
    \A p \in orig.roles :
        p[1] # p[2] /\ (\A q \in orig.roles : q[2] # p[1]) =>
            IF p \in disk.roles
            THEN Of(orig.turns, p[1]) \subseteq Rows(disk.turns)
            ELSE \A table \in {disk.user_facts, disk.facts_v2, disk.reflections,
                                disk.insights_v2, disk.turns} : Of(table, p[1]) = {}

(***************************************************************************)
(* Before anything of an old file changes there is a snapshot of it, and   *)
(* fewer starts than snapshots kept do not rotate it out.                  *)
(***************************************************************************)
BackupHolds ==
    (orig # Fresh /\ disk # orig /\ orig.ver < CURRENT_SCHEMA_VERSION
       /\ ~ unsaved /\ crashes < KeepMax)
        => \E i \in 1 .. Len(backups) : backups[i] = orig
=============================================================================
