-------------------------- MODULE DatabaseStartup --------------------------
(***************************************************************************)
(* How a process opens the database: DatabaseManager.initialize() of       *)
(* core/_database_fallback.py, which applies the schema migrations and     *)
(* imports the JSON files of earlier releases.  The server and the         *)
(* commands of run.py are processes that may start at the same time on the *)
(* same file.                                                              *)
(*                                                                         *)
(* SQLite gives each connection one transaction, which the first INSERT    *)
(* begins (taking the write lock) and a commit ends; executescript()       *)
(* commits and then runs its statements on their own.  Files are moved     *)
(* outside of any transaction.                                             *)
(*                                                                         *)
(* A definition whose name starts with Slip is a mistake the code could    *)
(* have made in the definition after it.                                   *)
(***************************************************************************)
EXTENDS Naturals, FiniteSets

CONSTANTS
    Procs,     \* processes that open the database
    Versions,  \* the migrations, as numbers in their order
    Files,     \* the legacy files, as numbers in the order of their import
    Kinds,     \* the kinds of rare events that may happen
    Events,    \* bound: how many of them happen, each once
    None

ASSUME NumbersAssumption == Versions \subseteq Nat /\ Files \subseteq Nat
ASSUME FinitenessAssumption == IsFiniteSet(Versions) /\ IsFiniteSet(Files)
ASSUME NoneAssumption == None \notin Procs
ASSUME KindsAssumption == Kinds \subseteq {"crash", "unreadable", "timeout"}

VARIABLES
    schema,    \* migrations whose tables exist
    recorded,  \* the rows of schema_migrations
    row,       \* the rows that each legacy file holds, as the database has them
    content,   \* what the legacy files hold: nothing changes it
    file,      \* the legacy files that are in place
    backup,    \* those that are in migrations/legacy
    writer,    \* the process whose transaction holds the write lock
    draft,     \* recorded and row as that transaction sees them
    pc,        \* where each process is
    pending,   \* _apply_migrations: migrations a process has still to apply
    todo,      \* _migrate_legacy_json: files a process has still to look at
    got,       \* whether a process has read the content of the file
    happened   \* the kinds of rare events that happened: a process died, a file
               \* could not be read, a lock timed out

vars == <<schema, recorded, row, content, file, backup, writer, draft, pc,
          pending, todo, got, happened>>
tables == <<schema, recorded, row>>
files == <<content, file, backup>>
locals == <<pending, todo, got>>

Committed == [recorded |-> recorded, row |-> row]
View(p) == IF writer = p THEN draft ELSE Committed
NoDraft == [recorded |-> {}, row |-> [f \in Files |-> "absent"]]

First(v, S) == v \in S /\ \A w \in S : v <= w

\* A file is good, has no entries (or does not parse, which counts as having none),
\* or has one that initialize() cannot take: a number that does not convert, a key
\* of a row that is not there, bytes that do not decode.
Contents == {"good", "blank", "refused"}

\* A database without tables, and all legacy files.
Init ==
    /\ schema = {} /\ recorded = {}
    /\ row = [f \in Files |-> "absent"]
    /\ content \in [Files -> Contents]
    /\ file = Files /\ backup = {}
    /\ writer = None /\ draft = NoDraft
    /\ pc = [p \in Procs |-> "down"]
    /\ pending = [p \in Procs |-> {}]
    /\ todo = [p \in Procs |-> {}]
    /\ got = [p \in Procs |-> FALSE]
    /\ happened = {}

Happens(kind) ==
    /\ kind \in Kinds \ happened /\ Cardinality(happened) < Events
    /\ happened' = happened \cup {kind}

-----------------------------------------------------------------------------
(* Transactions. *)

CanWrite(p) == writer \in {None, p}

Commit(p) ==
    /\ recorded' = View(p).recorded /\ row' = View(p).row
    /\ writer' = IF writer = p THEN None ELSE writer
    /\ draft' = IF writer = p THEN NoDraft ELSE draft

\* initialize() raises, or its process dies: the connection rolls back.
GoDown(p) ==
    /\ writer' = IF writer = p THEN None ELSE writer
    /\ draft' = IF writer = p THEN NoDraft ELSE draft
    /\ pc' = [pc EXCEPT ![p] = "down"]
    /\ pending' = [pending EXCEPT ![p] = {}]
    /\ todo' = [todo EXCEPT ![p] = {}]
    /\ got' = [got EXCEPT ![p] = FALSE]
    /\ UNCHANGED tables

-----------------------------------------------------------------------------
(* _apply_migrations(). *)

SlipOpen(p) ==
    /\ pc[p] = "down"
    /\ pending' = [pending EXCEPT ![p] = Versions]
    /\ pc' = [pc EXCEPT ![p] = "migrate"]
    /\ UNCHANGED <<tables, files, writer, draft, todo, got, happened>>

Open(p) ==
    /\ pc[p] = "down"
    /\ pending' = [pending EXCEPT ![p] = Versions \ recorded]
    /\ pc' = [pc EXCEPT ![p] = "migrate"]
    /\ UNCHANGED <<tables, files, writer, draft, todo, got, happened>>

\* executescript(): commits the row of the migration before, and creates the
\* tables that do not exist.  A script that was interrupted counts as not run.
RunScript(p) ==
    /\ pc[p] = "migrate"
    /\ \E v \in Versions :
        /\ First(v, pending[p])
        /\ v \in schema \/ CanWrite(p)
        /\ schema' = schema \cup {v}
    /\ Commit(p)
    /\ pc' = [pc EXCEPT ![p] = "record"]
    /\ UNCHANGED <<files, locals, happened>>

\* INSERT INTO schema_migrations.
Record(p) ==
    /\ pc[p] = "record" /\ CanWrite(p)
    /\ \E v \in Versions :
        /\ First(v, pending[p])
        /\ v \notin View(p).recorded
        /\ draft' = [recorded |-> View(p).recorded \cup {v}, row |-> View(p).row]
        /\ pending' = [pending EXCEPT ![p] = @ \ {v}]
    /\ writer' = p
    /\ pc' = [pc EXCEPT ![p] = "migrate"]
    /\ UNCHANGED <<tables, files, todo, got, happened>>

\* Another process has applied the migration meanwhile: the version is the
\* primary key.
RecordTwice(p) ==
    /\ pc[p] = "record" /\ CanWrite(p)
    /\ \E v \in Versions : First(v, pending[p]) /\ v \in View(p).recorded
    /\ GoDown(p)
    /\ UNCHANGED <<files, happened>>

Migrated(p) ==
    /\ pc[p] = "migrate" /\ pending[p] = {}
    /\ Commit(p)
    /\ pc' = [pc EXCEPT ![p] = "check"]
    /\ todo' = [todo EXCEPT ![p] = Files]
    /\ UNCHANGED <<schema, files, pending, got, happened>>

-----------------------------------------------------------------------------
(* _migrate_legacy_json(): the same four steps for each legacy file. *)

\* What process p does next with the files.
Proceed(p, f) ==
    /\ pc' = [pc EXCEPT ![p] = "check"]
    /\ todo' = [todo EXCEPT ![p] = @ \ {f}]

SlipCheck(p) ==
    /\ pc[p] = "check"
    /\ \E f \in Files :
        /\ First(f, todo[p])
        /\ IF f \in file /\ View(p).row[f] = "absent"
           THEN pc' = [pc EXCEPT ![p] = "read"] /\ UNCHANGED todo
           ELSE UNCHANGED pc /\ todo' = [todo EXCEPT ![p] = {}]
    /\ UNCHANGED <<tables, files, writer, draft, pending, got, happened>>

\* The file exists and its table has no rows.
Check(p) ==
    /\ pc[p] = "check"
    /\ \E f \in Files :
        /\ First(f, todo[p])
        /\ IF f \in file /\ View(p).row[f] = "absent"
           THEN pc' = [pc EXCEPT ![p] = "read"] /\ UNCHANGED todo
           ELSE Proceed(p, f)
    /\ UNCHANGED <<tables, files, writer, draft, pending, got, happened>>

\* _read_json() returns no entries for a file that is not there any more, that it
\* cannot read or that does not parse.
Read(p) ==
    /\ pc[p] = "read"
    /\ \E f \in Files :
        /\ First(f, todo[p])
        /\ \/ /\ f \in file /\ content[f] # "blank"
              /\ got' = [got EXCEPT ![p] = TRUE] /\ UNCHANGED happened
           \/ /\ f \notin file \/ content[f] = "blank"
              /\ got' = [got EXCEPT ![p] = FALSE] /\ UNCHANGED happened
           \/ Happens("unreadable") /\ got' = [got EXCEPT ![p] = FALSE]
    /\ pc' = [pc EXCEPT ![p] = "insert"]
    /\ UNCHANGED <<tables, files, writer, draft, pending, todo>>

\* The upserts, which overwrite rows that are there.
Insert(p) ==
    /\ pc[p] = "insert" /\ got[p] /\ CanWrite(p)
    /\ \E f \in Files :
        /\ First(f, todo[p]) /\ content[f] # "refused"
        /\ draft' = [recorded |-> View(p).recorded,
                     row |-> [View(p).row EXCEPT ![f] = "imported"]]
    /\ writer' = p
    /\ got' = [got EXCEPT ![p] = FALSE]
    /\ pc' = [pc EXCEPT ![p] = "archive"]
    /\ UNCHANGED <<tables, files, pending, todo, happened>>

InsertNothing(p) ==
    /\ pc[p] = "insert" /\ ~got[p]
    /\ pc' = [pc EXCEPT ![p] = "archive"]
    /\ UNCHANGED <<tables, files, writer, draft, locals, happened>>

\* An entry that cannot be decoded, converted or stored: the exception leaves
\* initialize(), and the file stays where it is.
Refuse(p) ==
    /\ \E f \in Files :
        /\ First(f, todo[p]) /\ content[f] = "refused"
        /\ \/ pc[p] = "read" /\ f \in file
           \/ pc[p] = "insert" /\ got[p]
    /\ GoDown(p)
    /\ UNCHANGED <<files, happened>>

SlipArchive(p) ==
    /\ pc[p] = "archive"
    /\ \E f \in Files :
        /\ First(f, todo[p])
        /\ file' = file \ {f} /\ backup' = backup \cup {f}
        /\ Proceed(p, f)
    /\ UNCHANGED <<tables, content, writer, draft, pending, got, happened>>

\* _archive_legacy_file(): an older copy is unlinked, then the file is moved.
Archive(p) ==
    /\ pc[p] = "archive"
    /\ \E f \in Files :
        /\ First(f, todo[p])
        /\ f \in file
        /\ file' = file \ {f} /\ backup' = backup \cup {f}
        /\ Proceed(p, f)
    /\ UNCHANGED <<tables, content, writer, draft, pending, got, happened>>

\* Another process has moved it: its copy is unlinked, and the move raises.
ArchiveTwice(p) ==
    /\ pc[p] = "archive"
    /\ \E f \in Files :
        /\ First(f, todo[p])
        /\ f \notin file
        /\ backup' = backup \ {f}
    /\ GoDown(p)
    /\ UNCHANGED <<content, file, happened>>

SlipFinish(p) ==
    /\ pc[p] = "check" /\ todo[p] = {}
    /\ writer' = IF writer = p THEN None ELSE writer
    /\ draft' = IF writer = p THEN NoDraft ELSE draft
    /\ pc' = [pc EXCEPT ![p] = "up"]
    /\ UNCHANGED <<tables, files, locals, happened>>

\* The commit at the end of _migrate_legacy_json().
Finish(p) ==
    /\ pc[p] = "check" /\ todo[p] = {}
    /\ Commit(p)
    /\ pc' = [pc EXCEPT ![p] = "up"]
    /\ UNCHANGED <<schema, files, locals, happened>>

-----------------------------------------------------------------------------
(* The process at work, and what may go wrong. *)

\* A row that was imported is updated, as the job queue does with its jobs.
Change(p) ==
    /\ pc[p] = "up" /\ writer = None
    /\ \E f \in Files :
        /\ row[f] = "imported"
        /\ row' = [row EXCEPT ![f] = "changed"]
    /\ UNCHANGED <<schema, recorded, files, writer, draft, pc, locals, happened>>

\* A writer waited for the lock for thirty seconds.
LockTimeout(p) ==
    /\ \/ pc[p] = "record"
       \/ pc[p] = "insert" /\ got[p]
       \/ pc[p] = "migrate" /\ \E v \in Versions \ schema : First(v, pending[p])
    /\ ~CanWrite(p)
    /\ Happens("timeout")
    /\ GoDown(p)
    /\ UNCHANGED files

Crash(p) ==
    /\ pc[p] # "down"
    /\ Happens("crash")
    /\ GoDown(p)
    /\ UNCHANGED files

Working(p) ==
    \/ Open(p) \/ RunScript(p) \/ Record(p) \/ RecordTwice(p) \/ Migrated(p)
    \/ Check(p) \/ Read(p) \/ Insert(p) \/ InsertNothing(p) \/ Refuse(p)
    \/ Archive(p) \/ ArchiveTwice(p) \/ Finish(p)

Next ==
    \E p \in Procs :
        \/ Open(p) \/ RunScript(p) \/ Record(p) \/ RecordTwice(p) \/ Migrated(p)
        \/ Check(p) \/ Read(p) \/ Insert(p) \/ InsertNothing(p) \/ Refuse(p)
        \/ Archive(p) \/ ArchiveTwice(p) \/ Finish(p)
        \/ Change(p) \/ LockTimeout(p) \/ Crash(p)

Spec == Init /\ [][Next]_vars

\* A process that is down is started again, and a started one makes progress: the
\* lock is granted when it is free.
FairSpec == Spec /\ \A p \in Procs : WF_vars(Working(p))

-----------------------------------------------------------------------------
(* Properties. *)

RowStates == {"absent", "imported", "changed"}
Phases == {"down", "migrate", "record", "check", "read", "insert", "archive", "up"}

\* Type correctness of the database, the files and the processes.
TypeOK ==
    /\ schema \subseteq Versions /\ recorded \subseteq Versions
    /\ row \in [Files -> RowStates]
    /\ content \in [Files -> Contents]
    /\ file \subseteq Files /\ backup \subseteq Files
    /\ writer \in Procs \cup {None}
    /\ draft \in [recorded : SUBSET Versions, row : [Files -> RowStates]]
    /\ pc \in [Procs -> Phases]
    /\ pending \in [Procs -> SUBSET Versions]
    /\ todo \in [Procs -> SUBSET Files]
    /\ got \in [Procs -> BOOLEAN]
    /\ happened \subseteq Kinds

\* A migration that is recorded has run, whenever a process died and however two
\* of them interleave: no start skips a script whose tables are missing.
RecordedIsRun == recorded \subseteq schema

\* When initialize() returns, all migrations are applied and no legacy file is left
\* in place whose rows are not in the database.
UpIsMigrated ==
    \A p \in Procs : pc[p] = "up" =>
        /\ recorded = Versions
        /\ \A f \in file : row[f] # "absent"

\* A process that comes late with its import never puts old rows over those that
\* another process has imported and changed.
ChangesSurvive ==
    [][\A f \in Files : row[f] = "changed" => row'[f] = "changed"]_vars

\* A legacy file that is refused, or comes after one that is, is never touched.  One
\* that is good, as are all files after it, is in place or its rows are in the
\* database or in the open transaction, unless a process died.  A file that could not
\* be read counts as one without entries, and voids both claims.
OutOfReach(f) == \E g \in Files : g <= f /\ content[g] = "refused"
Safe(f) == "crash" \notin happened /\ \A g \in Files : f <= g => content[g] = "good"

LegacySurvives ==
    "unreadable" \notin happened =>
        \A f \in Files :
            /\ OutOfReach(f) => f \in file
            /\ Safe(f) =>
                \/ f \in file
                \/ row[f] # "absent"
                \/ writer # None /\ draft.row[f] # "absent"

\* Processes that are started again when initialize() raises come up, unless there
\* is a legacy file that is refused: the conflicts between them end, and no rare
\* event leaves the database in a state that keeps them from starting.
StartsUp ==
    \A p \in Procs :
        []<>(pc[p] = "up" \/ \E f \in file : content[f] = "refused")
=============================================================================
