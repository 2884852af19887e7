------------------------------- MODULE Backup -------------------------------
(***************************************************************************)
(* Backup and restore (backup.py, cli/backup.py) beside a running server.  *)
(* A backup is a transaction of one SELECT per table and then an archive   *)
(* written to a staging file and renamed.  A restore is one transaction    *)
(* that empties every table and fills it again, with the mail written to   *)
(* the disk before it commits.                                             *)
(*                                                                         *)
(* Two tables stand for the schema's: domains, and accounts, which refer   *)
(* to them.  Statements see what is committed when they start: PostgreSQL  *)
(* at READ COMMITTED, and SQLite, whose driver opens no transaction before *)
(* the first write.                                                        *)
(***************************************************************************)
EXTENDS Integers, FiniteSets, Sequences

CONSTANTS
    Domains, Accounts,
    Messages,
    Drivers,    \* cfg.database.driver: a subset of {"sqlite", "postgres"}
    MaxWrites,  \* bound: what the server and its operator commit
    MaxJobs     \* bound: backups and restores

ASSUME BackupAssumption ==
    /\ Drivers \subseteq {"sqlite", "postgres"}
    /\ Accounts \cap {"manifest", "database"} = {}  \* members of an archive have one name each
    /\ MaxWrites \in Nat /\ MaxJobs \in Nat

VARIABLES
    driver,
    db,        \* the committed rows of each table
    revision,  \* the schema the database is at
    maildir,   \* the messages in each account's directories
    file,      \* what the archive's name holds
    staging,   \* .lightr-backup-*.tmp
    job,       \* the backup or the restore under way, or the last one
    fresh,     \* history: rows committed since the restore emptied their table
    still,     \* history: nothing was committed since the job began
    writes, jobs

backup_vars == <<driver, db, revision, maildir, file, staging, job, fresh, still, writes, jobs>>

-----------------------------------------------------------------------------
(* Rows, directories and archives.                                         *)

\* metadata.sorted_tables: a table comes after those it refers to.
sorted_tables == <<"domains", "accounts">>
Tables == {sorted_tables[i] : i \in DOMAIN sorted_tables}

\* layout: maildir_path is NULL or what layout_for computes.
Places == {"layout", "elsewhere"}
DomainRow == [id : Domains]
AccountRow == [id : Accounts, domain : Domains, maildir_path : Places]
NoRows == [t \in Tables |-> {}]
Rows == [domains : SUBSET DomainRow, accounts : SUBSET AccountRow]

\* The foreign key of accounts, and the primary keys.
Referred(tables) == \A a \in tables.accounts : \E d \in tables.domains : d.id = a.domain
Unique(rows) == \A r, s \in rows : r.id = s.id => r = s

Revisions == {1, 2}
Unknown == 0  \* the manifest's revision is null

\* What create has gathered, and what an archive holds of it so far.
Dump == [revision : Revisions \cup {Unknown}, tables : Rows, shape : Revisions,
         mail_accounts : SUBSET Accounts]
NoDump == [revision |-> Unknown, tables |-> NoRows, shape |-> 1, mail_accounts |-> {}]
Parts == {"manifest", "database"} \cup Accounts
NoFile == [dump |-> NoDump, parts |-> {}, mail |-> [a \in Accounts |-> {}], quiet |-> TRUE]
Archive == [dump : Dump, parts : SUBSET Parts, mail : [Accounts -> SUBSET Messages],
            quiet : BOOLEAN]

Whole(f) == f.parts = {"manifest", "database"} \cup f.dump.mail_accounts

-----------------------------------------------------------------------------
(* The job: what it is, where it is, the next table, what it has gathered, *)
(* the directories it reads mail from, the options of a restore, the rows  *)
(* its transaction has deleted and inserted so far, and how it ended.      *)

JobStages == {"idle", "listed", "dumping", "archiving", "opened", "wiping", "loading",
           "extracting", "committing"}
JobResults == {"none", "ok", "refused", "key", "error", "killed"}

Job == [at : JobStages, pos : 1..Len(sorted_tables), dump : Dump,
        roots : [Accounts -> Places \cup {"none"}], include_mail : BOOLEAN,
        ignore_revision : BOOLEAN, gone : Rows, added : Rows, extracted : SUBSET Accounts,
        result : JobResults]

NoJob == [at |-> "idle", pos |-> 1, dump |-> NoDump,
          roots |-> [a \in Accounts |-> "none"], include_mail |-> FALSE,
          ignore_revision |-> FALSE, gone |-> NoRows, added |-> NoRows,
          extracted |-> {}, result |-> "none"]

BackupInit ==
    /\ driver \in Drivers
    /\ db \in {[domains |-> {[id |-> d]},
                accounts |-> {[id |-> a, domain |-> d, maildir_path |-> p]}] :
                   d \in Domains, a \in Accounts, p \in Places}
    /\ revision = 1
    /\ maildir = [x \in Accounts \X Places |-> {}]
    /\ file = NoFile
    /\ staging = NoFile
    /\ job = NoJob
    /\ fresh = NoRows
    /\ still = TRUE
    /\ writes = 0
    /\ jobs = 0

JobIdle == job.at = "idle"
Ended(how) == job' = [NoJob EXCEPT !.result = how]
Outside == UNCHANGED <<driver, revision, writes, jobs>>

-----------------------------------------------------------------------------
(* backup create.                                                          *)

\* _maildirs, in a transaction of its own: the directories that exist.
Create(include_mail) ==
    /\ JobIdle
    /\ jobs < MaxJobs
    /\ jobs' = jobs + 1
    /\ job' = [NoJob EXCEPT !.at = "listed", !.include_mail = include_mail,
                 !.roots = [a \in Accounts |->
                    IF include_mail /\ \E r \in db.accounts :
                           r.id = a /\ maildir[a, r.maildir_path] # {}
                    THEN (CHOOSE r \in db.accounts : r.id = a).maildir_path
                    ELSE "none"]]
    /\ still' = TRUE
    /\ UNCHANGED <<driver, db, revision, maildir, file, staging, fresh, writes>>

\* The transaction starts; the revision is read by another connection, which
\* may fail to get one.
ReadRevision(known) ==
    /\ job.at = "listed"
    /\ job' = [job EXCEPT !.at = "dumping",
                 !.dump.revision = IF known THEN revision ELSE Unknown,
                 !.dump.shape = revision,
                 !.dump.mail_accounts = {a \in Accounts : job.roots[a] # "none"}]
    /\ UNCHANGED <<db, maildir, file, staging, fresh, still>>
    /\ Outside

Following(pos) == IF pos < Len(sorted_tables) THEN pos + 1 ELSE 1

\* dump_database: one table after the other.
dump_database ==
    /\ job.at = "dumping"
    /\ LET t == sorted_tables[job.pos]
       IN  job' = [job EXCEPT !.dump.tables[t] = db[t],
                     !.pos = Following(@),
                     !.at = IF job.pos < Len(sorted_tables) THEN "dumping" ELSE "archiving"]
    /\ staging' = IF job.pos < Len(sorted_tables) THEN staging
                  ELSE [NoFile EXCEPT !.dump = job'.dump]
    /\ UNCHANGED <<db, maildir, file, fresh, still>>
    /\ Outside

\* Mutant: the archive is written where it is to be.
Destination_mut(part, old) == part

\* What the archive's name holds while the staging file is written.
Destination(part, old) == old

\* write_archive: the manifest, the rows, then mailbox after mailbox, each as it
\* is when its turn comes.
AddPart(p) ==
    /\ job.at = "archiving"
    /\ p \in ({"manifest", "database"} \cup staging.dump.mail_accounts) \ staging.parts
    /\ p # "manifest" => "manifest" \in staging.parts
    /\ p \in Accounts => "database" \in staging.parts
    /\ staging' = [staging EXCEPT !.parts = @ \cup {p},
                     !.mail = IF p \in Accounts
                              THEN [@ EXCEPT ![p] = maildir[p, job.roots[p]]] ELSE @]
    /\ file' = Destination(staging', file)
    /\ UNCHANGED <<db, maildir, job, fresh, still>>
    /\ Outside

\* staging.replace(destination)
Replace ==
    /\ job.at = "archiving"
    /\ Whole(staging)
    /\ file' = [staging EXCEPT !.quiet = still]
    /\ staging' = NoFile
    /\ Ended("ok")
    /\ UNCHANGED <<db, maildir, fresh, still>>
    /\ Outside

\* Unreadable mail, a full disk, an interrupt: the staging file is unlinked.
CreateFails ==
    /\ job.at \in {"listed", "dumping", "archiving"}
    /\ staging' = NoFile
    /\ Ended("error")
    /\ UNCHANGED <<db, maildir, file, fresh, still>>
    /\ Outside

-----------------------------------------------------------------------------
(* backup restore.                                                         *)

read_manifest(f) == "manifest" \in f.parts

\* The count of rows and the question to the operator come later.
Restore(include_mail, ignore_revision) ==
    /\ JobIdle
    /\ read_manifest(file)
    /\ jobs < MaxJobs
    /\ jobs' = jobs + 1
    /\ job' = [NoJob EXCEPT !.at = "opened", !.include_mail = include_mail,
                            !.ignore_revision = ignore_revision]
    /\ still' = TRUE
    /\ fresh' = NoRows
    /\ UNCHANGED <<driver, db, revision, maildir, file, staging, writes>>

\* check_revision; the operator may also have said no.
CheckRevision(current, yes) ==
    /\ job.at = "opened"
    /\ current \in {revision, Unknown}
    /\ IF /\ yes
          /\ \/ job.ignore_revision
             \/ file.dump.revision \in {Unknown, current}
             \/ current = Unknown
       THEN job' = [job EXCEPT !.at = "wiping", !.pos = Len(sorted_tables),
                               !.dump = file.dump]
       ELSE Ended("refused")
    /\ UNCHANGED <<db, maildir, file, staging, fresh, still>>
    /\ Outside

\* The rows as the transaction sees them.
View(t) == (db[t] \ job.gone[t]) \cup job.added[t]
Seen == [domains |-> View("domains"), accounts |-> View("accounts")]

\* Mutant: the tables are emptied in the order they are filled.
WipeOrder_mut(pos) == Len(sorted_tables) + 1 - pos

\* reversed(sorted_tables)
WipeOrder(pos) == pos

\* A row that still refers to one to be deleted ends the transaction.  (Two references
\* of the schema, to api_keys and webhooks, cascade instead: a row committed since its
\* own table was emptied goes with its parent.  They are between other tables.)
Wipe ==
    /\ job.at = "wiping"
    /\ LET t    == sorted_tables[WipeOrder(job.pos)]
           left == [Seen EXCEPT ![t] = {}]
       IN  IF Referred(left)
           THEN /\ job' = [job EXCEPT !.gone[t] = db[t],
                             !.at = IF job.pos > 1 THEN "wiping" ELSE "loading",
                             !.pos = IF @ > 1 THEN @ - 1 ELSE 1]
                /\ fresh' = [fresh EXCEPT ![t] = {}]
           ELSE Ended("key") /\ UNCHANGED fresh
    /\ UNCHANGED <<db, maildir, file, staging, still>>
    /\ Outside

\* _decode_row refuses a row with a column this schema does not know, and a later
\* shape has one in every table; a table without rows is not looked at, nor is one
\* this schema does not have, whose rows are left out of the restore in silence.
\* The database is at the revision of the code that runs.
Decodes(f, t) == f.dump.tables[t] = {} \/ f.dump.shape <= revision

\* The rows of one table are inserted.  A key already there or a row whose parent
\* is not ends the transaction.
Load ==
    /\ job.at = "loading"
    /\ LET t     == sorted_tables[job.pos]
           after == [Seen EXCEPT ![t] = @ \cup job.dump.tables[t]]
           last  == job.pos = Len(sorted_tables)
       IN  IF Decodes(file, t) /\ Referred(after) /\ Unique(after[t])
           THEN job' = [job EXCEPT !.added[t] = job.dump.tables[t],
                          !.pos = Following(@),
                          !.at = IF ~last THEN "loading"
                                 ELSE IF job.include_mail /\ job.dump.mail_accounts # {}
                                 THEN "extracting" ELSE "committing"]
           ELSE Ended(IF Decodes(file, t) THEN "key" ELSE "error")
    /\ UNCHANGED <<db, maildir, file, staging, fresh, still>>
    /\ Outside

\* The row the restore has loaded says where; without a row, the layout.
maildir_targets(a) ==
    IF \E r \in View("accounts") : r.id = a
    THEN (CHOOSE r \in View("accounts") : r.id = a).maildir_path
    ELSE "layout"

\* One mailbox is written over what is there.
extract_mail(a) ==
    /\ job.at = "extracting"
    /\ a \in job.dump.mail_accounts \ job.extracted
    /\ maildir' = [maildir EXCEPT ![<<a, maildir_targets(a)>>] = @ \cup file.mail[a]]
    /\ job' = [job EXCEPT !.extracted = @ \cup {a},
                 !.at = IF job.dump.mail_accounts = job.extracted \cup {a}
                        THEN "committing" ELSE @]
    /\ UNCHANGED <<db, file, staging, fresh, still>>
    /\ Outside

\* Mutant: the wipe is committed on its own.
Committed_mut(t) == db[t] \ job.gone[t]

Committed(t) == View(t)

Commit ==
    /\ job.at = "committing"
    /\ db' = [domains |-> Committed("domains"), accounts |-> Committed("accounts")]
    /\ Ended("ok")
    /\ UNCHANGED <<maildir, file, staging, fresh, still>>
    /\ Outside

\* The archive is truncated, a member is unsafe, the disk is full, the database
\* goes away: the transaction is rolled back, and mail already written stays.
RestoreFails ==
    /\ job.at \in {"wiping", "loading", "extracting", "committing"}
    /\ Ended("error")
    /\ UNCHANGED <<db, maildir, file, staging, fresh, still>>
    /\ Outside

\* The process is killed.  Nothing collects the staging file.  (Nothing is synced to
\* the disk before the rename: what a machine that goes down would keep is not said.)
Crash ==
    /\ ~JobIdle
    /\ Ended("killed")
    /\ UNCHANGED <<db, maildir, file, staging, fresh, still>>
    /\ Outside

-----------------------------------------------------------------------------
(* The server and its operator.                                            *)

\* A statement waits for the rows, and on SQLite for the database, that the
\* restore's transaction holds.
Restoring == \/ job.at \in {"loading", "extracting", "committing"}
             \/ job.at = "wiping" /\ job.pos < Len(sorted_tables)
Held(t, r) == \E s \in job.gone[t] \cup job.added[t] : s.id = r.id

Server(t, rows) ==
    /\ writes < MaxWrites
    /\ driver = "sqlite" => ~Restoring
    /\ writes' = writes + 1
    /\ db' = [db EXCEPT ![t] = rows]
    /\ fresh' = [fresh EXCEPT ![t] = (@ \cap rows) \cup (rows \ db[t])]
    /\ still' = FALSE
    /\ UNCHANGED <<driver, revision, maildir, file, staging, job, jobs>>

\* DomainRepo.create, AccountRepo.create
AddRow(t, r) ==
    /\ \A s \in db[t] : s.id # r.id
    /\ ~Held(t, r)
    /\ t = "accounts" => /\ \E d \in db.domains : d.id = r.domain
                         /\ ~Held("domains", [id |-> r.domain])
    /\ Server(t, db[t] \cup {r})

\* DomainRepo.delete, AccountRepo.delete.  A row to which the restore has inserted
\* others is locked as well.
DeleteRow(t, r) ==
    /\ r \in db[t]
    /\ ~Held(t, r)
    /\ t = "domains" => \A a \in job.added.accounts : a.domain # r.id
    /\ Referred([db EXCEPT ![t] = @ \ {r}])
    /\ Server(t, db[t] \ {r})

\* Dovecot delivers.
Deliver(r, m) ==
    /\ r \in db.accounts
    /\ writes < MaxWrites
    /\ m \notin maildir[r.id, r.maildir_path]
    /\ writes' = writes + 1
    /\ maildir' = [maildir EXCEPT ![<<r.id, r.maildir_path>>] = @ \cup {m}]
    /\ UNCHANGED <<driver, db, revision, file, staging, job, fresh, still, jobs>>

\* `lightr migrate`, between two jobs.
Migrate ==
    /\ JobIdle
    /\ \E v \in Revisions \ {revision} : revision' = v
    /\ writes < MaxWrites
    /\ writes' = writes + 1
    /\ UNCHANGED <<driver, db, maildir, file, staging, job, fresh, still, jobs>>

BackupNext ==
    \/ \E include_mail \in BOOLEAN : Create(include_mail)
    \/ \E known \in BOOLEAN : ReadRevision(known)
    \/ dump_database
    \/ \E p \in Parts : AddPart(p)
    \/ Replace
    \/ CreateFails
    \/ \E include_mail, ignore_revision \in BOOLEAN : Restore(include_mail, ignore_revision)
    \/ \E current \in Revisions \cup {Unknown}, yes \in BOOLEAN : CheckRevision(current, yes)
    \/ Wipe
    \/ Load
    \/ \E a \in Accounts : extract_mail(a)
    \/ Commit
    \/ RestoreFails
    \/ Crash
    \/ \E r \in DomainRow : AddRow("domains", r) \/ DeleteRow("domains", r)
    \/ \E r \in AccountRow : AddRow("accounts", r) \/ DeleteRow("accounts", r)
    \/ \E r \in AccountRow, m \in Messages : Deliver(r, m)
    \/ Migrate

BackupSpec == BackupInit /\ [][BackupNext]_backup_vars
-----------------------------------------------------------------------------
(* What is checked.                                                        *)

BackupTypeOK ==
    /\ driver \in Drivers
    /\ db \in Rows
    /\ revision \in Revisions
    /\ maildir \in [Accounts \X Places -> SUBSET Messages]
    /\ file \in Archive
    /\ staging \in Archive
    /\ job \in Job
    /\ fresh \in Rows
    /\ still \in BOOLEAN
    /\ writes \in 0..MaxWrites
    /\ jobs \in 0..MaxJobs

\* Whatever fails or dies while an archive is written, its name holds a whole
\* archive or none; and one of rows that did not change meanwhile has no row
\* without its parent (write_archive, dump_database).
ArchiveIsWhole ==
    file # NoFile => /\ Whole(file)
                     /\ file.quiet => Referred(file.dump.tables)

\* A backup taken while nothing was committed can be restored over whatever the
\* database holds by then, as long as nothing is committed meanwhile
\* (load_database: "so foreign keys hold at every point in between").
QuietBackupRestores ==
    job.result = "key" => ~still \/ ~file.quiet

\* What a restore commits is the archive: every row of it, and else only what
\* others committed since it emptied the table (cli/backup.py: "the result is the
\* archive and nothing else").
RestoreIsTheArchive ==
    [][job.at = "committing" /\ job'.result = "ok" =>
         \A t \in Tables : db'[t] = file.dump.tables[t] \cup fresh[t]]_backup_vars

\* A backup taken while the server runs can be restored (docs/DEPLOY.md:225: "Move
\* to Postgres when you want backups you can take while it runs").
\* The code does not keep this (README, section 6).
RunningBackupRestores ==
    job.result = "key" => ~still
=============================================================================
