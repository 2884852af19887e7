--------------------------- MODULE DovecotInstall ---------------------------
(***************************************************************************)
(* How Lightr keeps Dovecot's configuration (dovecot/manage.py, config.py, *)
(* checkpassword.py, userdb.py, and the commands `lightr setup` and        *)
(* `lightr dovecot install`): secrets are made up and saved; the files are *)
(* written one by one, each with a backup, each renamed into place first   *)
(* and given its mode and group after; doveconf judges the result, and     *)
(* Dovecot is reloaded or everything written is put back.  Beside it: the  *)
(* server, which holds the key it started with, and people who edit files. *)
(*                                                                         *)
(* Dovecot may read the files at any moment, in a restart or a login, so   *)
(* they are checked in every state and what it last read is not kept.      *)
(* Runs follow one another; nothing in the code enforces that.             *)
(***************************************************************************)
EXTENDS Integers, FiniteSets, Sequences

CONSTANTS
    Settings,  \* what the operator may write in config.yaml, beside the secrets
    Rejected,  \* settings whose files doveconf refuses
    Invalid,   \* settings generate() refuses: a bad name in tls.domain_certs
    MaxRuns,   \* bound: runs of setup and install
    MaxEdits,  \* bound: edits of config.yaml and of Dovecot's files by people
    MaxTorn    \* bound: files left torn when one more is refused its group

ASSUME InstallAssumption ==
    /\ Rejected \subseteq Settings /\ Invalid \subseteq Settings
    /\ MaxRuns \in Nat /\ MaxEdits \in Nat /\ MaxTorn \in Nat

VARIABLES
    config,  \* config.yaml: the settings and the two secrets, 0 for unset
    disk,    \* the text of each of Dovecot's files
    lacks,   \* what each file still has as mkstemp made it: 0600, root's group
    backup,  \* the text of each file saved as *.bak by the run under way
    saved,   \* the backups whose mode is 0600
    server,  \* the internal key `lightr serve` started with, 0 for none
    run,     \* the run of setup or install under way, or the last one
    runs,    \* how many have started
    edits,   \* how many edits people have made
    settled, \* history: the files nobody else wrote since the run began
    sound,   \* history: some run ended well with its secrets saved
    torn     \* history: the files some write left without their mode or their group

vars == <<config, disk, lacks, backup, saved, server, run, runs, edits, settled, sound, torn>>

files == <<disk, lacks, backup, saved>>

-----------------------------------------------------------------------------
(* Files and what is in them: who wrote it, the settings and the secret it *)
(* carries, and the run, for a hash that is salted.                        *)

Generated == <<"conf", "checkpassword", "userdb", "spam">>
Retired == "lua"    \* lightr-auth.lua
Order == Generated \o <<"master-users", Retired, "10-auth">>
Files == {Order[i] : i \in DOMAIN Order}

\* Dovecot's auth process runs as the dovecot user: these go to its group.
Grouped == {"checkpassword", "userdb", "master-users"}

\* A file as mkstemp makes it: 0600, and in root's group.
Fresh(f) == IF f \in Grouped THEN {"mode", "group"} ELSE {"mode"}

Secrets == 0..MaxRuns

\* "torn": a copy that broke off.
Content == [by : {"nobody", "lightr", "others", "torn"}, setting : Settings \cup {"any"},
            secret : Secrets, salt : 0..MaxRuns]

Plain == [by |-> "lightr", setting |-> "any", secret |-> 0, salt |-> 0]
Absent == [Plain EXCEPT !.by = "nobody"]
Foreign == [Plain EXCEPT !.by = "others"]  \* 10-auth: the stock file, with PAM
Short == [Plain EXCEPT !.by = "torn"]

Config == [setting : Settings, key : Secrets, master : Secrets]
Down == [setting |-> "any", key |-> 0, master |-> 0]

dovecot_conf(c) == [Plain EXCEPT !.setting = c.setting]

\* The program Dovecot runs at each login, with the API's URL and the internal key.
checkpassword(c) == [Plain EXCEPT !.setting = c.setting, !.secret = c.key]

userdb_conf(c) == [Plain EXCEPT !.setting = c.setting]

spam_script == Plain

\* doveadm pw salts: no two runs write the same digest.
master_users(c, n) == [Plain EXCEPT !.secret = c.master, !.salt = n]

without_system_auth == Plain

\* What a run writes to a file, given its configuration and its number.
Wanted(f, c, n) ==
    CASE f = "conf"          -> dovecot_conf(c)
      [] f = "checkpassword" -> checkpassword(c)
      [] f = "userdb"        -> userdb_conf(c)
      [] f = "spam"          -> spam_script
      [] f = "master-users"  -> master_users(c, n)
      [] f = Retired         -> Absent
      [] f = "10-auth"       -> without_system_auth

-----------------------------------------------------------------------------
(* A run: where it is, its configuration in memory, the next file, the     *)
(* changes its report calls written, the files put in place by a write     *)
(* that then raised, whether the secrets could not be saved, and the files *)
(* as it found them (history).  All that is left of a run that ended is    *)
(* how.                                                                    *)

Stages == {"none", "started", "writing", "renamed", "chmodded", "verifying",
           "reloading", "rolling back", "ended"}
Results == {"none", "ok", "not reloaded", "failed", "not restored", "declined",
            "raised", "stopped"}

Run == [at : Stages, mem : Config \cup {Down},
        pos : 1..Len(Order), written : SUBSET Files, unrecorded : SUBSET Files,
        unsaved : BOOLEAN, found : [Files -> Content],
        result : Results]

NoFiles == [f \in Files |-> Absent]

NoRun == [at |-> "none", mem |-> Down, pos |-> 1, written |-> {},
          unrecorded |-> {}, unsaved |-> FALSE, found |-> NoFiles,
          result |-> "none"]

\* A fresh install of Dovecot, or one an earlier version of Lightr configured.
Init ==
    /\ config \in [setting : Settings \ (Rejected \cup Invalid), key : {0}, master : {0}]
    /\ disk \in {[f \in Files |-> IF f = "10-auth" THEN Foreign ELSE Absent],
                 [f \in Files |-> IF f \in {"conf", Retired, "10-auth"} THEN Foreign
                                                                    ELSE Absent]}
    /\ lacks = [f \in Files |-> {}]
    /\ backup = NoFiles
    /\ saved = {}
    /\ server = 0
    /\ run = NoRun
    /\ runs = 0
    /\ edits = 0
    /\ settled = Files
    /\ sound = FALSE
    /\ torn = {}

Idle == run.at \in {"none", "ended"}

UnchangedOutside == UNCHANGED <<server, runs, edits>>

InRun == UnchangedOutside /\ UNCHANGED <<settled, sound>>

\* The file being written: renamed into place, its mode and group not given yet.
InHand(f) == run.at \in {"renamed", "chmodded"} /\ Order[run.pos] = f

\* The files that hold the two secrets.
Credentials == {"checkpassword", "master-users"}

Close(how) ==
    /\ run' = [NoRun EXCEPT !.at = "ended", !.result = how]
    /\ backup' = NoFiles
    /\ saved' = {}
    /\ settled' = Files

EndRun(how) ==
    /\ Close(how)
    /\ sound' = \/ sound
                \/ /\ how \in {"ok", "not reloaded"}
                   /\ ~run.unsaved
                   /\ Credentials \subseteq settled

-----------------------------------------------------------------------------
(* Starting: secrets that are missing are made up, and saved.              *)

\* Mutant: the secrets are made up anew on every run.
fill_in_gaps_mut(c, n) == [c EXCEPT !.key = n, !.master = n]

fill_in_gaps(c, n) ==
    [c EXCEPT !.key    = IF @ = 0 THEN n ELSE @,
              !.master = IF @ = 0 THEN n ELSE @]

\* config.yaml is rewritten, or left as it was.
set_values(saves, mem) == IF saves THEN mem ELSE config

\* DovecotManager.reconcile: a configuration that cannot be saved is a warning.
\* `lightr dovecot install`: it ends the command, and so may the operator.
Start(by, saves) ==
    /\ Idle
    /\ runs < MaxRuns
    /\ runs' = runs + 1
    /\ LET mem  == fill_in_gaps(config, runs + 1)
           here == [NoRun EXCEPT !.mem = mem, !.found = disk,
                                 !.unsaved = ~saves /\ mem # config]
       IN  /\ config' = set_values(saves, mem)
           /\ IF by = "install" /\ here.unsaved
              THEN run' = [NoRun EXCEPT !.at = "ended", !.result = "raised"]
              ELSE run' = [here EXCEPT !.at = "started"]
    /\ UNCHANGED <<files, server, edits, settled, sound, torn>>

\* setup goes no further without doveadm, install asks the operator.
Decline ==
    /\ run.at = "started"
    /\ EndRun("declined")
    /\ UNCHANGED <<config, disk, lacks, torn>>
    /\ UnchangedOutside

\* generate() comes first, and raises for settings it cannot put in a file.
Generate ==
    /\ run.at = "started"
    /\ IF run.mem.setting \in Invalid
       THEN EndRun("raised")
       ELSE /\ run' = [run EXCEPT !.at = "writing"]
            /\ UNCHANGED <<backup, saved, settled, sound>>
    /\ UNCHANGED <<config, disk, lacks, torn>>
    /\ UnchangedOutside

-----------------------------------------------------------------------------
(* Writing.                                                                *)

File == Order[run.pos]
Due(f) == Wanted(f, run.mem, runs)

\* The run after this file: the next one, or doveconf.
Onward(r) ==
    IF r.pos = Len(Order) THEN [r EXCEPT !.at = "verifying"]
                          ELSE [r EXCEPT !.at = "writing", !.pos = @ + 1]

\* The file is in the report, and what it lacks by then stays so.
Recorded(f) == run' = Onward([run EXCEPT !.written = @ \cup {f}])

Writing(f) == run.at = "writing" /\ File = f

\* Mutant: a file that exists is taken to be current.
UpToDate_mut(f) ==
    \/ f \notin {"10-auth", Retired} /\ disk[f] # Absent
    \/ f = "10-auth" /\ disk[f] # Foreign

\* write_atomic finds the same text, and asks after nothing else; 10-auth is missing
\* or without the include.
UpToDate(f) ==
    \/ disk[f] = Due(f)
    \/ f = "10-auth" /\ disk[f] # Foreign

Skip ==
    /\ run.at = "writing"
    /\ File # Retired
    /\ UpToDate(File)
    /\ run' = Onward(run)
    /\ UNCHANGED <<config, files, torn>>
    /\ InRun

\* The old text is saved beside, with its mode, and the new one renamed into place.
write_atomic ==
    /\ run.at = "writing"
    /\ LET f == File
       IN  /\ f # Retired
           /\ ~UpToDate(f)
           /\ backup' = [backup EXCEPT ![f] = disk[f]]
           /\ saved' = IF "mode" \in lacks[f] THEN saved \cup {f} ELSE saved \ {f}
           /\ disk' = [disk EXCEPT ![f] = Due(f)]
           /\ lacks' = [lacks EXCEPT ![f] = Fresh(f)]
           /\ run' = [run EXCEPT !.at = "renamed"]
    /\ UNCHANGED <<config, torn>>
    /\ InRun

\* The mode comes next; 10-auth gets the one it had.
chmod ==
    /\ run.at = "renamed"
    /\ LET f == File
       IN  /\ lacks' = IF f = "10-auth" /\ f \in saved
                       THEN lacks ELSE [lacks EXCEPT ![f] = @ \ {"mode"}]
           /\ IF f \in Grouped THEN run' = [run EXCEPT !.at = "chmodded"] ELSE Recorded(f)
    /\ UNCHANGED <<config, disk, backup, saved, torn>>
    /\ InRun

\* Then the group; one that is missing or refused is logged, and the write is good.
set_group(given) ==
    /\ run.at = "chmodded"
    /\ given \/ Cardinality(torn) < MaxTorn
    /\ LET f == File
       IN  /\ lacks' = IF given THEN [lacks EXCEPT ![f] = @ \ {"group"}] ELSE lacks
           /\ torn' = IF given THEN torn ELSE torn \cup {f}
           /\ Recorded(f)
    /\ UNCHANGED <<config, disk, backup, saved>>
    /\ InRun

\* The disk is full or read-only, doveadm pw fails, or the command is interrupted.
WriteFails ==
    /\ run.at = "writing"
    /\ File # Retired
    /\ run' = [run EXCEPT !.at = "rolling back"]
    /\ UNCHANGED <<config, files, torn>>
    /\ InRun

\* The chmod raises after the rename, with nothing in the report.
WriteRaises ==
    /\ run.at \in {"renamed", "chmodded"}
    /\ run' = [run EXCEPT !.at = "rolling back", !.unrecorded = {File}]
    /\ torn' = torn \cup {File}
    /\ UNCHANGED <<config, files>>
    /\ InRun

\* A retired file that cannot be removed is left with a warning.
remove_retired(removed) ==
    /\ Writing(Retired)
    /\ disk' = IF removed THEN [disk EXCEPT ![Retired] = Absent] ELSE disk
    /\ run' = Onward(run)
    /\ UNCHANGED <<config, lacks, backup, saved, torn>>
    /\ InRun

-----------------------------------------------------------------------------
(* Verifying, reloading, putting back.                                     *)

Parses(conf) == conf.by = "lightr" => conf.setting \notin Rejected

Problem(checked) == checked /\ ~Parses(disk["conf"])

\* doveconf is not installed, answers, or cannot be run in time.
verify(checked, ran) ==
    /\ run.at = "verifying"
    /\ checked \/ ran
    /\ run' = [run EXCEPT !.at = IF Problem(checked) \/ ~ran THEN "rolling back"
                                                             ELSE "reloading"]
    /\ UNCHANGED <<config, files, torn>>
    /\ InRun

\* doveadm reload; `--no-reload` leaves it out, and one that fails is a warning.
Reload(answered) ==
    /\ run.at = "reloading"
    /\ EndRun(IF answered THEN "ok" ELSE "not reloaded")
    /\ UNCHANGED <<config, disk, lacks, torn>>
    /\ UnchangedOutside

\* Mutant: a file that was not there before is left.
Restored_mut(f) == IF backup[f] = Absent THEN disk[f] ELSE backup[f]

\* The backup of this run; without one, nothing was there.
Restored(f) == backup[f]

\* Changes are undone in reverse order.
LastWritten(f) ==
    /\ f \in run.written
    /\ \A g \in run.written : \A i, j \in DOMAIN Order : Order[i] = f /\ Order[j] = g => j <= i

\* copy2 over the file in place: the mode of the backup, the group that is there.
Reopened(f) ==
    IF Restored(f) = Absent THEN {}
    ELSE (lacks[f] \cap {"group"}) \cup (IF f \in saved THEN {"mode"} ELSE {})

PutBack(f) ==
    /\ LastWritten(f)
    /\ disk' = [disk EXCEPT ![f] = Restored(f)]
    /\ lacks' = [lacks EXCEPT ![f] = Reopened(f)]
    /\ run' = [run EXCEPT !.written = @ \ {f}]
    /\ UNCHANGED <<backup, saved, settled, sound>>

\* It may raise or be killed before the copy, within it or before its chmod: the
\* rest stays as written.
PutBackFails(f) ==
    /\ LastWritten(f)
    /\ \E text \in {disk[f], Restored(f)} \cup (IF backup[f] = Absent THEN {} ELSE {Short}) :
          /\ disk' = [disk EXCEPT ![f] = text]
          /\ sound' = (sound /\ ~(f \in Credentials /\ text = Short))
    /\ Close("not restored")
    /\ UNCHANGED lacks

rollback ==
    /\ run.at = "rolling back"
    /\ \/ \E f \in Files : PutBack(f) \/ PutBackFails(f)
       \/ /\ run.written = {}
          /\ EndRun("failed")
          /\ UNCHANGED <<disk, lacks>>
    /\ UNCHANGED <<config, torn>>
    /\ UnchangedOutside

\* Killed anywhere, or interrupted where nothing is caught: no one puts back.
Stop ==
    /\ ~Idle
    /\ EndRun("stopped")
    /\ torn' = torn \cup {f \in Files : InHand(f)}
    /\ UNCHANGED <<config, disk, lacks>>
    /\ UnchangedOutside

-----------------------------------------------------------------------------
(* The others.                                                             *)

\* Lightr.serve reads config.yaml, reports drift, and changes nothing.
Serve ==
    /\ server' = config.key
    /\ server # config.key
    /\ UNCHANGED <<config, files, run, runs, edits, settled, sound, torn>>

\* Somebody edits one of Dovecot's files, as it is or with a mode and group of their
\* own, or an upgrade of Dovecot brings the stock 10-auth.conf back.
EditFile(f, kept) ==
    /\ edits < MaxEdits
    /\ disk[f] # Foreign
    /\ edits' = edits + 1
    /\ disk' = [disk EXCEPT ![f] = Foreign]
    /\ lacks' = IF kept THEN lacks ELSE [lacks EXCEPT ![f] = {}]
    /\ settled' = IF Idle THEN settled ELSE settled \ {f}
    /\ sound' = (sound /\ f \notin Credentials)
    /\ UNCHANGED <<config, backup, saved, server, run, runs, torn>>

EditConfig(s) ==
    /\ edits < MaxEdits
    /\ s # config.setting
    /\ edits' = edits + 1
    /\ config' = [config EXCEPT !.setting = s]
    /\ UNCHANGED <<files, server, run, runs, settled, sound, torn>>

Next ==
    \/ \E by \in {"setup", "install"}, saves \in BOOLEAN : Start(by, saves)
    \/ Decline
    \/ Generate
    \/ Skip
    \/ write_atomic
    \/ chmod
    \/ \E given \in BOOLEAN : set_group(given)
    \/ WriteFails
    \/ WriteRaises
    \/ \E removed \in BOOLEAN : remove_retired(removed)
    \/ \E checked, ran \in BOOLEAN : verify(checked, ran)
    \/ \E answered \in BOOLEAN : Reload(answered)
    \/ rollback
    \/ Stop
    \/ Serve
    \/ \E f \in Files, kept \in BOOLEAN : EditFile(f, kept)
    \/ \E s \in Settings : EditConfig(s)

Spec == Init /\ [][Next]_vars
-----------------------------------------------------------------------------
(* What is checked.                                                        *)

TypeOK ==
    /\ config \in Config
    /\ disk \in [Files -> Content]
    /\ lacks \in [Files -> SUBSET {"mode", "group"}]
    /\ backup \in [Files -> Content]
    /\ saved \subseteq Files
    /\ server \in Secrets
    /\ run \in Run
    /\ runs \in 0..MaxRuns
    /\ edits \in 0..MaxEdits
    /\ settled \subseteq Files
    /\ sound \in BOOLEAN
    /\ torn \subseteq Files

\* A run that reports failure, and could put back what it wrote, has left every file
\* as it found it, and none shut to Dovecot that no write was ever cut off in: but for
\* the retired file it removed, a file whose write raised after the rename, and what
\* others wrote meanwhile (DovecotManager.rollback).
FailedInstallRestores ==
    [][~Idle /\ run'.result \in {"failed", "raised", "declined"} =>
         \A f \in settled \ (run.unrecorded \cup {Retired}) :
             /\ disk'[f] = run.found[f]
             /\ lacks'[f] # {} => f \in torn]_vars

\* A run that ends well leaves the text of every file as its configuration wants it,
\* and in 10-auth, which is Dovecot's, PAM out of the way, whatever a run stopped
\* half-way or an edit had left behind.  Mode and group too are as they should be,
\* unless some write of the file was cut off or could not give its group, and then:
\* its group alone is missing, the run found the right text and left the file alone,
\* or it is 10-auth, which keeps the mode it has (DovecotManager.install,
\* write_atomic).  So master-users is always healed.
InstallIsComplete ==
    [][~Idle /\ run'.result \in {"ok", "not reloaded"} =>
         \A f \in settled \ {Retired} :
             /\ \/ disk'[f] = Wanted(f, run.mem, runs)
                \/ f = "10-auth" /\ disk'[f] # Foreign
             /\ lacks'[f] # {} =>
                   /\ f \in torn
                   /\ \/ lacks'[f] = {"group"}
                      \/ disk'[f] = run.found[f] /\ f # "master-users"
                      \/ f = "10-auth"]_vars

\* Once a run has ended well and its secrets were saved, Dovecot's files and the server
\* hold the secrets that config.yaml holds: through runs that fail, are stopped anywhere
\* or put back, and through restarts, but for a file left short by a copy back that broke
\* off.  And Dovecot may open the two files that hold them, but in the moment between
\* the rename and the chown, and after a write that was cut off there or could not give
\* the group (fill_in_gaps, checkpassword.script, write_master_user, rollback).
LoginsKeepWorking ==
    sound => /\ disk["checkpassword"].secret = config.key
             /\ disk["master-users"].secret = config.master
             /\ server \in {0, config.key}
             /\ \A f \in Credentials \ torn : lacks[f] # {} => InHand(f)

\* The code does not keep this (README, section 6): Dovecot may read any of these files
\* at any moment (write_atomic).
LoginsAreNeverShut == sound => \A f \in Credentials : lacks[f] = {}

\* The code does not keep this (README, section 6): a run that ends well leaves every
\* file with the mode and group it is generated with (GeneratedFile).
InstallOpensEveryFile ==
    [][~Idle /\ run'.result \in {"ok", "not reloaded"} =>
         \A f \in settled \ {Retired} : lacks'[f] = {}]_vars
=============================================================================
