---------------------------- MODULE CommandsProofs ----------------------------
(***************************************************************************)
(* Proofs about the operator's commands that change much at once beside    *)
(* everything else that runs: setup and install (DovecotInstall), and      *)
(* backup and restore (Backup).                                            *)
(*                                                                         *)
(* Installation, for any settings and any number of runs and of edits.     *)
(* The argument: once secrets are in config.yaml no run changes them       *)
(* (SecretsAgree), so each file that carries one, and each backup of such  *)
(* a file, carries that one (LoginsHold); a file the run has passed is as  *)
(* it wants it (Placed); what a file was when the run began is in its      *)
(* place or in its backup (Undoable); and what a file still lacks of its   *)
(* mode or group, some write did not come to give it (Opened).             *)
(*                                                                         *)
(* Backup, for any domains, accounts and messages and any number of jobs   *)
(* and of statements of the server.  The argument: what is committed, and  *)
(* what the restore's transaction sees of it, keep their keys (KeysHold),  *)
(* because no statement touches a row that the transaction holds; a table  *)
(* dumped with nothing committed since is the table (Gathering); and of a  *)
(* table the restore has emptied nothing is left but what others have      *)
(* committed since (RestoreAtWork).                                        *)
(***************************************************************************)
EXTENDS DovecotInstall, Backup, SequenceTheorems, TLAPS

-----------------------------------------------------------------------------
(***************************************************************************)
(* Installation.                                                           *)
(***************************************************************************)
\* The run is among the files.
AtFiles == run.at \in {"writing", "renamed", "chmodded"}

\* Where the run is past a file.
Passed(f) ==
    \/ AtFiles /\ \E i \in DOMAIN Order : i < run.pos /\ Order[i] = f
    \/ run.at \in {"verifying", "reloading"} /\ f \in Files

\* The file is this run's now, and what it was is in its backup.
Replaced(f) == f \in run.written \/ InHand(f)

\* What a run has in hand at each stage.
InStep ==
    /\ ~Idle => run.result = "none" /\ run.mem \in Config
    /\ run.at \in {"none", "started", "ended"} => run.written = {}
    /\ run.at = "started" => run.pos = 1
    /\ run.at # "rolling back" => run.unrecorded = {}
    /\ AtFiles => \A f \in run.written : Passed(f)

\* The secrets a run works with, which are those of config.yaml unless they could not
\* be saved; and they are never replaced once they are there.
SecretsAgree ==
    /\ server \in {0, config.key}
    /\ ~Idle => /\ run.mem.key # 0 /\ run.mem.master # 0
                /\ ~run.unsaved => run.mem.key = config.key /\ run.mem.master = config.master
                /\ run.unsaved => config.key = 0 \/ config.master = 0

\* Each file that carries a secret has it, and so has what a rollback would put back.
LoginsHold ==
    sound =>
        /\ config.key # 0 /\ config.master # 0
        /\ disk["checkpassword"].secret = config.key
        /\ disk["master-users"].secret = config.master
        /\ Replaced("checkpassword") => backup["checkpassword"].secret = config.key
        /\ Replaced("master-users") => backup["master-users"].secret = config.master

\* What the run has passed or has in hand is as it wants it.
Placed ==
    \A f \in settled \ {Retired} :
        Passed(f) \/ InHand(f) => disk[f] = Due(f) \/ (f = "10-auth" /\ disk[f] # Foreign)

\* What a file was when the run began is in its place or in its backup.
Undoable ==
    ~Idle => \A f \in settled \ (run.unrecorded \cup {Retired}) :
                 (IF Replaced(f) THEN backup[f] ELSE disk[f]) = run.found[f]

\* No run's salt is used again.
Salted ==
    /\ disk["master-users"].salt <= runs /\ backup["master-users"].salt <= runs
    /\ ~Idle => run.found["master-users"].salt < runs

\* A file that lacks its mode or its group is in hand, or was left so by some write; one
\* that this run has written lacks no more than its group.
Opened ==
    /\ \A f \in Files : lacks[f] # {} => f \in torn \/ InHand(f)
    /\ saved \subseteq torn
    /\ run.at = "renamed" => File \in Grouped \/ "group" \notin lacks[File]
    /\ run.at = "chmodded" => File # "10-auth" /\ "mode" \notin lacks[File]
    /\ run.at # "rolling back" =>
          \A f \in run.written : f = "10-auth" \/ "mode" \notin lacks[f]

InstallInv ==
    /\ TypeOK /\ InStep /\ SecretsAgree /\ LoginsHold /\ Placed /\ Undoable /\ Salted
    /\ Opened

-----------------------------------------------------------------------------
(* The files and what is written to them. *)

\* The list of files, written out.
LEMMA OrderIs ==
    /\ Len(Order) = 7 /\ DOMAIN Order = 1..7
    /\ Order[1] = "conf" /\ Order[2] = "checkpassword" /\ Order[3] = "userdb"
    /\ Order[4] = "spam" /\ Order[5] = "master-users" /\ Order[6] = "lua"
    /\ Order[7] = "10-auth"
  <1> DEFINE s == <<"conf", "checkpassword", "userdb", "spam">>
             S == {"conf", "checkpassword", "userdb", "spam", "master-users", "lua", "10-auth"}
             t == <<"master-users", "lua", "10-auth">>
  <1>1. s \in Seq(S) /\ t \in Seq(S)
    OBVIOUS
  <1>11. /\ Len(s) = 4 /\ Len(t) = 3
         /\ s[1] = "conf" /\ s[2] = "checkpassword" /\ s[3] = "userdb" /\ s[4] = "spam"
         /\ t[1] = "master-users" /\ t[2] = "lua" /\ t[3] = "10-auth"
    OBVIOUS
  <1>2. Order = s \o t
    BY DEF Order, Generated, Retired
  <1> HIDE DEF s, t, S
  <1>3. /\ Len(s \o t) = Len(s) + Len(t) /\ s \o t \in Seq(S)
        /\ \A i \in 1..(Len(s) + Len(t)) :
               (s \o t)[i] = IF i <= Len(s) THEN s[i] ELSE t[i - Len(s)]
    BY <1>1, ConcatProperties
  <1>4. DOMAIN (s \o t) = 1..7
    BY <1>3, <1>11
  <1>5. 5 - 4 = 1 /\ 6 - 4 = 2 /\ 7 - 4 = 3
    OBVIOUS
  <1> QED BY <1>11, <1>2, <1>3, <1>4, <1>5

\* Seven files, each at one place of the list.
LEMMA FilesAre ==
    /\ Len(Order) = 7 /\ DOMAIN Order = 1..7
    /\ Files = {"conf", "checkpassword", "userdb", "spam", "master-users", "lua", "10-auth"}
    /\ \A i \in 1..7 : Order[i] \in Files
    /\ \A i, j \in 1..7 : Order[i] = Order[j] => i = j
  <1>1. /\ DOMAIN Order = 1..7 /\ Len(Order) = 7
        /\ Order[1] = "conf" /\ Order[2] = "checkpassword" /\ Order[3] = "userdb"
        /\ Order[4] = "spam" /\ Order[5] = "master-users" /\ Order[6] = "lua"
        /\ Order[7] = "10-auth"
    BY OrderIs
  <1>2. \A i \in 1..7 : i \in {1, 2, 3, 4, 5, 6, 7}
    OBVIOUS
  <1>3. Files = {"conf", "checkpassword", "userdb", "spam", "master-users", "lua", "10-auth"}
    BY <1>1, <1>2 DEF Files
  <1>4. \A i, j \in 1..7 : Order[i] = Order[j] => i = j
    BY <1>1, <1>2
  <1> QED BY <1>1, <1>3, <1>4 DEF Files

\* The texts that depend on no configuration.
LEMMA FixedContents ==
    /\ Plain \in Content /\ Absent \in Content /\ Foreign \in Content /\ Short \in Content
    /\ Absent.salt = 0 /\ Foreign.salt = 0 /\ Short.salt = 0
    /\ without_system_auth # Foreign
    /\ NoFiles \in [Files -> Content]
  <1>1. Plain \in Content /\ Plain.by = "lightr" /\ Plain.salt = 0
    BY InstallAssumption DEF InstallAssumption, Plain, Content, Secrets
  <1>2. /\ Absent \in Content /\ Absent.by = "nobody" /\ Absent.salt = 0
        /\ Foreign \in Content /\ Foreign.by = "others" /\ Foreign.salt = 0
        /\ Short \in Content /\ Short.salt = 0
    BY <1>1 DEF Absent, Foreign, Short, Content
  <1> QED BY <1>1, <1>2 DEF NoFiles, without_system_auth

\* What is written to a file, and the secret it carries.
LEMMA WantedIs ==
    ASSUME NEW c \in Config, NEW n \in 0..MaxRuns, NEW f \in Files
    PROVE  /\ Wanted(f, c, n) \in Content
           /\ f = "checkpassword" => Wanted(f, c, n).secret = c.key
           /\ f = "master-users" =>
                 Wanted(f, c, n).secret = c.master /\ Wanted(f, c, n).salt = n
           /\ f = "10-auth" => Wanted(f, c, n) = without_system_auth
  <1>1. c.setting \in Settings /\ c.key \in Secrets /\ c.master \in Secrets
    BY DEF Config
  <1>2. dovecot_conf(c) \in Content /\ userdb_conf(c) \in Content
    BY <1>1, FixedContents DEF dovecot_conf, userdb_conf, Content
  <1>3. checkpassword(c) \in Content /\ checkpassword(c).secret = c.key
    BY <1>1, FixedContents DEF checkpassword, Content
  <1>4. /\ master_users(c, n) \in Content /\ master_users(c, n).secret = c.master
        /\ master_users(c, n).salt = n
    BY <1>1, FixedContents DEF master_users, Content
  <1>5. CASE f = "conf"
    BY <1>2, <1>5 DEF Wanted, Retired
  <1>6. CASE f = "checkpassword"
    BY <1>3, <1>6 DEF Wanted, Retired
  <1>7. CASE f = "userdb"
    BY <1>2, <1>7 DEF Wanted, Retired
  <1>8. CASE f = "spam"
    BY <1>8, FixedContents DEF Wanted, spam_script
  <1>9. CASE f = "master-users"
    BY <1>4, <1>9 DEF Wanted, Retired
  <1>10. CASE f = "lua"
    BY <1>10, FixedContents DEF Wanted, Retired
  <1>11. CASE f = "10-auth"
    BY <1>11, FixedContents DEF Wanted, without_system_auth, Retired
  <1> QED BY <1>5, <1>6, <1>7, <1>8, <1>9, <1>10, <1>11, FilesAre

\* No run, typed.
LEMMA NoRunType == NoRun \in Run /\ Down.key = 0
  <1>1. 1 \in 1..Len(Order)
    BY FilesAre
  <1> QED BY <1>1, FixedContents DEF NoRun, Run, Down, Stages, Results

-----------------------------------------------------------------------------
(* The invariant is kept by every step of a run. *)

\* A run that is over leaves nothing in hand, and whatever lacks its mode or group is torn.
LEMMA CloseKeeps ==
    ASSUME InstallInv, NEW how \in Results, Close(how), ~Idle,
           UNCHANGED <<config, lacks, server, runs, edits>>,
           disk' \in [Files -> Content], disk'["master-users"].salt <= runs,
           torn' \subseteq Files, \A f \in Files : lacks[f] # {} => f \in torn',
           sound' \in BOOLEAN,
           sound' => /\ config.key # 0 /\ config.master # 0
                     /\ disk'["checkpassword"].secret = config.key
                     /\ disk'["master-users"].secret = config.master
    PROVE  InstallInv' /\ run'.result = how
  <1> DEFINE new == [NoRun EXCEPT !.at = "ended", !.result = how]
  <1>1. /\ new \in Run /\ new.at = "ended" /\ new.result = how /\ new.written = {}
        /\ new.unrecorded = {}
    BY NoRunType DEF Run, Stages, NoRun
  <1>2. run' = new /\ backup' = NoFiles /\ saved' = {} /\ settled' = Files
    BY DEF Close
  <1> HIDE DEF new
  <1>3. /\ Idle' /\ run'.at = "ended" /\ run'.written = {} /\ run'.unrecorded = {}
        /\ \A f : ~InHand(f)' /\ ~Passed(f)' /\ ~Replaced(f)'
    BY <1>1, <1>2 DEF Idle, InHand, Passed, AtFiles, Replaced
  <1>4. TypeOK'
    BY <1>1, <1>2, FixedContents DEF InstallInv, TypeOK
  <1>5. InStep' /\ SecretsAgree' /\ LoginsHold'
    BY <1>3 DEF InstallInv, InStep, AtFiles, SecretsAgree, LoginsHold
  <1>6. Placed' /\ Undoable'
    BY <1>3 DEF Placed, Undoable
  <1>7. Salted'
    <2>1. backup'["master-users"] = Absent /\ runs \in Nat
      BY <1>2, FilesAre, InstallAssumption DEF NoFiles, InstallInv, TypeOK, InstallAssumption
    <2> QED BY <1>3, <2>1, FixedContents DEF Salted
  <1>8. Opened'
    BY <1>2, <1>3 DEF Opened
  <1> QED BY <1>1, <1>2, <1>4, <1>5, <1>6, <1>7, <1>8 DEF InstallInv

\* One that ends leaves the files as they are; a good one has put them all in place.
LEMMA EndRunKeeps ==
    ASSUME InstallInv, NEW how \in Results, EndRun(how), ~Idle,
           UNCHANGED <<config, disk, lacks, server, runs, edits>>,
           torn' \subseteq Files, \A f \in Files : lacks[f] # {} => f \in torn',
           how \in {"ok", "not reloaded"} => run.at = "reloading"
    PROVE  InstallInv' /\ run'.result = how
  <1>1. /\ Close(how)
        /\ sound' = (sound \/ (/\ how \in {"ok", "not reloaded"} /\ ~run.unsaved
                               /\ Credentials \subseteq settled))
    BY DEF EndRun
  <1>2. ASSUME sound', ~sound
        PROVE  /\ config.key # 0 /\ config.master # 0
               /\ disk["checkpassword"].secret = config.key
               /\ disk["master-users"].secret = config.master
    <2>1. /\ run.at = "reloading" /\ ~run.unsaved
          /\ "checkpassword" \in settled /\ "master-users" \in settled
      BY <1>1, <1>2 DEF Credentials
    <2>2. /\ run.mem.key = config.key /\ run.mem.master = config.master
          /\ config.key # 0 /\ config.master # 0
          /\ run.mem \in Config /\ runs \in 0..MaxRuns
      BY <2>1 DEF InstallInv, SecretsAgree, InStep, TypeOK, Idle
    <2>3. Passed("checkpassword") /\ Passed("master-users")
      BY <2>1, FilesAre DEF Passed
    <2>4. /\ disk["checkpassword"] = Wanted("checkpassword", run.mem, runs)
          /\ disk["master-users"] = Wanted("master-users", run.mem, runs)
      BY <2>1, <2>3 DEF InstallInv, Placed, Retired, Due
    <2>5. "checkpassword" \in Files /\ "master-users" \in Files
      BY FilesAre
    <2>6. Wanted("checkpassword", run.mem, runs).secret = run.mem.key
      BY <2>2, <2>5, WantedIs
    <2>7. Wanted("master-users", run.mem, runs).secret = run.mem.master
      BY <2>2, <2>5, WantedIs
    <2> QED BY <2>2, <2>4, <2>6, <2>7
  <1>3. sound => /\ config.key # 0 /\ config.master # 0
                 /\ disk["checkpassword"].secret = config.key
                 /\ disk["master-users"].secret = config.master
    BY DEF InstallInv, LoginsHold
  <1>4. sound' \in BOOLEAN
    BY <1>1 DEF InstallInv, TypeOK
  <1>5. disk' \in [Files -> Content] /\ disk'["master-users"].salt <= runs
    BY DEF InstallInv, TypeOK, Salted
  <1> QED BY <1>1, <1>2, <1>3, <1>4, <1>5, CloseKeeps

\* Going on to the next file, or to doveconf, changes nothing else of the run.
LEMMA OnwardIs ==
    ASSUME NEW r \in Run
    PROVE  /\ Onward(r) \in Run
           /\ Onward(r).mem = r.mem /\ Onward(r).written = r.written
           /\ Onward(r).unrecorded = r.unrecorded /\ Onward(r).unsaved = r.unsaved
           /\ Onward(r).found = r.found /\ Onward(r).result = r.result
           /\ \/ Onward(r).at = "verifying" /\ r.pos = 7
              \/ Onward(r).at = "writing" /\ Onward(r).pos = r.pos + 1 /\ r.pos < 7
  <1>1. r.pos \in 1..7 /\ Len(Order) = 7
    BY FilesAre DEF Run
  <1>2. CASE r.pos = 7
    <2>1. Onward(r) = [r EXCEPT !.at = "verifying"]
      BY <1>1, <1>2 DEF Onward
    <2> QED BY <1>2, <2>1 DEF Run, Stages
  <1>3. CASE r.pos # 7
    <2>1. Onward(r) = [r EXCEPT !.at = "writing", !.pos = r.pos + 1]
      BY <1>1, <1>3 DEF Onward
    <2>2. r.pos + 1 \in 1..Len(Order) /\ r.pos < 7 /\ "writing" \in Stages
      BY <1>1, <1>3 DEF Stages
    <2> QED BY <2>1, <2>2 DEF Run
  <1> QED BY <1>2, <1>3

\* The files a run has passed are then one more, and none is in hand.
LEMMA PassedOn ==
    ASSUME InstallInv, AtFiles, NEW r \in Run, r.pos = run.pos, run' = Onward(r)
    PROVE  /\ \A f \in Files : Passed(f)' <=> Passed(f) \/ f = File
           /\ \A f : ~InHand(f)'
  <1>1. run.pos \in 1..7 /\ DOMAIN Order = 1..7
    BY FilesAre DEF InstallInv, TypeOK, Run
  <1>2. ASSUME NEW f \in Files
        PROVE  Passed(f)' <=> Passed(f) \/ f = File
    <2>1. PICK k \in 1..7 : Order[k] = f
      BY FilesAre DEF Files
    <2>2. \A i \in 1..7 : Order[i] = f <=> i = k
      BY <2>1, FilesAre
    <2>3. Passed(f) <=> k < run.pos
      BY <1>1, <2>2 DEF Passed, AtFiles
    <2>4. f = File <=> k = run.pos
      BY <1>1, <2>2 DEF File
    <2>5. CASE run'.at = "verifying" /\ run.pos = 7
      BY <1>1, <2>3, <2>4, <2>5 DEF Passed
    <2>6. CASE run'.at = "writing" /\ run'.pos = run.pos + 1
      <3>1. Passed(f)' <=> k < run.pos + 1
        BY <1>1, <2>2, <2>6 DEF Passed, AtFiles
      <3> QED BY <1>1, <2>3, <2>4, <3>1
    <2> QED BY <2>5, <2>6, OnwardIs
  <1>3. \A f : ~InHand(f)'
    BY OnwardIs DEF InHand
  <1> QED BY <1>2, <1>3

\* The file a run is at is not among those it has passed or written.
LEMMA FileIs ==
    ASSUME InstallInv, AtFiles
    PROVE  /\ File \in Files /\ run.mem \in Config /\ runs \in 0..MaxRuns /\ run \in Run
           /\ run.written \subseteq Files /\ File \notin run.written
  <1>1. run.pos \in 1..7 /\ run \in Run /\ run.written \subseteq Files
    BY FilesAre DEF InstallInv, TypeOK, Run
  <1>2. ~Passed(File)
    BY <1>1, FilesAre DEF Passed, File, AtFiles
  <1> QED BY <1>1, <1>2, FilesAre DEF File, InstallInv, InStep, Idle, AtFiles, TypeOK

\* The secrets are those of the configuration in every step that leaves both alone.
LEMMA SecretsStay ==
    ASSUME InstallInv, ~Idle, UNCHANGED <<config, server>>,
           run'.mem = run.mem, run'.unsaved = run.unsaved
    PROVE  SecretsAgree'
  BY DEF InstallInv, SecretsAgree

\* A file that is up to date is passed.
LEMMA SkipKeeps ==
    ASSUME InstallInv, Skip
    PROVE  InstallInv' /\ run'.result = "none"
  <1>1. /\ run.at = "writing" /\ UpToDate(File) /\ run' = Onward(run)
        /\ UNCHANGED <<config, disk, lacks, backup, saved, server, runs, edits, settled,
                       sound, torn>>
    BY DEF Skip, InRun, UnchangedOutside, files
  <1>2. AtFiles /\ \A f : ~InHand(f)
    BY <1>1 DEF AtFiles, InHand
  <1>3. /\ File \in Files /\ run.mem \in Config /\ runs \in 0..MaxRuns /\ run \in Run
        /\ run.written \subseteq Files
    BY <1>2, FileIs
  <1>4. /\ run' \in Run /\ run'.mem = run.mem /\ run'.written = run.written
        /\ run'.unrecorded = run.unrecorded /\ run'.unsaved = run.unsaved
        /\ run'.found = run.found /\ run'.result = run.result
        /\ run'.at \in {"writing", "verifying"}
    BY <1>1, <1>3, OnwardIs
  <1>5. ~Idle /\ ~Idle' /\ run.result = "none"
    BY <1>1, <1>4 DEF Idle, InstallInv, InStep
  <1>6. TypeOK'
    BY <1>1, <1>4 DEF InstallInv, TypeOK
  <1>7. /\ \A f \in Files : Passed(f)' <=> Passed(f) \/ f = File
        /\ \A f : ~InHand(f)'
        /\ \A f : Replaced(f)' <=> Replaced(f)
    BY <1>1, <1>2, <1>3, <1>4, PassedOn DEF Replaced
  <1>8. InStep'
    <2>1. \A f \in run.written : Passed(f)
      BY <1>2 DEF InstallInv, InStep
    <2> QED BY <1>1, <1>3, <1>4, <1>5, <1>7, <2>1 DEF InstallInv, InStep
  <1>9. SecretsAgree'
    BY <1>1, <1>4, <1>5, SecretsStay
  <1>10. LoginsHold'
    BY <1>1, <1>7 DEF InstallInv, LoginsHold
  <1>11. Placed'
    <2> SUFFICES ASSUME NEW f \in settled \ {Retired}, Passed(f)'
                 PROVE  disk[f] = Due(f) \/ (f = "10-auth" /\ disk[f] # Foreign)
      BY <1>1, <1>4, <1>7 DEF Placed, Due
    <2>1. f \in Files
      BY DEF InstallInv, TypeOK
    <2> QED BY <1>1, <1>7, <2>1 DEF UpToDate, InstallInv, Placed
  <1>12. Undoable' /\ Salted'
    BY <1>1, <1>4, <1>5, <1>7 DEF InstallInv, Undoable, Salted
  <1>13. Opened'
    BY <1>1, <1>2, <1>4, <1>7 DEF InstallInv, Opened
  <1> QED BY <1>4, <1>5, <1>6, <1>8, <1>9, <1>10, <1>11, <1>12, <1>13 DEF InstallInv

\* A file is renamed over the old one, and what was there is in its backup.
LEMMA WriteKeeps ==
    ASSUME InstallInv, write_atomic
    PROVE  InstallInv' /\ run'.result = "none"
  <1> DEFINE f == File
  <1>1. /\ run.at = "writing" /\ f # Retired
        /\ backup' = [backup EXCEPT ![f] = disk[f]]
        /\ saved' = IF "mode" \in lacks[f] THEN saved \cup {f} ELSE saved \ {f}
        /\ disk' = [disk EXCEPT ![f] = Due(f)]
        /\ lacks' = [lacks EXCEPT ![f] = Fresh(f)]
        /\ run' = [run EXCEPT !.at = "renamed"]
        /\ UNCHANGED <<config, torn, server, runs, edits, settled, sound>>
    BY DEF write_atomic, InRun, UnchangedOutside
  <1>2. AtFiles /\ AtFiles' /\ \A g : ~InHand(g)
    BY <1>1 DEF AtFiles, InHand, InstallInv, TypeOK, Run
  <1>3. /\ f \in Files /\ run.mem \in Config /\ runs \in 0..MaxRuns /\ run \in Run
        /\ run.written \subseteq Files /\ f \notin run.written
    BY <1>2, FileIs
  <1>4. /\ run' \in Run /\ run'.mem = run.mem /\ run'.written = run.written
        /\ run'.unrecorded = run.unrecorded /\ run'.unsaved = run.unsaved
        /\ run'.found = run.found /\ run'.result = run.result
        /\ run'.at = "renamed" /\ run'.pos = run.pos
    BY <1>1, <1>3 DEF Run, Stages
  <1>5. File' = f /\ \A g : InHand(g)' <=> g = f
    BY <1>4 DEF InHand, File
  <1> HIDE DEF f
  <1>6. ~Idle /\ ~Idle' /\ run.result = "none" /\ run.unrecorded = {}
    BY <1>1, <1>4 DEF Idle, InstallInv, InStep
  <1>7. \A g : (Passed(g)' <=> Passed(g)) /\ (Replaced(g)' <=> g \in run.written \/ g = f)
    BY <1>1, <1>2, <1>4, <1>5 DEF Passed, Replaced
  <1>8. /\ Due(f) \in Content
        /\ f = "checkpassword" => Due(f).secret = run.mem.key
        /\ f = "master-users" => Due(f).secret = run.mem.master /\ Due(f).salt = runs
    BY <1>3, WantedIs DEF Due
  <1>9. /\ disk' \in [Files -> Content] /\ backup' \in [Files -> Content]
        /\ disk'[f] = Due(f) /\ backup'[f] = disk[f]
        /\ \A g \in Files : g # f => disk'[g] = disk[g] /\ backup'[g] = backup[g]
    BY <1>1, <1>3, <1>8 DEF InstallInv, TypeOK
  <1>10. /\ lacks' \in [Files -> SUBSET {"mode", "group"}]
         /\ lacks'[f] = Fresh(f) /\ \A g \in Files : g # f => lacks'[g] = lacks[g]
    BY <1>1, <1>3 DEF InstallInv, TypeOK, Fresh
  <1>11. /\ "checkpassword" \in Files /\ "master-users" \in Files
    BY FilesAre
  <1>12. TypeOK'
    <2>1. saved' \subseteq Files
      BY <1>1, <1>3 DEF InstallInv, TypeOK
    <2> QED BY <1>1, <1>4, <1>9, <1>10, <2>1 DEF InstallInv, TypeOK
  <1>13. InStep'
    <2>1. \A g \in run.written : Passed(g)
      BY <1>2 DEF InstallInv, InStep
    <2> QED BY <1>2, <1>3, <1>4, <1>6, <1>7, <2>1 DEF InstallInv, InStep
  <1>14. SecretsAgree'
    BY <1>1, <1>4, <1>6, SecretsStay
  <1>15. LoginsHold'
    <2> SUFFICES ASSUME sound
                 PROVE  LoginsHold'
      BY <1>1 DEF LoginsHold
    <2>1. /\ config.key # 0 /\ config.master # 0
          /\ disk["checkpassword"].secret = config.key
          /\ disk["master-users"].secret = config.master
          /\ "checkpassword" \in run.written => backup["checkpassword"].secret = config.key
          /\ "master-users" \in run.written => backup["master-users"].secret = config.master
      BY DEF InstallInv, LoginsHold, Replaced
    <2>2. run.mem.key = config.key /\ run.mem.master = config.master
      BY <1>6, <2>1 DEF InstallInv, SecretsAgree
    <2>3. /\ disk'["checkpassword"].secret = config.key
          /\ Replaced("checkpassword")' => backup'["checkpassword"].secret = config.key
      BY <1>7, <1>8, <1>9, <1>11, <2>1, <2>2
    <2>4. /\ disk'["master-users"].secret = config.master
          /\ Replaced("master-users")' => backup'["master-users"].secret = config.master
      BY <1>7, <1>8, <1>9, <1>11, <2>1, <2>2
    <2> QED BY <1>1, <2>1, <2>3, <2>4 DEF LoginsHold
  <1>16. Placed'
    <2> SUFFICES ASSUME NEW g \in settled \ {Retired}, Passed(g) \/ g = f
                 PROVE  disk'[g] = Due(g) \/ (g = "10-auth" /\ disk'[g] # Foreign)
      BY <1>1, <1>4, <1>5, <1>7 DEF Placed, Due
    <2>1. g \in Files
      BY DEF InstallInv, TypeOK
    <2> QED BY <1>9, <2>1 DEF InstallInv, Placed
  <1>17. Undoable'
    <2> SUFFICES ASSUME NEW g \in settled \ (run.unrecorded \cup {Retired})
                 PROVE  (IF Replaced(g)' THEN backup'[g] ELSE disk'[g]) = run.found[g]
      BY <1>1, <1>4 DEF Undoable
    <2>1. g \in Files
      BY DEF InstallInv, TypeOK
    <2>2. (IF g \in run.written THEN backup[g] ELSE disk[g]) = run.found[g]
      BY <1>2, <1>6 DEF InstallInv, Undoable, Replaced
    <2>3. CASE g = f
      BY <1>3, <1>7, <1>9, <2>2, <2>3
    <2>4. CASE g # f
      BY <1>7, <1>9, <2>1, <2>2, <2>4
    <2> QED BY <2>3, <2>4
  <1>18. Salted'
    <2>1. runs \in Int /\ runs <= runs
      BY <1>3
    <2>2. /\ disk["master-users"].salt <= runs /\ backup["master-users"].salt <= runs
          /\ run.found["master-users"].salt < runs
      BY <1>6 DEF InstallInv, Salted
    <2>3. CASE f = "master-users"
      BY <1>1, <1>4, <1>8, <1>9, <2>1, <2>2, <2>3 DEF Salted
    <2>4. CASE f # "master-users"
      BY <1>1, <1>4, <1>9, <1>11, <2>2, <2>4 DEF Salted
    <2> QED BY <2>3, <2>4
  <1>19. Opened'
    <2>1. \A g \in Files : lacks[g] # {} => g \in torn
      BY <1>2 DEF InstallInv, Opened
    <2>2. \A g \in Files : lacks'[g] # {} => g \in torn' \/ InHand(g)'
      BY <1>1, <1>5, <1>10, <2>1
    <2>3. saved' \subseteq torn'
      BY <1>1, <1>3, <2>1 DEF InstallInv, Opened
    <2>4. f \in Grouped \/ "group" \notin lacks'[f]
      BY <1>10 DEF Fresh
    <2>5. \A g \in run.written : g = "10-auth" \/ "mode" \notin lacks'[g]
      BY <1>1, <1>3, <1>10 DEF InstallInv, Opened
    <2> QED BY <1>4, <1>5, <2>2, <2>3, <2>4, <2>5 DEF Opened
  <1> QED BY <1>4, <1>6, <1>12, <1>13, <1>14, <1>15, <1>16, <1>17, <1>18, <1>19 DEF InstallInv

\* A file whose write is over is in the report; what it lacks is accounted for.
LEMMA RecordKeeps ==
    ASSUME InstallInv, run.at \in {"renamed", "chmodded"}, Recorded(File),
           lacks' \in [Files -> SUBSET {"mode", "group"}],
           \A g \in Files : g # File => lacks'[g] = lacks[g],
           torn' \subseteq Files, torn \subseteq torn', lacks'[File] # {} => File \in torn',
           File = "10-auth" \/ "mode" \notin lacks'[File],
           UNCHANGED <<config, disk, backup, saved, server, runs, edits, settled, sound>>
    PROVE  InstallInv' /\ run'.result = "none"
  <1> DEFINE f == File
             on == [run EXCEPT !.written = run.written \cup {f}]
  <1>1. AtFiles /\ run' = Onward(on) /\ \A g : InHand(g) <=> g = f
    BY DEF AtFiles, Recorded, InHand, File
  <1>2. /\ f \in Files /\ run.mem \in Config /\ runs \in 0..MaxRuns /\ run \in Run
        /\ run.written \subseteq Files
    BY <1>1, FileIs
  <1>3. /\ on \in Run /\ on.pos = run.pos /\ on.mem = run.mem
        /\ on.written = run.written \cup {f} /\ on.unrecorded = run.unrecorded
        /\ on.unsaved = run.unsaved /\ on.found = run.found /\ on.result = run.result
    BY <1>2 DEF Run
  <1> HIDE DEF on
  <1>4. /\ \A g \in Files : Passed(g)' <=> Passed(g) \/ g = f
        /\ \A g : ~InHand(g)'
    BY <1>1, <1>3, PassedOn
  <1> HIDE DEF f
  <1>5. /\ run' \in Run /\ run'.mem = run.mem /\ run'.unsaved = run.unsaved
        /\ run'.found = run.found /\ run'.result = run.result
        /\ run'.written = run.written \cup {f} /\ run'.unrecorded = run.unrecorded
        /\ run'.at \in {"writing", "verifying"}
    BY <1>1, <1>3, OnwardIs
  <1>6. ~Idle /\ ~Idle' /\ run.result = "none" /\ run.unrecorded = {}
    BY <1>5 DEF Idle, InstallInv, InStep
  <1>7. \A g : Replaced(g)' <=> Replaced(g)
    BY <1>1, <1>4, <1>5 DEF Replaced
  <1>8. TypeOK'
    BY <1>5 DEF InstallInv, TypeOK
  <1>9. InStep'
    <2>1. \A g \in run.written : Passed(g)
      BY <1>1 DEF InstallInv, InStep
    <2> QED BY <1>2, <1>4, <1>5, <1>6, <2>1 DEF InstallInv, InStep
  <1>10. SecretsAgree'
    BY <1>5, <1>6, SecretsStay
  <1>11. LoginsHold'
    BY <1>7 DEF InstallInv, LoginsHold
  <1>12. Placed'
    <2> SUFFICES ASSUME NEW g \in settled \ {Retired}, Passed(g)'
                 PROVE  disk[g] = Due(g) \/ (g = "10-auth" /\ disk[g] # Foreign)
      BY <1>4, <1>5 DEF Placed, Due
    <2>1. g \in Files
      BY DEF InstallInv, TypeOK
    <2> QED BY <1>1, <1>4, <2>1 DEF InstallInv, Placed
  <1>13. Undoable' /\ Salted'
    BY <1>5, <1>6, <1>7 DEF InstallInv, Undoable, Salted
  <1>14. Opened'
    <2>1. \A g \in Files : lacks[g] # {} => g \in torn \/ g = f
      BY <1>1 DEF InstallInv, Opened
    <2>11. \A g \in Files : lacks'[g] # {} => g \in torn'
      BY <2>1 DEF f
    <2>2. \A g \in run'.written : g = "10-auth" \/ "mode" \notin lacks'[g]
      BY <1>2, <1>5 DEF f, InstallInv, Opened
    <2> QED BY <1>5, <2>11, <2>2 DEF InstallInv, Opened
  <1> QED BY <1>5, <1>6, <1>8, <1>9, <1>10, <1>11, <1>12, <1>13, <1>14 DEF InstallInv

\* The mode is given, and for some files that is the end of it.
LEMMA ChmodKeeps ==
    ASSUME InstallInv, chmod
    PROVE  InstallInv' /\ run'.result = "none"
  <1> DEFINE f == File
  <1>1. /\ run.at = "renamed"
        /\ lacks' = IF f = "10-auth" /\ f \in saved
                    THEN lacks ELSE [lacks EXCEPT ![f] = lacks[f] \ {"mode"}]
        /\ IF f \in Grouped THEN run' = [run EXCEPT !.at = "chmodded"] ELSE Recorded(f)
        /\ UNCHANGED <<config, disk, backup, saved, torn, server, runs, edits, settled, sound>>
    BY DEF chmod, InRun, UnchangedOutside
  <1>2. AtFiles /\ \A g : InHand(g) <=> g = f
    BY <1>1 DEF AtFiles, InHand, File
  <1>3. f \in Files /\ run \in Run
    BY <1>2, FileIs
  <1>4. /\ lacks' \in [Files -> SUBSET {"mode", "group"}]
        /\ \A g \in Files : g # f => lacks'[g] = lacks[g]
        /\ f = "10-auth" \/ "mode" \notin lacks'[f]
        /\ lacks'[f] = lacks[f] \/ lacks'[f] = lacks[f] \ {"mode"}
        /\ lacks'[f] = lacks[f] => f \in saved \/ "mode" \notin lacks[f]
    BY <1>1, <1>3 DEF InstallInv, TypeOK
  <1>5. CASE f \notin Grouped
    <2>1. Recorded(File) /\ "group" \notin lacks[f]
      BY <1>1, <1>5 DEF InstallInv, Opened
    <2>2. lacks'[f] # {} => f \in torn'
      <3>1. lacks[f] \subseteq {"mode", "group"}
        BY <1>3 DEF InstallInv, TypeOK
      <3> QED BY <1>1, <1>4, <2>1, <3>1 DEF InstallInv, Opened
    <2>3. torn' \subseteq Files /\ torn \subseteq torn'
      BY <1>1 DEF InstallInv, TypeOK
    <2> QED BY <1>1, <1>4, <2>1, <2>2, <2>3, RecordKeeps
  <1>6. CASE f \in Grouped
    <2>1. run' = [run EXCEPT !.at = "chmodded"] /\ f # "10-auth"
      BY <1>1, <1>6 DEF Grouped
    <2>2. /\ run' \in Run /\ run'.mem = run.mem /\ run'.written = run.written
          /\ run'.unrecorded = run.unrecorded /\ run'.unsaved = run.unsaved
          /\ run'.found = run.found /\ run'.result = run.result
          /\ run'.at = "chmodded" /\ run'.pos = run.pos
      BY <1>3, <2>1 DEF Run, Stages
    <2>3. /\ AtFiles' /\ ~Idle /\ ~Idle' /\ run.result = "none" /\ File' = f
          /\ \A g : (InHand(g)' <=> InHand(g)) /\ (Passed(g)' <=> Passed(g))
          /\ \A g : Replaced(g)' <=> Replaced(g)
      BY <1>1, <2>2 DEF AtFiles, Idle, File, InHand, Passed, Replaced, InstallInv, InStep
    <2> HIDE DEF f
    <2>4. TypeOK'
      BY <1>1, <1>4, <2>2 DEF InstallInv, TypeOK
    <2>5. InStep'
      BY <1>1, <1>2, <2>2, <2>3 DEF InstallInv, InStep
    <2>6. SecretsAgree'
      BY <1>1, <2>2, <2>3, SecretsStay
    <2>7. LoginsHold' /\ Placed'
      BY <1>1, <2>2, <2>3 DEF InstallInv, LoginsHold, Placed, Due
    <2>8. Undoable' /\ Salted'
      BY <1>1, <2>2, <2>3 DEF InstallInv, Undoable, Salted
    <2>9. Opened'
      <3>1. \A g \in Files : lacks'[g] # {} => g \in torn \/ g = f
        BY <1>2, <1>4 DEF InstallInv, Opened
      <3>2. \A g \in run.written : g = "10-auth" \/ "mode" \notin lacks'[g]
        BY <1>1, <1>3, <1>4 DEF InstallInv, Opened, TypeOK, Run
      <3> QED BY <1>1, <1>2, <1>4, <2>1, <2>2, <2>3, <3>1, <3>2 DEF InstallInv, Opened
    <2> QED BY <2>2, <2>3, <2>4, <2>5, <2>6, <2>7, <2>8, <2>9 DEF InstallInv
  <1> QED BY <1>5, <1>6

\* The group is given, or the file is torn.
LEMMA GroupKeeps ==
    ASSUME InstallInv, NEW given \in BOOLEAN, set_group(given)
    PROVE  InstallInv' /\ run'.result = "none"
  <1> DEFINE f == File
  <1>1. /\ run.at = "chmodded"
        /\ lacks' = IF given THEN [lacks EXCEPT ![f] = lacks[f] \ {"group"}] ELSE lacks
        /\ torn' = IF given THEN torn ELSE torn \cup {f}
        /\ Recorded(File)
        /\ UNCHANGED <<config, disk, backup, saved, server, runs, edits, settled, sound>>
    BY DEF set_group, InRun, UnchangedOutside
  <1>2. f \in Files
    BY <1>1, FileIs DEF AtFiles
  <1>3. "mode" \notin lacks[f] /\ lacks[f] \subseteq {"mode", "group"}
    BY <1>1, <1>2 DEF InstallInv, Opened, TypeOK
  <1>4. /\ lacks' \in [Files -> SUBSET {"mode", "group"}]
        /\ \A g \in Files : g # f => lacks'[g] = lacks[g]
        /\ "mode" \notin lacks'[f]
        /\ given => lacks'[f] = {}
    BY <1>1, <1>2, <1>3 DEF InstallInv, TypeOK
  <1>5. /\ torn' \subseteq Files /\ torn \subseteq torn'
        /\ lacks'[f] # {} => f \in torn'
    BY <1>1, <1>2, <1>3, <1>4 DEF InstallInv, TypeOK
  <1> QED BY <1>1, <1>4, <1>5, RecordKeeps

\* A write that raised after its rename is not in the report.
LEMMA RaiseKeeps ==
    ASSUME InstallInv, WriteRaises
    PROVE  InstallInv' /\ run'.result = "none"
  <1> DEFINE f == File
  <1>1. /\ run.at \in {"renamed", "chmodded"}
        /\ run' = [run EXCEPT !.at = "rolling back", !.unrecorded = {f}]
        /\ torn' = torn \cup {f}
        /\ UNCHANGED <<config, disk, lacks, backup, saved, server, runs, edits, settled, sound>>
    BY DEF WriteRaises, InRun, UnchangedOutside, files
  <1>2. AtFiles /\ \A g : InHand(g) <=> g = f
    BY <1>1 DEF AtFiles, InHand, File
  <1>3. f \in Files /\ run.mem \in Config /\ run \in Run
    BY <1>2, FileIs
  <1> HIDE DEF f
  <1>4. /\ run' \in Run /\ run'.mem = run.mem /\ run'.written = run.written
        /\ run'.unrecorded = {f} /\ run'.unsaved = run.unsaved
        /\ run'.found = run.found /\ run'.result = run.result
        /\ run'.at = "rolling back"
    BY <1>1, <1>3 DEF Run, Stages
  <1>5. /\ ~Idle /\ ~Idle' /\ run.result = "none" /\ run.unrecorded = {}
        /\ \A g : ~InHand(g)' /\ ~Passed(g)' /\ ~AtFiles'
        /\ \A g : Replaced(g)' <=> g \in run.written
    BY <1>1, <1>4 DEF Idle, InstallInv, InStep, InHand, Passed, AtFiles, Replaced
  <1>6. TypeOK'
    BY <1>1, <1>3, <1>4 DEF InstallInv, TypeOK
  <1>7. InStep'
    BY <1>3, <1>4, <1>5 DEF InStep
  <1>8. SecretsAgree'
    BY <1>1, <1>4, <1>5, SecretsStay
  <1>9. LoginsHold'
    BY <1>1, <1>5 DEF InstallInv, LoginsHold, Replaced
  <1>10. Placed'
    BY <1>5 DEF Placed
  <1>11. Undoable'
    <2> SUFFICES ASSUME NEW g \in settled \ ({f} \cup {Retired})
                 PROVE  (IF g \in run.written THEN backup[g] ELSE disk[g]) = run.found[g]
      BY <1>1, <1>4, <1>5, ZenonT(40) DEF Undoable
    <2> QED BY <1>2, <1>5 DEF InstallInv, Undoable, Replaced
  <1>12. Salted' /\ Opened'
    BY <1>1, <1>2, <1>4, <1>5 DEF InstallInv, Salted, Opened
  <1> QED BY <1>4, <1>5, <1>6, <1>7, <1>8, <1>9, <1>10, <1>11, <1>12 DEF InstallInv

\* The retired file is removed, or left.
LEMMA RetiredKeeps ==
    ASSUME InstallInv, NEW removed \in BOOLEAN, remove_retired(removed)
    PROVE  InstallInv' /\ run'.result = "none"
  <1>1. /\ run.at = "writing" /\ File = Retired /\ run' = Onward(run)
        /\ disk' = IF removed THEN [disk EXCEPT ![Retired] = Absent] ELSE disk
        /\ UNCHANGED <<config, lacks, backup, saved, torn, server, runs, edits, settled, sound>>
    BY DEF remove_retired, Writing, InRun, UnchangedOutside
  <1>2. AtFiles /\ \A f : ~InHand(f)
    BY <1>1 DEF AtFiles, InHand
  <1>3. /\ File \in Files /\ run.mem \in Config /\ runs \in 0..MaxRuns /\ run \in Run
        /\ run.written \subseteq Files
    BY <1>2, FileIs
  <1>4. /\ run' \in Run /\ run'.mem = run.mem /\ run'.written = run.written
        /\ run'.unrecorded = run.unrecorded /\ run'.unsaved = run.unsaved
        /\ run'.found = run.found /\ run'.result = run.result
        /\ run'.at \in {"writing", "verifying"}
    BY <1>1, <1>3, OnwardIs
  <1>5. ~Idle /\ ~Idle' /\ run.result = "none"
    BY <1>1, <1>4 DEF Idle, InstallInv, InStep
  <1>6. /\ disk' \in [Files -> Content]
        /\ \A f \in Files \ {Retired} : disk'[f] = disk[f]
    BY <1>1, <1>3, FixedContents DEF InstallInv, TypeOK
  <1>7. "checkpassword" \in Files \ {Retired} /\ "master-users" \in Files \ {Retired}
    BY FilesAre DEF Retired
  <1>8. TypeOK'
    BY <1>1, <1>4, <1>6 DEF InstallInv, TypeOK
  <1>9. /\ \A f \in Files : Passed(f)' <=> Passed(f) \/ f = Retired
        /\ \A f : ~InHand(f)'
        /\ \A f : Replaced(f)' <=> Replaced(f)
    BY <1>1, <1>2, <1>3, <1>4, PassedOn DEF Replaced
  <1>10. InStep'
    <2>1. \A f \in run.written : Passed(f)
      BY <1>2 DEF InstallInv, InStep
    <2> QED BY <1>1, <1>3, <1>4, <1>5, <1>9, <2>1 DEF InstallInv, InStep
  <1>11. SecretsAgree'
    BY <1>1, <1>4, <1>5, SecretsStay
  <1>12. LoginsHold'
    BY <1>1, <1>6, <1>7, <1>9 DEF InstallInv, LoginsHold
  <1>13. Placed'
    <2> SUFFICES ASSUME NEW f \in settled \ {Retired}, Passed(f)'
                 PROVE  disk'[f] = Due(f) \/ (f = "10-auth" /\ disk'[f] # Foreign)
      BY <1>1, <1>4, <1>9 DEF Placed, Due
    <2>1. f \in Files /\ Passed(f)
      BY <1>9 DEF InstallInv, TypeOK
    <2> QED BY <1>6, <2>1 DEF InstallInv, Placed
  <1>14. Undoable'
    <2> SUFFICES ASSUME NEW f \in settled \ (run.unrecorded \cup {Retired})
                 PROVE  (IF Replaced(f) THEN backup[f] ELSE disk'[f]) = run.found[f]
      BY <1>1, <1>4, <1>9 DEF Undoable
    <2>1. f \in Files
      BY DEF InstallInv, TypeOK
    <2> QED BY <1>5, <1>6, <2>1 DEF InstallInv, Undoable
  <1>15. Salted' /\ Opened'
    BY <1>1, <1>2, <1>4, <1>5, <1>6, <1>7, <1>9 DEF InstallInv, Salted, Opened
  <1> QED BY <1>4, <1>5, <1>8, <1>10, <1>11, <1>12, <1>13, <1>14, <1>15 DEF InstallInv

\* A step that only moves the run to another stage, with every file where it was.
LEMMA MoveKeeps ==
    ASSUME InstallInv, NEW stage \in {"writing", "rolling back", "reloading"},
           run' = [run EXCEPT !.at = stage],
           UNCHANGED <<config, disk, lacks, backup, saved, server, runs, edits, settled, sound,
                       torn>>,
           \/ run.at = "started" /\ stage = "writing"
           \/ run.at \in {"writing", "verifying"} /\ stage = "rolling back"
           \/ run.at = "verifying" /\ stage = "reloading"
    PROVE  InstallInv' /\ run'.result = "none"
  <1>1. /\ run' \in Run /\ run'.mem = run.mem /\ run'.written = run.written
        /\ run'.unrecorded = run.unrecorded /\ run'.unsaved = run.unsaved
        /\ run'.found = run.found /\ run'.result = run.result
        /\ run'.at = stage /\ run'.pos = run.pos
    BY DEF InstallInv, TypeOK, Run, Stages
  <1>2. /\ ~Idle /\ ~Idle' /\ run.result = "none" /\ run.unrecorded = {}
        /\ \A f : ~InHand(f) /\ ~InHand(f)'
        /\ \A f : Replaced(f)' <=> Replaced(f)
    BY <1>1 DEF Idle, InstallInv, InStep, InHand, Replaced
  <1>3. stage = "writing" => run.written = {}
    BY DEF InstallInv, InStep
  <1>4. TypeOK'
    BY <1>1 DEF InstallInv, TypeOK
  <1>5. InStep'
    BY <1>1, <1>2, <1>3 DEF InstallInv, InStep, AtFiles
  <1>6. SecretsAgree'
    BY <1>2, <1>1, SecretsStay
  <1>7. LoginsHold'
    BY <1>2 DEF InstallInv, LoginsHold
  <1>8. Placed'
    <2> SUFFICES ASSUME NEW f \in settled \ {Retired}, Passed(f)'
                 PROVE  disk[f] = Due(f) \/ (f = "10-auth" /\ disk[f] # Foreign)
      BY <1>1, <1>2 DEF Placed, Due
    <2>1. CASE stage = "reloading"
      BY <1>1, <2>1 DEF Passed, AtFiles, InstallInv, Placed
    <2>2. CASE run.at = "started" /\ stage = "writing"
      <3>1. run'.pos = 1 /\ run'.at = "writing"
        BY <1>1, <2>2 DEF InstallInv, InStep
      <3>2. PICK i \in DOMAIN Order : i < run'.pos /\ Order[i] = f
        BY <3>1 DEF Passed
      <3> QED BY <3>1, <3>2, FilesAre
    <2> QED BY <1>1, <2>1, <2>2 DEF Passed, AtFiles
  <1>9. Undoable' /\ Salted' /\ Opened'
    BY <1>1, <1>2, <1>3 DEF InstallInv, Undoable, Salted, Opened
  <1> QED BY <1>1, <1>2, <1>4, <1>5, <1>6, <1>7, <1>8, <1>9 DEF InstallInv

\* Putting one file back: it is then as the run found it, unless others wrote it, and has
\* the mode of its backup and the group it had.
LEMMA PutBackKeeps ==
    ASSUME InstallInv, run.at = "rolling back", NEW f \in Files, PutBack(f),
           UNCHANGED <<config, server, runs, edits, torn>>
    PROVE  InstallInv' /\ run'.result = "none"
  <1>1. /\ f \in run.written /\ run \in Run
        /\ disk' = [disk EXCEPT ![f] = backup[f]]
        /\ lacks' = [lacks EXCEPT ![f] = Reopened(f)]
        /\ run' = [run EXCEPT !.written = run.written \ {f}]
        /\ UNCHANGED <<backup, saved, settled, sound>>
    BY DEF InstallInv, TypeOK, PutBack, LastWritten, Restored
  <1>2. /\ run' \in Run /\ run'.mem = run.mem /\ run'.written = run.written \ {f}
        /\ run'.unrecorded = run.unrecorded /\ run'.unsaved = run.unsaved
        /\ run'.found = run.found /\ run'.result = run.result /\ run'.at = "rolling back"
    BY <1>1 DEF Run
  <1>3. /\ ~Idle /\ ~Idle' /\ run.result = "none" /\ ~AtFiles'
        /\ \A g : ~InHand(g) /\ ~InHand(g)' /\ ~Passed(g)'
        /\ \A g : Replaced(g)' <=> g \in run.written /\ g # f
        /\ \A g : Replaced(g) <=> g \in run.written
    BY <1>2 DEF Idle, InstallInv, InStep, AtFiles, InHand, Passed, Replaced
  <1>4. /\ disk' \in [Files -> Content] /\ disk'[f] = backup[f]
        /\ \A g \in Files : g # f => disk'[g] = disk[g]
    BY <1>1 DEF InstallInv, TypeOK
  <1>5. "checkpassword" \in Files /\ "master-users" \in Files
    BY FilesAre
  <1>6. /\ Reopened(f) \in SUBSET {"mode", "group"}
        /\ Reopened(f) # {} => lacks[f] # {} \/ f \in saved
    BY DEF InstallInv, TypeOK, Reopened
  <1>7. TypeOK'
    BY <1>1, <1>2, <1>4, <1>6 DEF InstallInv, TypeOK
  <1>8. InStep'
    BY <1>2, <1>3 DEF InstallInv, InStep
  <1>9. SecretsAgree'
    BY <1>2, <1>3, SecretsStay
  <1>10. LoginsHold'
    BY <1>1, <1>3, <1>4, <1>5 DEF InstallInv, LoginsHold
  <1>11. Placed'
    BY <1>3 DEF Placed
  <1>12. Undoable'
    <2> SUFFICES ASSUME NEW g \in settled \ (run.unrecorded \cup {Retired})
                 PROVE  (IF Replaced(g)' THEN backup[g] ELSE disk'[g]) = run.found[g]
      BY <1>1, <1>2 DEF Undoable
    <2>1. g \in Files
      BY DEF InstallInv, TypeOK
    <2>2. (IF g \in run.written THEN backup[g] ELSE disk[g]) = run.found[g]
      BY <1>3 DEF InstallInv, Undoable
    <2> QED BY <1>1, <1>3, <1>4, <2>1, <2>2
  <1>13. Salted'
    BY <1>1, <1>2, <1>3, <1>4, <1>5 DEF InstallInv, Salted
  <1>14. Opened'
    <2>1. \A g \in Files : lacks'[g] # {} => g \in torn
      BY <1>1, <1>3, <1>6 DEF InstallInv, Opened, TypeOK
    <2> QED BY <1>1, <1>2, <2>1 DEF InstallInv, Opened
  <1> QED BY <1>2, <1>3, <1>7, <1>8, <1>9, <1>10, <1>11, <1>12, <1>13, <1>14 DEF InstallInv

\* No text of master-users is of a run to come.
LEMMA SaltsAre ==
    ASSUME InstallInv
    PROVE  /\ disk["master-users"].salt <= runs /\ backup["master-users"].salt <= runs
           /\ Short.salt <= runs
  <1>1. runs \in Nat
    BY InstallAssumption DEF InstallInv, TypeOK, InstallAssumption
  <1> QED BY <1>1, FixedContents DEF InstallInv, Salted

\* A copy back that breaks off ends the run; if it left a credential short, logins do not work.
LEMMA PutBackFailsKeeps ==
    ASSUME InstallInv, run.at = "rolling back", NEW f \in Files, PutBackFails(f),
           UNCHANGED <<config, server, runs, edits, torn>>
    PROVE  InstallInv' /\ run'.result = "not restored"
  <1>1. /\ disk["master-users"].salt <= runs /\ backup["master-users"].salt <= runs
        /\ Short.salt <= runs
    BY SaltsAre
  <1>2. PICK text \in {disk[f], Restored(f)} \cup (IF backup[f] = Absent THEN {} ELSE {Short}) :
            /\ disk' = [disk EXCEPT ![f] = text]
            /\ sound' = (sound /\ ~(f \in Credentials /\ text = Short))
    BY DEF PutBackFails
  <1>3. f \in run.written /\ Close("not restored") /\ UNCHANGED lacks
    BY DEF PutBackFails, LastWritten
  <1>4. text \in {disk[f], backup[f], Short}
    BY <1>2 DEF Restored
  <1>5. /\ text \in Content /\ disk' \in [Files -> Content] /\ disk'[f] = text
        /\ \A g \in Files : g # f => disk'[g] = disk[g]
    BY <1>2, <1>4, FixedContents DEF InstallInv, TypeOK
  <1>6. "checkpassword" \in Files /\ "master-users" \in Files
    BY FilesAre
  <1>7. disk'["master-users"].salt <= runs
    BY <1>4, <1>5, <1>6, <1>1
  <1>8. sound' \in BOOLEAN /\ torn' \subseteq Files
    BY <1>2 DEF InstallInv, TypeOK
  <1>9. ASSUME sound'
        PROVE  /\ config.key # 0 /\ config.master # 0
               /\ disk'["checkpassword"].secret = config.key
               /\ disk'["master-users"].secret = config.master
    <2>1. sound /\ (f \in {"checkpassword", "master-users"} => text \in {disk[f], backup[f]})
      BY <1>2, <1>4, <1>9 DEF Credentials
    <2> QED BY <1>3, <1>5, <1>6, <2>1 DEF InstallInv, LoginsHold, Replaced
  <1>10. \A g \in Files : lacks[g] # {} => g \in torn'
    BY DEF InstallInv, Opened, InHand
  <1>11. "not restored" \in Results /\ ~Idle
    BY DEF Results, Idle
  <1> QED BY <1>3, <1>5, <1>7, <1>8, <1>9, <1>10, <1>11, CloseKeeps

\* One file is put back, or the run has failed.
LEMMA RollbackKeeps ==
    ASSUME InstallInv, rollback
    PROVE  /\ InstallInv'
           /\ run'.result \in {"none", "failed", "not restored"}
           /\ run'.result = "failed" => /\ run.at = "rolling back" /\ run.written = {}
                                        /\ UNCHANGED <<disk, lacks>>
  <1>1. run.at = "rolling back" /\ UNCHANGED <<config, server, runs, edits, torn>>
    BY DEF rollback, UnchangedOutside
  <1>2. ASSUME NEW f \in Files, PutBack(f)
        PROVE  InstallInv' /\ run'.result = "none"
    BY <1>1, <1>2, PutBackKeeps
  <1>3. ASSUME NEW f \in Files, PutBackFails(f)
        PROVE  InstallInv' /\ run'.result = "not restored"
    BY <1>1, <1>3, PutBackFailsKeeps
  <1>4. CASE run.written = {} /\ EndRun("failed") /\ UNCHANGED <<disk, lacks>>
    <2>1. "failed" \in Results /\ ~Idle /\ torn' \subseteq Files
      BY <1>1 DEF Results, Idle, InstallInv, TypeOK
    <2>2. \A g \in Files : lacks[g] # {} => g \in torn'
      BY <1>1 DEF InstallInv, Opened, InHand
    <2> QED BY <1>1, <1>4, <2>1, <2>2, EndRunKeeps
  <1> QED BY <1>1, <1>2, <1>3, <1>4 DEF rollback

\* Runs that end without having put a file in place, or wherever they are killed.
LEMMA LeaveKeeps ==
    ASSUME InstallInv, ~Idle, NEW how \in {"declined", "raised", "stopped"}, EndRun(how),
           UNCHANGED <<config, disk, lacks, server, runs, edits>>,
           torn' = torn \cup {f \in Files : InHand(f)}
    PROVE  InstallInv' /\ run'.result = how
  <1>1. how \in Results /\ torn' \subseteq Files
    BY DEF Results, InstallInv, TypeOK
  <1>2. \A g \in Files : lacks[g] # {} => g \in torn'
    BY DEF InstallInv, Opened
  <1> QED BY <1>1, <1>2, EndRunKeeps

\* Secrets that were there are kept, the others are made up.
LEMMA GapsAre ==
    ASSUME NEW c \in Config, NEW n \in 1..MaxRuns
    PROVE  LET m == fill_in_gaps(c, n)
           IN  /\ m \in Config /\ m.key # 0 /\ m.master # 0
               /\ c.key # 0 => m.key = c.key
               /\ c.master # 0 => m.master = c.master
               /\ c.key # 0 /\ c.master # 0 => m = c
  <1> DEFINE k == IF c.key = 0 THEN n ELSE c.key
             w == IF c.master = 0 THEN n ELSE c.master
  <1>1. k \in Secrets /\ w \in Secrets /\ k # 0 /\ w # 0
    BY InstallAssumption DEF InstallAssumption, Config, Secrets
  <1>2. fill_in_gaps(c, n) = [c EXCEPT !.key = k, !.master = w]
    BY DEF fill_in_gaps
  <1> HIDE DEF k, w
  <1> DEFINE m == [c EXCEPT !.key = k, !.master = w]
  <1>3. m \in Config /\ m.key = k /\ m.master = w /\ m.setting = c.setting
    BY <1>1 DEF Config
  <1>4. (c.key # 0 => k = c.key) /\ (c.master # 0 => w = c.master)
    BY DEF k, w
  <1> HIDE DEF m
  <1>5. \A x, y \in Config :
            x.key = y.key /\ x.master = y.master /\ x.setting = y.setting => x = y
    BY DEF Config
  <1> QED BY <1>1, <1>2, <1>3, <1>4, <1>5 DEF m

\* A run starts: the secrets that are missing are made up, those that are there are kept.
LEMMA StartKeeps ==
    ASSUME InstallInv, NEW by \in {"setup", "install"}, NEW saves \in BOOLEAN, Start(by, saves)
    PROVE  InstallInv' /\ Idle
  <1> DEFINE mem == fill_in_gaps(config, runs + 1)
             lost == ~saves /\ mem # config
             here == [NoRun EXCEPT !.mem = mem, !.found = disk, !.unsaved = lost]
             over == [NoRun EXCEPT !.at = "ended", !.result = "raised"]
             on == [here EXCEPT !.at = "started"]
  <1>1. /\ Idle /\ runs < MaxRuns /\ runs' = runs + 1
        /\ config' = IF saves THEN mem ELSE config
        /\ run' = IF by = "install" /\ here.unsaved THEN over ELSE on
        /\ UNCHANGED <<disk, lacks, backup, saved, server, edits, settled, sound, torn>>
    BY DEF Start, set_values, files
  <1>2. runs + 1 \in 1..MaxRuns /\ config \in Config /\ runs \in Nat
    BY <1>1, InstallAssumption DEF InstallInv, TypeOK, InstallAssumption
  <1>3. /\ mem \in Config /\ mem.key # 0 /\ mem.master # 0
        /\ config.key # 0 => mem.key = config.key
        /\ config.master # 0 => mem.master = config.master
        /\ config.key # 0 /\ config.master # 0 => mem = config
    BY <1>2, GapsAre
  <1> HIDE DEF mem
  <1>4. disk \in [Files -> Content]
    BY DEF InstallInv, TypeOK
  <1>5. /\ over \in Run /\ over.at = "ended" /\ over.written = {} /\ over.unrecorded = {}
    BY NoRunType DEF NoRun, Run, Stages, Results
  <1>6. /\ here \in Run /\ here.mem = mem /\ here.found = disk /\ here.unsaved = lost
        /\ here.pos = 1 /\ here.written = {} /\ here.unrecorded = {} /\ here.result = "none"
    <2>1. NoRun.pos = 1 /\ NoRun.written = {} /\ NoRun.unrecorded = {} /\ NoRun.result = "none"
      BY DEF NoRun
    <2> QED BY <1>3, <1>4, <2>1, NoRunType DEF Run
  <1> HIDE DEF here
  <1>7. /\ on \in Run /\ on.at = "started" /\ on.mem = mem /\ on.found = disk /\ on.pos = 1
        /\ on.unsaved = lost /\ on.written = {} /\ on.unrecorded = {} /\ on.result = "none"
    BY <1>6 DEF Run, Stages
  <1> HIDE DEF over, on
  <1>8. /\ run' \in Run /\ run'.at \in {"started", "ended"} /\ run'.written = {}
        /\ run'.unrecorded = {}
        /\ run'.at = "started" => /\ run'.mem = mem /\ run'.found = disk /\ run'.unsaved = lost
                                  /\ run'.result = "none" /\ run'.pos = 1
    BY <1>1, <1>5, <1>7
  <1>9. /\ Idle' <=> run'.at = "ended"
        /\ ~AtFiles' /\ \A f : ~InHand(f) /\ ~InHand(f)' /\ ~Passed(f)' /\ ~Replaced(f)'
    BY <1>1, <1>8 DEF Idle, AtFiles, InHand, Passed, Replaced
  <1>10. config' \in Config /\ (~lost => config' = mem) /\ (lost => config' = config)
    BY <1>1, <1>2, <1>3
  <1>11. TypeOK'
    <2>1. runs' \in 0..MaxRuns
      BY <1>1, <1>2
    <2> QED BY <1>1, <1>8, <1>10, <2>1 DEF InstallInv, TypeOK
  <1>12. InStep'
    BY <1>3, <1>8, <1>9 DEF InStep
  <1>13. SecretsAgree'
    <2>1. lost => config.key = 0 \/ config.master = 0
      BY <1>3
    <2>2. server' \in {0, config'.key}
      BY <1>1, <1>3, <1>10 DEF InstallInv, SecretsAgree
    <2> QED BY <1>3, <1>8, <1>9, <1>10, <2>1, <2>2 DEF SecretsAgree
  <1>14. LoginsHold'
    <2>1. sound => config' = config
      BY <1>3, <1>10 DEF InstallInv, LoginsHold
    <2> QED BY <1>1, <1>9, <2>1 DEF InstallInv, LoginsHold
  <1>15. Placed' /\ Undoable'
    BY <1>1, <1>8, <1>9 DEF Placed, Undoable
  <1>16. Salted'
    <2>1. "master-users" \in Files
      BY FilesAre
    <2>2. \A c \in Content : c.salt \in Int
      BY InstallAssumption DEF Content, InstallAssumption
    <2>3. disk["master-users"].salt \in Int /\ backup["master-users"].salt \in Int
      BY <2>1, <2>2 DEF InstallInv, TypeOK
    <2>4. disk["master-users"].salt < runs + 1 /\ backup["master-users"].salt <= runs + 1
      BY <1>2, <2>3 DEF InstallInv, Salted
    <2>5. disk["master-users"].salt <= runs + 1
      BY <1>2, <2>3, <2>4
    <2> QED BY <1>1, <1>8, <1>9, <2>4, <2>5 DEF Salted
  <1>17. Opened'
    BY <1>1, <1>8, <1>9 DEF InstallInv, Opened
  <1> QED BY <1>1, <1>11, <1>12, <1>13, <1>14, <1>15, <1>16, <1>17 DEF InstallInv

\* Another hand in a file: the run answers for it no more, nor for logins.
LEMMA EditFileKeeps ==
    ASSUME InstallInv, NEW f \in Files, NEW kept \in BOOLEAN, EditFile(f, kept)
    PROVE  InstallInv'
  <1>1. /\ edits < MaxEdits /\ edits' = edits + 1
        /\ disk' = [disk EXCEPT ![f] = Foreign]
        /\ lacks' = IF kept THEN lacks ELSE [lacks EXCEPT ![f] = {}]
        /\ settled' = IF Idle THEN settled ELSE settled \ {f}
        /\ sound' = (sound /\ f \notin Credentials)
        /\ UNCHANGED <<config, backup, saved, server, run, runs, torn>>
    BY DEF EditFile
  <1>2. /\ disk' \in [Files -> Content] /\ disk'[f] = Foreign
        /\ \A g \in Files : g # f => disk'[g] = disk[g]
    BY <1>1, FixedContents DEF InstallInv, TypeOK
  <1>3. /\ lacks' \in [Files -> SUBSET {"mode", "group"}]
        /\ \A g \in Files : lacks'[g] \subseteq lacks[g]
    BY <1>1 DEF InstallInv, TypeOK
  <1>4. /\ "checkpassword" \in Files /\ "master-users" \in Files
    BY FilesAre
  <1>5. /\ \A g : (InHand(g)' <=> InHand(g)) /\ (Replaced(g)' <=> Replaced(g))
        /\ \A g : Passed(g)' <=> Passed(g)
        /\ (Idle' <=> Idle) /\ File' = File /\ (AtFiles' <=> AtFiles)
    BY <1>1 DEF InHand, Replaced, Passed, AtFiles, Idle, File
  <1>6. TypeOK'
    <2>1. edits' \in 0..MaxEdits
      BY <1>1, InstallAssumption DEF InstallInv, TypeOK, InstallAssumption
    <2> QED BY <1>1, <1>2, <1>3, <2>1 DEF InstallInv, TypeOK
  <1>7. InStep' /\ SecretsAgree'
    BY <1>1, <1>5 DEF InstallInv, InStep, SecretsAgree
  <1>8. LoginsHold'
    BY <1>1, <1>2, <1>4, <1>5 DEF InstallInv, LoginsHold, Credentials
  <1>9. Placed'
    <2> SUFFICES ASSUME NEW g \in settled' \ {Retired}, Passed(g) \/ InHand(g)
                 PROVE  disk'[g] = Due(g) \/ (g = "10-auth" /\ disk'[g] # Foreign)
      BY <1>1, <1>5 DEF Placed, Due
    <2>1. ~Idle
      BY DEF Passed, AtFiles, InHand, Idle
    <2>2. g \in settled /\ g # f /\ g \in Files
      BY <1>1, <2>1 DEF InstallInv, TypeOK
    <2> QED BY <1>2, <2>2 DEF InstallInv, Placed
  <1>10. Undoable'
    <2> SUFFICES ASSUME ~Idle, NEW g \in settled' \ (run.unrecorded \cup {Retired})
                 PROVE  (IF Replaced(g) THEN backup[g] ELSE disk'[g]) = run.found[g]
      BY <1>1, <1>5 DEF Undoable
    <2>1. g \in settled /\ g # f /\ g \in Files
      BY <1>1 DEF InstallInv, TypeOK
    <2> QED BY <1>2, <2>1 DEF InstallInv, Undoable
  <1>11. Salted'
    <2>1. runs \in Nat
      BY InstallAssumption DEF InstallInv, TypeOK, InstallAssumption
    <2>2. disk'["master-users"].salt <= runs
      BY <1>2, <1>4, <2>1, FixedContents DEF InstallInv, Salted
    <2> QED BY <1>1, <1>5, <2>2 DEF InstallInv, Salted
  <1>12. Opened'
    <2>1. AtFiles => File \in Files
      BY FileIs
    <2>2. \A g \in run.written : g \in Files
      BY DEF InstallInv, TypeOK, Run
    <2> QED BY <1>1, <1>3, <1>5, <2>1, <2>2 DEF InstallInv, Opened, AtFiles
  <1> QED BY <1>6, <1>7, <1>8, <1>9, <1>10, <1>11, <1>12 DEF InstallInv

\* A new configuration has the secrets of the old one, and a server that starts has its key.
LEMMA EditConfigKeeps ==
    ASSUME InstallInv, Serve \/ \E s \in Settings : EditConfig(s)
    PROVE  InstallInv'
  <1>1. UNCHANGED <<disk, lacks, backup, saved, run, runs, settled, sound, torn>>
    BY DEF Serve, EditConfig, files
  <1>2. /\ config' \in Config /\ config'.key = config.key /\ config'.master = config.master
        /\ server' \in {server, config.key} /\ edits' \in 0..MaxEdits
    <2>1. CASE Serve
      BY <2>1 DEF Serve, InstallInv, TypeOK
    <2>2. ASSUME NEW s \in Settings, EditConfig(s)
          PROVE  <1>2!:
      BY <2>2, InstallAssumption DEF EditConfig, InstallInv, TypeOK, Config, InstallAssumption
    <2> QED BY <2>1, <2>2
  <1>3. server' \in Secrets
    BY <1>2 DEF InstallInv, TypeOK, Config
  <1>4. TypeOK' /\ InStep' /\ Placed'
    BY <1>1, <1>2, <1>3 DEF InstallInv, TypeOK, InStep, Placed, Passed, AtFiles, InHand, Idle, Due
  <1>5. Undoable' /\ Salted' /\ Opened'
    BY <1>1 DEF InstallInv, Undoable, Salted, Opened, Replaced, InHand, Idle, File
  <1>6. SecretsAgree' /\ LoginsHold'
    BY <1>1, <1>2 DEF InstallInv, SecretsAgree, LoginsHold, Idle, Replaced, InHand
  <1> QED BY <1>4, <1>5, <1>6 DEF InstallInv

\* What is known of the files when a run reports failure: nothing is left to put back; and
\* when it ends well: it has been through every file.
Report ==
    /\ ~Idle /\ run'.result \in {"failed", "raised", "declined"}
         => /\ run.at \in {"started", "rolling back"} /\ run.written = {}
            /\ UNCHANGED <<disk, lacks>>
    /\ ~Idle /\ run'.result \in {"ok", "not reloaded"}
         => run.at = "reloading" /\ UNCHANGED <<disk, lacks>>

\* Every step keeps the invariant, and a run is over when it says so.
LEMMA InstallStepIs ==
    ASSUME InstallInv, [Next]_vars
    PROVE  InstallInv' /\ Report
  <1>1. ~Idle => run.result = "none"
    BY DEF InstallInv, InStep
  <1>2. ASSUME NEW by \in {"setup", "install"}, NEW saves \in BOOLEAN, Start(by, saves)
        PROVE  InstallInv' /\ Report
    BY <1>2, StartKeeps DEF Report
  <1>3. CASE Decline
    <2>1. /\ ~Idle /\ run.at = "started" /\ run.written = {} /\ EndRun("declined")
          /\ UNCHANGED <<config, disk, lacks, server, runs, edits>>
          /\ torn' = torn \cup {f \in Files : InHand(f)}
      BY <1>3 DEF Decline, Idle, InstallInv, InStep, UnchangedOutside, InHand
    <2> QED BY <2>1, LeaveKeeps DEF Report
  <1>4. CASE Generate
    <2>1. /\ ~Idle /\ run.at = "started" /\ run.written = {}
          /\ UNCHANGED <<config, disk, lacks, server, runs, edits, torn>>
          /\ torn' = torn \cup {f \in Files : InHand(f)}
      BY <1>4 DEF Generate, Idle, InstallInv, InStep, UnchangedOutside, InHand
    <2>2. CASE run.mem.setting \in Invalid
      <3>1. EndRun("raised")
        BY <1>4, <2>2 DEF Generate
      <3> QED BY <2>1, <3>1, LeaveKeeps DEF Report
    <2>3. CASE run.mem.setting \notin Invalid
      <3>1. run' = [run EXCEPT !.at = "writing"] /\ UNCHANGED <<backup, saved, settled, sound>>
        BY <1>4, <2>3 DEF Generate
      <3>2. InstallInv' /\ run'.result = "none"
        BY <2>1, <3>1, MoveKeeps
      <3> QED BY <3>2 DEF Report
    <2> QED BY <2>2, <2>3
  <1>5. CASE Skip
    BY <1>5, SkipKeeps DEF Report
  <1>6. CASE write_atomic
    BY <1>6, WriteKeeps DEF Report
  <1>7. CASE chmod
    BY <1>7, ChmodKeeps DEF Report
  <1>8. ASSUME NEW given \in BOOLEAN, set_group(given)
        PROVE  InstallInv' /\ Report
    BY <1>8, GroupKeeps DEF Report
  <1>9. CASE WriteRaises
    BY <1>9, RaiseKeeps DEF Report
  <1>10. CASE WriteFails
    <2>1. /\ run.at = "writing" /\ run' = [run EXCEPT !.at = "rolling back"]
          /\ UNCHANGED <<config, disk, lacks, backup, saved, server, runs, edits, settled,
                         sound, torn>>
      BY <1>10 DEF WriteFails, InRun, UnchangedOutside, files
    <2>2. InstallInv' /\ run'.result = "none"
      BY <2>1, MoveKeeps
    <2> QED BY <2>2 DEF Report
  <1>11. ASSUME NEW removed \in BOOLEAN, remove_retired(removed)
        PROVE  InstallInv' /\ Report
    BY <1>11, RetiredKeeps DEF Report
  <1>12. ASSUME NEW checked \in BOOLEAN, NEW ran \in BOOLEAN, verify(checked, ran)
        PROVE  InstallInv' /\ Report
    <2>1. /\ run.at = "verifying"
          /\ \/ run' = [run EXCEPT !.at = "rolling back"]
             \/ run' = [run EXCEPT !.at = "reloading"]
          /\ UNCHANGED <<config, disk, lacks, backup, saved, server, runs, edits, settled,
                         sound, torn>>
      BY <1>12 DEF verify, InRun, UnchangedOutside, files
    <2>2. InstallInv' /\ run'.result = "none"
      BY <2>1, MoveKeeps
    <2> QED BY <2>2 DEF Report
  <1>13. ASSUME NEW answered \in BOOLEAN, Reload(answered)
         PROVE  InstallInv' /\ Report
    <2> DEFINE how == IF answered THEN "ok" ELSE "not reloaded"
    <2>1. /\ run.at = "reloading" /\ EndRun(how) /\ ~Idle
          /\ UNCHANGED <<config, disk, lacks, server, runs, edits, torn>>
      BY <1>13 DEF Reload, UnchangedOutside, Idle
    <2>2. how \in Results /\ how \in {"ok", "not reloaded"}
      BY DEF Results
    <2> HIDE DEF how
    <2>3. torn' \subseteq Files /\ \A f \in Files : lacks[f] # {} => f \in torn'
      BY <2>1 DEF InstallInv, TypeOK, Opened, InHand
    <2>4. InstallInv' /\ run'.result = how
      BY <2>1, <2>2, <2>3, EndRunKeeps
    <2> QED BY <2>1, <2>2, <2>4 DEF Report
  <1>14. CASE rollback
    BY <1>14, RollbackKeeps DEF Report
  <1>15. CASE Stop
    <2>1. /\ ~Idle /\ EndRun("stopped")
          /\ UNCHANGED <<config, disk, lacks, server, runs, edits>>
          /\ torn' = torn \cup {f \in Files : InHand(f)}
      BY <1>15 DEF Stop, UnchangedOutside
    <2>2. InstallInv' /\ run'.result = "stopped"
      BY <2>1, LeaveKeeps
    <2> QED BY <2>2 DEF Report
  <1>16. CASE Serve \/ \E s \in Settings : EditConfig(s)
    <2>1. run' = run
      BY <1>16 DEF Serve, EditConfig
    <2> QED BY <1>1, <1>16, <2>1, EditConfigKeeps DEF Report
  <1>17. ASSUME NEW f \in Files, NEW kept \in BOOLEAN, EditFile(f, kept)
         PROVE  InstallInv' /\ Report
    <2>1. run' = run
      BY <1>17 DEF EditFile
    <2> QED BY <1>1, <1>17, <2>1, EditFileKeeps DEF Report
  <1>18. CASE UNCHANGED vars
    <2>1. /\ run' = run
          /\ UNCHANGED <<config, disk, lacks, backup, saved, server, runs, edits, settled,
                         sound, torn>>
      BY <1>18 DEF vars
    <2>2. TypeOK' /\ InStep' /\ SecretsAgree'
      BY <2>1 DEF InstallInv, TypeOK, InStep, SecretsAgree, Passed, AtFiles, Idle
    <2>3. LoginsHold' /\ Placed'
      BY <2>1 DEF InstallInv, LoginsHold, Placed, Passed, AtFiles, InHand, Replaced, Due
    <2>4. Undoable' /\ Salted' /\ Opened'
      BY <2>1 DEF InstallInv, Undoable, Salted, Opened, InHand, Replaced, File, Idle
    <2> QED BY <1>1, <2>1, <2>2, <2>3, <2>4 DEF Report, InstallInv
  <1> QED BY <1>2, <1>3, <1>4, <1>5, <1>6, <1>7, <1>8, <1>9, <1>10, <1>11, <1>12, <1>13,
             <1>14, <1>15, <1>16, <1>17, <1>18 DEF Next

\* Before the first run.
LEMMA InstallInitInv == Init => InstallInv
  <1> SUFFICES ASSUME Init
               PROVE  InstallInv
    OBVIOUS
  <1>1. /\ "conf" \in Files /\ "10-auth" \in Files /\ "master-users" \in Files /\ 0 \in Secrets
    BY FilesAre, InstallAssumption DEF Secrets, InstallAssumption
  <1>2. /\ config \in Config /\ config.key = 0
    BY <1>1 DEF Init, Config
  <1>3. disk \in [Files -> Content] /\ \A f \in Files : disk[f] \in {Foreign, Absent}
    BY <1>1, FixedContents DEF Init
  <1>4. /\ run \in Run /\ run.at = "none" /\ run.written = {} /\ run.unrecorded = {}
        /\ ~AtFiles /\ \A f : ~InHand(f) /\ ~Passed(f)
    BY NoRunType DEF Init, NoRun, AtFiles, InHand, Passed
  <1>5. backup \in [Files -> Content] /\ backup["master-users"] = Absent
    BY <1>1, FixedContents DEF Init, NoFiles
  <1>6. TypeOK
    <2>1. server \in Secrets /\ lacks \in [Files -> SUBSET {"mode", "group"}]
      BY <1>1 DEF Init
    <2>2. runs \in 0..MaxRuns /\ edits \in 0..MaxEdits
      BY InstallAssumption DEF Init, InstallAssumption
    <2>3. settled \subseteq Files /\ sound \in BOOLEAN /\ torn \subseteq Files /\ saved \subseteq Files
      BY DEF Init
    <2> QED BY <1>2, <1>3, <1>4, <1>5, <2>1, <2>2, <2>3 DEF TypeOK
  <1>7. InStep
    BY <1>4 DEF InStep, Idle
  <1>8. SecretsAgree /\ LoginsHold /\ Placed /\ Undoable
    BY <1>4 DEF Init, SecretsAgree, LoginsHold, Placed, Undoable, Idle
  <1>9. Salted
    <2>1. disk["master-users"].salt = 0 /\ backup["master-users"].salt = 0 /\ runs = 0
      BY <1>1, <1>3, <1>5, FixedContents DEF Init
    <2> QED BY <1>4, <2>1 DEF Salted, Idle
  <1>10. Opened
    BY <1>4 DEF Init, Opened
  <1> QED BY <1>6, <1>7, <1>8, <1>9, <1>10 DEF InstallInv

\* The invariant holds in every state.
LEMMA InstallInvHolds == Spec => []InstallInv
  <1>1. InstallInv /\ [Next]_vars => InstallInv'
    BY InstallStepIs
  <1> QED BY <1>1, InstallInitInv, PTL DEF Spec

\* The types are kept, whatever runs, people and the server do.
THEOREM InstallTypesAreKept == Spec => []TypeOK
  <1>1. InstallInv => TypeOK
    BY DEF InstallInv
  <1> QED BY <1>1, InstallInvHolds, PTL

\* Once a run has ended well and saved its secrets, Dovecot's files and the server hold the
\* secrets of config.yaml, and a file that Dovecot cannot open is in hand or was torn by a
\* write, through every later run, failure, kill and restart (fill_in_gaps, write_atomic,
\* rollback): for any number of runs and any settings.
THEOREM InstallLoginsKeepWorking == Spec => []LoginsKeepWorking
  <1>1. InstallInv => LoginsKeepWorking
    <2> SUFFICES ASSUME InstallInv, sound
                 PROVE  LoginsKeepWorking
      BY DEF LoginsKeepWorking
    <2>1. \A f \in Credentials : f \in Files
      BY FilesAre DEF Credentials
    <2> QED BY <2>1 DEF InstallInv, LoginsHold, SecretsAgree, Opened, LoginsKeepWorking
  <1> QED BY <1>1, InstallInvHolds, PTL

\* A run that reports failure has put back every file it wrote and nobody else did, with a
\* mode and group that shut Dovecot out of none but a torn one (DovecotManager.rollback).
THEOREM InstallFailedRestores == Spec => FailedInstallRestores
  <1>1. ASSUME InstallInv, [Next]_vars
        PROVE  [~Idle /\ run'.result \in {"failed", "raised", "declined"} =>
                  \A f \in settled \ (run.unrecorded \cup {Retired}) :
                      /\ disk'[f] = run.found[f]
                      /\ lacks'[f] # {} => f \in torn]_vars
    <2> SUFFICES ASSUME ~Idle, run'.result \in {"failed", "raised", "declined"},
                        NEW f \in settled \ (run.unrecorded \cup {Retired})
                 PROVE  disk'[f] = run.found[f] /\ (lacks'[f] # {} => f \in torn)
      OBVIOUS
    <2>1. /\ run.at \in {"started", "rolling back"} /\ run.written = {}
          /\ UNCHANGED <<disk, lacks>>
      BY <1>1, InstallStepIs DEF Report
    <2>2. ~InHand(f) /\ ~Replaced(f) /\ f \in Files
      BY <1>1, <2>1 DEF InHand, Replaced, InstallInv, TypeOK
    <2> QED BY <1>1, <2>1, <2>2 DEF InstallInv, Undoable, Opened
  <1> QED BY <1>1, InstallInvHolds, PTL DEF Spec, FailedInstallRestores

\* A digest written by this run is not the one it found.
LEMMA NewSalt ==
    ASSUME InstallInv, run.at = "reloading",
           disk["master-users"] = Wanted("master-users", run.mem, runs)
    PROVE  disk["master-users"] # run.found["master-users"]
  <1>1. run.mem \in Config /\ runs \in 0..MaxRuns /\ "master-users" \in Files
    BY FilesAre DEF InstallInv, InStep, TypeOK, Idle
  <1>2. Wanted("master-users", run.mem, runs).salt = runs
    BY <1>1, WantedIs
  <1>3. run.found["master-users"].salt < runs
    BY DEF InstallInv, Salted, Idle
  <1>4. runs \in Nat
    BY InstallAssumption DEF InstallInv, TypeOK, InstallAssumption
  <1> QED BY <1>2, <1>3, <1>4

\* A run that ends well leaves the text of every file nobody else wrote as its configuration
\* wants it, and its mode and group too, but for a file torn by a write that this run found
\* with its text right and so left alone, or could not give its group: which is never
\* master-users for the first reason (DovecotManager.install, write_atomic).
THEOREM InstallCompletes == Spec => InstallIsComplete
  <1>1. ASSUME InstallInv, [Next]_vars
        PROVE  [~Idle /\ run'.result \in {"ok", "not reloaded"} =>
                  \A f \in settled \ {Retired} :
                      /\ \/ disk'[f] = Wanted(f, run.mem, runs)
                         \/ f = "10-auth" /\ disk'[f] # Foreign
                      /\ lacks'[f] # {} =>
                            /\ f \in torn
                            /\ \/ lacks'[f] = {"group"}
                               \/ disk'[f] = run.found[f] /\ f # "master-users"
                               \/ f = "10-auth"]_vars
    <2> SUFFICES ASSUME ~Idle, run'.result \in {"ok", "not reloaded"},
                        NEW f \in settled \ {Retired}
                 PROVE  /\ disk'[f] = Wanted(f, run.mem, runs)
                           \/ (f = "10-auth" /\ disk'[f] # Foreign)
                        /\ lacks'[f] # {} =>
                              /\ f \in torn
                              /\ \/ lacks'[f] = {"group"}
                                 \/ disk'[f] = run.found[f] /\ f # "master-users"
                                 \/ f = "10-auth"
      OBVIOUS
    <2>1. run.at = "reloading" /\ UNCHANGED <<disk, lacks>>
      BY <1>1, InstallStepIs DEF Report
    <2>2. /\ ~InHand(f) /\ f \in Files /\ Passed(f) /\ run.unrecorded = {}
          /\ run.mem \in Config /\ runs \in 0..MaxRuns
      BY <1>1, <2>1 DEF InHand, InstallInv, TypeOK, Passed, InStep, Idle
    <2>3. disk[f] = Wanted(f, run.mem, runs) \/ (f = "10-auth" /\ disk[f] # Foreign)
      BY <1>1, <2>2 DEF InstallInv, Placed, Due
    <2>4. lacks[f] # {} => f \in torn
      BY <1>1, <2>2 DEF InstallInv, Opened
    <2>5. CASE f \in run.written
      <3>1. f = "10-auth" \/ "mode" \notin lacks[f]
        BY <1>1, <2>1, <2>5 DEF InstallInv, Opened
      <3>2. lacks[f] \subseteq {"mode", "group"}
        BY <1>1, <2>2 DEF InstallInv, TypeOK
      <3> QED BY <2>1, <2>3, <2>4, <3>1, <3>2
    <2>6. CASE f \notin run.written
      <3>1. disk[f] = run.found[f]
        BY <1>1, <2>2, <2>6 DEF InstallInv, Undoable, Replaced
      <3>2. f # "master-users"
        BY <1>1, <2>1, <2>3, <3>1, NewSalt
      <3> QED BY <2>1, <2>3, <2>4, <3>1, <3>2
    <2> QED BY <2>5, <2>6
  <1> QED BY <1>1, InstallInvHolds, PTL DEF Spec, InstallIsComplete

-----------------------------------------------------------------------------
(***************************************************************************)
(* Backup and restore.                                                     *)
(***************************************************************************)
\* What is committed, and what the transaction of a restore sees, keep the keys.
KeysHold ==
    /\ Referred(db) /\ Unique(db.domains) /\ Unique(db.accounts)
    /\ Referred(Seen) /\ Unique(View("domains")) /\ Unique(View("accounts"))

\* What a dump has of a table is the table as it was at one moment.
UniqueDump(d) == Unique(d.tables.domains) /\ Unique(d.tables.accounts)

\* A backup at work: each table it has gathered has one row per key, and is what is
\* committed if nothing was committed meanwhile.  A job has a result once it is over.
Gathering ==
    /\ job.at # "idle" => job.result = "none"
    /\ job.at \in {"listed", "dumping"} => UniqueDump(job.dump)
    /\ job.at = "listed" => job.pos = 1
    /\ job.at = "dumping" =>
           (job.pos = 2 /\ still => job.dump.tables.domains = db.domains)
    /\ job.at = "dumping" => \A a \in job.dump.mail_accounts : job.roots[a] # "none"
    /\ job.at = "archiving" =>
           /\ \A a \in staging.dump.mail_accounts : job.roots[a] # "none"
           /\ UniqueDump(staging.dump)
           /\ still => Referred(staging.dump.tables)

\* What the archive's name holds.
FileIsKept ==
    /\ file = NoFile \/ Whole(file)
    /\ UniqueDump(file.dump)
    /\ file.quiet => Referred(file.dump.tables)

Wiped(t) ==
    \/ job.at \in {"loading", "extracting", "committing"}
    \/ job.at = "wiping" /\ job.pos = 1 /\ t = "accounts"

Filled(t) ==
    \/ job.at \in {"extracting", "committing"}
    \/ job.at = "loading" /\ job.pos = 2 /\ t = "domains"

\* A restore at work: what is left of a table it has emptied is what others have
\* committed since, and what it has put there is the archive's.
RestoringTable(t) ==
    /\ ~Wiped(t) => job.gone[t] = {}
    /\ ~Filled(t) => job.added[t] = {}
    /\ Wiped(t) => /\ fresh[t] = db[t] \ job.gone[t]
                   /\ still => fresh[t] = {}
    /\ Filled(t) => job.added[t] = file.dump.tables[t]

RestoreAtWork ==
    /\ RestoringTable("domains") /\ RestoringTable("accounts")
    /\ job.at \in {"wiping", "loading", "extracting", "committing"} => job.dump = file.dump

BackupInv ==
    /\ BackupTypeOK /\ KeysHold /\ Gathering /\ FileIsKept /\ RestoreAtWork
    /\ QuietBackupRestores

-----------------------------------------------------------------------------
(* Tables, dumps, archives and jobs. *)

\* Two tables, accounts after domains.
LEMMA TablesAre ==
    /\ Len(sorted_tables) = 2 /\ sorted_tables[1] = "domains" /\ sorted_tables[2] = "accounts"
    /\ Tables = {"domains", "accounts"}
    /\ Following(1) = 2 /\ Following(2) = 1
  <1>1. /\ Len(sorted_tables) = 2 /\ DOMAIN sorted_tables = 1..2
        /\ sorted_tables[1] = "domains" /\ sorted_tables[2] = "accounts"
    BY DEF sorted_tables
  <1>2. \A i \in 1..2 : i \in {1, 2}
    OBVIOUS
  <1> QED BY <1>1, <1>2 DEF Tables, Following

\* No rows, no dump, no archive and no job, typed.
LEMMA NothingIsTyped ==
    /\ NoRows = [domains |-> {}, accounts |-> {}] /\ NoRows \in Rows
    /\ NoDump \in Dump /\ UniqueDump(NoDump) /\ NoFile \in Archive /\ NoJob \in Job
    /\ NoJob.at = "idle" /\ NoJob.gone = NoRows /\ NoJob.added = NoRows
    /\ NoJob.result = "none" /\ NoJob.dump = NoDump /\ NoJob.pos = 1
  <1>1. NoRows = [domains |-> {}, accounts |-> {}]
    BY TablesAre DEF NoRows
  <1>2. NoRows \in Rows
    BY <1>1 DEF Rows
  <1>3. NoDump \in Dump /\ UniqueDump(NoDump)
    BY <1>1, <1>2 DEF NoDump, Dump, Revisions, UniqueDump, Unique
  <1>4. NoFile \in Archive
    BY <1>3 DEF NoFile, Archive
  <1>5. NoJob \in Job
    BY <1>2, <1>3, TablesAre DEF NoJob, Job, JobStages, JobResults
  <1>6. /\ NoJob.at = "idle" /\ NoJob.gone = NoRows /\ NoJob.added = NoRows
        /\ NoJob.result = "none" /\ NoJob.dump = NoDump /\ NoJob.pos = 1
    BY DEF NoJob
  <1> QED BY <1>1, <1>2, <1>3, <1>4, <1>5, <1>6

\* The rows of each table.
LEMMA RowsAre ==
    ASSUME NEW r \in Rows
    PROVE  r.domains \subseteq DomainRow /\ r.accounts \subseteq AccountRow
  BY DEF Rows

\* Without a restore's transaction, it sees what is committed.
LEMMA SeenIsCommitted ==
    ASSUME BackupInv, db' = db, job'.gone = NoRows, job'.added = NoRows
    PROVE  KeysHold'
  <1>1. View("domains")' = db.domains /\ View("accounts")' = db.accounts
    BY NothingIsTyped DEF View
  <1> QED BY <1>1 DEF BackupInv, KeysHold, Seen, Referred, Unique

\* A job that ends leaves no transaction behind.
LEMMA EndKeeps ==
    ASSUME BackupInv, NEW how \in JobResults, Ended(how),
           UNCHANGED <<driver, db, revision, fresh, still, writes, jobs>>,
           maildir' = maildir, file' \in Archive, staging' \in Archive, FileIsKept',
           how = "key" => ~still \/ ~file'.quiet
    PROVE  BackupInv'
  <1> DEFINE new == [NoJob EXCEPT !.result = how]
  <1>1. /\ new \in Job /\ new.at = "idle" /\ new.gone = NoRows /\ new.added = NoRows
        /\ new.result = how
    BY NothingIsTyped DEF Job
  <1>2. job' = new
    BY DEF Ended
  <1> HIDE DEF new
  <1>3. BackupTypeOK'
    BY <1>1, <1>2 DEF BackupInv, BackupTypeOK
  <1>4. KeysHold'
    BY <1>1, <1>2, SeenIsCommitted
  <1>5. Gathering' /\ RestoreAtWork'
    BY <1>1, <1>2, NothingIsTyped DEF Gathering, RestoreAtWork, RestoringTable, Wiped, Filled
  <1>6. QuietBackupRestores'
    BY <1>1, <1>2 DEF QuietBackupRestores
  <1> QED BY <1>3, <1>4, <1>5, <1>6 DEF BackupInv

\* A backup starts.
LEMMA CreateKeeps ==
    ASSUME BackupInv, NEW include_mail \in BOOLEAN, Create(include_mail)
    PROVE  BackupInv'
  <1> DEFINE roots == [a \in Accounts |->
                 IF include_mail /\ \E r \in db.accounts :
                        r.id = a /\ maildir[a, r.maildir_path] # {}
                 THEN (CHOOSE r \in db.accounts : r.id = a).maildir_path
                 ELSE "none"]
             new == [NoJob EXCEPT !.at = "listed", !.include_mail = include_mail, !.roots = roots]
  <1>1. /\ job.at = "idle" /\ jobs < MaxJobs /\ jobs' = jobs + 1 /\ job' = new /\ still' = TRUE
        /\ UNCHANGED <<driver, db, revision, maildir, file, staging, fresh, writes>>
    BY DEF Create, JobIdle
  <1>2. roots \in [Accounts -> Places \cup {"none"}]
    <2> SUFFICES ASSUME NEW a \in Accounts, NEW r \in db.accounts, r.id = a
                 PROVE  (CHOOSE s \in db.accounts : s.id = a).maildir_path \in Places
      OBVIOUS
    <2>1. (CHOOSE s \in db.accounts : s.id = a) \in AccountRow
      BY RowsAre DEF BackupInv, BackupTypeOK
    <2> QED BY <2>1 DEF AccountRow
  <1> HIDE DEF roots
  <1>3. /\ new \in Job /\ new.at = "listed" /\ new.gone = NoRows /\ new.added = NoRows
        /\ new.result = "none" /\ new.dump = NoDump /\ new.pos = 1
    BY <1>2, NothingIsTyped DEF Job, JobStages
  <1> HIDE DEF new
  <1>4. BackupTypeOK'
    <2>1. jobs' \in 0..MaxJobs
      BY <1>1, BackupAssumption DEF BackupInv, BackupTypeOK, BackupAssumption
    <2> QED BY <1>1, <1>3, <2>1 DEF BackupInv, BackupTypeOK
  <1>5. KeysHold'
    BY <1>1, <1>3, SeenIsCommitted
  <1>6. Gathering' /\ RestoreAtWork' /\ QuietBackupRestores'
    BY <1>1, <1>3, NothingIsTyped DEF Gathering, RestoreAtWork, RestoringTable, Wiped, Filled,
                                      QuietBackupRestores
  <1>7. FileIsKept'
    BY <1>1 DEF BackupInv, FileIsKept
  <1> QED BY <1>4, <1>5, <1>6, <1>7 DEF BackupInv

\* A step that leaves the rows and the transaction alone leaves what it sees.
LEMMA SeenStays ==
    ASSUME BackupInv, db' = db, job'.gone = job.gone, job'.added = job.added
    PROVE  KeysHold'
  <1>1. View("domains")' = View("domains") /\ View("accounts")' = View("accounts")
    BY DEF View
  <1> QED BY <1>1 DEF BackupInv, KeysHold, Seen, Referred, Unique

\* Its transaction starts.
LEMMA ReadRevisionKeeps ==
    ASSUME BackupInv, NEW known \in BOOLEAN, ReadRevision(known)
    PROVE  BackupInv'
  <1> DEFINE d == [job.dump EXCEPT !.revision = IF known THEN revision ELSE Unknown,
                      !.shape = revision,
                      !.mail_accounts = {a \in Accounts : job.roots[a] # "none"}]
             new == [job EXCEPT !.at = "dumping", !.dump = d]
  <1>1. /\ job.at = "listed"
        /\ UNCHANGED <<driver, db, revision, maildir, file, staging, fresh, still, writes, jobs>>
    BY DEF ReadRevision, Outside
  <1>2. job' = new
    BY DEF ReadRevision
  <1>3. job \in Job /\ job.dump \in Dump /\ revision \in Revisions
    BY DEF BackupInv, BackupTypeOK, Job
  <1>4. /\ d \in Dump /\ d.tables = job.dump.tables
        /\ \A a \in d.mail_accounts : job.roots[a] # "none"
    BY <1>3 DEF Dump
  <1> HIDE DEF d
  <1>5. /\ new \in Job /\ new.at = "dumping" /\ new.dump = d /\ new.pos = job.pos
        /\ new.roots = job.roots /\ new.gone = job.gone /\ new.added = job.added
        /\ new.result = job.result
    BY <1>3, <1>4 DEF Job, JobStages
  <1> HIDE DEF new
  <1>6. BackupTypeOK'
    BY <1>1, <1>2, <1>5 DEF BackupInv, BackupTypeOK
  <1>7. KeysHold'
    BY <1>1, <1>2, <1>5, SeenStays
  <1>8. Gathering'
    BY <1>1, <1>2, <1>4, <1>5 DEF BackupInv, Gathering, UniqueDump
  <1>9. FileIsKept'
    BY <1>1 DEF BackupInv, FileIsKept
  <1>10. RestoreAtWork' /\ QuietBackupRestores'
    BY <1>1, <1>2, <1>5 DEF BackupInv, RestoreAtWork, RestoringTable, Wiped, Filled,
       QuietBackupRestores
  <1> QED BY <1>6, <1>7, <1>8, <1>9, <1>10 DEF BackupInv

\* A table is read: one row per key, and with both tables read and nothing committed
\* in between no row without its parent.
LEMMA DumpKeeps ==
    ASSUME BackupInv, dump_database
    PROVE  BackupInv'
  <1> DEFINE t == sorted_tables[job.pos]
             d == [job.dump EXCEPT !.tables = [job.dump.tables EXCEPT ![t] = db[t]]]
             last == job.pos = 2
             new == [job EXCEPT !.dump = d, !.pos = IF last THEN 1 ELSE 2,
                                !.at = IF last THEN "archiving" ELSE "dumping"]
  <1>1. /\ job.at = "dumping"
        /\ UNCHANGED <<driver, db, revision, maildir, file, fresh, still, writes, jobs>>
    BY DEF dump_database, Outside
  <1>2. job \in Job /\ job.dump \in Dump /\ job.pos \in 1..2 /\ db \in Rows
    BY TablesAre DEF BackupInv, BackupTypeOK, Job
  <1>3. job.pos < Len(sorted_tables) <=> ~last
    BY <1>2, TablesAre
  <1>4. Following(job.pos) = IF last THEN 1 ELSE 2
    BY <1>2, <1>3, TablesAre
  <1>5. job' = new
    BY <1>3, <1>4 DEF dump_database
  <1>6. staging' = IF last THEN [NoFile EXCEPT !.dump = job'.dump] ELSE staging
    BY <1>3 DEF dump_database
  <1>7. /\ d \in Dump /\ d.mail_accounts = job.dump.mail_accounts
        /\ d.tables.domains = IF last THEN job.dump.tables.domains ELSE db.domains
        /\ d.tables.accounts = IF last THEN db.accounts ELSE job.dump.tables.accounts
    <2>1. job.dump.tables \in Rows
      BY <1>2 DEF Dump
    <2>2. CASE last
      <3>1. t = "accounts"
        BY <2>2, TablesAre
      <3> QED BY <1>2, <2>1, <2>2, <3>1 DEF Dump, Rows
    <2>3. CASE ~last
      <3>1. t = "domains"
        BY <1>2, <2>3, TablesAre
      <3> QED BY <1>2, <2>1, <2>3, <3>1 DEF Dump, Rows
    <2> QED BY <2>2, <2>3
  <1>8. UniqueDump(d)
    BY <1>1, <1>7 DEF BackupInv, Gathering, UniqueDump, KeysHold
  <1> HIDE DEF d
  <1>9. /\ new \in Job /\ new.at = IF last THEN "archiving" ELSE "dumping"
        /\ new.dump = d /\ new.pos = IF last THEN 1 ELSE 2
        /\ new.roots = job.roots /\ new.gone = job.gone /\ new.added = job.added
        /\ new.result = job.result
    <2>1. (IF last THEN 1 ELSE 2) \in 1..Len(sorted_tables)
      BY TablesAre
    <2>2. (IF last THEN "archiving" ELSE "dumping") \in JobStages
      BY DEF JobStages
    <2> QED BY <1>2, <1>7, <2>1, <2>2 DEF Job
  <1> HIDE DEF new
  <1>10. staging' \in Archive /\ (last => staging'.dump = d)
    BY <1>5, <1>6, <1>7, <1>9, NothingIsTyped DEF Archive, BackupInv, BackupTypeOK
  <1>11. BackupTypeOK'
    BY <1>1, <1>5, <1>9, <1>10 DEF BackupInv, BackupTypeOK
  <1>12. KeysHold'
    BY <1>1, <1>5, <1>9, SeenStays
  <1>13. Gathering'
    <2>1. CASE last
      <3>1. still => d.tables.domains = db.domains /\ d.tables.accounts = db.accounts
        BY <1>1, <1>7, <2>1 DEF BackupInv, Gathering
      <3>2. still => Referred(d.tables)
        BY <3>1 DEF BackupInv, KeysHold, Referred
      <3> QED BY <1>1, <1>5, <1>7, <1>8, <1>9, <1>10, <2>1, <3>2 DEF BackupInv, Gathering
    <2>2. CASE ~last
      BY <1>1, <1>5, <1>7, <1>8, <1>9, <2>2 DEF BackupInv, Gathering
    <2> QED BY <2>1, <2>2
  <1>14. FileIsKept'
    BY <1>1 DEF BackupInv, FileIsKept
  <1>15. RestoreAtWork' /\ QuietBackupRestores'
    BY <1>1, <1>5, <1>9 DEF BackupInv, RestoreAtWork, RestoringTable, Wiped, Filled,
       QuietBackupRestores
  <1> QED BY <1>11, <1>12, <1>13, <1>14, <1>15 DEF BackupInv

\* A part is added to the staging file.
LEMMA AddPartKeeps ==
    ASSUME BackupInv, NEW p \in Parts, AddPart(p)
    PROVE  BackupInv'
  <1> DEFINE mail == [staging.mail EXCEPT ![p] = maildir[<<p, job.roots[p]>>]]
             new == [staging EXCEPT !.parts = staging.parts \cup {p},
                                    !.mail = IF p \in Accounts THEN mail ELSE staging.mail]
  <1>1. /\ job.at = "archiving"
        /\ p \in {"manifest", "database"} \cup staging.dump.mail_accounts
        /\ UNCHANGED <<driver, db, revision, maildir, job, fresh, still, writes, jobs>>
        /\ file' = file
    BY DEF AddPart, Outside, Destination
  <1>2. staging' = new
    BY DEF AddPart
  <1>3. staging \in Archive /\ job \in Job /\ staging.mail \in [Accounts -> SUBSET Messages]
    BY DEF BackupInv, BackupTypeOK, Archive
  <1>4. p \in Accounts => mail \in [Accounts -> SUBSET Messages]
    <2> SUFFICES ASSUME p \in Accounts
                 PROVE  maildir[<<p, job.roots[p]>>] \in SUBSET Messages
      BY <1>3
    <2>1. p \in staging.dump.mail_accounts
      BY <1>1, BackupAssumption DEF BackupAssumption
    <2>2. job.roots[p] \in Places
      BY <1>1, <1>3, <2>1 DEF BackupInv, Gathering, Job
    <2> QED BY <2>2 DEF BackupInv, BackupTypeOK
  <1> HIDE DEF mail
  <1>5. new \in Archive /\ new.dump = staging.dump
    BY <1>3, <1>4 DEF Archive
  <1> HIDE DEF new
  <1>6. BackupTypeOK'
    BY <1>1, <1>2, <1>5 DEF BackupInv, BackupTypeOK
  <1>7. KeysHold'
    BY <1>1, SeenStays
  <1>8. Gathering' /\ FileIsKept' /\ RestoreAtWork' /\ QuietBackupRestores'
    BY <1>1, <1>2, <1>5 DEF BackupInv, Gathering, FileIsKept, RestoreAtWork, RestoringTable, Wiped,
                            Filled, QuietBackupRestores
  <1> QED BY <1>6, <1>7, <1>8 DEF BackupInv

\* The staging file, whole, takes the archive's name.
LEMMA ReplaceKeeps ==
    ASSUME BackupInv, Replace
    PROVE  BackupInv'
  <1>1. /\ job.at = "archiving" /\ Whole(staging) /\ file' = [staging EXCEPT !.quiet = still]
        /\ staging' = NoFile /\ Ended("ok")
        /\ UNCHANGED <<driver, db, revision, maildir, fresh, still, writes, jobs>>
    BY DEF Replace, Outside
  <1>2. /\ file' \in Archive /\ file'.dump = staging.dump /\ file'.quiet = still
        /\ file'.parts = staging.parts /\ staging' \in Archive
    BY <1>1, NothingIsTyped DEF BackupInv, BackupTypeOK, Archive
  <1>3. FileIsKept'
    BY <1>1, <1>2 DEF BackupInv, FileIsKept, Gathering, Whole
  <1> QED BY <1>1, <1>2, <1>3, EndKeeps DEF JobResults

\* A job fails or is killed.
LEMMA FailuresKeep ==
    ASSUME BackupInv, CreateFails \/ RestoreFails \/ Crash
    PROVE  BackupInv'
  <1>1. PICK how \in {"error", "killed"} :
            /\ Ended(how)
            /\ UNCHANGED <<driver, db, revision, maildir, file, fresh, still, writes, jobs>>
            /\ staging' \in {staging, NoFile}
    BY DEF CreateFails, RestoreFails, Crash, Outside
  <1>2. file' \in Archive /\ staging' \in Archive /\ FileIsKept'
    BY <1>1, NothingIsTyped DEF BackupInv, BackupTypeOK, FileIsKept
  <1> QED BY <1>1, <1>2, EndKeeps DEF JobResults

\* A restore starts.
LEMMA RestoreKeeps ==
    ASSUME BackupInv, NEW include_mail \in BOOLEAN, NEW ignore_revision \in BOOLEAN,
           Restore(include_mail, ignore_revision)
    PROVE  BackupInv'
  <1> DEFINE new == [NoJob EXCEPT !.at = "opened", !.include_mail = include_mail,
                                  !.ignore_revision = ignore_revision]
  <1>1. /\ job.at = "idle" /\ jobs < MaxJobs /\ jobs' = jobs + 1 /\ job' = new
        /\ still' = TRUE /\ fresh' = NoRows
        /\ UNCHANGED <<driver, db, revision, maildir, file, staging, writes>>
    BY DEF Restore, JobIdle
  <1>2. /\ new \in Job /\ new.at = "opened" /\ new.gone = NoRows /\ new.added = NoRows
        /\ new.result = "none"
    BY NothingIsTyped DEF Job, JobStages
  <1> HIDE DEF new
  <1>3. BackupTypeOK'
    <2>1. jobs' \in 0..MaxJobs
      BY <1>1, BackupAssumption DEF BackupInv, BackupTypeOK, BackupAssumption
    <2> QED BY <1>1, <1>2, <2>1, NothingIsTyped DEF BackupInv, BackupTypeOK
  <1>4. KeysHold'
    BY <1>1, <1>2, SeenIsCommitted
  <1>5. Gathering' /\ RestoreAtWork' /\ QuietBackupRestores'
    BY <1>1, <1>2, NothingIsTyped DEF Gathering, RestoreAtWork, RestoringTable, Wiped, Filled,
                                      QuietBackupRestores
  <1>6. FileIsKept'
    BY <1>1 DEF BackupInv, FileIsKept
  <1> QED BY <1>3, <1>4, <1>5, <1>6 DEF BackupInv

\* It is refused, or its transaction starts.
LEMMA CheckRevisionKeeps ==
    ASSUME BackupInv, NEW current \in Revisions \cup {Unknown}, NEW yes \in BOOLEAN,
           CheckRevision(current, yes)
    PROVE  BackupInv'
  <1> DEFINE new == [job EXCEPT !.at = "wiping", !.pos = Len(sorted_tables), !.dump = file.dump]
  <1>1. /\ job.at = "opened" /\ (job' = new \/ Ended("refused"))
        /\ UNCHANGED <<driver, db, revision, maildir, file, staging, fresh, still, writes, jobs>>
    BY DEF CheckRevision, Outside
  <1>2. file' \in Archive /\ staging' \in Archive /\ FileIsKept'
    BY <1>1 DEF BackupInv, BackupTypeOK, FileIsKept
  <1>3. CASE Ended("refused")
    BY <1>1, <1>2, <1>3, EndKeeps DEF JobResults
  <1>4. CASE job' = new
    <2>1. /\ new \in Job /\ new.at = "wiping" /\ new.pos = 2 /\ new.dump = file.dump
          /\ new.gone = job.gone /\ new.added = job.added /\ new.result = job.result
      <3>1. job \in Job /\ file.dump \in Dump
        BY DEF BackupInv, BackupTypeOK, Archive
      <3>2. Len(sorted_tables) = 2 /\ 2 \in 1..Len(sorted_tables) /\ "wiping" \in JobStages
        BY TablesAre DEF JobStages
      <3> QED BY <3>1, <3>2 DEF Job
    <2> HIDE DEF new
    <2>2. BackupTypeOK'
      BY <1>1, <1>4, <2>1 DEF BackupInv, BackupTypeOK
    <2>3. KeysHold'
      BY <1>1, <1>4, <2>1, SeenStays
    <2>4. Gathering' /\ QuietBackupRestores'
      BY <1>1, <1>4, <2>1 DEF BackupInv, Gathering, QuietBackupRestores
    <2>5. RestoreAtWork'
      BY <1>1, <1>4, <2>1 DEF BackupInv, RestoreAtWork, RestoringTable, Wiped, Filled
    <2> QED BY <1>2, <2>2, <2>3, <2>4, <2>5 DEF BackupInv
  <1> QED BY <1>1, <1>3, <1>4

\* Emptying a table: nobody refers to its rows any more unless others have committed.
LEMMA WipeKeeps ==
    ASSUME BackupInv, Wipe
    PROVE  BackupInv'
  <1> DEFINE t == sorted_tables[job.pos]
             left == [Seen EXCEPT ![t] = {}]
             g == [job.gone EXCEPT ![t] = db[t]]
             on == job.pos = 2
             new == [job EXCEPT !.gone = g, !.at = IF on THEN "wiping" ELSE "loading", !.pos = 1]
  <1>1. /\ job.at = "wiping"
        /\ UNCHANGED <<driver, db, revision, maildir, file, staging, still, writes, jobs>>
    BY DEF Wipe, Outside
  <1>2. /\ job \in Job /\ job.pos \in 1..2 /\ db \in Rows /\ fresh \in Rows
        /\ job.gone \in Rows /\ job.added \in Rows
    BY TablesAre DEF BackupInv, BackupTypeOK, Job
  <1>3. (job.pos > 1 <=> on) /\ (IF job.pos > 1 THEN job.pos - 1 ELSE 1) = 1
    BY <1>2
  <1>4. IF Referred(left)
        THEN job' = new /\ fresh' = [fresh EXCEPT ![t] = {}]
        ELSE Ended("key") /\ fresh' = fresh
    BY <1>3 DEF Wipe, WipeOrder
  <1>5. /\ t = IF on THEN "accounts" ELSE "domains"
        /\ job.added.domains = {} /\ job.added.accounts = {}
    BY <1>1, <1>2, TablesAre DEF BackupInv, RestoreAtWork, RestoringTable, Filled
  <1>6. /\ left.accounts = IF on THEN {} ELSE View("accounts")
        /\ left.domains = IF on THEN View("domains") ELSE {}
    BY <1>5 DEF Seen
  <1>7. file' \in Archive /\ staging' \in Archive /\ FileIsKept'
    BY <1>1 DEF BackupInv, BackupTypeOK, FileIsKept
  <1>8. CASE ~Referred(left)
    <2>1. ~on
      BY <1>6, <1>8 DEF Referred
    <2>2. View("accounts") # {}
      BY <1>6, <1>8, <2>1 DEF Referred
    <2>3. ~still
      BY <1>1, <1>2, <1>5, <2>1, <2>2 DEF BackupInv, RestoreAtWork, RestoringTable, Wiped, View
    <2> QED BY <1>1, <1>4, <1>7, <1>8, <2>3, EndKeeps DEF JobResults
  <1>9. CASE Referred(left)
    <2>1. /\ g \in Rows
          /\ g.domains = IF on THEN job.gone.domains ELSE db.domains
          /\ g.accounts = IF on THEN db.accounts ELSE job.gone.accounts
      BY <1>2, <1>5 DEF Rows
    <2>2. /\ fresh' \in Rows
          /\ fresh'.domains = IF on THEN fresh.domains ELSE {}
          /\ fresh'.accounts = IF on THEN {} ELSE fresh.accounts
      BY <1>2, <1>4, <1>5, <1>9 DEF Rows
    <2> HIDE DEF g
    <2>3. (IF on THEN "wiping" ELSE "loading") \in JobStages /\ 1 \in 1..Len(sorted_tables)
      BY TablesAre DEF JobStages
    <2>4. /\ new \in Job /\ new.gone = g /\ new.added = job.added /\ new.pos = 1
          /\ new.at = IF on THEN "wiping" ELSE "loading"
          /\ new.dump = job.dump /\ new.result = job.result
      BY <1>2, <2>1, <2>3 DEF Job
    <2> HIDE DEF new, left, t
    <2>5. job' = new
      BY <1>4, <1>9
    <2>6. BackupTypeOK'
      BY <1>1, <2>2, <2>4, <2>5 DEF BackupInv, BackupTypeOK
    <2>7. /\ View("accounts")' = left.accounts /\ View("domains")' = left.domains
      BY <1>1, <1>5, <1>6, <2>1, <2>4, <2>5 DEF View
    <2>8. KeysHold'
      <3>1. Referred(Seen)'
        BY <1>9, <2>7 DEF Referred, Seen
      <3>2. Unique(View("domains"))' /\ Unique(View("accounts"))'
        BY <1>6, <2>7 DEF BackupInv, KeysHold, Unique
      <3> QED BY <1>1, <3>1, <3>2 DEF BackupInv, KeysHold, Referred, Unique
    <2>9. Gathering' /\ QuietBackupRestores'
      BY <1>1, <2>4, <2>5 DEF BackupInv, Gathering, QuietBackupRestores
    <2>10. RestoreAtWork'
      <3>1. RestoringTable("domains")'
        BY <1>1, <1>5, <2>1, <2>2, <2>4, <2>5
           DEF BackupInv, RestoreAtWork, RestoringTable, Wiped, Filled
      <3>2. RestoringTable("accounts")'
        BY <1>1, <1>2, <1>5, <2>1, <2>2, <2>4, <2>5
           DEF BackupInv, RestoreAtWork, RestoringTable, Wiped, Filled
      <3> QED BY <1>1, <2>4, <2>5, <3>1, <3>2 DEF BackupInv, RestoreAtWork
    <2> QED BY <1>7, <2>6, <2>8, <2>9, <2>10 DEF BackupInv
  <1> QED BY <1>8, <1>9

\* Filling a table: the keys are right, or the transaction ends; and they are right if
\* neither the backup nor the restore saw anything committed.
LEMMA LoadKeeps ==
    ASSUME BackupInv, Load
    PROVE  BackupInv'
  <1> DEFINE t == sorted_tables[job.pos]
             rows == job.dump.tables[t]
             after == [Seen EXCEPT ![t] = Seen[t] \cup rows]
             last == job.pos = 2
             n == [job.added EXCEPT ![t] = rows]
             stage == IF ~last THEN "loading"
                      ELSE IF job.include_mail /\ job.dump.mail_accounts # {}
                      THEN "extracting" ELSE "committing"
             new == [job EXCEPT !.added = n, !.pos = IF last THEN 1 ELSE 2, !.at = stage]
  <1>1. /\ job.at = "loading" /\ job.dump = file.dump
        /\ UNCHANGED <<driver, db, revision, maildir, file, staging, fresh, still, writes, jobs>>
    BY DEF Load, Outside, BackupInv, RestoreAtWork
  <1>2. /\ job \in Job /\ job.pos \in 1..2 /\ db \in Rows /\ job.added \in Rows
        /\ job.dump.tables \in Rows
    BY TablesAre DEF BackupInv, BackupTypeOK, Job, Dump
  <1>3. (job.pos = Len(sorted_tables) <=> last) /\ Following(job.pos) = IF last THEN 1 ELSE 2
    BY <1>2, TablesAre
  <1>4. IF Decodes(file, t) /\ Referred(after) /\ Unique(after[t])
        THEN job' = new
        ELSE Ended(IF Decodes(file, t) THEN "key" ELSE "error")
    BY <1>3 DEF Load
  <1>5. t = IF last THEN "accounts" ELSE "domains"
    BY <1>2, TablesAre
  <1>6. /\ job.added.accounts = {} /\ (~last => job.added.domains = {})
        /\ (last => job.added.domains = job.dump.tables.domains)
        /\ fresh.domains = db.domains \ job.gone.domains
        /\ fresh.accounts = db.accounts \ job.gone.accounts
        /\ still => fresh.domains = {} /\ fresh.accounts = {}
    BY <1>1, <1>2 DEF BackupInv, RestoreAtWork, RestoringTable, Wiped, Filled
  <1>7. /\ rows = IF last THEN job.dump.tables.accounts ELSE job.dump.tables.domains
        /\ after.accounts = IF last THEN fresh.accounts \cup rows ELSE fresh.accounts
        /\ after.domains = IF last THEN fresh.domains \cup job.dump.tables.domains
                                    ELSE fresh.domains \cup rows
        /\ after[t] = IF last THEN after.accounts ELSE after.domains
    <2>1. /\ Seen.domains = View("domains") /\ Seen.accounts = View("accounts")
          /\ DOMAIN Seen = {"domains", "accounts"}
      BY DEF Seen
    <2>2. /\ View("accounts") = fresh.accounts
          /\ View("domains") = fresh.domains \cup job.added.domains
      BY <1>6 DEF View
    <2>3. CASE last
      <3>1. t = "accounts"
        BY <1>5, <2>3
      <3> QED BY <1>6, <2>1, <2>2, <2>3, <3>1
    <2>4. CASE ~last
      <3>1. t = "domains"
        BY <1>5, <2>4
      <3> QED BY <1>6, <2>1, <2>2, <2>4, <3>1
    <2> QED BY <2>3, <2>4
  <1>8. file' \in Archive /\ staging' \in Archive /\ FileIsKept'
    BY <1>1 DEF BackupInv, BackupTypeOK, FileIsKept
  <1>9. CASE ~(Decodes(file, t) /\ Referred(after) /\ Unique(after[t]))
    <2> DEFINE how == IF Decodes(file, t) THEN "key" ELSE "error"
    <2>1. ASSUME Decodes(file, t), still, file.quiet
          PROVE  FALSE
      <3>1. UniqueDump(job.dump) /\ Referred(job.dump.tables)
        BY <1>1, <2>1 DEF BackupInv, FileIsKept
      <3>2. Referred(after)
        BY <1>6, <1>7, <2>1, <3>1 DEF Referred
      <3>3. after[t] = rows
        BY <1>6, <1>7, <2>1
      <3>4. Unique(rows)
        BY <1>7, <3>1 DEF UniqueDump
      <3>5. Unique(after[t])
        BY <3>3, <3>4
      <3> QED BY <1>9, <2>1, <3>2, <3>5
    <2>2. how \in JobResults /\ (how = "key" => ~still \/ ~file'.quiet)
      BY <1>1, <2>1 DEF JobResults
    <2>3. Ended(how)
      BY <1>4, <1>9
    <2> HIDE DEF how
    <2> QED BY <1>1, <1>8, <2>2, <2>3, EndKeeps
  <1>10. CASE Referred(after) /\ Unique(after[t]) /\ Decodes(file, t)
    <2>1. /\ n \in Rows
          /\ n.domains = IF last THEN job.added.domains ELSE job.dump.tables.domains
          /\ n.accounts = IF last THEN job.dump.tables.accounts ELSE job.added.accounts
      BY <1>2, <1>5 DEF Rows
    <2>2. stage \in JobStages /\ (IF last THEN 1 ELSE 2) \in 1..Len(sorted_tables)
      BY TablesAre DEF JobStages
    <2>3. /\ stage \in {"loading", "extracting", "committing"} /\ (stage = "loading" <=> ~last)
      OBVIOUS
    <2> HIDE DEF n, stage
    <2>4. /\ new \in Job /\ new.gone = job.gone /\ new.added = n /\ new.at = stage
          /\ new.pos = IF last THEN 1 ELSE 2
          /\ new.dump = job.dump /\ new.result = job.result
      BY <1>2, <2>1, <2>2 DEF Job
    <2> HIDE DEF new, after, t, rows
    <2>5. job' = new
      BY <1>4, <1>10
    <2>6. BackupTypeOK'
      BY <1>1, <2>4, <2>5 DEF BackupInv, BackupTypeOK
    <2>7. View("accounts")' = after.accounts /\ View("domains")' = after.domains
      BY <1>1, <1>6, <1>7, <2>1, <2>4, <2>5 DEF View
    <2>8. KeysHold'
      <3>1. Referred(Seen)'
        BY <1>10, <2>7 DEF Referred, Seen
      <3>2. View("domains") = IF last THEN after.domains ELSE fresh.domains
        BY <1>6, <1>7 DEF View
      <3>3. View("accounts") = fresh.accounts
        BY <1>6 DEF View
      <3>4. Unique(after.domains) /\ Unique(after.accounts)
        BY <1>7, <1>10, <3>2, <3>3 DEF BackupInv, KeysHold
      <3> QED BY <1>1, <2>7, <3>1, <3>4 DEF BackupInv, KeysHold, Referred, Unique
    <2>9. Gathering' /\ QuietBackupRestores'
      BY <1>1, <2>3, <2>4, <2>5 DEF BackupInv, Gathering, QuietBackupRestores
    <2>10. RestoreAtWork'
      <3>1. RestoringTable("domains")'
        BY <1>1, <1>6, <2>1, <2>3, <2>4, <2>5 DEF RestoringTable, Wiped, Filled
      <3>2. RestoringTable("accounts")'
        BY <1>1, <1>6, <2>1, <2>3, <2>4, <2>5 DEF RestoringTable, Wiped, Filled
      <3> QED BY <1>1, <2>3, <2>4, <2>5, <3>1, <3>2 DEF RestoreAtWork
    <2> QED BY <1>8, <2>6, <2>8, <2>9, <2>10 DEF BackupInv
  <1> QED BY <1>9, <1>10

\* A mailbox is written.
LEMMA ExtractKeeps ==
    ASSUME BackupInv, NEW a \in Accounts, extract_mail(a)
    PROVE  BackupInv'
  <1> DEFINE at == IF job.dump.mail_accounts = job.extracted \cup {a} THEN "committing" ELSE job.at
             new == [job EXCEPT !.extracted = job.extracted \cup {a}, !.at = at]
             place == <<a, maildir_targets(a)>>
  <1>1. /\ job.at = "extracting" /\ job' = new
        /\ maildir' = [maildir EXCEPT ![place] = maildir[place] \cup file.mail[a]]
        /\ UNCHANGED <<driver, db, revision, file, staging, fresh, still, writes, jobs>>
    BY DEF extract_mail, Outside
  <1>2. job \in Job /\ job.extracted \subseteq Accounts /\ at \in {"extracting", "committing"}
    BY <1>1 DEF BackupInv, BackupTypeOK, Job
  <1>3. place \in Accounts \X Places
    <2>1. View("accounts") \subseteq AccountRow
      BY RowsAre DEF View, BackupInv, BackupTypeOK, Job
    <2>2. ASSUME NEW r \in View("accounts"), r.id = a
          PROVE  (CHOOSE s \in View("accounts") : s.id = a).maildir_path \in Places
      BY <2>1, <2>2 DEF AccountRow
    <2>3. maildir_targets(a) \in Places
      BY <2>2 DEF maildir_targets, Places
    <2> QED BY <2>3
  <1> HIDE DEF at, place
  <1>4. /\ new \in Job /\ new.at = at /\ new.gone = job.gone /\ new.added = job.added
        /\ new.dump = job.dump /\ new.result = job.result /\ new.pos = job.pos
    BY <1>2 DEF Job, JobStages
  <1> HIDE DEF new
  <1>5. BackupTypeOK'
    <2>1. file.mail[a] \subseteq Messages
      BY DEF BackupInv, BackupTypeOK, Archive
    <2>2. maildir' \in [Accounts \X Places -> SUBSET Messages]
      BY <1>1, <1>3, <2>1 DEF BackupInv, BackupTypeOK
    <2> QED BY <1>1, <1>4, <2>2 DEF BackupInv, BackupTypeOK
  <1>6. KeysHold'
    BY <1>1, <1>4, SeenStays
  <1>7. Gathering' /\ FileIsKept' /\ QuietBackupRestores'
    BY <1>1, <1>2, <1>4 DEF BackupInv, Gathering, FileIsKept, QuietBackupRestores
  <1>8. RestoreAtWork'
    BY <1>1, <1>2, <1>4 DEF BackupInv, RestoreAtWork, RestoringTable, Wiped, Filled
  <1> QED BY <1>5, <1>6, <1>7, <1>8 DEF BackupInv

\* What the transaction saw is what it commits.
LEMMA CommitKeeps ==
    ASSUME BackupInv, Commit
    PROVE  /\ BackupInv'
           /\ \A t \in Tables : db'[t] = file.dump.tables[t] \cup fresh[t]
  <1>1. /\ job.at = "committing" /\ Ended("ok")
        /\ db' = [domains |-> View("domains"), accounts |-> View("accounts")]
        /\ UNCHANGED <<driver, revision, maildir, file, staging, fresh, still, writes, jobs>>
    BY DEF Commit, Committed, Outside
  <1> DEFINE new == [NoJob EXCEPT !.result = "ok"]
  <1>2. /\ new \in Job /\ new.at = "idle" /\ new.gone = NoRows /\ new.added = NoRows
        /\ new.result = "ok"
    BY NothingIsTyped DEF Job, JobResults
  <1>3. job' = new
    BY <1>1 DEF Ended
  <1> HIDE DEF new
  <1>4. View("domains") \subseteq DomainRow /\ View("accounts") \subseteq AccountRow
    BY RowsAre DEF View, BackupInv, BackupTypeOK, Job
  <1>5. db' \in Rows /\ db'.domains = View("domains") /\ db'.accounts = View("accounts")
    BY <1>1, <1>4 DEF Rows
  <1>6. BackupTypeOK'
    BY <1>1, <1>2, <1>3, <1>5 DEF BackupInv, BackupTypeOK
  <1>7. KeysHold'
    <2>1. View("domains")' = db'.domains /\ View("accounts")' = db'.accounts
      BY <1>2, <1>3, NothingIsTyped DEF View
    <2>2. Referred(db') /\ Unique(db'.domains) /\ Unique(db'.accounts)
      BY <1>5 DEF BackupInv, KeysHold, Referred, Seen
    <2> QED BY <2>1, <2>2 DEF KeysHold, Seen, Referred, Unique
  <1>8. Gathering' /\ RestoreAtWork' /\ QuietBackupRestores'
    BY <1>2, <1>3, NothingIsTyped DEF Gathering, RestoreAtWork, RestoringTable, Wiped, Filled,
                                      QuietBackupRestores
  <1>9. FileIsKept'
    BY <1>1 DEF BackupInv, FileIsKept
  <1>10. /\ db'.domains = file.dump.tables.domains \cup fresh.domains
         /\ db'.accounts = file.dump.tables.accounts \cup fresh.accounts
    BY <1>1, <1>5 DEF BackupInv, RestoreAtWork, RestoringTable, Wiped, Filled, View
  <1> QED BY <1>6, <1>7, <1>8, <1>9, <1>10, TablesAre DEF BackupInv

\* A statement of the server: it keeps the keys, and touches no row the restore holds.
LEMMA ServerKeeps ==
    ASSUME BackupInv, NEW t \in {"domains", "accounts"}, NEW rows, Server(t, rows), db' \in Rows,
           KeysHold', \A r \in rows \ db[t] : r \notin job.gone[t]
    PROVE  BackupInv'
  <1>1. /\ writes < MaxWrites /\ writes' = writes + 1 /\ still' = FALSE
        /\ db' = [db EXCEPT ![t] = rows]
        /\ fresh' = [fresh EXCEPT ![t] = (fresh[t] \cap rows) \cup (rows \ db[t])]
        /\ UNCHANGED <<driver, revision, maildir, file, staging, job, jobs>>
    BY DEF Server
  <1>2. db \in Rows /\ fresh \in Rows /\ job \in Job /\ job.gone \in Rows
    BY DEF BackupInv, BackupTypeOK, Job
  <1>3. ASSUME NEW u \in {"domains", "accounts"}
        PROVE  /\ db'[u] = IF u = t THEN rows ELSE db[u]
               /\ fresh'[u] = IF u = t THEN (fresh[u] \cap rows) \cup (rows \ db[u])
                                       ELSE fresh[u]
    BY <1>1, <1>2 DEF Rows
  <1>4. /\ db'.domains = (IF t = "domains" THEN rows ELSE db.domains)
        /\ db'.accounts = (IF t = "accounts" THEN rows ELSE db.accounts)
    BY <1>3
  <1>5. fresh' \in Rows
    <2>1. CASE t = "domains"
      <3>1. rows \subseteq DomainRow
        BY <1>4, <2>1, RowsAre
      <3> QED BY <1>1, <1>2, <2>1, <3>1 DEF Rows
    <2>2. CASE t = "accounts"
      <3>1. rows \subseteq AccountRow
        BY <1>4, <2>2, RowsAre
      <3> QED BY <1>1, <1>2, <2>2, <3>1 DEF Rows
    <2> QED BY <2>1, <2>2
  <1>6. writes' \in 0..MaxWrites
    BY <1>1, BackupAssumption DEF BackupInv, BackupTypeOK, BackupAssumption
  <1>7. BackupTypeOK'
    BY <1>1, <1>5, <1>6 DEF BackupInv, BackupTypeOK
  <1>8. Gathering' /\ FileIsKept' /\ QuietBackupRestores'
    BY <1>1 DEF BackupInv, Gathering, FileIsKept, QuietBackupRestores
  <1>9. ASSUME NEW u \in {"domains", "accounts"}, RestoringTable(u)
        PROVE  RestoringTable(u)'
    <2>1. CASE u # t
      BY <1>1, <1>3, <1>9, <2>1 DEF RestoringTable, Wiped, Filled
    <2>2. CASE u = t
      <3>1. fresh[t] = db[t] \ job.gone[t] => fresh'[t] = db'[t] \ job.gone[t]
        BY <1>3
      <3> QED BY <1>1, <1>9, <2>2, <3>1 DEF RestoringTable, Wiped, Filled
    <2> QED BY <2>1, <2>2
  <1>10. RestoreAtWork'
    BY <1>1, <1>9 DEF BackupInv, RestoreAtWork
  <1> QED BY <1>7, <1>8, <1>10 DEF BackupInv

\* A domain is added.
LEMMA AddDomainKeeps ==
    ASSUME BackupInv, NEW r \in DomainRow, AddRow("domains", r)
    PROVE  BackupInv'
  <1>1. /\ \A s \in db.domains : s.id # r.id
        /\ \A s \in job.gone.domains \cup job.added.domains : s.id # r.id
        /\ Server("domains", db.domains \cup {r})
    BY DEF AddRow, Held
  <1>2. db \in Rows
    BY DEF BackupInv, BackupTypeOK
  <1>3. /\ db' \in Rows /\ db'.domains = db.domains \cup {r} /\ db'.accounts = db.accounts
        /\ job' = job
    BY <1>1, <1>2 DEF Server, Rows
  <1>4. /\ View("domains")' = View("domains") \cup {r} /\ View("accounts")' = View("accounts")
        /\ \A s \in View("domains") : s.id # r.id
    BY <1>1, <1>3 DEF View
  <1>5. KeysHold'
    <2>1. Unique(db.domains)' /\ Unique(View("domains"))'
      BY <1>1, <1>3, <1>4 DEF BackupInv, KeysHold, Unique
    <2>2. Unique(db.accounts)' /\ Unique(View("accounts"))'
      BY <1>3, <1>4 DEF BackupInv, KeysHold, Unique
    <2>3. Referred(db)' /\ Referred(Seen)'
      BY <1>3, <1>4 DEF BackupInv, KeysHold, Referred, Seen
    <2> QED BY <2>1, <2>2, <2>3 DEF KeysHold
  <1>6. \A s \in (db.domains \cup {r}) \ db.domains : s \notin job.gone.domains
    BY <1>1
  <1> QED BY <1>1, <1>3, <1>5, <1>6, ServerKeeps

\* An account is added, to a domain the restore neither deletes nor inserts.
LEMMA AddAccountKeeps ==
    ASSUME BackupInv, NEW r \in AccountRow, AddRow("accounts", r)
    PROVE  BackupInv'
  <1>1. /\ \A s \in db.accounts : s.id # r.id
        /\ \A s \in job.gone.accounts \cup job.added.accounts : s.id # r.id
        /\ \E d \in db.domains : d.id = r.domain
        /\ \A s \in job.gone.domains \cup job.added.domains : s.id # r.domain
        /\ Server("accounts", db.accounts \cup {r})
    BY DEF AddRow, Held
  <1>2. db \in Rows
    BY DEF BackupInv, BackupTypeOK
  <1>3. /\ db' \in Rows /\ db'.accounts = db.accounts \cup {r} /\ db'.domains = db.domains
        /\ job' = job
    BY <1>1, <1>2 DEF Server, Rows
  <1>4. /\ View("accounts")' = View("accounts") \cup {r} /\ View("domains")' = View("domains")
        /\ \A s \in View("accounts") : s.id # r.id
        /\ \E d \in View("domains") : d.id = r.domain
    BY <1>1, <1>3 DEF View
  <1>5. KeysHold'
    <2>1. Unique(db.accounts)' /\ Unique(View("accounts"))'
      BY <1>1, <1>3, <1>4 DEF BackupInv, KeysHold, Unique
    <2>2. Unique(db.domains)' /\ Unique(View("domains"))'
      BY <1>3, <1>4 DEF BackupInv, KeysHold, Unique
    <2>3. Referred(db)' /\ Referred(Seen)'
      BY <1>1, <1>3, <1>4 DEF BackupInv, KeysHold, Referred, Seen
    <2> QED BY <2>1, <2>2, <2>3 DEF KeysHold
  <1>6. \A s \in (db.accounts \cup {r}) \ db.accounts : s \notin job.gone.accounts
    BY <1>1
  <1> QED BY <1>1, <1>3, <1>5, <1>6, ServerKeeps

\* A domain is deleted that no account refers to, committed or of the restore.
LEMMA DeleteDomainKeeps ==
    ASSUME BackupInv, NEW r \in DomainRow, DeleteRow("domains", r)
    PROVE  BackupInv'
  <1>1. /\ r \in db.domains /\ r \notin job.gone.domains \cup job.added.domains
        /\ \A a \in job.added.accounts : a.domain # r.id
        /\ Referred([db EXCEPT !["domains"] = db["domains"] \ {r}])
        /\ Server("domains", db.domains \ {r})
    BY DEF DeleteRow, Held
  <1>2. db \in Rows
    BY DEF BackupInv, BackupTypeOK
  <1>3. /\ db' \in Rows /\ db'.domains = db.domains \ {r} /\ db'.accounts = db.accounts
        /\ job' = job /\ Referred(db')
    BY <1>1, <1>2 DEF Server, Rows
  <1>4. View("domains")' = View("domains") \ {r} /\ View("accounts")' = View("accounts")
    BY <1>1, <1>3 DEF View
  <1>5. ASSUME NEW a \in View("accounts")
        PROVE  \E d \in View("domains") \ {r} : d.id = a.domain
    <2>1. PICK d \in View("domains") : d.id = a.domain
      BY DEF BackupInv, KeysHold, Referred, Seen
    <2>2. CASE a \in job.added.accounts
      BY <1>1, <2>1, <2>2
    <2>3. CASE a \in db.accounts
      <3>1. PICK e \in db.domains \ {r} : e.id = a.domain
        BY <1>3, <2>3 DEF Referred
      <3>2. a.domain # r.id
        BY <1>1, <3>1 DEF BackupInv, KeysHold, Unique
      <3> QED BY <2>1, <3>2
    <2> QED BY <2>2, <2>3 DEF View
  <1>6. KeysHold'
    <2>1. Unique(db.accounts)' /\ Unique(View("accounts"))'
      BY <1>3, <1>4 DEF BackupInv, KeysHold, Unique
    <2>2. Unique(db.domains)' /\ Unique(View("domains"))'
      BY <1>3, <1>4 DEF BackupInv, KeysHold, Unique
    <2>3. Referred(Seen)'
      BY <1>4, <1>5 DEF Referred, Seen
    <2> QED BY <1>3, <2>1, <2>2, <2>3 DEF KeysHold
  <1> QED BY <1>1, <1>3, <1>6, ServerKeeps

\* An account is deleted.
LEMMA DeleteAccountKeeps ==
    ASSUME BackupInv, NEW r \in AccountRow, DeleteRow("accounts", r)
    PROVE  BackupInv'
  <1>1. /\ r \in db.accounts /\ r \notin job.gone.accounts \cup job.added.accounts
        /\ Server("accounts", db.accounts \ {r})
    BY DEF DeleteRow, Held
  <1>2. db \in Rows
    BY DEF BackupInv, BackupTypeOK
  <1>3. /\ db' \in Rows /\ db'.accounts = db.accounts \ {r} /\ db'.domains = db.domains
        /\ job' = job
    BY <1>1, <1>2 DEF Server, Rows
  <1>4. View("accounts")' = View("accounts") \ {r} /\ View("domains")' = View("domains")
    BY <1>1, <1>3 DEF View
  <1>5. KeysHold'
    BY <1>3, <1>4 DEF BackupInv, KeysHold, Unique, Referred, Seen
  <1> QED BY <1>1, <1>3, <1>5, ServerKeeps

\* Dovecot delivers, or the schema is migrated.
LEMMA OthersKeep ==
    ASSUME BackupInv, Migrate \/ \E r \in AccountRow, m \in Messages : Deliver(r, m)
    PROVE  BackupInv'
  <1>1. UNCHANGED <<driver, db, file, staging, job, fresh, still, jobs>>
    BY DEF Migrate, Deliver
  <1>2. writes' \in 0..MaxWrites
    <2>1. writes < MaxWrites /\ writes' = writes + 1
      BY DEF Migrate, Deliver
    <2> QED BY <2>1, BackupAssumption DEF BackupInv, BackupTypeOK, BackupAssumption
  <1>3. revision' \in Revisions /\ maildir' \in [Accounts \X Places -> SUBSET Messages]
    <2>1. CASE Migrate
      BY <2>1 DEF Migrate, BackupInv, BackupTypeOK
    <2>2. ASSUME NEW r \in AccountRow, NEW m \in Messages, Deliver(r, m)
          PROVE  revision' \in Revisions /\ maildir' \in [Accounts \X Places -> SUBSET Messages]
      <3> DEFINE place == <<r.id, r.maildir_path>>
      <3>1. /\ maildir' = [maildir EXCEPT ![place] = maildir[place] \cup {m}]
            /\ revision' = revision
        BY <2>2 DEF Deliver
      <3>2. place \in Accounts \X Places
        BY DEF AccountRow
      <3> HIDE DEF place
      <3> QED BY <3>1, <3>2 DEF BackupInv, BackupTypeOK
    <2> QED BY <2>1, <2>2
  <1>4. BackupTypeOK'
    BY <1>1, <1>2, <1>3 DEF BackupInv, BackupTypeOK
  <1>5. KeysHold'
    BY <1>1, SeenStays
  <1>6. Gathering' /\ FileIsKept' /\ RestoreAtWork' /\ QuietBackupRestores'
    BY <1>1 DEF BackupInv, Gathering, FileIsKept, RestoreAtWork, RestoringTable, Wiped, Filled,
                QuietBackupRestores
  <1> QED BY <1>4, <1>5, <1>6 DEF BackupInv

\* Every step keeps the invariant, and what a restore commits is the archive.
LEMMA BackupStepIs ==
    ASSUME BackupInv, [BackupNext]_backup_vars
    PROVE  /\ BackupInv'
           /\ job.at = "committing" /\ job'.result = "ok" =>
                  \A t \in Tables : db'[t] = file.dump.tables[t] \cup fresh[t]
  <1> DEFINE P == /\ BackupInv'
                  /\ job.at = "committing" /\ job'.result = "ok" =>
                         \A t \in Tables : db'[t] = file.dump.tables[t] \cup fresh[t]
  <1>1. job.at = "committing" => job.result = "none"
    <2>1. Gathering
      BY DEF BackupInv
    <2> QED BY <2>1 DEF Gathering
  <1>2. ASSUME NEW include_mail \in BOOLEAN, Create(include_mail)
        PROVE  P
    <2>1. job.at = "idle"
      BY <1>2, ZenonT(40) DEF Create, JobIdle
    <2> QED BY <1>2, <2>1, CreateKeeps
  <1>3. ASSUME NEW known \in BOOLEAN, ReadRevision(known)
        PROVE  P
    BY <1>3, ReadRevisionKeeps DEF ReadRevision
  <1>4. CASE dump_database
    BY <1>4, DumpKeeps DEF dump_database
  <1>5. ASSUME NEW p \in Parts, AddPart(p)
        PROVE  P
    BY <1>5, AddPartKeeps DEF AddPart
  <1>6. CASE Replace
    BY <1>6, ReplaceKeeps DEF Replace
  <1>7. CASE CreateFails \/ RestoreFails \/ Crash
    <2>1. PICK how \in {"error", "killed"} : job' = [NoJob EXCEPT !.result = how]
      BY <1>7 DEF CreateFails, RestoreFails, Crash, Ended
    <2>2. job'.result # "ok"
      BY <2>1 DEF NoJob
    <2> QED BY <1>7, <2>2, FailuresKeep
  <1>8. ASSUME NEW include_mail \in BOOLEAN, NEW ignore_revision \in BOOLEAN,
               Restore(include_mail, ignore_revision)
        PROVE  P
    BY <1>8, RestoreKeeps DEF Restore, JobIdle
  <1>9. ASSUME NEW current \in Revisions \cup {Unknown}, NEW yes \in BOOLEAN,
               CheckRevision(current, yes)
        PROVE  P
    BY <1>9, CheckRevisionKeeps DEF CheckRevision
  <1>10. CASE Wipe
    BY <1>10, WipeKeeps DEF Wipe
  <1>11. CASE Load
    BY <1>11, LoadKeeps DEF Load
  <1>12. ASSUME NEW a \in Accounts, extract_mail(a)
         PROVE  P
    BY <1>12, ExtractKeeps DEF extract_mail
  <1>13. CASE Commit
    BY <1>13, CommitKeeps
  <1>14. ASSUME NEW r \in DomainRow, AddRow("domains", r) \/ DeleteRow("domains", r)
         PROVE  P
    <2>1. job' = job
      BY <1>14 DEF AddRow, DeleteRow, Server
    <2> QED BY <1>1, <1>14, <2>1, AddDomainKeeps, DeleteDomainKeeps
  <1>15. ASSUME NEW r \in AccountRow, AddRow("accounts", r) \/ DeleteRow("accounts", r)
         PROVE  P
    <2>1. job' = job
      BY <1>15 DEF AddRow, DeleteRow, Server
    <2> QED BY <1>1, <1>15, <2>1, AddAccountKeeps, DeleteAccountKeeps
  <1>16. CASE Migrate \/ \E r \in AccountRow, m \in Messages : Deliver(r, m)
    <2>1. job' = job
      BY <1>16 DEF Migrate, Deliver
    <2> QED BY <1>1, <1>16, <2>1, OthersKeep
  <1>17. CASE UNCHANGED backup_vars
    <2>1. /\ UNCHANGED <<driver, db, revision, maildir, file, staging, job, fresh, still>>
          /\ UNCHANGED <<writes, jobs>>
      BY <1>17 DEF backup_vars
    <2>2. KeysHold'
      BY <2>1, SeenStays
    <2>3. BackupInv'
      BY <2>1, <2>2 DEF BackupInv, BackupTypeOK, Gathering, FileIsKept, RestoreAtWork,
           RestoringTable, Wiped, Filled, QuietBackupRestores
    <2> QED BY <1>1, <2>1, <2>3
  <1> QED BY <1>2, <1>3, <1>4, <1>5, <1>6, <1>7, <1>8, <1>9, <1>10, <1>11, <1>12, <1>13,
             <1>14, <1>15, <1>16, <1>17 DEF BackupNext

\* Before the first job.
LEMMA BackupInitInv == BackupInit => BackupInv
  <1> SUFFICES ASSUME BackupInit
               PROVE  BackupInv
    OBVIOUS
  <1>1. PICK d \in Domains, a \in Accounts, p \in Places :
            db = [domains |-> {[id |-> d]},
                  accounts |-> {[id |-> a, domain |-> d, maildir_path |-> p]}]
    BY DEF BackupInit
  <1>2. /\ job = NoJob /\ file = NoFile /\ staging = NoFile /\ fresh = NoRows
        /\ revision = 1 /\ still = TRUE /\ writes = 0 /\ jobs = 0 /\ driver \in Drivers
        /\ maildir \in [Accounts \X Places -> SUBSET Messages]
    BY DEF BackupInit
  <1>3. db \in Rows
    BY <1>1 DEF Rows, DomainRow, AccountRow
  <1>4. BackupTypeOK
    BY <1>2, <1>3, NothingIsTyped, BackupAssumption DEF BackupTypeOK, BackupAssumption, Revisions
  <1>5. /\ job.at = "idle" /\ job.gone = NoRows /\ job.added = NoRows /\ job.result = "none"
    BY <1>2 DEF NoJob
  <1>6. KeysHold
    <2>1. Referred(db) /\ Unique(db.domains) /\ Unique(db.accounts)
      <3>1. /\ db.domains = {[id |-> d]}
            /\ db.accounts = {[id |-> a, domain |-> d, maildir_path |-> p]}
        BY <1>1
      <3>2. [id |-> d].id = d /\ [id |-> a, domain |-> d, maildir_path |-> p].domain = d
        OBVIOUS
      <3> QED BY <3>1, <3>2 DEF Referred, Unique
    <2>2. View("domains") = db.domains /\ View("accounts") = db.accounts
      BY <1>5, NothingIsTyped DEF View
    <2> QED BY <2>1, <2>2 DEF KeysHold, Seen, Referred
  <1>7. Gathering /\ RestoreAtWork /\ QuietBackupRestores
    BY <1>5, NothingIsTyped DEF Gathering, RestoreAtWork, RestoringTable, Wiped, Filled,
                                QuietBackupRestores
  <1>8. FileIsKept
    <2>1. file.dump = NoDump /\ NoDump.tables = NoRows
      BY <1>2 DEF NoFile, NoDump
    <2> QED BY <1>2, <2>1, NothingIsTyped DEF FileIsKept, Referred
  <1> QED BY <1>4, <1>6, <1>7, <1>8 DEF BackupInv

\* The invariant holds in every state.
LEMMA BackupInvHolds == BackupSpec => []BackupInv
  <1>1. BackupInv /\ [BackupNext]_backup_vars => BackupInv'
    BY BackupStepIs
  <1> QED BY <1>1, BackupInitInv, PTL DEF BackupSpec

\* The types are kept, whatever jobs, the server and its operator do.
THEOREM BackupTypesAreKept == BackupSpec => []BackupTypeOK
  <1>1. BackupInv => BackupTypeOK
    BY DEF BackupInv
  <1> QED BY <1>1, BackupInvHolds, PTL

\* The archive's name holds a whole archive or none, and one of rows that did not change
\* meanwhile has no row without its parent (write_archive, dump_database): for any number of
\* domains, accounts and messages.
THEOREM ArchivesAreWhole == BackupSpec => []ArchiveIsWhole
  <1>1. BackupInv => ArchiveIsWhole
    BY DEF BackupInv, FileIsKept, ArchiveIsWhole
  <1> QED BY <1>1, BackupInvHolds, PTL

\* A restore ends on a key only when something was committed during it or during the backup
\* (load_database).
THEOREM QuietBackupsRestore == BackupSpec => []QuietBackupRestores
  <1>1. BackupInv => QuietBackupRestores
    BY DEF BackupInv
  <1> QED BY <1>1, BackupInvHolds, PTL

\* What a restore commits is the archive and what others committed since it emptied the
\* table, and nothing else (cli/backup.py, restore).
THEOREM RestoresAreTheArchive == BackupSpec => RestoreIsTheArchive
  <1>1. ASSUME BackupInv, [BackupNext]_backup_vars
        PROVE  [job.at = "committing" /\ job'.result = "ok" =>
                  \A t \in Tables : db'[t] = file.dump.tables[t] \cup fresh[t]]_backup_vars
    BY <1>1, BackupStepIs
  <1> QED BY <1>1, BackupInvHolds, PTL DEF BackupSpec, RestoreIsTheArchive
===============================================================================
