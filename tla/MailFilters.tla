---------------------------- MODULE MailFilters -----------------------------
(***************************************************************************)
(* A mailbox's filters: the requests of /v1/mailbox/filters                *)
(* (api/filters.py, dovecot/filters.py), `lightr dovecot sieve`, the       *)
(* installation of the compiled script (dovecot/sieve_install.py), and the *)
(* mail that is judged on its way in and filed by it (mail/smtp.py,        *)
(* mail/headers.py).                                                       *)
(*                                                                         *)
(* A step is one statement, one doveadm command or one file operation.  A  *)
(* request is one transaction.  It writes its key's row first: on SQLite   *)
(* that holds the database until it ends, on Postgres it holds the key.    *)
(***************************************************************************)
EXTENDS SpamScore, SieveRules

CONSTANTS
    Accounts,
    TagPolicy,      \* accounts of domains whose spam_policy is "tag"
    Ids,            \* filter_rules.id
    Jobs,           \* requests, and runs of the command
    Key,            \* Key[j]: the key a request comes with
    MaxRules,       \* MAX_RULES
    Mail,           \* Mail[n]: messages that may arrive
    Scenarios,      \* the rules at the start, the jobs, the mail, and what there is to work with
    MaxFaults,      \* bound: commands, writes and commits that fail
    NoRule, NoScript, NoMail

FilterRow == [owner : Accounts, rule : Rule, stamped : BOOLEAN]

\* The stored fields, under those of the body.
Merged(current, body) == [f \in DOMAIN current |-> IF f \in DOMAIN body THEN body[f] ELSE current[f]]

\* A request: [kind, owner, id, rule]; of an update, rule is the fields of its body,
\* which make a rule of any rule.  A run of the command: kind "sieve".
IsWork(w) ==
    \/ w.kind = "sieve"
    \/ /\ w.kind \in {"create", "update", "delete"} /\ w.owner \in Accounts /\ w.id \in Ids
       /\ w.kind = "create" => w.rule \in Rule
       /\ w.kind = "update" => Merged(spam_rule, w.rule) \in Rule

\* The id of a rule that is created is new (uuid4).
ASSUME FilterAssumption ==
    /\ MaxRules \in Nat /\ MaxFaults \in Nat /\ NoRule \notin FilterRow
    /\ \A n \in DOMAIN Mail : Mail[n] \subseteq Message
    /\ \A s \in Scenarios :
        /\ DOMAIN s = {"rules", "work", "mail", "database", "doveadm"}
        /\ s.rules \in [Ids -> FilterRow \cup {NoRule}] /\ s.mail \in DOMAIN Mail
        /\ DOMAIN s.work \subseteq Jobs
        /\ \A j \in DOMAIN s.work :
            /\ IsWork(s.work[j])
            /\ s.work[j].kind = "create" =>
                 /\ s.rules[s.work[j].id] = NoRule
                 /\ \A k \in DOMAIN s.work \ {j} :
                        s.work[k].kind = "create" => s.work[k].id # s.work[j].id

VARIABLES
    scene,    \* of it: what arrives, the database, and whether doveadm is there
    rules,    \* filter_rules, as committed
    store,    \* per account: the script "lightr" Dovecot holds, and what active.sieve is
    job,      \* requests and commands
    faults,
    expected, \* history: the table if every request that succeeded had come alone
    settled,  \* history: accounts whose last installation nothing disturbed
    last      \* history: the message delivered

filters_vars == <<scene, rules, store, job, faults, expected, settled, last>>

Idle == [stage |-> "idle", work |-> [kind |-> "none"], mine |-> <<>>, todo |-> {}, owner |-> "",
         rule |-> NoRule, script |-> NoScript, handed |-> FALSE, alone |-> {}, before |-> NoScript, answer |-> 0]

FilterStages == {"idle", "new", "write", "compile", "put", "activate", "copy", "stamp", "installed",
                 "next", "done"}

Fault == faults < MaxFaults /\ faults' = faults + 1

-----------------------------------------------------------------------------
(* The table, as one transaction sees it, and the script there is. *)

\* What a transaction has written itself, and otherwise what is committed.
View(j, i) == IF i \in DOMAIN job[j].mine THEN job[j].mine[i] ELSE rules[i]

Owned(table, a) == {table[i].rule : i \in {i \in Ids : table[i] # NoRule /\ table[i].owner = a}}

\* rules_for.
rules_for(j, a) == Owned([i \in Ids |-> View(j, i)], a)

\* External: active.sieve is a link to the script doveadm activated, or a file.
Effective(a) ==
    CASE store[a].active = "link" -> store[a].stored
      [] store[a].active = "file" -> store[a].file
      [] OTHER -> NoScript

\* Every mailbox whose rules compile has their script.
Installed(a) ==
    LET R == Owned(scene.rules, a)
    IN  IF R = {} \/ ~CanCompile(R) THEN [stored |-> NoScript, active |-> "none", file |-> NoScript]
        ELSE IF scene.doveadm
             THEN [stored |-> compile_script(R), active |-> "link", file |-> NoScript]
             ELSE [stored |-> NoScript, active |-> "file", file |-> compile_script(R)]

FiltersInit ==
    /\ scene \in Scenarios
    /\ rules = scene.rules /\ expected = scene.rules
    /\ store = [a \in Accounts |-> Installed(a)]
    /\ job = [j \in Jobs |-> IF j \in DOMAIN scene.work
                             THEN [Idle EXCEPT !.stage = "new", !.work = scene.work[j]] ELSE Idle]
    /\ faults = 0 /\ last = NoMail
    /\ settled = {a \in Accounts : store[a].active # "none"}

AtWork(j) == job[j].stage \notin {"idle", "new", "done"}

\* The command writes nothing before its first stamp.
Writing(j) == AtWork(j) /\ (job[j].work.kind # "sieve" \/ DOMAIN job[j].mine # {})

\* The accounts a job installs scripts for.
Touches(j) == IF job[j].work.kind = "none" THEN {}
              ELSE IF job[j].work.kind = "sieve" THEN Accounts ELSE {job[j].work.owner}

\* A job that starts is alone on the accounts nobody else is at work on, and
\* the others are not any more.
Joined(j) ==
    [k \in Jobs |->
        IF k = j THEN Touches(j) \ UNION {Touches(o) : o \in {o \in Jobs \ {j} : AtWork(o)}}
        ELSE IF AtWork(k) THEN job[k].alone \ Touches(j) ELSE job[k].alone]

\* Mutant: a request does not write its key's row.
MayBegin_mut(j) == TRUE

\* record_use, at the start of every request.
MayBegin(j) ==
    \A k \in Jobs \ {j} :
        Writing(k) => /\ scene.database = "postgres"
                      /\ job[k].work.kind = "sieve" \/ Key[k] # Key[j]

\* A row another transaction has written is waited for.
Unlocked(j, I) ==
    \A k \in Jobs \ {j} :
        Writing(k) => scene.database = "postgres" /\ I \cap DOMAIN job[k].mine = {}

\* Ends j: the transaction is rolled back, the scripts are not.
Refused(j, code) ==
    /\ job' = [job EXCEPT ![j] = [@ EXCEPT !.stage = "done", !.answer = code, !.mine = <<>>,
                                           !.todo = {}, !.rule = NoRule, !.script = NoScript]]
    /\ settled' = IF job[j].handed THEN settled \ {job[j].owner} ELSE settled

\* An account's installation is over: whether it can be relied on.
Settle(j, done) ==
    settled' = IF done /\ job[j].owner \in job[j].alone THEN settled \cup {job[j].owner}
               ELSE IF job[j].handed THEN settled \ {job[j].owner} ELSE settled

\* The command goes on to the next account.
GoOn(j, done) ==
    /\ job' = [job EXCEPT ![j] = [@ EXCEPT !.stage = "next", !.todo = job[j].todo \ {job[j].owner},
                                           !.handed = FALSE, !.script = NoScript]]
    /\ Settle(j, done)

\* A request answers; the command has logged it.
Failed(j, code) == IF job[j].work.kind = "sieve" THEN GoOn(j, FALSE) ELSE Refused(j, code)

-----------------------------------------------------------------------------
(* The requests. *)

\* normalise: a rule that does not compile, or redirects, is not stored.
normalise(rule) ==
    /\ Readable(rule) /\ Legible(rule) /\ Compiles(rule)
    /\ \A i \in DOMAIN rule.actions : rule.actions[i][1] # "redirect"

BeginEdit(j, stage, rule, mine) ==
    job' = [k \in Jobs |->
        IF k = j THEN [job[j] EXCEPT !.stage = stage, !.rule = rule, !.alone = Joined(j)[j],
                                     !.owner = job[j].work.owner,
                                     !.mine = mine, !.before = Effective(job[j].work.owner)]
        ELSE [job[k] EXCEPT !.alone = Joined(j)[k]]]

\* A request that ends where it begins.
Turned(j, code) ==
    job' = [job EXCEPT ![j] = [@ EXCEPT !.stage = "done", !.answer = code,
                                        !.before = Effective(job[j].work.owner)]]

Requested(j, kind) == job[j].stage = "new" /\ job[j].work.kind = kind /\ MayBegin(j)

create_filter(j) ==
    LET work == job[j].work
        held == {i \in Ids : rules[i] # NoRule /\ rules[i].owner = work.owner}
    IN  /\ Requested(j, "create")
        /\ IF ~normalise(work.rule) \/ Cardinality(held) >= MaxRules THEN Turned(j, 400)
           ELSE BeginEdit(j, "write", work.rule, <<>>)
        /\ UNCHANGED <<scene, rules, store, faults, expected, settled, last>>

\* FilterRepo.get, the merge, and normalise.
update_filter(j) ==
    LET work == job[j].work
        row  == rules[work.id]
    IN  /\ Requested(j, "update")
        /\ IF row = NoRule \/ (row # NoRule /\ row.owner # work.owner) THEN Turned(j, 404)
           ELSE IF ~normalise(Merged(row.rule, work.rule)) THEN Turned(j, 400)
           ELSE BeginEdit(j, "write", Merged(row.rule, work.rule), <<>>)
        /\ UNCHANGED <<scene, rules, store, faults, expected, settled, last>>

\* FilterRepo.delete says whether there was anything to delete.
delete_filter(j) ==
    LET work == job[j].work
        row  == rules[work.id]
    IN  /\ Requested(j, "delete") /\ Unlocked(j, {work.id})
        /\ IF row = NoRule \/ (row # NoRule /\ row.owner # work.owner) THEN Turned(j, 404)
           ELSE BeginEdit(j, "compile", NoRule, [i \in {work.id} |-> NoRule])
        /\ UNCHANGED <<scene, rules, store, faults, expected, settled, last>>

\* FilterRepo.create and update.  A row that has gone is not updated.
Write(j) ==
    LET work == job[j].work
        row  == rules[work.id]
    IN  /\ job[j].stage = "write" /\ Unlocked(j, {work.id})
        /\ job' = [job EXCEPT ![j].stage = "compile", ![j].rule = NoRule,
                ![j].mine = IF work.kind = "create"
                            THEN [i \in {work.id} |-> [owner |-> work.owner, rule |-> job[j].rule,
                                                       stamped |-> FALSE]]
                            ELSE IF row = NoRule THEN <<>>
                            ELSE [i \in {work.id} |-> [row EXCEPT !.rule = job[j].rule]]]
        /\ UNCHANGED <<scene, rules, store, faults, expected, settled, last>>

-----------------------------------------------------------------------------
(* The installation. *)

\* Where the script goes: to doveadm when there is one.
Handing == IF scene.doveadm THEN "put" ELSE "copy"

\* Mutant: the rules are read on another connection.
Compile_mut(j) ==
    LET R == Owned(rules, job[j].owner)
    IN  /\ job[j].stage = "compile" /\ CanCompile(R)
        /\ job' = [job EXCEPT ![j].script = compile_script(R), ![j].stage = Handing,
                              ![j].handed = TRUE]
        /\ UNCHANGED <<scene, rules, store, faults, expected, settled, last>>

\* install, up to the compiled script.
Compile(j) ==
    LET R == rules_for(j, job[j].owner)
    IN  /\ job[j].stage = "compile" /\ CanCompile(R)
        /\ job' = [job EXCEPT ![j].script = compile_script(R), ![j].stage = Handing,
                              ![j].handed = TRUE]
        /\ UNCHANGED <<scene, rules, store, faults, expected, settled, last>>

\* In a request, what does not compile is a 400.  The command goes on to the next
\* account, unless what _rule_from_row raised is not a SieveError.
CannotCompile(j) ==
    LET R == rules_for(j, job[j].owner)
    IN  /\ job[j].stage = "compile" /\ ~CanCompile(R)
        /\ IF \A r \in R : Legible(r) THEN Failed(j, 400) ELSE Refused(j, 400)
        /\ UNCHANGED <<scene, rules, store, faults, expected, last>>

\* sieve_put replaces the script of that name.
sieve_put(j) ==
    /\ job[j].stage = "put"
    /\ store' = [store EXCEPT ![job[j].owner].stored = job[j].script]
    /\ job' = [job EXCEPT ![j].stage = "activate"]
    /\ UNCHANGED <<scene, rules, faults, expected, settled, last>>

\* External: active.sieve becomes a link to that script.
sieve_activate(j) ==
    /\ job[j].stage = "activate"
    /\ store' = [store EXCEPT ![job[j].owner].active = "link"]
    /\ job' = [job EXCEPT ![j].stage = "copy"]
    /\ UNCHANGED <<scene, rules, faults, expected, settled, last>>

\* A doveadm command that fails, or is killed for taking too long, may have had its effect.
DoveadmError(j) ==
    /\ job[j].stage \in {"put", "activate"} /\ Fault
    /\ \/ UNCHANGED store
       \/ /\ job[j].stage = "put"
          /\ store' = [store EXCEPT ![job[j].owner].stored = job[j].script]
       \/ /\ job[j].stage = "activate"
          /\ store' = [store EXCEPT ![job[j].owner].active = "link"]
    /\ Failed(j, 400)
    /\ UNCHANGED <<scene, rules, expected, last>>

\* write_script: what active.sieve says already is not written.  The file takes
\* the place of the link.
write_script(j) ==
    LET a == job[j].owner
        changed == Effective(a) # job[j].script
    IN  /\ job[j].stage = "copy"
        /\ store' = IF changed THEN [store EXCEPT ![a].active = "file", ![a].file = job[j].script]
                    ELSE store
        /\ job' = [job EXCEPT ![j].stage = IF changed THEN "stamp" ELSE "installed"]
        /\ UNCHANGED <<scene, rules, faults, expected, settled, last>>

\* An OSError is a 502.
CopyError(j) ==
    /\ job[j].stage = "copy" /\ Fault /\ Failed(j, 502)
    /\ UNCHANGED <<scene, rules, store, expected, last>>

Over(f, g) == [x \in DOMAIN f \cup DOMAIN g |-> IF x \in DOMAIN f THEN f[x] ELSE g[x]]

\* The rows of the account that the transaction sees, stamped with sieve_generated_at.
Stamped(j) ==
    LET I == {i \in Ids : View(j, i) # NoRule /\ View(j, i).owner = job[j].owner}
    IN  [i \in I |-> [View(j, i) EXCEPT !.stamped = TRUE]]

Stamp(j) ==
    /\ job[j].stage = "stamp" /\ Unlocked(j, DOMAIN Stamped(j))
    /\ job' = [job EXCEPT ![j].mine = Over(Stamped(j), @), ![j].stage = "installed"]
    /\ UNCHANGED <<scene, rules, store, faults, expected, settled, last>>

\* Two transactions wait for each other's rows: the database ends one.
Deadlocked(j) ==
    /\ job[j].stage = "stamp" /\ ~Unlocked(j, DOMAIN Stamped(j))
    /\ \E k \in Jobs \ {j} : job[k].stage = "stamp" /\ ~Unlocked(k, DOMAIN Stamped(k))
    /\ Refused(j, 500)
    /\ UNCHANGED <<scene, rules, store, faults, expected, last>>

\* What a request does to a table when it comes alone.
Applied(table, work) ==
    CASE work.kind = "create" ->
             [table EXCEPT ![work.id] = [owner |-> work.owner, rule |-> work.rule, stamped |-> FALSE]]
      [] work.kind = "update" /\ table[work.id] # NoRule ->
             [table EXCEPT ![work.id].rule = Merged(@, work.rule)]
      [] work.kind = "delete" -> [table EXCEPT ![work.id] = NoRule]
      [] OTHER -> table

Ended(j) ==
    \/ job[j].stage = "installed" /\ job[j].work.kind # "sieve"
    \/ job[j].stage = "next" /\ job[j].todo = {}

Commit(j) ==
    /\ Ended(j)
    /\ rules' = [i \in Ids |-> View(j, i)]
    /\ expected' = Applied(expected, job[j].work)
    /\ job' = [job EXCEPT ![j] = [@ EXCEPT !.stage = "done", !.answer = 200, !.mine = <<>>,
                                           !.script = NoScript]]
    /\ IF job[j].work.kind = "sieve" THEN UNCHANGED settled ELSE Settle(j, TRUE)
    /\ UNCHANGED <<scene, store, faults, last>>

CommitFails(j) ==
    /\ Ended(j) /\ Fault /\ Refused(j, 500)
    /\ UNCHANGED <<scene, rules, store, expected, last>>

-----------------------------------------------------------------------------
(* `lightr dovecot sieve`: install_all, in one transaction. *)

install_all(j) ==
    /\ job[j].stage = "new" /\ job[j].work.kind = "sieve"
    /\ job' = [k \in Jobs |->
            [job[k] EXCEPT !.alone = Joined(j)[k],
                           !.stage = IF k = j THEN "next" ELSE @,
                           !.todo = IF k = j THEN Accounts ELSE @]]
    /\ UNCHANGED <<scene, rules, store, faults, expected, settled, last>>

NextAccount(j) ==
    /\ job[j].stage = "next"
    /\ \E a \in job[j].todo :
        job' = [job EXCEPT ![j].stage = "compile", ![j].owner = a]
    /\ UNCHANGED <<scene, rules, store, faults, expected, settled, last>>

AccountDone(j) ==
    /\ job[j].stage = "installed" /\ job[j].work.kind = "sieve" /\ GoOn(j, TRUE)
    /\ UNCHANGED <<scene, rules, store, faults, expected, last>>

-----------------------------------------------------------------------------
(* Mail. *)

SpamMark == <<"header", "X-Lightr-Spam-Action: junk">>

\* Mutant: what the message says of itself is left in.
apply_mut(m, analysis, action) ==
    [words |-> m.words \cup action, size |-> m.size, points |-> analysis.points,
     spf_result |-> analysis.spf, dkim_result |-> analysis.dkim,
     dmarc_result |-> analysis.dmarc, attachment |-> analysis.attachment]

\* strip_controlled, the headers of the analysis, and the spam action.
apply(m, analysis, action) ==
    [words |-> (m.words \ {SpamMark}) \cup action, size |-> m.size, points |-> analysis.points,
     spf_result |-> analysis.spf, dkim_result |-> analysis.dkim,
     dmarc_result |-> analysis.dmarc, attachment |-> analysis.attachment]

\* _spam_actions.
spam_action(analysis, a) == IF analysis.spam /\ a \notin TagPolicy THEN {SpamMark} ELSE {}

ScriptOf(a) == IF Effective(a) = NoScript THEN <<>> ELSE Effective(a)

\* One message of a behaviour is followed; it may come at any time.
Deliver(a) ==
    /\ last = NoMail
    /\ \E m \in Mail[scene.mail] :
        LET analysis == analyse(m, FALSE)
        IN  last' = [mail |-> m, owner |-> a, verdict |-> analysis, script |-> ScriptOf(a),
                     filed |-> Filed(ScriptOf(a), apply(m, analysis, spam_action(analysis, a)))]
    /\ UNCHANGED <<scene, rules, store, job, faults, expected, settled>>

-----------------------------------------------------------------------------

JobStep(j) ==
    \/ create_filter(j) \/ update_filter(j) \/ delete_filter(j) \/ Write(j)
    \/ Compile(j) \/ CannotCompile(j)
    \/ sieve_put(j) \/ sieve_activate(j) \/ DoveadmError(j)
    \/ write_script(j) \/ CopyError(j) \/ Stamp(j) \/ Deadlocked(j)
    \/ Commit(j) \/ CommitFails(j)
    \/ install_all(j) \/ NextAccount(j) \/ AccountDone(j)

FiltersNext == (\E j \in Jobs : JobStep(j)) \/ (\E a \in Accounts : Deliver(a))

FiltersSpec == FiltersInit /\ [][FiltersNext]_filters_vars

-----------------------------------------------------------------------------
(* Properties. *)

\* Types of the variables.
FiltersTypeOK ==
    /\ scene \in Scenarios /\ faults \in 0..MaxFaults /\ settled \subseteq Accounts
    /\ {rules, expected} \subseteq [Ids -> FilterRow \cup {NoRule}]
    /\ DOMAIN store = Accounts /\ DOMAIN job = Jobs
    /\ \A a \in Accounts : /\ DOMAIN store[a] = {"stored", "active", "file"}
                           /\ store[a].active \in {"none", "link", "file"}
    /\ \A j \in Jobs :
        /\ DOMAIN job[j] = DOMAIN Idle
        /\ job[j].stage \in FilterStages /\ job[j].answer \in {0, 200, 400, 404, 500, 502}
        /\ DOMAIN job[j].mine \subseteq Ids
        /\ \A i \in DOMAIN job[j].mine : job[j].mine[i] \in FilterRow \cup {NoRule}
        /\ job[j].todo \subseteq Accounts /\ job[j].alone \subseteq Accounts
        /\ job[j].handed \in BOOLEAN
        /\ job[j].stage # "idle" => j \in DOMAIN scene.work /\ job[j].work = scene.work[j]

\* Dovecot runs what the table says: after an installation that nobody joined and
\* that did not fail half-way, and while nobody is at work on the mailbox, its script
\* is its rules, compiled.
ScriptFollowsTable ==
    \A a \in settled :
        (\A j \in Jobs : AtWork(j) => a \notin Touches(j))
            => Effective(a) = compile_script(Owned(rules, a))

\* On SQLite, where the key's row every request writes first keeps others out, no
\* edit is lost: the table is what the successful requests say, one after the other.
EditsAreKept ==
    scene.database = "sqlite" =>
        \A i \in Ids :
            IF expected[i] = NoRule THEN rules[i] = NoRule
            ELSE rules[i] # NoRule /\ rules[i].rule = expected[i].rule

\* Mail judged spam, for a domain that files spam, ends in Junk and nowhere else, whatever the
\* mailbox's rules; all other mail is filed by those rules alone.  What a
\* message claims of itself does not matter.
SpamIsFiled ==
    last # NoMail =>
        LET honest == [last.mail EXCEPT !.words = @ \ {SpamMark}]
        IN  IF last.verdict.spam /\ last.owner \notin TagPolicy
            THEN last.filed = [folders |-> {<<"Junk", {}>>}, sent |-> {}]
            ELSE last.filed = Filed(last.script, apply(honest, last.verdict, {}))

Blame(analysis) == {r[1] : r \in analysis.reasons} \cap
    ({<<"spf=fail">>, <<"spf=softfail">>, <<"dkim=fail">>, <<"dmarc=fail">>}
        \cup ((AddressZones \cup DomainZones) \X (Subjects(last.mail) \cup {Address})))

\* The message, had every look-up that failed been answered in the sender's favour.
Answered(m) ==
    [m EXCEPT !.spf = IF @ \in {"timeout", "error"} THEN "pass" ELSE @,
              !.dkim = IF @ \in {"timeout", "error"} THEN "valid" ELSE @,
              !.manner = [z \in DOMAIN @ |->
                            IF @[z] \in {"honest", "everything"} THEN @[z] ELSE "down"]]

\* What is held against the sender of the last message because a look-up failed.
OutageBlame == Blame(last.verdict) \ Blame(analyse(Answered(last.mail), FALSE))

\* A look-up that fails, or that a list refuses, says nothing against the sender, but
\* for one: a DKIM look-up that raised is taken for a bad signature, and may end in
\* dmarc=fail (authentication.py:154).  And a list that names those it has no entry for
\* is one `lightr spam lists` warns of.
OutageIsNotForgery ==
    (last # NoMail /\ last.mail.rspamd = {}) =>
        /\ OutageBlame \subseteq
               IF last.mail.dkim = "error" THEN {<<"dmarc=fail">>} ELSE {}
        /\ \A l \in check(last.mail) \ last.mail.entries : probe(last.mail.manner[l[1]]) # "working"

\* The same without exception: "a lookup that fails is not a verification that failed"
\* (authentication.py:9).
\* The code does not keep this (README, section 6).
OutageIsNeverForgery ==
    last # NoMail /\ last.mail.rspamd = {} => OutageBlame = {}

\* A request that was refused, and came alone, has changed nothing: the mailbox has the script
\* it had.
\* The code does not keep this (README, section 6).
RefusedKeepsScript ==
    \A j \in Jobs :
        /\ job[j].stage = "done" /\ job[j].answer # 200 /\ job[j].work.kind # "sieve"
        /\ \A k \in Jobs \ {j} : job[k].stage \in {"idle", "new"}
        => Effective(job[j].work.owner) = job[j].before

=============================================================================
