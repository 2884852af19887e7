---------------------------- MODULE ApiSessions ----------------------------
(***************************************************************************)
(* The credentials of one mailbox: signing in and changing the password    *)
(* (api/session.py), session keys (apikeys.py), the operator's edits of    *)
(* the account (cli/accounts.py, cli/authproviders.py, api/app.py), the    *)
(* one authentication path they share with Dovecot (auth.py), and          *)
(* Dovecot's cache of its answers.                                         *)
(*                                                                         *)
(* A request runs in one database transaction and awaits the database, a   *)
(* bcrypt thread or doveadm; an action is what it does between two awaits  *)
(* that others can slip between.  What a transaction wrote shows only when *)
(* it commits, and until then keeps other writers of the same rows waiting *)
(* (PostgreSQL) or every other writer (SQLite).                            *)
(***************************************************************************)
EXTENDS Integers, FiniteSets, Sequences, Functions

CONSTANTS
    Requests,    \* requests, commands and Dovecot look-ups, each made once
    Devices,     \* sessions signed in before
    Addresses,   \* client addresses
    OtherNames,  \* what else AccountRepo.resolve takes for the mailbox: its bare local
                 \* part, a spelling of its id
    Passwords,
    DirectoryPassword, \* what the organization's directory accepts
    Drivers,     \* databases to consider: "sqlite", "postgres"
    Accounts,    \* accounts to start from
    ExternalId,  \* whether the account has an external_id
    Operations,  \* what a request may be
    Edits,       \* what an edit of the account may change
    Budget,      \* failures one bucket allows, ACCOUNT_FAILURES
    MaxRefills   \* bound: tokens that come back with time

None == "none"
Mailbox == "mailbox"  \* the account's row, and its full address

\* What may be typed for the mailbox; each has a bucket of its own.
Names == {Mailbox} \cup OtherNames

\* Session keys are named by the sign-in that made them.
Sessions == Requests \cup Devices

\* The columns of the account's row, and, as history, who set the hash.
Row == [mode : {"native", "external", "disabled"},
        hash : Passwords \cup {None},
        by   : Requests \cup {None}]

NoAccount == [mode |-> None, hash |-> None, by |-> None]
NoEntry   == [pw |-> None, by |-> None]

AllEdits == {"touch", "disable", "enable", "external", "local", "delete"}

ASSUME SessionsAssumption ==
    /\ Drivers \subseteq {"sqlite", "postgres"}
    /\ Accounts \subseteq Row
    /\ Edits \subseteq AllEdits
    /\ Operations \subseteq {"sign in", "change", "edit", "passwd", "look up"}
    /\ ExternalId \in BOOLEAN
    /\ Budget \in Nat \ {0} /\ MaxRefills \in Nat
    /\ Requests \cap Devices = {}
    /\ None \notin Passwords \cup Sessions
    /\ Mailbox \notin Sessions
    /\ Names \cap Addresses = {}

VARIABLES
    driver,   \* config.database.driver
    account,  \* the committed row of the mailbox
    session,  \* its rows in api_keys: "none", "live", or "dead" (revoked or expired)
    cache,    \* Dovecot's cached passdb answer
    tokens,   \* the two limiters of _limits: by address, and by name typed
    req,      \* the requests
    ended,    \* history: requests over when this one began
    guessers, \* history: by name, requests let through since its bucket was last full
    refilled  \* tokens that came back to a name's bucket with time

stores == <<account, session, cache>>
limits == <<tokens, guessers, refilled>>
vars == <<driver, stores, limits, req, ended>>

Stages == {"idle", "asked", "verifying", "inserting", "verified", "opened", "hashing",
           "written", "revoked", "flushed", "flushing", "read", "done"}

\* A request: what it is and where it is; the name and the password it presents; the new
\* password, or what an edit changes; the session it is made with; the account
\* as it last read it; the rows its open transaction wrote, and the sessions
\* among them that it deactivated; and how it was answered.
Request == [op      : Operations \cup {None},
            at      : Stages,
            from    : Addresses \cup {None},
            name    : Names \cup {None},
            pw      : Passwords \cup {None},
            aim     : Passwords \cup Edits \cup {None},
            key     : Sessions \cup {None},
            row     : Row \cup {NoAccount},
            held    : SUBSET (Sessions \cup {Mailbox}),
            revoked : SUBSET Sessions,
            result  : {None, "ok", "uncleared", "wrong", "failed"}]

NotYet == [op |-> None, at |-> "idle", from |-> None, name |-> None, pw |-> None,
           aim |-> None, key |-> None, row |-> NoAccount, held |-> {}, revoked |-> {},
           result |-> None]

Live == {k \in Sessions : session[k] = "live"}
Dead == {k \in Sessions : session[k] = "dead"}

Done(r) == req[r].at = "done"
Is(r, op, stage) == req[r].op = op /\ req[r].at = stage

-----------------------------------------------------------------------------
Init ==
    /\ driver \in Drivers
    /\ account \in Accounts
    /\ session = [k \in Sessions |-> IF k \in Devices THEN "live" ELSE None]
    /\ cache = NoEntry
    /\ tokens = [b \in Addresses \cup Names |-> Budget]
    /\ req = [r \in Requests |-> NotYet]
    /\ ended = [r \in Requests |-> {}]
    /\ guessers = [n \in Names |-> {}]
    /\ refilled = [n \in Names |-> 0]

-----------------------------------------------------------------------------
(* The database. *)

\* The session keys a password change deactivates.
Others(r) == Live \ {req[r].key}

\* The rows a request's next statement writes.
Wanted(r) == CASE req[r].at = "verified"            -> {req[r].key}
               [] req[r].at \in {"hashing", "read"} -> {Mailbox}
               [] req[r].at = "written"             -> Others(r)
               [] OTHER                             -> {}

\* SQLite has one writer at a time, PostgreSQL one to a row.
Blocks(q, rows) ==
    IF driver = "sqlite" THEN req[q].held # {} ELSE req[q].held \cap rows # {}

CanWrite(r) == \A q \in Requests \ {r} : ~Blocks(q, Wanted(r))

\* The same for a one-statement transaction of somebody else.
CanTouch(rows) == \A q \in Requests : ~Blocks(q, rows)

GoTo(r, stage) == req' = [req EXCEPT ![r].at = stage]

\* The transaction commits or rolls back.  Of a request that changed nothing
\* only the answer remains.
End(r, answer) ==
    req' = [req EXCEPT ![r] =
               IF answer \in {"ok", "uncleared"}
               THEN [@ EXCEPT !.at = "done", !.result = answer, !.held = {}, !.revoked = {},
                              !.from = None, !.name = None]
               ELSE [NotYet EXCEPT !.at = "done",
                                   !.result = IF answer = "wrong" THEN answer ELSE "failed"]]

Begin(op, stage, given, new) ==
    [NotYet EXCEPT !.op = op, !.at = stage, !.pw = given, !.aim = new]

Start(r, op) ==
    /\ req[r] = NotYet
    /\ op \in Operations
    /\ ended' = [ended EXCEPT ![r] = {q \in Requests : Done(q)}]

-----------------------------------------------------------------------------
(* Limits. *)

\* Mutant: the limit by client address alone.
SignInBuckets_mut(address, name) == <<address>>

\* The buckets an attempt pays from, in order; _spend stops at an empty one.
SignInBuckets(address, name) == <<address, name>>

\* A change of password names the account as the database does.
Charged(r) ==
    IF req[r].op = "change" THEN <<Mailbox>> ELSE SignInBuckets(req[r].from, req[r].name)

Named(r) == IF req[r].op = "change" THEN Mailbox ELSE req[r].name

Paid(buckets) ==
    {buckets[i] : i \in {i \in DOMAIN buckets : \A j \in 1..i : tokens[buckets[j]] > 0}}

Spend(r, name, buckets) ==
    /\ tokens' = [b \in DOMAIN tokens |->
                     IF b \in Paid(buckets) THEN tokens[b] - 1 ELSE tokens[b]]
    /\ guessers' = IF Paid(buckets) = Range(buckets)
                   THEN [guessers EXCEPT ![name] = @ \cup {r}] ELSE guessers
    /\ UNCHANGED refilled

Refund(name, buckets) ==
    /\ tokens' = [b \in DOMAIN tokens |->
                     IF b \in Range(buckets) THEN Budget ELSE tokens[b]]
    /\ guessers' = [guessers EXCEPT ![name] = {}]
    /\ refilled' = [refilled EXCEPT ![name] = 0]

\* Bucket.take adds what the elapsed time has earned, up to the capacity.
Refill(b) ==
    /\ tokens[b] < Budget
    /\ b \in Names => refilled[b] < MaxRefills
    /\ tokens' = [tokens EXCEPT ![b] = @ + 1]
    /\ refilled' = [n \in Names |-> IF n = b THEN refilled[n] + 1 ELSE refilled[n]]
    /\ UNCHANGED <<driver, stores, guessers, req, ended>>

-----------------------------------------------------------------------------
(* Authenticator.authenticate, for sign-in, password change and Dovecot. *)

\* The first provider to accept decides; if none does, one that could not
\* answer, or none to ask, leaves the question open.
ask_providers(p, up) ==
    CASE ~up                         -> "temporary"
      [] up /\ p = DirectoryPassword -> "ok"
      [] up /\ p # DirectoryPassword -> "wrong"

\* Mutant: a local hash that is still there is tried first.
Verify_mut(a, p, up) ==
    CASE a.mode \in {None, "disabled"} -> "wrong"
      [] a.mode \in {"external", "native"} ->
             IF a.hash = p THEN "ok"
             ELSE IF a.mode = "external" THEN ask_providers(p, up) ELSE "wrong"

Verify(a, p, up) ==
    CASE a.mode \in {None, "disabled"} -> "wrong"
      [] a.mode = "external"           -> ask_providers(p, up)
      [] a.mode = "native"             -> IF a.hash = p THEN "ok" ELSE "wrong"

Verdict(r, up) == Verify(req[r].row, req[r].pw, up)

LookUp(r) ==
    /\ req[r].at = "asked"
    /\ req' = [req EXCEPT ![r].row = account, ![r].at = "verifying"]
    /\ UNCHANGED <<driver, stores, limits, ended>>

-----------------------------------------------------------------------------
(* Signing in. *)

create_session(r, address, name, given) ==
    /\ Start(r, "sign in")
    /\ LET buckets == SignInBuckets(address, name)
       IN  /\ Spend(r, name, buckets)
           /\ \/ /\ Paid(buckets) = Range(buckets)
                 /\ req' = [req EXCEPT ![r] =
                              [Begin("sign in", "asked", given, None) EXCEPT !.from = address,
                                                                             !.name = name]]
              \/ /\ Paid(buckets) # Range(buckets)
                 /\ End(r, "too many")
    /\ UNCHANGED <<driver, stores>>

SignInAnswered(r, up) ==
    /\ Is(r, "sign in", "verifying")
    /\ up \/ req[r].row.mode = "external"
    /\ \/ /\ Verdict(r, up) = "ok"
          /\ Refund(Named(r), Charged(r))
          /\ GoTo(r, "inserting")
       \/ /\ Verdict(r, up) # "ok"
          /\ End(r, Verdict(r, up))
          /\ UNCHANGED limits
    /\ UNCHANGED <<driver, stores, ended>>

\* APIKeyRepo.create and the commit; no constraint ties a key to an account.
InsertKey(r) ==
    /\ req[r].at = "inserting"
    /\ CanWrite(r)
    /\ session' = [session EXCEPT ![r] = "live"]
    /\ End(r, "ok")
    /\ UNCHANGED <<driver, account, cache, limits, ended>>

-----------------------------------------------------------------------------
(* Changing the password with a session.  A new password too weak or too   *)
(* long is refused where one equal to the current is.                      *)

\* The middleware has verified the key; the rest waits for record_use.
change_password(r, k, given, new) ==
    /\ k \in Live
    /\ Start(r, "change")
    /\ req' = [req EXCEPT ![r] = [Begin("change", "verified", given, new) EXCEPT !.key = k]]
    /\ UNCHANGED <<driver, stores, limits>>

record_use(r) ==
    /\ req[r].at = "verified"
    /\ CanWrite(r)
    /\ req' = [req EXCEPT ![r].held = {req[r].key}, ![r].at = "opened"]
    /\ UNCHANGED <<driver, stores, limits, ended>>

ChargeChange(r) ==
    /\ req[r].at = "opened"
    /\ \/ account.mode # "native" /\ End(r, "conflict") /\ UNCHANGED limits
       \/ /\ account.mode = "native"
          /\ Spend(r, Named(r), Charged(r))
          /\ IF Mailbox \in Paid(Charged(r)) THEN GoTo(r, "asked") ELSE End(r, "too many")
    /\ UNCHANGED <<driver, stores, ended>>

\* Whatever it was that stood in the way, the answer is that the password is wrong.
ChangeAnswered(r, up) ==
    /\ Is(r, "change", "verifying")
    /\ up \/ req[r].row.mode = "external"
    /\ \/ /\ Verdict(r, up) = "ok"
          /\ Refund(Named(r), Charged(r))
          /\ IF req[r].aim = req[r].pw THEN End(r, "same") ELSE GoTo(r, "hashing")
       \/ Verdict(r, up) # "ok" /\ End(r, "wrong") /\ UNCHANGED limits
    /\ UNCHANGED <<driver, stores, ended>>

\* set_password_hash, seen by nobody else yet.
WriteHash(r) ==
    /\ Is(r, "change", "hashing")
    /\ CanWrite(r)
    /\ req' = [req EXCEPT ![r].held = @ \cup {Mailbox}, ![r].at = "written"]
    /\ UNCHANGED <<driver, stores, limits, ended>>

RevokeOthers(r) ==
    /\ req[r].at = "written"
    /\ CanWrite(r)
    /\ req' = [req EXCEPT ![r].revoked = Others(r), ![r].held = @ \cup Others(r),
                          ![r].at = "revoked"]
    /\ UNCHANGED <<driver, stores, limits, ended>>

\* Mutant: doveadm is told of another user.
Flushed_mut(cleared) == cache

\* doveadm may be absent or fail; the answer then says the cache was not cleared.
Flushed(cleared) == IF cleared THEN NoEntry ELSE cache

_flush_auth_cache(r, cleared) ==
    /\ req[r].at = "revoked"
    /\ cache' = Flushed(cleared)
    /\ req' = [req EXCEPT ![r].result = IF cleared THEN "ok" ELSE "uncleared",
                          ![r].at = "flushed"]
    /\ UNCHANGED <<driver, account, session, limits, ended>>

WithHash(r) ==
    IF account = NoAccount THEN NoAccount
                           ELSE [mode |-> "native", hash |-> req[r].aim, by |-> r]

Commit(r) ==
    /\ req[r].at = "flushed"
    /\ account' = WithHash(r)
    /\ session' = [k \in Sessions |-> IF k \in req[r].revoked THEN "dead" ELSE session[k]]
    /\ End(r, req[r].result)
    /\ UNCHANGED <<driver, cache, limits, ended>>

-----------------------------------------------------------------------------
(* The operator: account passwd, update and delete, auth switch and local, *)
(* and PATCH and DELETE /v1/accounts, whose transaction has already        *)
(* written the operator's own key.                                         *)

passwd(r, new) ==
    /\ account # NoAccount
    /\ Start(r, "passwd")
    /\ req' = [req EXCEPT ![r] = Begin("passwd", "hashing", None, new)]
    /\ UNCHANGED <<driver, stores, limits>>

\* The command commits, and flushes the cache afterwards.
PasswdWritten(r) ==
    /\ Is(r, "passwd", "hashing")
    /\ CanWrite(r)
    /\ account' = WithHash(r)
    /\ GoTo(r, "flushing")
    /\ UNCHANGED <<driver, session, cache, limits, ended>>

PasswdFlushed(r, cleared) ==
    /\ req[r].at = "flushing"
    /\ cache' = Flushed(cleared)
    /\ End(r, IF cleared THEN "ok" ELSE "uncleared")
    /\ UNCHANGED <<driver, account, session, limits, ended>>

StartEdit(r, change, api) ==
    /\ account # NoAccount
    /\ api => CanTouch({r}) /\ change \notin {"external", "local"}
    /\ Start(r, "edit")
    /\ req' = [req EXCEPT ![r] = [Begin("edit", "read", None, change) EXCEPT
                                     !.row = account, !.held = IF api THEN {r} ELSE {}]]
    /\ UNCHANGED <<driver, stores, limits>>

Edited(a, change, r) ==
    CASE change = "touch"    -> a
      [] change = "disable"  -> [a EXCEPT !.mode = "disabled"]
      [] change = "enable"   -> [a EXCEPT !.mode = IF ExternalId THEN "external" ELSE "native"]
      [] change = "external" -> [mode |-> "external", hash |-> None, by |-> r]
      [] change = "local"    -> [a EXCEPT !.mode = "native"]
      [] change = "delete"   -> NoAccount

\* AccountRepo.update writes every column of the row as it was read.
WriteRow(r) ==
    /\ req[r].at = "read"
    /\ CanWrite(r)
    /\ account' = IF account = NoAccount THEN NoAccount ELSE Edited(req[r].row, req[r].aim, r)
    /\ End(r, "ok")
    /\ UNCHANGED <<driver, session, cache, limits, ended>>

-----------------------------------------------------------------------------
(* Dovecot: a login the cache cannot answer runs checkpassword, which asks *)
(* the passdb endpoint; Dovecot keeps a positive answer.                   *)

passdb(r, given) ==
    /\ cache.pw # given
    /\ Start(r, "look up")
    /\ req' = [req EXCEPT ![r] = Begin("look up", "asked", given, None)]
    /\ UNCHANGED <<driver, stores, limits>>

PassdbAnswered(r, up) ==
    /\ Is(r, "look up", "verifying")
    /\ up \/ req[r].row.mode = "external"
    /\ cache' = IF Verdict(r, up) = "ok" THEN [pw |-> req[r].pw, by |-> r] ELSE cache
    /\ End(r, Verdict(r, up))
    /\ UNCHANGED <<driver, account, session, limits, ended>>

CacheExpires ==
    /\ cache # NoEntry
    /\ cache' = NoEntry
    /\ UNCHANGED <<driver, account, session, limits, req, ended>>

-----------------------------------------------------------------------------
(* Sessions end. *)

\* end_session, revoke_session, and the operator's apikey revoke.
revoke(k) ==
    /\ k \in Live
    /\ CanTouch({k})
    /\ session' = [session EXCEPT ![k] = "dead"]
    /\ UNCHANGED <<driver, account, cache, limits, req, ended>>

\* expires_at passes; no row is written.
Expire(k) ==
    /\ k \in Live
    /\ session' = [session EXCEPT ![k] = "dead"]
    /\ UNCHANGED <<driver, account, cache, limits, req, ended>>

purge_expired ==
    /\ Dead # {}
    /\ CanTouch(Dead)
    /\ session' = [k \in Sessions |-> IF k \in Dead THEN None ELSE session[k]]
    /\ UNCHANGED <<driver, account, cache, limits, req, ended>>

-----------------------------------------------------------------------------
(* Errors: the transaction rolls back and the request is answered 500. *)

DatabaseFails(r) ==
    /\ req[r].at \notin {"idle", "flushing", "done"}
    /\ End(r, "error")
    /\ UNCHANGED <<driver, stores, limits, ended>>

\* PostgreSQL ends one of two transactions that wait for each other.
Deadlock(r) ==
    /\ driver = "postgres"
    /\ \E q \in Requests \ {r} : Blocks(q, Wanted(r)) /\ Blocks(r, Wanted(q))
    /\ End(r, "error")
    /\ UNCHANGED <<driver, stores, limits, ended>>

-----------------------------------------------------------------------------
Next ==
    \/ \E r \in Requests, a \in Addresses, n \in Names, p \in Passwords :
           create_session(r, a, n, p)
    \/ \E r \in Requests, k \in Sessions, p \in Passwords, n \in Passwords :
           change_password(r, k, p, n)
    \/ \E r \in Requests, n \in Passwords : passwd(r, n)
    \/ \E r \in Requests, e \in Edits, api \in BOOLEAN : StartEdit(r, e, api)
    \/ \E r \in Requests, p \in Passwords : passdb(r, p)
    \/ \E r \in Requests : LookUp(r)
    \/ \E r \in Requests, up \in BOOLEAN : SignInAnswered(r, up)
    \/ \E r \in Requests : InsertKey(r)
    \/ \E r \in Requests : record_use(r)
    \/ \E r \in Requests : ChargeChange(r)
    \/ \E r \in Requests, up \in BOOLEAN : ChangeAnswered(r, up)
    \/ \E r \in Requests : WriteHash(r)
    \/ \E r \in Requests : RevokeOthers(r)
    \/ \E r \in Requests, c \in BOOLEAN : _flush_auth_cache(r, c)
    \/ \E r \in Requests : Commit(r)
    \/ \E r \in Requests : PasswdWritten(r)
    \/ \E r \in Requests, c \in BOOLEAN : PasswdFlushed(r, c)
    \/ \E r \in Requests : WriteRow(r)
    \/ \E r \in Requests, up \in BOOLEAN : PassdbAnswered(r, up)
    \/ CacheExpires
    \/ \E b \in Addresses \cup Names : Refill(b)
    \/ \E k \in Sessions : revoke(k)
    \/ \E k \in Sessions : Expire(k)
    \/ purge_expired
    \/ \E r \in Requests : DatabaseFails(r)
    \/ \E r \in Requests : Deadlock(r)

Spec == Init /\ [][Next]_vars

-----------------------------------------------------------------------------
(* Properties. *)

TypeOK ==
    /\ driver \in Drivers
    /\ account \in Row \cup {NoAccount}
    /\ session \in [Sessions -> {None, "live", "dead"}]
    /\ cache \in [pw : Passwords, by : Requests] \cup {NoEntry}
    /\ tokens \in [Addresses \cup Names -> 0..Budget]
    /\ req \in [Requests -> Request]
    /\ ended \in [Requests -> SUBSET Requests]
    /\ guessers \in [Names -> SUBSET Requests]
    /\ refilled \in [Names -> 0..MaxRefills]

\* What lets a password in, said without asking how it is checked.
Accepts(a, p) ==
    \/ a.mode = "native" /\ p = a.hash
    \/ a.mode = "external" /\ p = DirectoryPassword

\* Every session, and every login Dovecot has cached, comes from a request
\* whose password the account accepted at a moment the request was there to
\* see: the local hash of an account that signs in externally, or is
\* disabled, lets nobody in, and neither does a directory that is down
\* (auth.py:167-182).
SignInIsEarned ==
    /\ \A k \in Live \cap Requests : Accepts(req[k].row, req[k].pw)
    /\ cache # NoEntry => Accepts(req[cache.by].row, cache.pw)

WrongOnes(S) == {r \in S : req[r].result = "wrong"}

\* Between two successes under a name, that name is given no more wrong answers
\* than one budget and what time returned to it, however many client addresses, and
\* requests at once, the guesses come from (session.py:69-81).
GuessesAreCapped ==
    \A n \in Names : Cardinality(WrongOnes(guessers[n])) <= Budget + refilled[n]

\* The same of the mailbox, under all its names together (session.py:39-41).
\* The code does not keep this (README, section 6).
MailboxGuessesAreCapped ==
    (\A n \in Names : refilled[n] = 0) =>
        Cardinality(WrongOnes(UNION Range(guessers))) <= Budget

\* Requests that began and ended before c began; None stands for the past.
Earlier(q, c) == q \notin Requests \/ q \in ended[c]

Overlap(q, c) == ~Earlier(q, c) /\ c \notin ended[q]

Changed(c) == Done(c) /\ req[c].op \in {"change", "passwd"}

\* A password change through the API ends every session signed in before it,
\* except the one it was made with; a change that says it cleared the cache
\* leaves no login cached before it; and no password set before it comes back
\* unless an edit of the account overlapped it.  What began before the change
\* and ended after it is another matter (OldPasswordStopsOverImap).
ChangeIsComplete ==
    \A c \in Requests : Changed(c) =>
        /\ req[c].op = "change" => {k \in Live : Earlier(k, c)} \subseteq {req[c].key}
        /\ req[c].result = "ok" /\ cache # NoEntry => ~Earlier(cache.by, c)
        /\ account.mode = "native" /\ Earlier(account.by, c) =>
               \E e \in Requests : Is(e, "edit", "done") /\ Overlap(e, c)

\* Once a change has answered that it cleared the cache, Dovecot does not go
\* on accepting the password it replaced (docs/CLIENTS.md:90).
\* The code does not keep this (README, section 6).
OldPasswordStopsOverImap ==
    \A c \in Requests :
        Is(c, "change", "done") /\ req[c].result = "ok" /\ cache.pw = req[c].pw =>
            Accepts(account, req[c].pw)

=============================================================================
