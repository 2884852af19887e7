--------------------------- MODULE ProviderChain ---------------------------
(***************************************************************************)
(* A login with the right or the wrong password, at one of three doors:    *)
(* Dovecot's checkpassword program, the API's sign-in and SMTP AUTH.  All  *)
(* three go through Authenticator.authenticate (auth.py), which asks the   *)
(* account's own hash or, for an external account, the providers of its    *)
(* domain one after another (authproviders/registry.py).  Meanwhile        *)
(* directories go down, hang, come back and change their minds, and an     *)
(* operator edits the provider rows and the account (`lightr auth`).       *)
(*                                                                         *)
(* One account, and one password presented everywhere: what a directory    *)
(* says of it, and whether the stored hash matches it, are state.          *)
(***************************************************************************)
EXTENDS Integers, FiniteSets, Sequences

CONSTANTS
    Rows,       \* identifiers of auth_providers rows
    Legacy,     \* the domain's own auth webhook
    Logins,
    Doors,      \* the doors they come to: a subset of AllDoors
    Timeout,    \* the time each provider is given: DEFAULT_TIMEOUT or its config's
    Patience,   \* the time checkpassword waits
    StartRows, StartAccount, StartWebhook, StartDirectory, \* the initial states
    MaxEdits,   \* bound: edits by the operator
    MaxTurns    \* bound: changes of a directory

AllDoors == {"imap", "api", "smtp"}
Providers == Rows \cup {Legacy}

VARIABLES
    account,   \* its auth_mode, and its password_hash
    rows,      \* the auth_providers table
    webhook,   \* the domain's auth_webhook_* columns
    directory, \* what would come of asking each provider now
    login,     \* the logins
    edits, turns

vars == <<account, rows, webhook, directory, login, edits, turns>>

-----------------------------------------------------------------------------
(* Rows.  The domain is the account's; a row may name it, or another.      *)

Row == [enabled : BOOLEAN, priority : 1..2, covers : BOOLEAN, is_default : BOOLEAN,
        known : BOOLEAN]  \* known: its kind is in KINDS
NoRow == [enabled |-> FALSE, priority |-> 0, covers |-> FALSE, is_default |-> FALSE,
          known |-> FALSE]

Account == [mode : {"native", "external", "disabled"}, hash : {"none", "right", "wrong"}]
\* What asking a provider would come to.  Up, it says yes, or no: an entry LDAP does not
\* have, its invalidCredentials or insufficientAccessRights, an OIDC token that is
\* inactive, refused by userinfo or somebody else's, a webhook's 401, 403 or a body that
\* is not ok.  Down is everything else that is not an answer: no connection, a service
\* account or client refused, several entries, no identifying claim, another status, a
\* body of the wrong shape.
Directory == [health : {"up", "down", "hangs"}, accepts : BOOLEAN]

ASSUME ChainAssumption ==
    /\ IsFiniteSet(Rows) /\ Legacy \notin Rows
    /\ Providers \cap {"local", "outside"} = {}  \* which stand for the account itself
    /\ Doors \subseteq AllDoors
    /\ Timeout \in [Providers -> Nat \ {0}]
    /\ Patience \in Nat \ {0} /\ MaxEdits \in Nat /\ MaxTurns \in Nat
    /\ StartRows \subseteq [Rows -> Row \cup {NoRow}]
    /\ StartAccount \subseteq Account
    /\ StartWebhook \subseteq {"none", "unverified", "verified"}
    /\ StartDirectory \subseteq [Providers -> Directory]

Enabled == {p \in Rows : rows[p].enabled}

\* Mutant: the defaults answer beside the rows that name the domain.
for_domain_mut == {p \in Enabled : rows[p].covers \/ rows[p].is_default}

for_domain ==
    LET named == {p \in Enabled : rows[p].covers}
    IN  IF named # {} THEN named ELSE {p \in Enabled : rows[p].is_default}

\* Lowest priority first; among equals the database may choose.
InOrder(records) ==
    {chain \in [1..Cardinality(records) -> records] :
        \A i, j \in DOMAIN chain : i < j =>
            /\ chain[i] # chain[j]
            /\ rows[chain[i]].priority <= rows[chain[j]].priority}

\* History reads the rules by itself: who may answer for the domain at this moment, a
\* row that names it, or else a default, or else the webhook; and for the account.
Applies(p) ==
    /\ p \in Enabled
    /\ rows[p].covers \/ (rows[p].is_default /\ \A q \in Enabled : ~rows[q].covers)

Named ==
    LET applying == {p \in Rows : Applies(p)}
    IN  IF applying # {} THEN {p \in applying : rows[p].known}
        ELSE IF webhook = "verified" THEN {Legacy} ELSE {}

Answerable == IF account.mode = "external" THEN Named ELSE {}

Accepting == {p \in Providers : directory[p].accepts}
Local == IF account.mode = "native" /\ account.hash = "right" THEN {"local"} ELSE {}
Outside == IF account.mode = "external" THEN {"outside"} ELSE {}

-----------------------------------------------------------------------------
(* Logins.                                                                 *)

Failures == {"disabled", "no password", "bad password", "unavailable", "no provider", "raised"}
Answers == {"none", "in", "wrong", "later", "error"}

\* stage, the providers still to be asked, who could not answer, the time spent, and
\* the answer; then history: who might have answered (and whether the account
\* looked outside) since it began, who held the password at some moment, and
\* who did both at every moment.
Login == [door : AllDoors, stage : {"new", "find", "list", "legacy", "ask", "done"},
          chain : Seq(Providers), unavailable : SUBSET Providers, spent : Nat,
          answer : Answers, might : SUBSET (Providers \cup {"local", "outside"}),
          held : SUBSET (Providers \cup {"local"}), always : SUBSET (Providers \cup {"local"})]
NoLogin == [door |-> "imap", stage |-> "new", chain |-> <<>>, unavailable |-> {}, spent |-> 0,
            answer |-> "none", might |-> {}, held |-> {}, always |-> {}]

\* The kinds of the rows that apply are all known.
Sound == \A p \in for_domain : rows[p].known

\* The history that every step of the others adds to.
Witness(r) ==
    [r EXCEPT !.might = @ \cup Named' \cup Local' \cup Outside',
              !.held = @ \cup Accepting' \cup Local',
              !.always = @ \cap ((Answerable' \cap Accepting') \cup Local')]

Waiting(l) == login[l].stage \notin {"new", "done"}
Witnessed == login' = [l \in Logins |-> IF Waiting(l) THEN Witness(login[l]) ELSE login[l]]

TypeOK ==
    /\ account \in Account
    /\ rows \in [Rows -> Row \cup {NoRow}]
    /\ webhook \in {"none", "unverified", "verified"}
    /\ directory \in [Providers -> Directory]
    /\ login \in [Logins -> Login]
    /\ \A l \in Logins :
         /\ \A i, j \in DOMAIN login[l].chain : i < j => login[l].chain[i] # login[l].chain[j]
         /\ \A i \in DOMAIN login[l].chain : login[l].chain[i] \notin login[l].unavailable
         /\ (login[l].stage = "done") <=> (login[l].answer # "none")
    /\ edits \in 0..MaxEdits /\ turns \in 0..MaxTurns

Init ==
    /\ account \in StartAccount
    /\ rows \in StartRows
    /\ webhook \in StartWebhook
    /\ directory \in StartDirectory
    /\ login = [l \in Logins |-> NoLogin]
    /\ edits = 0
    /\ turns = 0

\* What the door tells whoever is logging in: passdb's status through the exit codes
\* of checkpassword, create_session's status, and AUTH, which knows one failure.
Said(door, failure) ==
    CASE failure = "raised" -> IF door = "imap" THEN "later" ELSE "error"
      [] door = "smtp" -> "wrong"
      [] failure \in {"unavailable", "no provider"} -> "later"
      [] OTHER -> "wrong"

Turn(l, r) == login' = [login EXCEPT ![l] = r]
Answer(l, answer) ==
    Turn(l, [login[l] EXCEPT !.stage = "done", !.answer = answer, !.chain = <<>>,
                             !.unavailable = {}, !.spent = 0])
Refuse(l, failure) == Answer(l, Said(login[l].door, failure))
Admit(l) == Answer(l, "in")

Begin(l, door) ==
    /\ login[l].stage = "new"
    /\ Turn(l, [NoLogin EXCEPT !.door = door, !.stage = "find",
                               !.might = Named \cup Local \cup Outside,
                               !.held = Accepting \cup Local,
                               !.always = (Answerable \cap Accepting) \cup Local])

\* Authenticator.authenticate
FindAccount(l) ==
    /\ login[l].stage = "find"
    /\ \/ account.mode = "disabled" /\ Refuse(l, "disabled")
       \/ account.mode = "external" /\ Turn(l, [login[l] EXCEPT !.stage = "list"])
       \/ /\ account.mode = "native"
          /\ \/ account.hash = "none" /\ Refuse(l, "no password")
             \/ account.hash = "right" /\ Admit(l)
             \/ account.hash = "wrong" /\ Refuse(l, "bad password")

\* providers_for; a row of an unknown kind raises when it is built.
ListProviders(l) ==
    /\ login[l].stage = "list"
    /\ \/ /\ for_domain = {}
          /\ Turn(l, [login[l] EXCEPT !.stage = "legacy"])
       \/ /\ for_domain # {} /\ ~Sound
          /\ Refuse(l, "raised")
       \/ /\ for_domain # {} /\ Sound
          /\ \E chain \in InOrder(for_domain) :
                Turn(l, [login[l] EXCEPT !.stage = "ask", !.chain = chain])

\* _legacy_domain_webhook
LegacyWebhook(l) ==
    /\ login[l].stage = "legacy"
    /\ IF webhook = "verified"
       THEN Turn(l, [login[l] EXCEPT !.stage = "ask", !.chain = <<Legacy>>])
       ELSE Refuse(l, "no provider")

\* ProviderBase.bounded: asking ends, with an answer or when the time is up.
\* Mutant: no timeout.
Ends_mut(p) == directory[p].health # "hangs"
Ends(p) == directory[p].health # "hangs" \/ Timeout[p] > 0

Spent(p) == IF directory[p].health = "hangs" THEN Timeout[p] ELSE 0

\* What is remembered of a provider that did not say yes.
\* Mutant: a provider that failed counts as one that refused.
Unavailable_mut(p) == {}
Unavailable(p) == IF directory[p].health = "up" THEN {} ELSE {p}

\* registry.authenticate: the next provider is asked.
Ask(l) ==
    /\ login[l].stage = "ask"
    /\ login[l].chain # <<>>
    /\ Ends(Head(login[l].chain))
    /\ LET p     == Head(login[l].chain)
           spent == login[l].spent + Spent(p)
       IN  IF login[l].door = "imap" /\ spent >= Patience
           THEN Answer(l, "later")
           ELSE IF directory[p].health = "up" /\ directory[p].accepts
           THEN Admit(l)
           ELSE Turn(l, [login[l] EXCEPT !.chain = Tail(@), !.spent = spent,
                                         !.unavailable = @ \cup Unavailable(p)])

\* Authenticator._authenticate_external, when nobody accepted.
NobodyAccepts(l) ==
    /\ login[l].stage = "ask"
    /\ login[l].chain = <<>>
    /\ Refuse(l, IF login[l].unavailable # {} THEN "unavailable" ELSE "bad password")

LoginStep(l) ==
    /\ \/ FindAccount(l)
       \/ ListProviders(l)
       \/ LegacyWebhook(l)
       \/ Ask(l)
       \/ NobodyAccepts(l)
    /\ UNCHANGED <<account, rows, webhook, directory, edits, turns>>

-----------------------------------------------------------------------------
(* The others.                                                             *)

Edit ==
    /\ edits < MaxEdits
    /\ edits' = edits + 1
    /\ UNCHANGED <<directory, turns>>

\* AuthProviderRepo.create, update and delete.
create(p, covers, is_default) ==
    /\ Edit
    /\ rows[p] = NoRow
    /\ rows' = [rows EXCEPT ![p] = [enabled |-> TRUE, priority |-> 1, covers |-> covers,
                                    is_default |-> is_default, known |-> TRUE]]
    /\ UNCHANGED <<account, webhook>>

update(p, values) ==
    /\ Edit
    /\ rows[p] # NoRow
    /\ values \in Row \ {rows[p]}
    /\ values.known = rows[p].known
    /\ Cardinality({f \in DOMAIN values : values[f] # rows[p][f]}) = 1
    /\ rows' = [rows EXCEPT ![p] = values]
    /\ UNCHANGED <<account, webhook>>

delete(p) ==
    /\ Edit
    /\ rows[p] # NoRow
    /\ rows' = [rows EXCEPT ![p] = NoRow]
    /\ UNCHANGED <<account, webhook>>

\* `lightr auth enable`, `auth local`, and a password set afterwards.
SwitchAccount(values) ==
    /\ Edit
    /\ values # account
    /\ \/ values = [mode |-> "external", hash |-> "none"]
       \/ values = [account EXCEPT !.mode = "native"]
       \/ values.mode = "native" /\ values.hash # "none"
    /\ account' = values
    /\ UNCHANGED <<rows, webhook>>

\* A directory's own life.
DirectoryChanges(p, d) ==
    /\ turns < MaxTurns
    /\ turns' = turns + 1
    /\ d # directory[p]
    /\ directory' = [directory EXCEPT ![p] = d]
    /\ UNCHANGED <<account, rows, webhook, edits>>

Others ==
    \/ \E p \in Rows, covers, is_default \in BOOLEAN : create(p, covers, is_default)
    \/ \E p \in Rows, values \in Row : update(p, values)
    \/ \E p \in Rows : delete(p)
    \/ \E values \in Account : SwitchAccount(values)
    \/ \E p \in Providers, d \in Directory : DirectoryChanges(p, d)

\* The others act while a login is under way: before, they would only lead to another
\* initial state.
Next ==
    \/ \E l \in Logins, door \in Doors :
          Begin(l, door) /\ UNCHANGED <<account, rows, webhook, directory, edits, turns>>
    \/ \E l \in Logins : LoginStep(l)
    \/ (\E l \in Logins : Waiting(l)) /\ Others /\ Witnessed

Spec == Init /\ [][Next]_vars

\* The server goes on with a login it has begun: every provider is under a timeout.
FairSpec == Spec /\ \A l \in Logins : WF_vars(LoginStep(l))

-----------------------------------------------------------------------------
(* What is checked.                                                        *)

\* Nobody gets in unless some provider that the operator's rows named for the domain
\* at some moment of the login accepted the password at some moment of it, and the account
\* was external at some moment (or it was native and its own hash matched): a provider disabled, deleted or
\* outranked before, a default beside a row that names the domain, an unverified
\* webhook or a stale hash let nobody in (for_domain, _authenticate_external).
EntryIsVouched ==
    \A l \in Logins :
        LET both == login[l].might \cap login[l].held
        IN  login[l].answer = "in" =>
              "local" \in both \/ ("outside" \in login[l].might /\ both \cap Providers # {})

\* A right password is never called wrong: not while a directory that holds it is down,
\* hangs, or stands behind one that refused, nor while other rows are edited
\* (base.py: "the mistake that matters").  SMTP AUTH has one failure for both.
RightIsNotCalledWrong ==
    \A l \in Logins :
        login[l].answer = "wrong" /\ login[l].door # "smtp" => login[l].always = {}

\* A login over IMAP that is told to try later, though a provider after the hanging one
\* would have said yes, is one checkpassword gave up on ("Providers are tried in order
\* until one accepts", registry.py:16).
\* The code does not keep this (README, section 6).
PatientEnough ==
    \A l \in Logins : login[l].answer = "later" /\ login[l].door = "imap" =>
        \A p \in login[l].always : directory[p].health # "up"

\* Whatever its directories do, a login that has begun is answered.
EveryLoginEnds ==
    \A l \in Logins : (login[l].stage = "find") ~> (login[l].stage = "done")
=============================================================================
