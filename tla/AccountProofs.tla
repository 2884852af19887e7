--------------------------- MODULE AccountProofs ---------------------------
(***************************************************************************)
(* Theorems about an account: its logins (ProviderChain), for any number   *)
(* of provider rows and of logins at any of the doors, and of edits and    *)
(* changes of a directory while they are under way; and its filters        *)
(* (MailFilters), for any number of accounts, rules, requests and runs of  *)
(* `lightr dovecot sieve`, on either database, and for any message.        *)
(* The two share nothing but the account.                                  *)
(***************************************************************************)
EXTENDS ProviderChain, MailFilters, FiniteSetTheorems, SequenceTheorems, TLAPS

-----------------------------------------------------------------------------
(* The rows that answer for the domain.                                    *)

\* for_domain and what history reads of the rows agree.
LEMMA RowsThatApply == for_domain = {p \in Rows : Applies(p)}
  <1> DEFINE named == {p \in Enabled : rows[p].covers}
  <1>1. CASE named # {}
    <2>1. for_domain = named
      BY <1>1 DEF for_domain
    <2>2. PICK q \in Enabled : rows[q].covers
      BY <1>1
    <2>3. \A p : p \in named <=> p \in Rows /\ Applies(p)
      BY <2>2 DEF Applies, Enabled
    <2> HIDE DEF named
    <2> QED BY <2>1, <2>3
  <1>2. CASE named = {}
    <2>1. for_domain = {p \in Enabled : rows[p].is_default}
      BY <1>2 DEF for_domain
    <2>2. \A q \in Enabled : ~rows[q].covers
      BY <1>2
    <2>3. \A p : (p \in Enabled /\ rows[p].is_default) <=> p \in Rows /\ Applies(p)
      BY <2>2 DEF Applies, Enabled
    <2> QED BY <2>1, <2>3
  <1> QED BY <1>1, <1>2

LEMMA NamedRows ==
    /\ for_domain # {} => Named = {p \in for_domain : rows[p].known}
    /\ for_domain = {} => Named = IF webhook = "verified" THEN {Legacy} ELSE {}
    /\ for_domain \subseteq Rows
    /\ Named \subseteq Providers
  <1>1. for_domain = {p \in Rows : Applies(p)}
    BY RowsThatApply
  <1> DEFINE applying == {p \in Rows : Applies(p)}
  <1>2. Named = IF applying # {} THEN {p \in applying : rows[p].known}
                ELSE IF webhook = "verified" THEN {Legacy} ELSE {}
    BY DEF Named
  <1>3. applying \subseteq Rows
    OBVIOUS
  <1>4. for_domain = applying
    BY <1>1
  <1> HIDE DEF applying
  <1> QED BY <1>2, <1>3, <1>4 DEF Providers

\* A chain asks every row that answers for the domain, and each of them once.
LEMMA ChainOfAll ==
    ASSUME NEW chain \in InOrder(for_domain)
    PROVE  /\ chain \in Seq(Providers)
           /\ \A i \in DOMAIN chain : chain[i] \in for_domain
           /\ \A p \in for_domain : \E i \in DOMAIN chain : chain[i] = p
           /\ \A i, j \in DOMAIN chain : i < j => chain[i] # chain[j]
  <1> DEFINE R == for_domain  n == Cardinality(R)
  <1>1. R \subseteq Rows
    BY NamedRows
  <1>2. IsFiniteSet(R) /\ n \in Nat
    BY <1>1, ChainAssumption, FS_Subset, FS_CardinalityType
  <1>3. /\ chain \in [1..n -> R]
        /\ \A i, j \in DOMAIN chain : i < j => chain[i] # chain[j]
    BY DEF InOrder
  <1> HIDE DEF R, n
  <1>4. chain \in Injection(1..n, R)
    <2>1. ASSUME NEW i \in 1..n, NEW j \in 1..n, chain[i] = chain[j]
          PROVE  i = j
      BY <1>2, <1>3, <2>1
    <2> QED BY <1>3, <2>1 DEF Injection, IsInjective
  <1>5. Cardinality(1..n) = n
    BY <1>2, FS_Interval
  <1>6. chain \in Surjection(1..n, R)
    BY <1>2, <1>4, <1>5, FS_Injection DEF n
  <1>7. \A p \in R : \E i \in 1..n : chain[i] = p
    BY <1>6 DEF Surjection
  <1>8. chain \in [1..n -> Providers]
    BY <1>1, <1>3 DEF Providers
  <1>9. chain \in Seq(Providers)
    BY <1>2, <1>8, IsASeq
  <1> QED BY <1>3, <1>7, <1>9 DEF R

-----------------------------------------------------------------------------
(* The invariant.                                                          *)

\* What history knows of a login under way takes in what is true now.
Watched(r) ==
    /\ Named \cup Local \cup Outside \subseteq r.might
    /\ Accepting \cup Local \subseteq r.held
    /\ r.always \subseteq (Answerable \cap Accepting) \cup Local

\* A login that has left the account behind it looks outside.  Whoever could have said
\* yes all the time is still to be asked, or was asked and could not answer.
OnItsWay(r) ==
    /\ r.stage \in {"list", "legacy", "ask"} => "outside" \in r.might /\ "local" \notin r.always
    /\ r.stage = "legacy" =>
          r.always \subseteq {Legacy} /\ (webhook = "verified" => Legacy \in r.might)
    /\ r.stage = "ask" =>
          /\ \A i \in DOMAIN r.chain : r.chain[i] \in r.might
          /\ \A p \in r.always :
                p \in r.unavailable \/ \E i \in DOMAIN r.chain : r.chain[i] = p

\* No provider is asked twice.
AskedOnce(r) ==
    /\ \A i, j \in DOMAIN r.chain : i < j => r.chain[i] # r.chain[j]
    /\ \A i \in DOMAIN r.chain : r.chain[i] \notin r.unavailable
    /\ r.stage # "ask" => r.unavailable = {}

Vouched(r) ==
    \/ "local" \in r.might \cap r.held
    \/ "outside" \in r.might /\ r.might \cap r.held \cap Providers # {}

Fine(r) ==
    /\ AskedOnce(r)
    /\ (r.stage = "done") <=> (r.answer # "none")
    /\ r.stage \notin {"new", "done"} => Watched(r) /\ OnItsWay(r)
    /\ r.answer = "in" => Vouched(r)
    /\ r.answer = "wrong" /\ r.door # "smtp" => r.always = {}

Surroundings ==
    /\ account \in Account
    /\ rows \in [Rows -> Row \cup {NoRow}]
    /\ webhook \in {"none", "unverified", "verified"}
    /\ directory \in [Providers -> Directory]
    /\ edits \in 0..MaxEdits /\ turns \in 0..MaxTurns

Inv == Surroundings /\ login \in [Logins -> Login] /\ \A l \in Logins : Fine(login[l])

LEMMA InvImplies == Inv => TypeOK /\ EntryIsVouched /\ RightIsNotCalledWrong
  <1> SUFFICES ASSUME Inv PROVE TypeOK /\ EntryIsVouched /\ RightIsNotCalledWrong
    OBVIOUS
  <1>1. TypeOK
    BY DEF Inv, Surroundings, TypeOK, Fine, AskedOnce
  <1>2. EntryIsVouched
    BY DEF Inv, Fine, Vouched, EntryIsVouched
  <1>3. RightIsNotCalledWrong
    BY DEF Inv, Fine, RightIsNotCalledWrong
  <1> QED BY <1>1, <1>2, <1>3

\* Those who may answer now.
LEMMA Witnesses ==
    /\ Named \subseteq Providers /\ Answerable \subseteq Providers
    /\ Accepting \subseteq Providers /\ Local \subseteq {"local"}
    /\ Outside \subseteq {"outside"}
  <1>1. Named \subseteq Providers
    BY NamedRows
  <1> QED BY <1>1 DEF Answerable, Accepting, Local, Outside

LEMMA NoLoginIsFine == NoLogin \in Login /\ Fine(NoLogin)
  <1>1. /\ NoLogin.stage = "new" /\ NoLogin.answer = "none" /\ NoLogin.chain = <<>>
        /\ NoLogin.unavailable = {}
    BY DEF NoLogin
  <1>2. Fine(NoLogin)
    BY <1>1 DEF Fine, AskedOnce
  <1>3. NoLogin \in Login
    <2>1. <<>> \in Seq(Providers)
      BY EmptySeq
    <2> QED BY <2>1 DEF NoLogin, Login, AllDoors, Answers
  <1> QED BY <1>2, <1>3

LEMMA Starts == Init => Inv
  <1> SUFFICES ASSUME Init PROVE Inv
    OBVIOUS
  <1>1. Surroundings
    BY ChainAssumption DEF Init, Surroundings
  <1>2. login \in [Logins -> Login] /\ \A l \in Logins : login[l] = NoLogin
    BY NoLoginIsFine DEF Init
  <1> QED BY <1>1, <1>2, NoLoginIsFine DEF Inv

\* A login's own step touches no other, and nothing around it.
Around == <<account, rows, webhook, directory, edits, turns>>

LEMMA TurnKeeps ==
    ASSUME Inv, UNCHANGED Around, NEW l \in Logins, NEW r \in Login, Fine(r), Turn(l, r)
    PROVE  Inv'
  <1>1. Surroundings'
    BY DEF Inv, Surroundings, Around
  <1>2. login' \in [Logins -> Login]
    BY DEF Inv, Turn
  <1>3. ASSUME NEW q, Fine(q) PROVE Fine(q)'
    BY <1>3 DEF Fine, AskedOnce, Watched, OnItsWay, Vouched, Around, Named, Applies, Enabled,
                Local, Outside, Accepting, Answerable
  <1>4. ASSUME NEW k \in Logins PROVE Fine(login[k])'
    <2>1. login'[k] = IF k = l THEN r ELSE login[k]
      BY DEF Inv, Turn
    <2>2. Fine(login[k])
      BY DEF Inv
    <2>3. PICK q : q = login'[k]
      OBVIOUS
    <2>4. Fine(q)
      BY <2>1, <2>2, <2>3
    <2>5. Fine(q)'
      BY <2>4, <1>3
    <2> QED BY <2>3, <2>5 DEF Fine, AskedOnce, Watched, OnItsWay, Vouched
  <1> QED BY <1>1, <1>2, <1>4 DEF Inv

-----------------------------------------------------------------------------
(* A login's own steps.                                                    *)

\* What is known of a login that is under way.
LEMMA UnderWay ==
    ASSUME Inv, NEW l \in Logins, Waiting(l)
    PROVE  /\ login[l] \in Login /\ AskedOnce(login[l]) /\ login[l].answer = "none"
           /\ Watched(login[l]) /\ OnItsWay(login[l])
  <1>1. login[l] \in Login /\ Fine(login[l])
    BY DEF Inv
  <1> QED BY <1>1 DEF Waiting, Fine

LEMMA AnswerKeeps ==
    ASSUME Inv, UNCHANGED Around, NEW l \in Logins, Waiting(l),
           NEW answer \in Answers \ {"none"}, Answer(l, answer),
           answer = "in" => Vouched(login[l]),
           answer = "wrong" /\ login[l].door # "smtp" => login[l].always = {}
    PROVE  Inv'
  <1>1. login[l] \in Login
    BY DEF Inv
  <1> DEFINE r == [login[l] EXCEPT !.stage = "done", !.answer = answer, !.chain = <<>>,
                                   !.unavailable = {}, !.spent = 0]
  <1>2. /\ r.stage = "done" /\ r.answer = answer /\ r.chain = <<>>
        /\ r.unavailable = {}
        /\ r.door = login[l].door /\ r.might = login[l].might /\ r.held = login[l].held
        /\ r.always = login[l].always
    BY <1>1 DEF Login
  <1>3. r \in Login
    <2>1. <<>> \in Seq(Providers)
      BY EmptySeq
    <2> QED BY <1>1, <2>1 DEF Login
  <1>4. Turn(l, r)
    BY DEF Answer
  <1> HIDE DEF r
  <1>5. Fine(r)
    BY <1>2 DEF Fine, AskedOnce, Vouched
  <1> QED BY <1>3, <1>4, <1>5, TurnKeeps

LEMMA RefuseKeeps ==
    ASSUME Inv, UNCHANGED Around, NEW l \in Logins, Waiting(l),
           NEW failure \in Failures, Refuse(l, failure),
           failure \notin {"unavailable", "no provider", "raised"} => login[l].always = {}
    PROVE  Inv'
  <1> DEFINE answer == Said(login[l].door, failure)
  <1>1. login[l].door \in AllDoors
    BY DEF Inv, Login
  <1>2. /\ answer \in Answers \ {"none", "in"}
        /\ answer = "wrong" /\ login[l].door # "smtp" =>
              failure \notin {"unavailable", "no provider", "raised"}
    <2>1. CASE failure = "raised"
      BY <1>1, <2>1 DEF Said, Answers, AllDoors
    <2>2. CASE failure # "raised" /\ login[l].door = "smtp"
      BY <2>2 DEF Said, Answers
    <2>3. CASE failure # "raised" /\ login[l].door # "smtp"
      BY <2>3 DEF Said, Answers
    <2> QED BY <2>1, <2>2, <2>3
  <1>3. Answer(l, answer)
    BY DEF Refuse
  <1> HIDE DEF answer
  <1> QED BY <1>2, <1>3, AnswerKeeps

LEMMA BeginKeeps ==
    ASSUME Inv, NEW l \in Logins, NEW door \in Doors, Begin(l, door), UNCHANGED Around
    PROVE  Inv'
  <1> DEFINE r == [NoLogin EXCEPT !.door = door, !.stage = "find",
                                  !.might = Named \cup Local \cup Outside,
                                  !.held = Accepting \cup Local,
                                  !.always = (Answerable \cap Accepting) \cup Local]
  <1>1. Turn(l, r)
    BY DEF Begin
  <1>2. NoLogin \in Login /\ NoLogin.answer = "none" /\ NoLogin.chain = <<>>
        /\ NoLogin.unavailable = {}
    BY NoLoginIsFine DEF NoLogin
  <1>3. door \in AllDoors
    BY ChainAssumption
  <1>4. r \in Login
    BY <1>2, <1>3, Witnesses DEF Login
  <1>5. /\ r.stage = "find" /\ r.answer = "none" /\ r.chain = <<>>
        /\ r.unavailable = {}
        /\ r.might = Named \cup Local \cup Outside
        /\ r.held = Accepting \cup Local
        /\ r.always = (Answerable \cap Accepting) \cup Local
    BY <1>2 DEF Login
  <1> HIDE DEF r
  <1>6. Fine(r)
    BY <1>5 DEF Fine, AskedOnce, Watched, OnItsWay
  <1> QED BY <1>1, <1>4, <1>6, TurnKeeps

LEMMA FindAccountKeeps ==
    ASSUME Inv, NEW l \in Logins, FindAccount(l), UNCHANGED Around
    PROVE  Inv'
  <1>1. Waiting(l) /\ login[l].stage = "find"
    BY DEF FindAccount, Waiting
  <1>2. /\ login[l] \in Login /\ AskedOnce(login[l]) /\ login[l].answer = "none"
        /\ Watched(login[l])
    BY <1>1, UnderWay
  <1>3. account \in Account
    BY DEF Inv, Surroundings
  <1>4. CASE account.mode = "disabled"
    <2>1. Answerable = {} /\ Local = {}
      BY <1>4 DEF Answerable, Local
    <2>2. login[l].always = {}
      BY <1>2, <2>1 DEF Watched
    <2>3. Refuse(l, "disabled")
      BY <1>4 DEF FindAccount
    <2> QED BY <1>1, <2>2, <2>3, RefuseKeeps DEF Failures
  <1>5. CASE account.mode = "external"
    <2> DEFINE r == [login[l] EXCEPT !.stage = "list"]
    <2>1. Turn(l, r)
      BY <1>5 DEF FindAccount
    <2>2. r \in Login
      BY <1>2 DEF Login
    <2>3. /\ r.stage = "list" /\ r.answer = "none" /\ r.chain = login[l].chain
          /\ r.unavailable = login[l].unavailable /\ r.might = login[l].might
          /\ r.held = login[l].held /\ r.always = login[l].always
      BY <1>2 DEF Login
    <2> HIDE DEF r
    <2>4. Watched(r) /\ AskedOnce(r)
      BY <1>1, <1>2, <2>3 DEF Watched, AskedOnce
    <2>5. "outside" \in Outside /\ Local = {}
      BY <1>5 DEF Outside, Local
    <2>6. "local" \notin Answerable
      BY Witnesses, ChainAssumption
    <2>7. OnItsWay(r)
      BY <2>3, <2>4, <2>5, <2>6 DEF OnItsWay, Watched
    <2>8. Fine(r)
      BY <2>3, <2>4, <2>7 DEF Fine
    <2> QED BY <2>1, <2>2, <2>8, TurnKeeps
  <1>6. CASE account.mode = "native" /\ account.hash = "right"
    <2>1. "local" \in Local
      BY <1>6 DEF Local
    <2>2. Vouched(login[l])
      BY <1>2, <2>1 DEF Watched, Vouched
    <2>3. Answer(l, "in")
      BY <1>6 DEF FindAccount, Admit
    <2> QED BY <1>1, <2>2, <2>3, AnswerKeeps DEF Answers
  <1>7. CASE account.mode = "native" /\ account.hash # "right"
    <2>1. Answerable = {} /\ Local = {}
      BY <1>7 DEF Answerable, Local
    <2>2. login[l].always = {}
      BY <1>2, <2>1 DEF Watched
    <2>3. PICK failure \in Failures :
             Refuse(l, failure) /\ failure \notin {"unavailable", "no provider", "raised"}
      <3>1. CASE account.hash = "none"
        BY <1>7, <3>1 DEF FindAccount, Failures
      <3>2. CASE account.hash = "wrong"
        BY <1>7, <3>2 DEF FindAccount, Failures
      <3> QED BY <1>3, <1>7, <3>1, <3>2 DEF Account
    <2> QED BY <1>1, <2>2, <2>3, RefuseKeeps
  <1> QED BY <1>3, <1>4, <1>5, <1>6, <1>7 DEF Account

LEMMA ListProvidersKeeps ==
    ASSUME Inv, NEW l \in Logins, ListProviders(l), UNCHANGED Around
    PROVE  Inv'
  <1>1. Waiting(l) /\ login[l].stage = "list"
    BY DEF ListProviders, Waiting
  <1>2. /\ login[l] \in Login /\ AskedOnce(login[l]) /\ login[l].answer = "none"
        /\ Watched(login[l]) /\ OnItsWay(login[l])
    BY <1>1, UnderWay
  <1>3. login[l].always \subseteq Named
    <2>1. "local" \notin login[l].always
      BY <1>1, <1>2 DEF OnItsWay
    <2> QED BY <1>2, <2>1 DEF Watched, Answerable, Local
  <1>4. CASE for_domain = {} /\ Turn(l, [login[l] EXCEPT !.stage = "legacy"])
    <2> DEFINE r == [login[l] EXCEPT !.stage = "legacy"]
    <2>1. r \in Login
      BY <1>2 DEF Login
    <2>2. /\ r.stage = "legacy" /\ r.answer = "none" /\ r.chain = login[l].chain
          /\ r.unavailable = login[l].unavailable /\ r.might = login[l].might
          /\ r.held = login[l].held /\ r.always = login[l].always
      BY <1>2 DEF Login
    <2>3. Turn(l, r)
      BY <1>4
    <2> HIDE DEF r
    <2>4. Watched(r) /\ AskedOnce(r)
      BY <1>1, <1>2, <2>2 DEF Watched, AskedOnce
    <2>5. r.always \subseteq {Legacy}
      BY <1>3, <1>4, <2>2, NamedRows
    <2>6. webhook = "verified" => Legacy \in r.might
      BY <1>4, <2>4, NamedRows DEF Watched
    <2>7. OnItsWay(r)
      BY <1>1, <1>2, <2>2, <2>5, <2>6 DEF OnItsWay
    <2>8. Fine(r)
      BY <2>2, <2>4, <2>7 DEF Fine
    <2> QED BY <2>1, <2>3, <2>8, TurnKeeps
  <1>5. CASE Refuse(l, "raised")
    BY <1>1, <1>5, RefuseKeeps DEF Failures
  <1>6. ASSUME for_domain # {}, Sound, NEW chain \in InOrder(for_domain),
               Turn(l, [login[l] EXCEPT !.stage = "ask", !.chain = chain])
        PROVE  Inv'
    <2> DEFINE r == [login[l] EXCEPT !.stage = "ask", !.chain = chain]
    <2>1. /\ chain \in Seq(Providers)
          /\ \A i \in DOMAIN chain : chain[i] \in for_domain
          /\ \A p \in for_domain : \E i \in DOMAIN chain : chain[i] = p
          /\ \A i, j \in DOMAIN chain : i < j => chain[i] # chain[j]
      BY ChainOfAll
    <2>2. r \in Login
      BY <1>2, <2>1 DEF Login
    <2>3. /\ r.stage = "ask" /\ r.answer = "none" /\ r.chain = chain
          /\ r.unavailable = login[l].unavailable /\ r.might = login[l].might
          /\ r.held = login[l].held /\ r.always = login[l].always
      BY <1>2 DEF Login
    <2>4. Turn(l, r)
      BY <1>6
    <2> HIDE DEF r
    <2>5. Named = for_domain
      BY <1>6, NamedRows DEF Sound
    <2>6. Watched(r)
      BY <1>2, <2>3 DEF Watched
    <2>7. login[l].unavailable = {}
      BY <1>1, <1>2 DEF AskedOnce
    <2>8. AskedOnce(r)
      BY <2>1, <2>3, <2>7 DEF AskedOnce
    <2>9. OnItsWay(r)
      <3>1. \A i \in DOMAIN chain : chain[i] \in r.might
        BY <2>1, <2>5, <2>6 DEF Watched
      <3>2. \A p \in r.always : \E i \in DOMAIN chain : chain[i] = p
        BY <1>3, <2>1, <2>3, <2>5
      <3> QED BY <1>1, <1>2, <2>3, <3>1, <3>2 DEF OnItsWay
    <2>10. Fine(r)
      BY <2>3, <2>6, <2>8, <2>9 DEF Fine
    <2> QED BY <2>2, <2>4, <2>10, TurnKeeps
  <1> QED BY <1>4, <1>5, <1>6 DEF ListProviders

LEMMA LegacyWebhookKeeps ==
    ASSUME Inv, NEW l \in Logins, LegacyWebhook(l), UNCHANGED Around
    PROVE  Inv'
  <1>1. Waiting(l) /\ login[l].stage = "legacy"
    BY DEF LegacyWebhook, Waiting
  <1>2. /\ login[l] \in Login /\ AskedOnce(login[l]) /\ login[l].answer = "none"
        /\ Watched(login[l]) /\ OnItsWay(login[l])
    BY <1>1, UnderWay
  <1>3. CASE webhook = "verified"
    <2> DEFINE r == [login[l] EXCEPT !.stage = "ask", !.chain = <<Legacy>>]
    <2>1. Turn(l, r)
      BY <1>3 DEF LegacyWebhook
    <2>2. <<Legacy>> \in Seq(Providers)
      BY DEF Providers
    <2>3. r \in Login
      BY <1>2, <2>2 DEF Login
    <2>4. /\ r.stage = "ask" /\ r.answer = "none" /\ r.chain = <<Legacy>>
          /\ r.unavailable = {} /\ r.might = login[l].might
          /\ r.held = login[l].held /\ r.always = login[l].always
      BY <1>1, <1>2 DEF Login, AskedOnce
    <2> HIDE DEF r
    <2>5. Watched(r) /\ AskedOnce(r)
      BY <1>2, <2>4 DEF Watched, AskedOnce
    <2>6. OnItsWay(r)
      <3>1. Legacy \in r.might
        BY <1>1, <1>2, <1>3, <2>4 DEF OnItsWay
      <3>2. r.always \subseteq {Legacy} /\ "outside" \in r.might /\ "local" \notin r.always
        BY <1>1, <1>2, <2>4 DEF OnItsWay
      <3>3. DOMAIN r.chain = {1} /\ r.chain[1] = Legacy
        BY <2>4
      <3> QED BY <2>4, <3>1, <3>2, <3>3 DEF OnItsWay
    <2>7. Fine(r)
      BY <2>4, <2>5, <2>6 DEF Fine
    <2> QED BY <2>1, <2>3, <2>7, TurnKeeps
  <1>4. CASE webhook # "verified"
    <2>1. Refuse(l, "no provider")
      BY <1>4 DEF LegacyWebhook
    <2> QED BY <1>1, <2>1, RefuseKeeps DEF Failures
  <1> QED BY <1>3, <1>4

LEMMA AskKeeps ==
    ASSUME Inv, NEW l \in Logins, Ask(l), UNCHANGED Around
    PROVE  Inv'
  <1> DEFINE p == Head(login[l].chain)  spent == login[l].spent + Spent(p)
  <1>1. Waiting(l) /\ login[l].stage = "ask" /\ login[l].chain # <<>>
    BY DEF Ask, Waiting
  <1>2. /\ login[l] \in Login /\ AskedOnce(login[l]) /\ login[l].answer = "none"
        /\ Watched(login[l]) /\ OnItsWay(login[l])
    BY <1>1, UnderWay
  <1>3. login[l].chain \in Seq(Providers) /\ Len(login[l].chain) \in Nat \ {0}
    BY <1>1, <1>2 DEF Login
  <1>4. /\ p \in Providers /\ p = login[l].chain[1] /\ 1 \in DOMAIN login[l].chain
        /\ p \in login[l].might
    <2>1. p \in Providers /\ p = login[l].chain[1] /\ 1 \in DOMAIN login[l].chain
      BY <1>1, <1>3
    <2> QED BY <1>1, <1>2, <2>1 DEF OnItsWay
  <1>5. /\ Tail(login[l].chain) \in Seq(Providers)
        /\ Len(Tail(login[l].chain)) = Len(login[l].chain) - 1
        /\ \A i \in 1..Len(login[l].chain) - 1 : Tail(login[l].chain)[i] = login[l].chain[i + 1]
    BY <1>1, <1>3, HeadTailProperties
  <1>6. CASE Answer(l, "later")
    BY <1>1, <1>6, AnswerKeeps DEF Answers
  <1>7. CASE directory[p].health = "up" /\ directory[p].accepts /\ Admit(l)
    <2>1. p \in login[l].held
      BY <1>2, <1>4, <1>7 DEF Watched, Accepting
    <2>2. Vouched(login[l])
      BY <1>1, <1>2, <1>4, <2>1 DEF OnItsWay, Vouched
    <2> QED BY <1>1, <1>7, <2>2, AnswerKeeps DEF Answers, Admit
  <1>8. ASSUME ~(directory[p].health = "up" /\ directory[p].accepts),
               Turn(l, [login[l] EXCEPT !.chain = Tail(@), !.spent = spent,
                                        !.unavailable = @ \cup Unavailable(p)])
        PROVE  Inv'
    <2> DEFINE r == [login[l] EXCEPT !.chain = Tail(@), !.spent = spent,
                                     !.unavailable = @ \cup Unavailable(p)]
    <2>1. spent \in Nat
      <3>1. Timeout[p] \in Nat
        BY <1>4, ChainAssumption
      <3>2. Spent(p) \in Nat
        BY <3>1 DEF Spent
      <3> QED BY <1>2, <3>2 DEF Login
    <2>2. Unavailable(p) \subseteq {p} /\ (directory[p].health # "up" => p \in Unavailable(p))
      BY DEF Unavailable
    <2>3. Turn(l, r)
      BY <1>8
    <2> HIDE DEF p, spent
    <2>4. r \in Login
      <3>1. login[l].unavailable \cup Unavailable(p) \subseteq Providers
        BY <1>2, <1>4, <2>2 DEF Login
      <3> QED BY <1>2, <1>5, <2>1, <3>1 DEF Login
    <2>5. /\ r.stage = "ask" /\ r.answer = "none" /\ r.chain = Tail(login[l].chain)
          /\ r.unavailable = login[l].unavailable \cup Unavailable(p)
          /\ r.might = login[l].might /\ r.held = login[l].held /\ r.always = login[l].always
      BY <1>1, <1>2 DEF Login
    <2> HIDE DEF r
    <2>6. DOMAIN r.chain = 1..Len(login[l].chain) - 1
      BY <1>5, <2>5
    <2>7. \A i \in DOMAIN r.chain :
              i + 1 \in DOMAIN login[l].chain /\ r.chain[i] = login[l].chain[i + 1]
      BY <1>3, <1>5, <2>5, <2>6
    <2>8. Watched(r)
      BY <1>2, <2>5 DEF Watched
    <2>9. AskedOnce(r)
      <3>1. \A i, j \in DOMAIN r.chain : i < j => r.chain[i] # r.chain[j]
        BY <1>2, <1>3, <2>6, <2>7 DEF AskedOnce
      <3>2. ASSUME NEW i \in DOMAIN r.chain PROVE r.chain[i] \notin r.unavailable
        <4>1. r.chain[i] \notin login[l].unavailable
          BY <1>2, <2>7 DEF AskedOnce
        <4>2. 1 < i + 1
          BY <1>3, <2>6
        <4>3. login[l].chain[i + 1] # login[l].chain[1]
          BY <1>2, <1>4, <2>7, <4>2 DEF AskedOnce
        <4> QED BY <1>4, <2>2, <2>5, <2>7, <4>1, <4>3
      <3> QED BY <2>5, <3>1, <3>2 DEF AskedOnce
    <2>10. OnItsWay(r)
      <3>1. \A i \in DOMAIN r.chain : r.chain[i] \in r.might
        BY <1>1, <1>2, <2>5, <2>7 DEF OnItsWay
      <3>2. ASSUME NEW q \in r.always
            PROVE  q \in r.unavailable \/ \E i \in DOMAIN r.chain : r.chain[i] = q
        <4>1. CASE q \in login[l].unavailable
          BY <2>5, <4>1
        <4>2. ASSUME NEW i \in DOMAIN login[l].chain, login[l].chain[i] = q, i # 1
              PROVE  \E j \in DOMAIN r.chain : r.chain[j] = q
          <5>1. i - 1 \in DOMAIN r.chain /\ (i - 1) + 1 = i
            BY <1>3, <2>6, <4>2
          <5> QED BY <2>7, <4>2, <5>1
        <4>3. CASE q = p
          <5>1. q \in Accepting \cup Local
            BY <1>2, <2>5 DEF Watched
          <5>2. q # "local"
            BY <1>4, <4>3, ChainAssumption
          <5>3. directory[p].accepts
            BY <4>3, <5>1, <5>2 DEF Accepting, Local
          <5> QED BY <1>8, <2>2, <2>5, <4>3, <5>3
        <4> QED BY <1>1, <1>2, <1>4, <2>5, <4>1, <4>2, <4>3 DEF OnItsWay
      <3> QED BY <1>1, <1>2, <2>5, <3>1, <3>2 DEF OnItsWay
    <2>11. Fine(r)
      BY <2>5, <2>8, <2>9, <2>10 DEF Fine
    <2> QED BY <2>3, <2>4, <2>11, TurnKeeps
  <1> QED BY <1>6, <1>7, <1>8 DEF Ask

LEMMA NobodyAcceptsKeeps ==
    ASSUME Inv, NEW l \in Logins, NobodyAccepts(l), UNCHANGED Around
    PROVE  Inv'
  <1>1. Waiting(l) /\ login[l].stage = "ask" /\ login[l].chain = <<>>
    BY DEF NobodyAccepts, Waiting
  <1>2. OnItsWay(login[l])
    BY <1>1, UnderWay
  <1>3. login[l].unavailable = {} => login[l].always = {}
    BY <1>1, <1>2 DEF OnItsWay
  <1>4. CASE login[l].unavailable # {}
    BY <1>1, <1>4, RefuseKeeps DEF NobodyAccepts, Failures
  <1>5. CASE login[l].unavailable = {}
    BY <1>1, <1>3, <1>5, RefuseKeeps DEF NobodyAccepts, Failures
  <1> QED BY <1>4, <1>5

-----------------------------------------------------------------------------
(* The others' steps.  Each adds what is true after it to the history of   *)
(* every login under way.                                                  *)

LEMMA OthersKeepTypes ==
    ASSUME Inv, Others
    PROVE  Surroundings' /\ webhook' = webhook
  <1>1. Surroundings
    BY DEF Inv
  <1>2. edits + 1 \in Nat /\ turns + 1 \in Nat
    BY <1>1, ChainAssumption DEF Surroundings
  <1>3. ASSUME Edit PROVE /\ edits' \in 0..MaxEdits /\ turns' \in 0..MaxTurns
                          /\ directory' \in [Providers -> Directory]
    BY <1>1, <1>3, ChainAssumption DEF Edit, Surroundings
  <1>4. ASSUME NEW p \in Rows, NEW covers \in BOOLEAN, NEW is_default \in BOOLEAN,
               create(p, covers, is_default)
        PROVE  Surroundings' /\ webhook' = webhook
    <2>1. [enabled |-> TRUE, priority |-> 1, covers |-> covers, is_default |-> is_default,
           known |-> TRUE] \in Row
      BY DEF Row
    <2>2. rows' \in [Rows -> Row \cup {NoRow}]
      BY <1>1, <1>4, <2>1 DEF create, Surroundings
    <2> QED BY <1>1, <1>3, <1>4, <2>2 DEF create, Surroundings
  <1>5. ASSUME NEW p \in Rows, NEW values \in Row, update(p, values)
        PROVE  Surroundings' /\ webhook' = webhook
    <2>1. rows' \in [Rows -> Row \cup {NoRow}]
      BY <1>1, <1>5 DEF update, Surroundings
    <2> QED BY <1>1, <1>3, <1>5, <2>1 DEF update, Surroundings
  <1>6. ASSUME NEW p \in Rows, delete(p)
        PROVE  Surroundings' /\ webhook' = webhook
    <2>1. rows' \in [Rows -> Row \cup {NoRow}]
      BY <1>1, <1>6 DEF delete, Surroundings
    <2> QED BY <1>1, <1>3, <1>6, <2>1 DEF delete, Surroundings
  <1>7. ASSUME NEW values \in Account, SwitchAccount(values)
        PROVE  Surroundings' /\ webhook' = webhook
    BY <1>1, <1>3, <1>7 DEF SwitchAccount, Surroundings
  <1>8. ASSUME NEW p \in Providers, NEW d \in Directory, DirectoryChanges(p, d)
        PROVE  Surroundings' /\ webhook' = webhook
    BY <1>1, <1>8, ChainAssumption DEF DirectoryChanges, Surroundings
  <1> QED BY <1>4, <1>5, <1>6, <1>7, <1>8 DEF Others

LEMMA OthersKeep ==
    ASSUME Inv, Others, Witnessed
    PROVE  Inv'
  <1>1. Surroundings' /\ webhook' = webhook
    BY OthersKeepTypes
  <1>2. /\ Named' \subseteq Providers /\ Answerable' \subseteq Providers
        /\ Accepting' \subseteq Providers /\ Local' \subseteq {"local"}
        /\ Outside' \subseteq {"outside"}
    <2>1. Named' \subseteq Providers
      BY DEF Named, Providers
    <2> QED BY <2>1 DEF Answerable, Accepting, Local, Outside
  <1>3. ASSUME NEW l \in Logins
        PROVE  login'[l] \in Login /\ Fine(login[l])'
    <2>1. login[l] \in Login /\ Fine(login[l])
      BY DEF Inv
    <2>2. CASE ~Waiting(l)
      <3>1. login'[l] = login[l]
        BY <2>2 DEF Witnessed
      <3>2. login[l].stage \in {"new", "done"}
        BY <2>2 DEF Waiting
      <3> QED BY <2>1, <3>1, <3>2 DEF Fine, AskedOnce, Vouched
    <2>3. CASE Waiting(l)
      <3> DEFINE r == Witness(login[l])
      <3>1. login'[l] = r
        BY <2>3 DEF Witnessed
      <3>2. r \in Login
        BY <1>2, <2>1 DEF Witness, Login
      <3>3. /\ r.stage = login[l].stage /\ r.answer = login[l].answer
            /\ r.chain = login[l].chain /\ r.unavailable = login[l].unavailable
            /\ r.might = login[l].might \cup Named' \cup Local' \cup Outside'
            /\ r.held = login[l].held \cup Accepting' \cup Local'
            /\ r.always = login[l].always \cap ((Answerable' \cap Accepting') \cup Local')
        BY <2>1 DEF Witness, Login
      <3> HIDE DEF r
      <3>4. Watched(login[l])'
        BY <3>1, <3>3 DEF Watched
      <3>5. OnItsWay(login[l]) /\ login[l].answer = "none" /\ AskedOnce(login[l])
        BY <2>3, UnderWay
      <3>6. OnItsWay(login[l])'
        BY <1>1, <3>1, <3>3, <3>5 DEF OnItsWay
      <3>7. AskedOnce(login[l])'
        BY <3>1, <3>3, <3>5 DEF AskedOnce
      <3>8. login'[l].answer = "none" /\ login'[l].stage # "done"
        BY <2>3, <3>1, <3>3, <3>5 DEF Waiting
      <3> QED BY <3>1, <3>2, <3>4, <3>6, <3>7, <3>8 DEF Fine
    <2> QED BY <2>2, <2>3
  <1>4. login' \in [Logins -> Login]
    BY <1>3 DEF Witnessed
  <1> QED BY <1>1, <1>3, <1>4 DEF Inv

-----------------------------------------------------------------------------
(* The theorems.                                                           *)

LEMMA StepsKeep == Inv /\ [Next]_vars => Inv'
  <1> SUFFICES ASSUME Inv, [Next]_vars PROVE Inv'
    OBVIOUS
  <1>1. ASSUME NEW l \in Logins, NEW door \in Doors, Begin(l, door), UNCHANGED Around
        PROVE  Inv'
    BY <1>1, BeginKeeps
  <1>2. ASSUME NEW l \in Logins, LoginStep(l)
        PROVE  Inv'
    <2>1. UNCHANGED Around
      BY <1>2 DEF LoginStep, Around
    <2>2. CASE FindAccount(l)
      BY <2>1, <2>2, FindAccountKeeps
    <2>3. CASE ListProviders(l)
      BY <2>1, <2>3, ListProvidersKeeps
    <2>4. CASE LegacyWebhook(l)
      BY <2>1, <2>4, LegacyWebhookKeeps
    <2>5. CASE Ask(l)
      BY <2>1, <2>5, AskKeeps
    <2>6. CASE NobodyAccepts(l)
      BY <2>1, <2>6, NobodyAcceptsKeeps
    <2> QED BY <1>2, <2>2, <2>3, <2>4, <2>5, <2>6 DEF LoginStep
  <1>3. CASE Others /\ Witnessed
    BY <1>3, OthersKeep
  <1>4. CASE UNCHANGED vars
    BY <1>4 DEF Inv, Surroundings, Fine, AskedOnce, Watched, OnItsWay, Vouched, vars, Named,
                Applies, Enabled, Local, Outside, Accepting, Answerable
  <1> QED BY <1>1, <1>2, <1>3, <1>4 DEF Next, Around

\* Whatever the operator and the directories do, the state stays well formed: a login asks
\* no provider twice, and none of those still to be asked has failed it.
THEOREM TypesAreKept == Spec => []TypeOK
  <1>1. Spec => []Inv
    BY Starts, StepsKeep, PTL DEF Spec
  <1> QED BY <1>1, InvImplies, PTL

\* Whoever gets in was vouched for while the login lasted: by a provider the rows named
\* then for the account's domain and that held the password then, or by the account's
\* own hash (Authenticator.authenticate, registry.authenticate), for any number of rows.
THEOREM WhoeverEntersIsVouchedFor == Spec => []EntryIsVouched
  <1>1. Spec => []Inv
    BY Starts, StepsKeep, PTL DEF Spec
  <1> QED BY <1>1, InvImplies, PTL

\* A password that some provider of the account's accepted all along is never called wrong
\* at Dovecot's door or the API's: everyone who answers for the domain is asked, and
\* one that cannot answer is remembered (registry.authenticate, _authenticate_external).
THEOREM TheRightPasswordIsNotWrong == Spec => []RightIsNotCalledWrong
  <1>1. Spec => []Inv
    BY Starts, StepsKeep, PTL DEF Spec
  <1> QED BY <1>1, InvImplies, PTL

-----------------------------------------------------------------------------
(* The filters: what is kept beside the properties.                        *)

\* A script is on its way to the mailbox.
Installing(j) == job[j].stage \in {"put", "activate", "copy", "stamp", "installed"}

\* What a job has in hand at each stage.
OnTrack(j) ==
    /\ job[j].stage = "idle" => job[j].work.kind = "none"
    /\ AtWork(j) /\ job[j].work.kind # "sieve" => job[j].owner = job[j].work.owner
    /\ AtWork(j) /\ job[j].stage # "next" => job[j].owner \in Accounts
    /\ job[j].stage = "next" => job[j].work.kind = "sieve"
    /\ job[j].stage = "write" => job[j].rule \in Rule /\ job[j].work.kind \in {"create", "update"}
    /\ ~AtWork(j) \/ job[j].stage = "write" => DOMAIN job[j].mine = {}
    /\ job[j].stage \in {"idle", "new"} => ~job[j].handed
    /\ AtWork(j) => (job[j].handed <=> Installing(j))

\* Whoever is alone on a mailbox is the only one there.
Solo ==
    \A j \in Jobs : \A k \in Jobs \ {j} :
        AtWork(j) /\ AtWork(k) => job[j].alone \cap Touches(k) = {}

\* No row is written by two transactions at a time; on SQLite, one transaction writes.
Exclusive ==
    \A j \in Jobs : \A k \in Jobs \ {j} :
        /\ DOMAIN job[j].mine \cap DOMAIN job[k].mine = {}
        /\ scene.database = "sqlite" => ~(Writing(j) /\ Writing(k))

\* A rule that is to be created is not there, and nobody has found it.
IdsAreNew ==
    \A j \in Jobs : job[j].work.kind = "create" /\ job[j].stage # "done" =>
        /\ rules[job[j].work.id] = NoRule
        /\ \A k \in Jobs : job[k].work.kind \in {"update", "delete"} /\ AtWork(k) =>
                job[k].work.id # job[j].work.id

\* The row that a request is about, as it has written it.
Edited(j) ==
    LET work == job[j].work
        mine == job[j].mine[work.id]
        row  == rules[work.id]
    IN  CASE work.kind = "create" -> mine # NoRule /\ mine.owner = work.owner /\ mine.rule = work.rule
          [] work.kind = "delete" -> mine = NoRule /\ row # NoRule /\ row.owner = work.owner
          [] work.kind = "update" ->
                 /\ mine # NoRule /\ row # NoRule /\ mine.owner = work.owner /\ row.owner = work.owner
                 /\ scene.database = "sqlite" => mine.rule = Merged(row.rule, work.rule)

\* What a transaction has written of other rows: no more than the stamp.
OnlyStamped(j, i) ==
    LET mine == job[j].mine[i]
    IN  /\ mine # NoRule /\ rules[i] # NoRule
        /\ mine.owner = rules[i].owner /\ mine.rule = rules[i].rule
        /\ job[j].work.kind # "sieve" => mine.owner = job[j].work.owner

Written(j) ==
    AtWork(j) =>
        \A i \in DOMAIN job[j].mine :
            IF job[j].work.kind # "sieve" /\ i = job[j].work.id THEN Edited(j) ELSE OnlyStamped(j, i)

\* What a request is about to write, and that it has written it.
Meant(j) ==
    LET work == job[j].work
    IN  /\ job[j].stage = "write" /\ work.kind = "create" => job[j].rule = work.rule
        /\ job[j].stage = "write" /\ work.kind = "update" =>
             /\ rules[work.id] # NoRule => rules[work.id].owner = work.owner
             /\ scene.database = "sqlite" =>
                  /\ rules[work.id] # NoRule
                  /\ job[j].rule = Merged(rules[work.id].rule, work.rule)
        /\ AtWork(j) /\ job[j].stage # "write"
           /\ (work.kind \in {"create", "delete"} \/ (work.kind = "update" /\ scene.database = "sqlite"))
           => work.id \in DOMAIN job[j].mine

\* What a job that nobody joined installs is what its transaction sees, and what it has
\* installed is in force.
InHand(j) ==
    Installing(j) /\ job[j].owner \in job[j].alone =>
        /\ job[j].script = compile_script(rules_for(j, job[j].owner))
        /\ job[j].stage \in {"stamp", "installed"} => Effective(job[j].owner) = job[j].script

JobIsRight(j) == OnTrack(j) /\ Written(j) /\ Meant(j) /\ InHand(j)

\* A mailbox that is settled has its script, as long as nobody is installing another.
InForce ==
    \A a \in settled :
        (\A j \in Jobs : Installing(j) => job[j].owner # a)
            => Effective(a) = compile_script(Owned(rules, a))

\* What is remembered of the message.
Followed ==
    last # NoMail =>
        /\ last.mail \in Message /\ last.verdict = analyse(last.mail, FALSE)
        /\ last.filed = Filed(last.script,
                              apply(last.mail, last.verdict, spam_action(last.verdict, last.owner)))

FiltersInv ==
    /\ FiltersTypeOK /\ (\A j \in Jobs : JobIsRight(j))
    /\ Solo /\ Exclusive /\ IdsAreNew /\ InForce /\ EditsAreKept /\ Followed

-----------------------------------------------------------------------------
(* Rules, rows and tables. *)

\* A row is there or not.
LEMMA RowsAreThere == ASSUME NEW r \in FilterRow PROVE r # NoRule
  BY FilterAssumption

\* A body makes a rule of any rule (update_filter).
LEMMA MergedIsRule ==
    ASSUME NEW c \in Rule, NEW b, Merged(spam_rule, b) \in Rule
    PROVE  Merged(c, b) \in Rule
  <1> DEFINE d == Merged(spam_rule, b)
             m == Merged(c, b)
             F == {"name", "priority", "conditions", "match_type", "actions",
                   "stop_on_match", "is_active"}
  <1>1. DOMAIN spam_rule = F /\ DOMAIN c = F
    BY DEF spam_rule, Rule
  <1>2. \A f \in F : m[f] = IF f \in DOMAIN b THEN d[f] ELSE c[f]
    BY <1>1 DEF Merged
  <1>3. m = [name |-> m.name, priority |-> m.priority, conditions |-> m.conditions,
             match_type |-> m.match_type, actions |-> m.actions,
             stop_on_match |-> m.stop_on_match, is_active |-> m.is_active]
    <2>1. m = [f \in F |-> m[f]]
      BY <1>1 DEF Merged
    <2> HIDE DEF m
    <2> QED BY <2>1
  <1> HIDE DEF m, d, F
  <1>4. /\ m.name \in Int /\ m.priority \in Int /\ m.conditions \in Seq(Condition)
        /\ m.match_type \in STRING /\ m.actions \in Seq(STRING \X STRING)
        /\ m.stop_on_match \in BOOLEAN /\ m.is_active \in BOOLEAN
    BY <1>2 DEF Rule, F, d
  <1>5. m \in Rule
    BY <1>3, <1>4 DEF Rule
  <1> QED BY <1>5 DEF m

\* What a mailbox's rules are depends on its rows alone.
LEMMA OwnedIsLocal ==
    ASSUME NEW t, NEW u, NEW a,
           \A i \in Ids : /\ t[i] # NoRule /\ t[i].owner = a <=> u[i] # NoRule /\ u[i].owner = a
                          /\ t[i] # NoRule /\ t[i].owner = a => t[i].rule = u[i].rule
    PROVE  Owned(t, a) = Owned(u, a)
  <1>1. \A r : r \in Owned(t, a) => r \in Owned(u, a)
    BY DEF Owned
  <1>2. \A r : r \in Owned(u, a) => r \in Owned(t, a)
    BY DEF Owned
  <1> QED BY <1>1, <1>2

\* What a job that does not move is.
LEMMA OthersAre ==
    ASSUME NEW k \in Jobs, job'[k] = job[k]
    PROVE  /\ AtWork(k)' <=> AtWork(k)
           /\ Installing(k)' <=> Installing(k)
           /\ Touches(k)' = Touches(k)
           /\ Writing(k)' <=> Writing(k)
  BY DEF AtWork, Installing, Touches, Writing

\* What a request touches.
LEMMA TouchesAre ==
    ASSUME FiltersTypeOK, NEW j \in Jobs, job[j].stage # "idle"
    PROVE  /\ job[j].work.kind \in {"create", "update", "delete", "sieve"}
           /\ job[j].work.kind # "sieve" => /\ Touches(j) = {job[j].work.owner}
                                            /\ job[j].work.owner \in Accounts
                                            /\ job[j].work.id \in Ids
           /\ job[j].work.kind = "sieve" => Touches(j) = Accounts
           /\ job[j].work.kind = "create" => job[j].work.rule \in Rule
           /\ job[j].work.kind = "update" => Merged(spam_rule, job[j].work.rule) \in Rule
  <1>1. scene \in Scenarios /\ j \in DOMAIN scene.work /\ job[j].work = scene.work[j]
    BY DEF FiltersTypeOK
  <1>2. IsWork(job[j].work)
    BY <1>1, FilterAssumption
  <1> HIDE DEF FiltersTypeOK
  <1> QED BY <1>2 DEF IsWork, Touches

\* A job at work is on the mailbox it touches.
LEMMA OwnerIsTouched ==
    ASSUME FiltersTypeOK, NEW j \in Jobs, OnTrack(j), AtWork(j), job[j].stage # "next"
    PROVE  job[j].owner \in Touches(j) /\ job[j].owner \in Accounts
  BY TouchesAre DEF OnTrack, AtWork

-----------------------------------------------------------------------------
(* The start. *)

\* The invariant holds at the start, where every mailbox whose rules compile has their script.
LEMMA FiltersStart == FiltersInit => FiltersInv
  <1> SUFFICES ASSUME FiltersInit PROVE FiltersInv
    OBVIOUS
  <1>1. /\ DOMAIN scene = {"rules", "work", "mail", "database", "doveadm"}
        /\ scene.rules \in [Ids -> FilterRow \cup {NoRule}] /\ DOMAIN scene.work \subseteq Jobs
        /\ \A j \in DOMAIN scene.work :
             /\ IsWork(scene.work[j])
             /\ scene.work[j].kind = "create" => scene.rules[scene.work[j].id] = NoRule
    BY FilterAssumption DEF FiltersInit
  <1>2. DOMAIN job = Jobs
    BY DEF FiltersInit
  <1>3. \A j \in Jobs :
          /\ DOMAIN job[j] = DOMAIN Idle
          /\ job[j].stage = IF j \in DOMAIN scene.work THEN "new" ELSE "idle"
          /\ job[j].work = IF j \in DOMAIN scene.work THEN scene.work[j] ELSE [kind |-> "none"]
          /\ job[j].mine = <<>> /\ job[j].todo = {} /\ job[j].alone = {} /\ job[j].answer = 0
          /\ job[j].handed = FALSE
    BY DEF FiltersInit, Idle
  <1>4. \A j \in Jobs : ~AtWork(j) /\ ~Installing(j) /\ DOMAIN job[j].mine = {} /\ ~Writing(j)
                        /\ job[j].stage # "write"
    BY <1>3 DEF AtWork, Installing, Writing
  <1>5. FiltersTypeOK
    <2>1. DOMAIN store = Accounts
      BY DEF FiltersInit
    <2>2. \A a \in Accounts : /\ DOMAIN store[a] = {"stored", "active", "file"}
                              /\ store[a].active \in {"none", "link", "file"}
      BY DEF FiltersInit, Installed
    <2>3. faults \in 0..MaxFaults
      <3>1. faults = 0 /\ MaxFaults \in Nat
        BY FilterAssumption DEF FiltersInit
      <3> QED BY <3>1
    <2>5. scene \in Scenarios /\ settled \subseteq Accounts
      BY DEF FiltersInit
    <2>6. ASSUME NEW j \in Jobs
          PROVE  /\ DOMAIN job[j] = DOMAIN Idle
                 /\ job[j].stage \in FilterStages /\ job[j].answer \in {0, 200, 400, 404, 500, 502}
                 /\ DOMAIN job[j].mine = {}
                 /\ job[j].todo \subseteq Accounts /\ job[j].alone \subseteq Accounts
                 /\ job[j].handed \in BOOLEAN
                 /\ job[j].stage # "idle" => j \in DOMAIN scene.work /\ job[j].work = scene.work[j]
      <3>1. job[j].stage = IF j \in DOMAIN scene.work THEN "new" ELSE "idle"
        BY <1>3
      <3>2. job[j].stage \in FilterStages
        BY <3>1 DEF FilterStages
      <3>3. job[j].stage # "idle" => j \in DOMAIN scene.work /\ job[j].work = scene.work[j]
        BY <1>3, <3>1
      <3>4. /\ DOMAIN job[j] = DOMAIN Idle /\ job[j].answer = 0 /\ job[j].todo = {}
            /\ job[j].alone = {} /\ job[j].handed = FALSE
        BY <1>3
      <3>5. DOMAIN job[j].mine = {}
        BY <1>4
      <3> QED BY <3>2, <3>3, <3>4, <3>5
    <2>4. {rules, expected} \subseteq [Ids -> FilterRow \cup {NoRule}]
      BY <1>1 DEF FiltersInit
    <2> QED BY <1>2, <2>1, <2>2, <2>3, <2>4, <2>5, <2>6 DEF FiltersTypeOK
  <1>6. Solo /\ Exclusive
    BY <1>3, <1>4 DEF Solo, Exclusive
  <1>7. IdsAreNew
    <2>1. rules = scene.rules
      BY DEF FiltersInit
    <2>2. ASSUME NEW j \in Jobs, job[j].work.kind = "create"
          PROVE  rules[job[j].work.id] = NoRule
      BY <1>1, <1>3, <2>1, <2>2
    <2> QED BY <1>4, <2>2 DEF IdsAreNew
  <1>11. ASSUME NEW j \in Jobs PROVE JobIsRight(j)
    BY <1>3, <1>4 DEF JobIsRight, OnTrack, Written, Meant, InHand
  <1>8. InForce
    <2>1. ASSUME NEW a \in Accounts, store[a].active # "none"
          PROVE  Effective(a) = compile_script(Owned(rules, a))
      BY <2>1 DEF FiltersInit, Installed, Effective
    <2> QED BY <2>1 DEF InForce, FiltersInit
  <1>9. EditsAreKept
    BY DEF EditsAreKept, FiltersInit
  <1>10. Followed
    BY DEF Followed, FiltersInit
  <1> QED BY <1>5, <1>6, <1>7, <1>8, <1>9, <1>10, <1>11 DEF FiltersInv

-----------------------------------------------------------------------------
(* What stays. *)

\* Edits are kept, and the message is remembered, by whatever changes none of what they are about.
LEMMA RecordsStay ==
    ASSUME EditsAreKept, Followed, UNCHANGED <<scene, rules, expected, last>>
    PROVE  EditsAreKept' /\ Followed'
  <1>1. scene' = scene /\ rules' = rules /\ expected' = expected /\ last' = last
    OBVIOUS
  <1>2. EditsAreKept'
    BY <1>1 DEF EditsAreKept
  <1>3. Followed'
    BY <1>1 DEF Followed
  <1> QED BY <1>2, <1>3

\* What a job that does not move has in hand stays right, as long as the table is as it
\* was and whoever changes a script is on another mailbox or with others.
LEMMA OthersStay ==
    ASSUME FiltersInv, NEW j \in Jobs, NEW k \in Jobs \ {j}, UNCHANGED <<rules, scene>>,
           job'[k] = job[k] \/ job'[k] = [job[k] EXCEPT !.alone = job'[k].alone],
           job'[k].alone \subseteq job[k].alone,
           \/ UNCHANGED store
           \/ /\ Installing(j)
              /\ \A a \in Accounts \ {job[j].owner} : store'[a] = store[a]
    PROVE  JobIsRight(k)'
  <1>1. FiltersTypeOK /\ JobIsRight(j) /\ JobIsRight(k) /\ Solo
    BY DEF FiltersInv
  <1>2. /\ job'[k].stage = job[k].stage /\ job'[k].work = job[k].work /\ job'[k].mine = job[k].mine
        /\ job'[k].owner = job[k].owner /\ job'[k].rule = job[k].rule
        /\ job'[k].script = job[k].script /\ job'[k].handed = job[k].handed
    BY <1>1 DEF FiltersTypeOK, Idle
  <1>3. (AtWork(k)' <=> AtWork(k)) /\ (Installing(k)' <=> Installing(k))
    BY <1>2 DEF AtWork, Installing
  <1>4. OnTrack(k)' /\ Meant(k)'
    BY <1>1, <1>2, <1>3 DEF JobIsRight, OnTrack, Meant
  <1>5. Written(k)'
    <2> SUFFICES ASSUME AtWork(k)', NEW i \in DOMAIN job'[k].mine
                 PROVE  (IF job[k].work.kind # "sieve" /\ i = job[k].work.id
                         THEN Edited(k) ELSE OnlyStamped(k, i))'
      BY <1>2 DEF Written
    <2>1. IF job[k].work.kind # "sieve" /\ i = job[k].work.id THEN Edited(k) ELSE OnlyStamped(k, i)
      BY <1>1, <1>2, <1>3 DEF JobIsRight, Written
    <2>2. Edited(k)' = Edited(k) /\ OnlyStamped(k, i)' = OnlyStamped(k, i)
      BY <1>2 DEF Edited, OnlyStamped
    <2> QED BY <1>2, <2>1, <2>2
  <1>6. InHand(k)'
    <2> SUFFICES ASSUME Installing(k), job[k].owner \in job[k].alone
                 PROVE  InHand(k)'
      BY <1>2, <1>3 DEF InHand
    <2>1. rules_for(k, job[k].owner)' = rules_for(k, job[k].owner)
      BY <1>2 DEF rules_for, View
    <2>2. Effective(job[k].owner)' = Effective(job[k].owner)
      <3>1. CASE UNCHANGED store
        BY <1>2, <3>1 DEF Effective
      <3>2. CASE /\ Installing(j)
                 /\ \A a \in Accounts \ {job[j].owner} : store'[a] = store[a]
        <4>1. AtWork(j) /\ AtWork(k) /\ job[j].stage # "next" /\ job[k].stage # "next"
          BY <3>2 DEF AtWork, Installing
        <4>2. job[j].owner \in Touches(j) /\ job[k].owner \in Accounts
          BY <1>1, <4>1, OwnerIsTouched DEF JobIsRight
        <4>3. job[k].owner # job[j].owner
          BY <1>1, <4>1, <4>2 DEF Solo
        <4> QED BY <1>2, <3>2, <4>2, <4>3 DEF Effective
      <3> QED BY <3>1, <3>2
    <2> QED BY <1>1, <1>2, <2>1, <2>2 DEF JobIsRight, InHand
  <1> QED BY <1>4, <1>5, <1>6 DEF JobIsRight

\* Job j goes on, and no other.
Moves(j) ==
    /\ AtWork(j) /\ DOMAIN job' = Jobs /\ \A k \in Jobs \ {j} : job'[k] = job[k]
    /\ DOMAIN job'[j] = DOMAIN Idle /\ job'[j].work = job[j].work /\ job'[j].alone = job[j].alone
    /\ UNCHANGED scene

\* Nobody joins, and no new id is found.
LEMMA MovesKeep ==
    ASSUME FiltersInv, NEW j \in Jobs, Moves(j)
    PROVE  /\ Solo'
           /\ DOMAIN job'[j].mine \subseteq DOMAIN job[j].mine => Exclusive'
           /\ UNCHANGED rules => IdsAreNew'
           /\ \A k \in Jobs \ {j} : job'[k].alone = job[k].alone
  <1>1. \A k \in Jobs \ {j} : /\ AtWork(k)' <=> AtWork(k)
                              /\ Touches(k)' = Touches(k)
                              /\ Writing(k)' <=> Writing(k)
    BY OthersAre DEF Moves
  <1>2. Touches(j)' = Touches(j) /\ AtWork(j)
    BY DEF Moves, Touches
  <1>3. Solo'
    BY <1>1, <1>2 DEF FiltersInv, Moves, Solo
  <1>4. ASSUME DOMAIN job'[j].mine \subseteq DOMAIN job[j].mine
        PROVE  Exclusive'
    <2>1. Writing(j)' => Writing(j)
      BY <1>2, <1>4 DEF Moves, Writing
    <2> QED BY <1>1, <1>4, <2>1 DEF FiltersInv, Exclusive, Moves
  <1>5. ASSUME UNCHANGED rules
        PROVE  IdsAreNew'
    <2>1. job[j].stage # "done"
      BY <1>2 DEF AtWork
    <2> QED BY <1>1, <1>2, <1>5, <2>1 DEF FiltersInv, IdsAreNew, Moves
  <1> QED BY <1>3, <1>4, <1>5 DEF Moves

\* The types of what a moving job may change.
LEMMA TypesMove ==
    ASSUME FiltersTypeOK, NEW j \in Jobs, Moves(j),
           job'[j].stage \in FilterStages, job'[j].answer \in {0, 200, 400, 404, 500, 502},
           DOMAIN job'[j].mine \subseteq Ids,
           \A i \in DOMAIN job'[j].mine : job'[j].mine[i] \in FilterRow \cup {NoRule},
           job'[j].todo \subseteq Accounts, job'[j].handed \in BOOLEAN,
           {rules', expected'} \subseteq [Ids -> FilterRow \cup {NoRule}],
           settled' \subseteq Accounts, faults' \in 0..MaxFaults, DOMAIN store' = Accounts,
           \A a \in Accounts : /\ DOMAIN store'[a] = {"stored", "active", "file"}
                               /\ store'[a].active \in {"none", "link", "file"}
    PROVE  FiltersTypeOK'
  <1>1. ASSUME NEW k \in Jobs
        PROVE  /\ DOMAIN job'[k] = DOMAIN Idle
               /\ job'[k].stage \in FilterStages
               /\ job'[k].answer \in {0, 200, 400, 404, 500, 502}
               /\ DOMAIN job'[k].mine \subseteq Ids
               /\ \A i \in DOMAIN job'[k].mine : job'[k].mine[i] \in FilterRow \cup {NoRule}
               /\ job'[k].todo \subseteq Accounts /\ job'[k].alone \subseteq Accounts
               /\ job'[k].handed \in BOOLEAN
               /\ job'[k].stage # "idle" => k \in DOMAIN scene.work /\ job'[k].work = scene.work[k]
    <2>1. CASE k = j
      <3>1. job[j].stage # "idle"
        BY DEF Moves, AtWork
      <3> QED BY <2>1, <3>1 DEF FiltersTypeOK, Moves
    <2>2. CASE k # j
      BY <2>2 DEF FiltersTypeOK, Moves
    <2> QED BY <2>1, <2>2
  <1>2. scene' \in Scenarios /\ DOMAIN job' = Jobs /\ scene' = scene
    BY DEF FiltersTypeOK, Moves
  <1> QED BY <1>1, <1>2 DEF FiltersTypeOK

-----------------------------------------------------------------------------
(* Requests begin. *)

\* What a request may answer when it does nothing.
Errors == {400, 404, 500, 502}

\* A request that ends where it begins.
LEMMA TurnedKeeps ==
    ASSUME FiltersInv, NEW j \in Jobs, job[j].stage = "new", NEW c \in Errors, Turned(j, c),
           UNCHANGED <<scene, rules, store, faults, expected, settled, last>>
    PROVE  FiltersInv'
  <1>0. /\ FiltersTypeOK /\ JobIsRight(j) /\ Solo /\ Exclusive /\ IdsAreNew /\ InForce
        /\ EditsAreKept /\ Followed
    BY DEF FiltersInv
  <1>1. /\ DOMAIN job' = Jobs /\ \A k \in Jobs \ {j} : job'[k] = job[k]
        /\ DOMAIN job'[j] = DOMAIN Idle
        /\ job'[j].stage = "done" /\ job'[j].work = job[j].work /\ job'[j].mine = job[j].mine
        /\ job'[j].answer = c /\ job'[j].todo = job[j].todo /\ job'[j].alone = job[j].alone
        /\ job'[j].handed = job[j].handed
    BY <1>0 DEF Turned, FiltersTypeOK, Idle
  <1>2. /\ ~AtWork(j)' /\ ~Installing(j)' /\ DOMAIN job[j].mine = {} /\ ~Writing(j)'
        /\ ~AtWork(j) /\ ~Installing(j)
    BY <1>0, <1>1 DEF AtWork, Installing, Writing, JobIsRight, OnTrack
  <1>3. \A k \in Jobs \ {j} : /\ AtWork(k)' <=> AtWork(k)
                              /\ Installing(k)' <=> Installing(k)
                              /\ Touches(k)' = Touches(k)
                              /\ Writing(k)' <=> Writing(k)
    BY <1>1, OthersAre
  <1>4. FiltersTypeOK'
    BY <1>0, <1>1 DEF FiltersTypeOK, FilterStages, Errors
  <1>5. Solo' /\ Exclusive'
    BY <1>0, <1>1, <1>2, <1>3 DEF Solo, Exclusive
  <1>6. IdsAreNew'
    BY <1>0, <1>1, <1>2, <1>3 DEF IdsAreNew
  <1>7. JobIsRight(j)'
    BY <1>1, <1>2 DEF JobIsRight, OnTrack, Written, Meant, InHand
  <1>8. \A k \in Jobs : JobIsRight(k)'
    BY <1>1, <1>7, OthersStay
  <1>9. InForce'
    BY <1>0, <1>1, <1>2, <1>3 DEF InForce, Effective
  <1>10. EditsAreKept' /\ Followed'
    BY <1>0, RecordsStay
  <1> QED BY <1>4, <1>5, <1>6, <1>8, <1>9, <1>10 DEF FiltersInv

\* A job that begins is alone where nobody is at work, and ends the others' being alone.
LEMMA JoinsKeep ==
    ASSUME FiltersInv, NEW j \in Jobs, job[j].stage = "new", DOMAIN job' = Jobs,
           job'[j].work = job[j].work,
           \A k \in Jobs : job'[k].alone = Joined(j)[k],
           \A k \in Jobs \ {j} : /\ job'[k] = [job[k] EXCEPT !.alone = job'[k].alone]
                                 /\ job'[k].alone \subseteq job[k].alone
                                 /\ AtWork(k)' <=> AtWork(k)
                                 /\ Touches(k)' = Touches(k)
    PROVE  Solo'
  <1>1. Touches(j)' = Touches(j)
    BY DEF Touches
  <1>2. \A k \in Jobs \ {j} : AtWork(k) =>
            /\ job'[k].alone \cap Touches(j) = {} /\ job'[j].alone \cap Touches(k) = {}
    <2> SUFFICES ASSUME NEW k \in Jobs \ {j}, AtWork(k)
                 PROVE  job'[k].alone \cap Touches(j) = {} /\ job'[j].alone \cap Touches(k) = {}
      OBVIOUS
    <2>1. job'[k].alone = Joined(j)[k] /\ job'[j].alone = Joined(j)[j]
      OBVIOUS
    <2>2. Joined(j)[k] = job[k].alone \ Touches(j)
      BY DEF Joined
    <2>3. Joined(j)[j] = Touches(j) \ UNION {Touches(o) : o \in {o \in Jobs \ {j} : AtWork(o)}}
      BY DEF Joined
    <2>4. Touches(k) \subseteq UNION {Touches(o) : o \in {o \in Jobs \ {j} : AtWork(o)}}
      BY Zenon
    <2>5. job'[k].alone \cap Touches(j) = {}
      BY ONLY <2>1, <2>2
    <2>6. job'[j].alone \cap Touches(k) = {}
      BY ONLY <2>1, <2>3, <2>4
    <2> QED BY <2>5, <2>6
  <1> QED BY <1>1, <1>2 DEF Solo, FiltersInv

\* What beginning leaves of the other jobs.
LEMMA OthersJoined ==
    ASSUME FiltersInv, NEW j \in Jobs, NEW k \in Jobs \ {j},
           job'[k] = [job[k] EXCEPT !.alone = Joined(j)[k]]
    PROVE  /\ job'[k] = [job[k] EXCEPT !.alone = job'[k].alone]
           /\ job'[k].alone = Joined(j)[k] /\ job'[k].alone \subseteq job[k].alone
           /\ DOMAIN job'[k] = DOMAIN job[k]
           /\ job'[k].stage = job[k].stage /\ job'[k].work = job[k].work
           /\ job'[k].mine = job[k].mine /\ job'[k].owner = job[k].owner
           /\ job'[k].todo = job[k].todo /\ job'[k].handed = job[k].handed
           /\ job'[k].answer = job[k].answer
           /\ AtWork(k)' <=> AtWork(k)
           /\ Installing(k)' <=> Installing(k)
           /\ Touches(k)' = Touches(k)
           /\ Writing(k)' <=> Writing(k)
  <1>1. DOMAIN job[k] = DOMAIN Idle
    BY DEF FiltersInv, FiltersTypeOK
  <1>2. job'[k].alone = Joined(j)[k] /\ DOMAIN job'[k] = DOMAIN job[k]
    BY <1>1 DEF Idle
  <1>3. /\ job'[k].stage = job[k].stage /\ job'[k].work = job[k].work
        /\ job'[k].mine = job[k].mine /\ job'[k].owner = job[k].owner
        /\ job'[k].todo = job[k].todo /\ job'[k].handed = job[k].handed
        /\ job'[k].answer = job[k].answer
    BY <1>1 DEF Idle
  <1>4. Joined(j)[k] \subseteq job[k].alone
    BY DEF Joined
  <1> QED BY <1>2, <1>3, <1>4 DEF AtWork, Installing, Touches, Writing

\* A request begins to write, or has deleted its row.
LEMMA EditBegins ==
    ASSUME FiltersInv, NEW j \in Jobs, job[j].stage = "new", MayBegin(j),
           NEW kind, job[j].work.kind = kind, kind \in {"create", "update", "delete"},
           NEW stage, NEW rule, NEW mine, BeginEdit(j, stage, rule, mine),
           kind = "delete" => /\ stage = "compile" /\ Unlocked(j, {job[j].work.id})
                              /\ mine = [i \in {job[j].work.id} |-> NoRule],
           kind # "delete" => stage = "write" /\ rule \in Rule /\ mine = <<>>,
           kind = "create" => rule = job[j].work.rule,
           kind # "create" => /\ rules[job[j].work.id] # NoRule
                              /\ rules[job[j].work.id].owner = job[j].work.owner,
           kind = "update" => rule = Merged(rules[job[j].work.id].rule, job[j].work.rule),
           UNCHANGED <<scene, rules, store, faults, expected, settled, last>>
    PROVE  FiltersInv'
  <1> DEFINE id == job[j].work.id
  <1>0. /\ FiltersTypeOK /\ JobIsRight(j) /\ Solo /\ Exclusive /\ IdsAreNew /\ InForce
        /\ EditsAreKept /\ Followed /\ \A k \in Jobs : JobIsRight(k)
    BY DEF FiltersInv
  <1>1. /\ DOMAIN job' = Jobs /\ DOMAIN job'[j] = DOMAIN Idle
        /\ job'[j].stage = stage /\ job'[j].work = job[j].work /\ job'[j].mine = mine
        /\ job'[j].rule = rule /\ job'[j].owner = job[j].work.owner
        /\ job'[j].answer = job[j].answer /\ job'[j].todo = job[j].todo
        /\ job'[j].alone = Joined(j)[j] /\ job'[j].handed = job[j].handed
    <2>1. /\ job'[j] = [job[j] EXCEPT !.stage = stage, !.rule = rule, !.alone = Joined(j)[j],
                                     !.owner = job[j].work.owner, !.mine = mine,
                                     !.before = Effective(job[j].work.owner)]
          /\ DOMAIN job' = Jobs
      BY DEF BeginEdit
    <2>2. DOMAIN job[j] = DOMAIN Idle
      BY <1>0 DEF FiltersTypeOK
    <2> QED BY <2>1, <2>2 DEF Idle
  <1>2. ASSUME NEW k \in Jobs \ {j}
        PROVE  job'[k] = [job[k] EXCEPT !.alone = Joined(j)[k]]
    BY DEF BeginEdit
  <1>3. ASSUME NEW k \in Jobs \ {j}
        PROVE  /\ job'[k] = [job[k] EXCEPT !.alone = job'[k].alone]
               /\ job'[k].alone = Joined(j)[k] /\ job'[k].alone \subseteq job[k].alone
               /\ DOMAIN job'[k] = DOMAIN job[k]
               /\ job'[k].stage = job[k].stage /\ job'[k].work = job[k].work
               /\ job'[k].mine = job[k].mine /\ job'[k].owner = job[k].owner
               /\ job'[k].todo = job[k].todo /\ job'[k].handed = job[k].handed
               /\ job'[k].answer = job[k].answer
               /\ AtWork(k)' <=> AtWork(k)
               /\ Installing(k)' <=> Installing(k)
               /\ Touches(k)' = Touches(k)
               /\ Writing(k)' <=> Writing(k)
    BY <1>2, OthersJoined
  <1>4. /\ id \in Ids /\ job[j].work.owner \in Accounts
        /\ AtWork(j)' /\ ~AtWork(j) /\ ~Installing(j) /\ ~Installing(j)'
        /\ DOMAIN job[j].mine = {} /\ DOMAIN mine \subseteq {id}
        /\ ~job[j].handed /\ kind # "sieve"
    BY <1>0, <1>1, TouchesAre DEF AtWork, Installing, JobIsRight, OnTrack
  <1>5. FiltersTypeOK'
    <2>1. Joined(j)[j] \subseteq Accounts
      BY <1>0, TouchesAre DEF Joined, FiltersTypeOK
    <2>2. \A i \in DOMAIN mine : mine[i] = NoRule
      BY <1>4
    <2>3. stage \in FilterStages
      BY DEF FilterStages
    <2> QED BY <1>0, <1>1, <1>3, <1>4, <2>1, <2>2, <2>3 DEF FiltersTypeOK
  <1>6. Solo'
    BY <1>1, <1>3, JoinsKeep
  <1>7. Exclusive'
    <2>1. \A k \in Jobs \ {j} : Writing(k) => scene.database # "sqlite"
      BY DEF MayBegin
    <2>2. \A k \in Jobs \ {j} : DOMAIN mine \cap DOMAIN job[k].mine = {}
      <3>1. ASSUME NEW k \in Jobs \ {j}, kind = "delete", id \in DOMAIN job[k].mine
            PROVE  FALSE
        <4>1. AtWork(k)
          BY <1>0, <3>1 DEF JobIsRight, OnTrack
        <4>2. Writing(k)
          BY <3>1, <4>1 DEF Writing
        <4> QED BY <3>1, <4>2 DEF Unlocked
      <3> QED BY <1>4, <3>1
    <2> QED BY <1>0, <1>1, <1>3, <2>1, <2>2 DEF Exclusive
  <1>8. IdsAreNew'
    BY <1>0, <1>1, <1>3, <1>4 DEF IdsAreNew
  <1>9. JobIsRight(j)'
    <2>1. OnTrack(j)'
      BY <1>1, <1>4 DEF OnTrack
    <2>2. Written(j)'
      <3>1. CASE kind = "delete"
        <4>1. Edited(j)'
          BY <1>1, <1>4, <3>1 DEF Edited
        <4> QED BY <1>1, <1>4, <4>1 DEF Written
      <3>2. CASE kind # "delete"
        BY <1>1, <3>2 DEF Written
      <3> QED BY <3>1, <3>2
    <2>3. Meant(j)'
      BY <1>1, <1>4 DEF Meant
    <2>4. InHand(j)'
      BY <1>4 DEF InHand
    <2> QED BY <2>1, <2>2, <2>3, <2>4 DEF JobIsRight
  <1>10. \A k \in Jobs : JobIsRight(k)'
    BY <1>3, <1>9, OthersStay
  <1>11. InForce'
    BY <1>0, <1>1, <1>3, <1>4 DEF InForce, Effective
  <1>12. EditsAreKept' /\ Followed'
    BY <1>0, RecordsStay
  <1> QED BY <1>5, <1>6, <1>7, <1>8, <1>10, <1>11, <1>12 DEF FiltersInv

\* `lightr dovecot sieve` begins.
LEMMA InstallAllKeeps ==
    ASSUME FiltersInv, NEW j \in Jobs, install_all(j)
    PROVE  FiltersInv'
  <1>0. /\ FiltersTypeOK /\ JobIsRight(j) /\ Solo /\ Exclusive /\ IdsAreNew /\ InForce
        /\ EditsAreKept /\ Followed /\ \A k \in Jobs : JobIsRight(k)
    BY DEF FiltersInv
  <1>1. /\ DOMAIN job' = Jobs /\ DOMAIN job'[j] = DOMAIN Idle
        /\ job'[j].stage = "next" /\ job'[j].work = job[j].work /\ job'[j].mine = job[j].mine
        /\ job'[j].answer = job[j].answer /\ job'[j].todo = Accounts
        /\ job'[j].alone = Joined(j)[j] /\ job'[j].handed = job[j].handed
    <2>1. /\ job'[j] = [job[j] EXCEPT !.alone = Joined(j)[j], !.stage = "next", !.todo = Accounts]
          /\ DOMAIN job' = Jobs
      <3>1. job' = [k \in Jobs |->
                       [job[k] EXCEPT !.alone = Joined(j)[k],
                                      !.stage = IF k = j THEN "next" ELSE @,
                                      !.todo = IF k = j THEN Accounts ELSE @]]
        BY Zenon DEF install_all
      <3> QED BY ONLY <3>1, j \in Jobs
    <2>2. DOMAIN job[j] = DOMAIN Idle
      BY <1>0 DEF FiltersTypeOK
    <2> QED BY <2>1, <2>2 DEF Idle
  <1>2. ASSUME NEW k \in Jobs \ {j}
        PROVE  job'[k] = [job[k] EXCEPT !.alone = Joined(j)[k]]
    <2>1. DOMAIN job[k] = DOMAIN Idle
      BY <1>0 DEF FiltersTypeOK
    <2>2. job'[k] = [job[k] EXCEPT !.alone = Joined(j)[k], !.stage = job[k].stage, !.todo = job[k].todo]
      BY <2>1 DEF install_all, Idle
    <2> QED BY <2>1, <2>2
  <1>3. ASSUME NEW k \in Jobs \ {j}
        PROVE  /\ job'[k] = [job[k] EXCEPT !.alone = job'[k].alone]
               /\ job'[k].alone = Joined(j)[k] /\ job'[k].alone \subseteq job[k].alone
               /\ DOMAIN job'[k] = DOMAIN job[k]
               /\ job'[k].stage = job[k].stage /\ job'[k].work = job[k].work
               /\ job'[k].mine = job[k].mine /\ job'[k].owner = job[k].owner
               /\ job'[k].todo = job[k].todo /\ job'[k].handed = job[k].handed
               /\ job'[k].answer = job[k].answer
               /\ AtWork(k)' <=> AtWork(k)
               /\ Installing(k)' <=> Installing(k)
               /\ Touches(k)' = Touches(k)
               /\ Writing(k)' <=> Writing(k)
    BY <1>2, OthersJoined
  <1>4. /\ job[j].stage = "new" /\ job[j].work.kind = "sieve"
        /\ UNCHANGED <<scene, rules, store, faults, expected, settled, last>>
    BY DEF install_all
  <1>5. /\ AtWork(j)' /\ ~AtWork(j) /\ ~Installing(j) /\ ~Installing(j)'
        /\ DOMAIN job[j].mine = {} /\ ~Writing(j)' /\ ~job[j].handed
    BY <1>0, <1>1, <1>4 DEF AtWork, Installing, JobIsRight, OnTrack, Writing
  <1>6. FiltersTypeOK'
    <2>1. Joined(j)[j] \subseteq Accounts
      BY <1>0, <1>4, TouchesAre DEF Joined, FiltersTypeOK
    <2> QED BY <1>0, <1>1, <1>3, <1>4, <1>5, <2>1 DEF FiltersTypeOK, FilterStages
  <1>7. Solo'
    BY <1>1, <1>3, <1>4, JoinsKeep
  <1>8. Exclusive'
    BY <1>0, <1>1, <1>3, <1>4, <1>5 DEF Exclusive
  <1>9. IdsAreNew'
    BY <1>0, <1>1, <1>3, <1>4, <1>5 DEF IdsAreNew
  <1>10. JobIsRight(j)'
    BY <1>1, <1>4, <1>5 DEF JobIsRight, OnTrack, Written, Meant, InHand
  <1>11. \A k \in Jobs : JobIsRight(k)'
    BY <1>3, <1>4, <1>10, OthersStay
  <1>12. InForce'
    BY <1>0, <1>1, <1>3, <1>4, <1>5 DEF InForce, Effective
  <1>13. EditsAreKept' /\ Followed'
    BY <1>0, <1>4 DEF EditsAreKept, Followed
  <1> QED BY <1>6, <1>7, <1>8, <1>9, <1>11, <1>12, <1>13 DEF FiltersInv

\* The requests, as they begin.
LEMMA RequestsBegin ==
    ASSUME FiltersInv, NEW j \in Jobs,
           create_filter(j) \/ update_filter(j) \/ delete_filter(j)
    PROVE  FiltersInv'
  <1> DEFINE work == job[j].work
             row  == rules[work.id]
  <1>0. FiltersTypeOK
    BY DEF FiltersInv
  <1>1. /\ job[j].stage = "new" /\ MayBegin(j)
        /\ UNCHANGED <<scene, rules, store, faults, expected, settled, last>>
    BY DEF create_filter, update_filter, delete_filter, Requested
  <1>2. /\ work.kind = "create" => work.rule \in Rule
        /\ work.kind = "update" => Merged(spam_rule, work.rule) \in Rule
        /\ work.kind # "sieve" => work.id \in Ids
    BY <1>0, <1>1, TouchesAre
  <1>3. CASE create_filter(j)
    <2>1. work.kind = "create"
      BY <1>3 DEF create_filter, Requested
    <2>2. Turned(j, 400) \/ BeginEdit(j, "write", work.rule, <<>>)
      BY <1>3 DEF create_filter
    <2>3. CASE Turned(j, 400)
      BY <1>1, <2>3, TurnedKeeps DEF Errors
    <2>4. CASE BeginEdit(j, "write", work.rule, <<>>)
      <3>1. work.rule \in Rule
        BY <1>2, <2>1
      <3> HIDE DEF row
      <3> QED BY <1>1, <2>1, <2>4, <3>1, EditBegins
    <2> QED BY <2>2, <2>3, <2>4
  <1>4. CASE update_filter(j)
    <2>1. work.kind = "update"
      BY <1>4 DEF update_filter, Requested
    <2>2. \/ Turned(j, 400) \/ Turned(j, 404)
          \/ /\ row # NoRule /\ row.owner = work.owner
             /\ BeginEdit(j, "write", Merged(row.rule, work.rule), <<>>)
      BY <1>4 DEF update_filter
    <2>3. row # NoRule => Merged(row.rule, work.rule) \in Rule
      <3>1. row \in FilterRow \cup {NoRule}
        BY <1>0, <1>2, <2>1 DEF FiltersTypeOK
      <3> QED BY <1>2, <2>1, <3>1, MergedIsRule DEF FilterRow
    <2>4. CASE Turned(j, 400) \/ Turned(j, 404)
      <3>1. PICK c \in Errors : Turned(j, c)
        BY <2>4 DEF Errors
      <3> QED BY <1>1, <3>1, TurnedKeeps
    <2>5. CASE /\ row # NoRule /\ row.owner = work.owner
               /\ BeginEdit(j, "write", Merged(row.rule, work.rule), <<>>)
      <3> DEFINE new == Merged(row.rule, work.rule)
      <3>1. /\ work.kind \in {"create", "update", "delete"} /\ new \in Rule
            /\ new = Merged(rules[work.id].rule, work.rule) /\ BeginEdit(j, "write", new, <<>>)
            /\ rules[work.id] # NoRule /\ rules[work.id].owner = work.owner
        BY <2>1, <2>3, <2>5
      <3> HIDE DEF new, row
      <3> QED BY <1>1, <2>1, <3>1, EditBegins
    <2> QED BY <2>2, <2>4, <2>5
  <1>5. CASE delete_filter(j)
    <2>1. work.kind = "delete" /\ Unlocked(j, {work.id})
      BY <1>5 DEF delete_filter, Requested
    <2>2. \/ Turned(j, 404)
          \/ /\ row # NoRule /\ row.owner = work.owner
             /\ BeginEdit(j, "compile", NoRule, [i \in {work.id} |-> NoRule])
      BY <1>5 DEF delete_filter
    <2>3. CASE Turned(j, 404)
      BY <1>1, <2>3, TurnedKeeps DEF Errors
    <2>4. CASE /\ row # NoRule /\ row.owner = work.owner
               /\ BeginEdit(j, "compile", NoRule, [i \in {work.id} |-> NoRule])
      <3> DEFINE new == [i \in {work.id} |-> NoRule]
      <3>1. /\ work.kind \in {"create", "update", "delete"} /\ BeginEdit(j, "compile", NoRule, new)
            /\ rules[work.id] # NoRule /\ rules[work.id].owner = work.owner
            /\ new = [i \in {job[j].work.id} |-> NoRule] /\ Unlocked(j, {job[j].work.id})
        BY <2>1, <2>4
      <3> HIDE DEF new
      <3> QED BY <1>1, <2>1, <3>1, EditBegins
    <2> QED BY <2>2, <2>3, <2>4
  <1> QED BY <1>3, <1>4, <1>5

-----------------------------------------------------------------------------
(* A job goes on. *)

\* A row is written (FilterRepo.create and update).
LEMMA WriteKeeps ==
    ASSUME FiltersInv, NEW j \in Jobs, Write(j)
    PROVE  FiltersInv'
  <1> DEFINE work == job[j].work
             row  == rules[work.id]
             new  == IF work.kind = "create"
                     THEN [i \in {work.id} |-> [owner |-> work.owner, rule |-> job[j].rule,
                                                stamped |-> FALSE]]
                     ELSE IF row = NoRule THEN <<>>
                     ELSE [i \in {work.id} |-> [row EXCEPT !.rule = job[j].rule]]
  <1>0. /\ FiltersTypeOK /\ JobIsRight(j) /\ Exclusive /\ InForce /\ EditsAreKept /\ Followed
        /\ \A k \in Jobs : JobIsRight(k)
    BY DEF FiltersInv
  <1>1. /\ job[j].stage = "write" /\ Unlocked(j, {work.id})
        /\ UNCHANGED <<scene, rules, store, faults, expected, settled, last>>
    BY DEF Write
  <1>2. /\ DOMAIN job' = Jobs /\ \A k \in Jobs \ {j} : job'[k] = job[k]
        /\ DOMAIN job'[j] = DOMAIN Idle
        /\ job'[j].stage = "compile" /\ job'[j].work = work /\ job'[j].alone = job[j].alone
        /\ job'[j].mine = new /\ job'[j].owner = job[j].owner /\ job'[j].todo = job[j].todo
        /\ job'[j].handed = job[j].handed /\ job'[j].answer = job[j].answer
    <2>1. /\ DOMAIN job[j] = DOMAIN Idle /\ DOMAIN job = Jobs
      BY <1>0 DEF FiltersTypeOK
    <2> QED BY <2>1 DEF Write, Idle
  <1>3. /\ AtWork(j) /\ AtWork(j)' /\ ~Installing(j) /\ ~Installing(j)'
    BY <1>1, <1>2 DEF AtWork, Installing
  <1>4. Moves(j)
    BY <1>1, <1>2, <1>3 DEF Moves
  <1>5. /\ work.kind \in {"create", "update"} /\ job[j].rule \in Rule
        /\ work.id \in Ids /\ work.owner \in Accounts /\ row \in FilterRow \cup {NoRule}
        /\ job[j].owner = work.owner
    BY <1>0, <1>1, <1>3, TouchesAre DEF JobIsRight, OnTrack, FiltersTypeOK
  <1>6. /\ DOMAIN new \subseteq {work.id}
        /\ work.id \in DOMAIN new =>
             /\ new[work.id] \in FilterRow /\ new[work.id].owner = work.owner
             /\ new[work.id].rule = job[j].rule
             /\ work.kind = "update" => row # NoRule
        /\ (work.kind = "create" \/ row # NoRule) => work.id \in DOMAIN new
    <2>1. CASE work.kind = "create"
      BY <1>5, <2>1 DEF FilterRow
    <2>2. CASE work.kind = "update" /\ row = NoRule
      BY <2>2
    <2>3. CASE work.kind = "update" /\ row # NoRule
      <3>1. row \in FilterRow /\ row.owner = work.owner
        BY <1>0, <1>1, <1>5, <2>3 DEF JobIsRight, Meant
      <3>2. /\ [row EXCEPT !.rule = job[j].rule] \in FilterRow
            /\ [row EXCEPT !.rule = job[j].rule].owner = work.owner
            /\ [row EXCEPT !.rule = job[j].rule].rule = job[j].rule
        BY <1>5, <3>1 DEF FilterRow
      <3>3. new = [i \in {work.id} |-> [row EXCEPT !.rule = job[j].rule]]
        BY <2>3
      <3> HIDE DEF row, new
      <3> QED BY <2>3, <3>2, <3>3
    <2> QED BY <1>5, <2>1, <2>2, <2>3
  <1> HIDE DEF new
  <1>7. FiltersTypeOK'
    BY <1>0, <1>1, <1>2, <1>5, <1>6 DEF FiltersTypeOK, FilterStages
  <1>8. Solo' /\ IdsAreNew'
    BY <1>1, <1>4, MovesKeep
  <1>9. Exclusive'
    <2>1. \A k \in Jobs \ {j} : /\ AtWork(k)' <=> AtWork(k)
                                /\ Writing(k)' <=> Writing(k)
      BY <1>2, OthersAre
    <2>2. Writing(j)
      BY <1>3, <1>5 DEF Writing
    <2>3. ASSUME NEW k \in Jobs \ {j}, work.id \in DOMAIN job[k].mine
          PROVE  FALSE
      <3>1. AtWork(k)
        BY <1>0, <2>3 DEF JobIsRight, OnTrack
      <3>2. Writing(k)
        BY <2>3, <3>1 DEF Writing
      <3> QED BY <1>1, <2>3, <3>2 DEF Unlocked
    <2> QED BY <1>0, <1>1, <1>2, <1>6, <2>1, <2>2, <2>3 DEF Exclusive
  <1>10. JobIsRight(j)'
    <2>1. OnTrack(j)'
      BY <1>0, <1>2, <1>3, <1>5 DEF OnTrack, JobIsRight
    <2>2. Written(j)'
      <3>1. ASSUME work.id \in DOMAIN new
            PROVE  Edited(j)'
        <4>1. new[work.id] # NoRule
          BY <1>6, <3>1, RowsAreThere
        <4>2. CASE work.kind = "create"
          BY <1>0, <1>1, <1>2, <1>6, <3>1, <4>1, <4>2 DEF Edited, JobIsRight, Meant
        <4>3. CASE work.kind = "update"
          BY <1>0, <1>1, <1>2, <1>6, <3>1, <4>1, <4>3 DEF Edited, JobIsRight, Meant
        <4> QED BY <1>5, <4>2, <4>3
      <3> QED BY <1>2, <1>5, <1>6, <3>1 DEF Written
    <2>3. Meant(j)'
      BY <1>0, <1>1, <1>2, <1>5, <1>6 DEF Meant, JobIsRight
    <2>4. InHand(j)'
      BY <1>3 DEF InHand
    <2> QED BY <2>1, <2>2, <2>3, <2>4 DEF JobIsRight
  <1>11. \A k \in Jobs : JobIsRight(k)'
    BY <1>1, <1>2, <1>10, OthersStay
  <1>12. InForce'
    <2>1. \A k \in Jobs : /\ Installing(k)' <=> Installing(k)
                          /\ job'[k].owner = job[k].owner
      BY <1>2, <1>3, OthersAre
    <2> QED BY <1>0, <1>1, <2>1 DEF InForce, Effective
  <1>13. EditsAreKept' /\ Followed'
    BY <1>0, <1>1 DEF EditsAreKept, Followed
  <1> QED BY <1>7, <1>8, <1>9, <1>11, <1>12, <1>13 DEF FiltersInv

\* The installation of a script goes on.
LEMMA InstallingKeeps ==
    ASSUME FiltersInv, NEW j \in Jobs, Moves(j),
           job[j].stage \in {"compile", "put", "activate", "copy"},
           job'[j].stage \in {"put", "activate", "copy", "stamp", "installed"},
           job'[j].mine = job[j].mine, job'[j].owner = job[j].owner, job'[j].todo = job[j].todo,
           job'[j].answer = job[j].answer, job'[j].handed = TRUE,
           UNCHANGED <<rules, faults, expected, settled, last>>,
           DOMAIN store' = Accounts,
           \A a \in Accounts : /\ DOMAIN store'[a] = {"stored", "active", "file"}
                               /\ store'[a].active \in {"none", "link", "file"},
           \/ UNCHANGED store
           \/ /\ Installing(j)
              /\ \A a \in Accounts \ {job[j].owner} : store'[a] = store[a],
           InHand(j)'
    PROVE  FiltersInv'
  <1>0. /\ FiltersTypeOK /\ JobIsRight(j) /\ InForce /\ EditsAreKept /\ Followed
    BY DEF FiltersInv
  <1>1. /\ UNCHANGED scene /\ AtWork(j) /\ AtWork(j)' /\ Installing(j)'
        /\ DOMAIN job' = Jobs /\ \A k \in Jobs \ {j} : job'[k] = job[k]
        /\ DOMAIN job'[j] = DOMAIN Idle /\ job'[j].work = job[j].work /\ job'[j].alone = job[j].alone
    BY DEF Moves, AtWork, Installing
  <1>2. FiltersTypeOK'
    <2>1. job'[j].stage \in FilterStages
      BY DEF FilterStages
    <2>2. /\ {rules', expected'} \subseteq [Ids -> FilterRow \cup {NoRule}]
          /\ settled' \subseteq Accounts /\ faults' \in 0..MaxFaults
      BY <1>0 DEF FiltersTypeOK
    <2>3. /\ DOMAIN job'[j].mine \subseteq Ids /\ job'[j].todo \subseteq Accounts
          /\ \A i \in DOMAIN job'[j].mine : job'[j].mine[i] \in FilterRow \cup {NoRule}
          /\ job'[j].answer \in {0, 200, 400, 404, 500, 502}
      <3>1. /\ DOMAIN job[j].mine \subseteq Ids /\ job[j].todo \subseteq Accounts
            /\ \A i \in DOMAIN job[j].mine : job[j].mine[i] \in FilterRow \cup {NoRule}
            /\ job[j].answer \in {0, 200, 400, 404, 500, 502}
        BY <1>0 DEF FiltersTypeOK
      <3> QED BY <3>1
    <2>4. job'[j].handed \in BOOLEAN
      OBVIOUS
    <2> QED BY <1>0, <2>1, <2>2, <2>3, <2>4, TypesMove
  <1>3. Solo' /\ IdsAreNew' /\ Exclusive'
    BY MovesKeep
  <1>4. JobIsRight(j)'
    <2>1. OnTrack(j)'
      BY <1>0, <1>1 DEF OnTrack, JobIsRight
    <2>2. Written(j)'
      <3>1. Edited(j)' = Edited(j) /\ \A i \in DOMAIN job[j].mine : OnlyStamped(j, i)' = OnlyStamped(j, i)
        BY <1>1 DEF Edited, OnlyStamped
      <3> QED BY <1>0, <1>1, <3>1 DEF Written, JobIsRight
    <2>3. Meant(j)'
      BY <1>0, <1>1 DEF Meant, JobIsRight
    <2> QED BY <2>1, <2>2, <2>3 DEF JobIsRight
  <1>5. \A k \in Jobs : JobIsRight(k)'
    BY <1>1, <1>4, OthersStay
  <1>6. InForce'
    <2> SUFFICES ASSUME NEW a \in settled, \A k \in Jobs : Installing(k)' => job'[k].owner # a
                 PROVE  Effective(a)' = compile_script(Owned(rules, a)')
      BY DEF InForce
    <2>1. a # job[j].owner /\ \A k \in Jobs : Installing(k) => job[k].owner # a
      BY <1>1, OthersAre
    <2>2. a \in Accounts
      BY <1>0 DEF FiltersTypeOK
    <2>3. Effective(a)' = Effective(a)
      BY <2>1, <2>2 DEF Effective
    <2>4. Owned(rules, a)' = Owned(rules, a)
      OBVIOUS
    <2> QED BY <1>0, <2>1, <2>3, <2>4 DEF InForce
  <1>7. EditsAreKept' /\ Followed'
    BY <1>0, <1>1 DEF EditsAreKept, Followed
  <1> QED BY <1>2, <1>3, <1>5, <1>6, <1>7 DEF FiltersInv

\* What the script of a mailbox is made to be, and the steps that do not end a job.
LEMMA InstallationKeeps ==
    ASSUME FiltersInv, NEW j \in Jobs,
           Compile(j) \/ sieve_put(j) \/ sieve_activate(j) \/ write_script(j)
    PROVE  FiltersInv'
  <1> DEFINE o == job[j].owner
  <1>0. /\ FiltersTypeOK /\ JobIsRight(j)
    BY DEF FiltersInv
  <1>1. /\ DOMAIN job[j] = DOMAIN Idle /\ DOMAIN job = Jobs /\ DOMAIN store = Accounts
        /\ \A a \in Accounts : /\ DOMAIN store[a] = {"stored", "active", "file"}
                               /\ store[a].active \in {"none", "link", "file"}
    BY <1>0 DEF FiltersTypeOK
  <1>2. /\ job[j].stage \in {"compile", "put", "activate", "copy"}
        /\ UNCHANGED <<scene, rules, faults, expected, settled, last>>
    BY DEF Compile, sieve_put, sieve_activate, write_script
  <1>3. AtWork(j) /\ o \in Accounts /\ (job[j].handed <=> Installing(j)) /\ job[j].handed \in BOOLEAN
        /\ (Installing(j) <=> job[j].stage # "compile")
    BY <1>0, <1>2 DEF AtWork, JobIsRight, OnTrack, Installing, FiltersTypeOK
  <1>4. CASE Compile(j)
    <2>1. /\ job' = [job EXCEPT ![j].script = compile_script(rules_for(j, o)), ![j].stage = Handing,
                                ![j].handed = TRUE]
          /\ UNCHANGED store /\ job[j].stage = "compile"
      BY <1>4 DEF Compile
    <2>2. Moves(j)
      BY <1>1, <1>2, <1>3, <2>1 DEF Moves, Idle
    <2>3. /\ job'[j].stage \in {"put", "copy"}
          /\ job'[j].mine = job[j].mine /\ job'[j].owner = o /\ job'[j].todo = job[j].todo
          /\ job'[j].answer = job[j].answer /\ job'[j].handed = TRUE
          /\ job'[j].script = compile_script(rules_for(j, o)) /\ job'[j].alone = job[j].alone
      BY <1>1, <2>1 DEF Handing, Idle
    <2>4. rules_for(j, o)' = rules_for(j, o)
      BY <1>2, <2>3 DEF rules_for, View
    <2>5. InHand(j)'
      BY <2>3, <2>4 DEF InHand
    <2> QED BY <1>1, <1>2, <2>1, <2>2, <2>3, <2>5, InstallingKeeps
  <1>5. CASE sieve_put(j) \/ sieve_activate(j)
    <2>1. /\ \/ job[j].stage = "put" /\ store' = [store EXCEPT ![o].stored = job[j].script]
                                     /\ job' = [job EXCEPT ![j].stage = "activate"]
             \/ job[j].stage = "activate" /\ store' = [store EXCEPT ![o].active = "link"]
                                          /\ job' = [job EXCEPT ![j].stage = "copy"]
      BY <1>5 DEF sieve_put, sieve_activate
    <2>2. Moves(j)
      BY <1>1, <1>2, <1>3, <2>1 DEF Moves, Idle
    <2>3. /\ job'[j].stage \in {"activate", "copy"}
          /\ job'[j].mine = job[j].mine /\ job'[j].owner = o /\ job'[j].todo = job[j].todo
          /\ job'[j].answer = job[j].answer /\ job'[j].handed = job[j].handed
          /\ job'[j].script = job[j].script /\ job'[j].alone = job[j].alone
      BY <1>1, <2>1 DEF Idle
    <2>4. Installing(j)
      BY <2>1 DEF Installing
    <2>5. /\ DOMAIN store' = Accounts /\ \A a \in Accounts \ {o} : store'[a] = store[a]
          /\ \A a \in Accounts : /\ DOMAIN store'[a] = {"stored", "active", "file"}
                                 /\ store'[a].active \in {"none", "link", "file"}
      BY <1>1, <1>3, <2>1
    <2>6. rules_for(j, o)' = rules_for(j, o)
      BY <1>2, <2>3 DEF rules_for, View
    <2>7. InHand(j)'
      BY <1>0, <2>3, <2>4, <2>6 DEF InHand, JobIsRight
    <2>8. job'[j].handed = TRUE
      BY <1>3, <2>3, <2>4
    <2> QED BY <1>2, <2>2, <2>3, <2>4, <2>5, <2>7, <2>8, InstallingKeeps
  <1>6. CASE write_script(j)
    <2> DEFINE changed == Effective(o) # job[j].script
    <2>1. /\ job[j].stage = "copy"
          /\ store' = IF changed THEN [store EXCEPT ![o].active = "file", ![o].file = job[j].script]
                      ELSE store
          /\ job' = [job EXCEPT ![j].stage = IF changed THEN "stamp" ELSE "installed"]
      BY <1>6 DEF write_script
    <2>2. Moves(j)
      BY <1>1, <1>2, <1>3, <2>1 DEF Moves, Idle
    <2>3. /\ job'[j].stage \in {"stamp", "installed"}
          /\ job'[j].mine = job[j].mine /\ job'[j].owner = o /\ job'[j].todo = job[j].todo
          /\ job'[j].answer = job[j].answer /\ job'[j].handed = job[j].handed
          /\ job'[j].script = job[j].script /\ job'[j].alone = job[j].alone
      BY <1>1, <2>1 DEF Idle
    <2>4. Installing(j)
      BY <2>1 DEF Installing
    <2>5. /\ DOMAIN store' = Accounts /\ \A a \in Accounts \ {o} : store'[a] = store[a]
          /\ \A a \in Accounts : /\ DOMAIN store'[a] = {"stored", "active", "file"}
                                 /\ store'[a].active \in {"none", "link", "file"}
      BY <1>1, <1>3, <2>1
    <2>6. rules_for(j, o)' = rules_for(j, o)
      BY <1>2, <2>3 DEF rules_for, View
    <2>7. Effective(o)' = job[j].script
      BY <1>1, <1>3, <2>1, <2>3 DEF Effective
    <2>8. InHand(j)'
      BY <1>0, <2>3, <2>4, <2>6, <2>7 DEF InHand, JobIsRight
    <2>9. job'[j].handed = TRUE
      BY <1>3, <2>3, <2>4
    <2> QED BY <1>2, <2>2, <2>3, <2>4, <2>5, <2>8, <2>9, InstallingKeeps
  <1> QED BY <1>4, <1>5, <1>6

-----------------------------------------------------------------------------
(* A job ends, or goes on to the next mailbox. *)

\* A job ends without a commit.
LEMMA RefusedKeeps ==
    ASSUME FiltersInv, NEW j \in Jobs, AtWork(j), NEW c \in Errors, Refused(j, c),
           UNCHANGED <<scene, rules, expected, last>>, faults' \in 0..MaxFaults,
           DOMAIN store' = Accounts,
           \A a \in Accounts : /\ DOMAIN store'[a] = {"stored", "active", "file"}
                               /\ store'[a].active \in {"none", "link", "file"},
           \/ UNCHANGED store
           \/ /\ Installing(j)
              /\ \A a \in Accounts \ {job[j].owner} : store'[a] = store[a]
    PROVE  FiltersInv'
  <1>0. /\ FiltersTypeOK /\ JobIsRight(j) /\ InForce /\ EditsAreKept /\ Followed
    BY DEF FiltersInv
  <1>1. /\ DOMAIN job' = Jobs /\ \A k \in Jobs \ {j} : job'[k] = job[k]
        /\ DOMAIN job'[j] = DOMAIN Idle /\ job'[j].work = job[j].work /\ job'[j].alone = job[j].alone
        /\ job'[j].stage = "done" /\ job'[j].answer = c /\ job'[j].mine = <<>>
        /\ job'[j].todo = {} /\ job'[j].handed = job[j].handed
    <2>1. DOMAIN job[j] = DOMAIN Idle /\ DOMAIN job = Jobs
      BY <1>0 DEF FiltersTypeOK
    <2> QED BY <2>1 DEF Refused, Idle
  <1>2. ~AtWork(j)' /\ ~Installing(j)' /\ DOMAIN job'[j].mine = {} /\ job[j].stage # "idle"
    BY <1>1 DEF AtWork, Installing
  <1>3. Moves(j)
    BY <1>1 DEF Moves
  <1>4. settled' \subseteq settled /\ (Installing(j) => job[j].owner \notin settled')
    BY <1>0 DEF Refused, JobIsRight, OnTrack
  <1>5. FiltersTypeOK'
    <2>1. /\ {rules, expected} \subseteq [Ids -> FilterRow \cup {NoRule}] /\ settled' \subseteq Accounts
      BY <1>0, <1>4 DEF FiltersTypeOK
    <2>2. job'[j].stage \in FilterStages /\ job'[j].handed \in BOOLEAN
      BY <1>0, <1>1 DEF FiltersTypeOK, FilterStages
    <2>3. job'[j].answer \in {0, 200, 400, 404, 500, 502}
      BY <1>1 DEF Errors
    <2> QED BY <1>0, <1>1, <1>2, <1>3, <2>1, <2>2, <2>3, TypesMove
  <1>6. Solo' /\ IdsAreNew' /\ Exclusive'
    BY <1>2, <1>3, MovesKeep
  <1>7. JobIsRight(j)'
    BY <1>1, <1>2 DEF JobIsRight, OnTrack, Written, Meant, InHand
  <1>8. \A k \in Jobs : JobIsRight(k)'
    BY <1>1, <1>7, OthersStay
  <1>9. InForce'
    <2> SUFFICES ASSUME NEW a \in settled', \A k \in Jobs : Installing(k)' => job'[k].owner # a
                 PROVE  Effective(a)' = compile_script(Owned(rules, a)')
      BY DEF InForce
    <2>1. /\ a \in settled /\ (Installing(j) => a # job[j].owner)
          /\ \A k \in Jobs : Installing(k) => job[k].owner # a
      BY <1>1, <1>4, OthersAre
    <2>2. a \in Accounts
      BY <1>0, <2>1 DEF FiltersTypeOK
    <2>3. Effective(a)' = Effective(a)
      BY <2>1, <2>2 DEF Effective
    <2>4. Owned(rules, a)' = Owned(rules, a)
      OBVIOUS
    <2> QED BY <1>0, <2>1, <2>3, <2>4 DEF InForce
  <1>10. EditsAreKept' /\ Followed'
    BY <1>0, RecordsStay
  <1> QED BY <1>5, <1>6, <1>8, <1>9, <1>10 DEF FiltersInv

\* What the command has written of a mailbox's rules is the stamp.
LEMMA CommandSeesTheTable ==
    ASSUME FiltersTypeOK, NEW j \in Jobs, AtWork(j), Written(j), job[j].work.kind = "sieve", NEW a
    PROVE  rules_for(j, a) = Owned(rules, a)
  <1>1. \A i \in Ids : /\ View(j, i) # NoRule <=> rules[i] # NoRule
                       /\ rules[i] # NoRule => /\ View(j, i).owner = rules[i].owner
                                               /\ View(j, i).rule = rules[i].rule
    BY DEF Written, OnlyStamped, View
  <1> DEFINE seen == [i \in Ids |-> View(j, i)]
  <1>2. \A i \in Ids : seen[i] = View(j, i)
    OBVIOUS
  <1> HIDE DEF seen
  <1>3. Owned(seen, a) = Owned(rules, a)
    BY <1>1, <1>2, OwnedIsLocal
  <1> QED BY <1>3 DEF rules_for, seen

\* The command goes on to the next mailbox.
LEMMA GoesOnKeeps ==
    ASSUME FiltersInv, NEW j \in Jobs, AtWork(j), job[j].work.kind = "sieve",
           NEW done \in BOOLEAN, GoOn(j, done),
           done => job[j].stage = "installed" /\ UNCHANGED store,
           UNCHANGED <<scene, rules, expected, last>>, faults' \in 0..MaxFaults,
           job[j].stage # "next", DOMAIN store' = Accounts,
           \A a \in Accounts : /\ DOMAIN store'[a] = {"stored", "active", "file"}
                               /\ store'[a].active \in {"none", "link", "file"},
           \/ UNCHANGED store
           \/ /\ Installing(j)
              /\ \A a \in Accounts \ {job[j].owner} : store'[a] = store[a]
    PROVE  FiltersInv'
  <1> DEFINE o == job[j].owner
  <1>0. /\ FiltersTypeOK /\ JobIsRight(j) /\ InForce /\ EditsAreKept /\ Followed
    BY DEF FiltersInv
  <1>1. /\ DOMAIN job' = Jobs /\ \A k \in Jobs \ {j} : job'[k] = job[k]
        /\ DOMAIN job'[j] = DOMAIN Idle /\ job'[j].work = job[j].work /\ job'[j].alone = job[j].alone
        /\ job'[j].stage = "next" /\ job'[j].answer = job[j].answer /\ job'[j].mine = job[j].mine
        /\ job'[j].todo = job[j].todo \ {o} /\ job'[j].handed = FALSE
    <2>1. DOMAIN job[j] = DOMAIN Idle /\ DOMAIN job = Jobs
      BY <1>0 DEF FiltersTypeOK
    <2>2. /\ DOMAIN job' = Jobs /\ \A k \in Jobs \ {j} : job'[k] = job[k]
          /\ DOMAIN job'[j] = DOMAIN Idle
      BY <2>1 DEF GoOn
    <2>3. /\ job'[j].work = job[j].work /\ job'[j].alone = job[j].alone
          /\ job'[j].answer = job[j].answer /\ job'[j].mine = job[j].mine
      BY <2>1 DEF GoOn, Idle
    <2>4. job'[j].stage = "next" /\ job'[j].handed = FALSE
      BY <2>1 DEF GoOn, Idle
    <2>5. job'[j].todo = job[j].todo \ {o}
      BY <2>1 DEF GoOn, Idle
    <2> QED BY <2>2, <2>3, <2>4, <2>5
  <1>2. AtWork(j)' /\ ~Installing(j)' /\ job[j].stage # "write" /\ o \in Accounts
    BY <1>0, <1>1 DEF AtWork, Installing, JobIsRight, OnTrack
  <1>3. Moves(j)
    BY <1>1 DEF Moves
  <1>4. /\ settled' \subseteq settled \cup {o}
        /\ Installing(j) /\ ~(done /\ o \in job[j].alone) => o \notin settled'
        /\ ~Installing(j) => settled' \subseteq settled
    <2>1. Settle(j, done)
      BY DEF GoOn
    <2>2. done => Installing(j)
      BY DEF Installing
    <2>3. job[j].handed <=> Installing(j)
      BY <1>0 DEF JobIsRight, OnTrack
    <2> QED BY <2>1, <2>2, <2>3 DEF Settle
  <1>5. FiltersTypeOK'
    <2>1. /\ {rules, expected} \subseteq [Ids -> FilterRow \cup {NoRule}] /\ settled' \subseteq Accounts
      BY <1>0, <1>2, <1>4 DEF FiltersTypeOK
    <2>2. /\ job'[j].stage \in FilterStages /\ job'[j].handed \in BOOLEAN
          /\ job'[j].answer \in {0, 200, 400, 404, 500, 502} /\ job'[j].todo \subseteq Accounts
          /\ DOMAIN job'[j].mine \subseteq Ids
          /\ \A i \in DOMAIN job'[j].mine : job'[j].mine[i] \in FilterRow \cup {NoRule}
      <3>1. job'[j].stage \in FilterStages /\ job'[j].handed \in BOOLEAN
        BY <1>1 DEF FilterStages
      <3>2. job[j].todo \ {o} \subseteq Accounts
        BY <1>0 DEF FiltersTypeOK
      <3> QED BY <1>0, <1>1, <3>1, <3>2 DEF FiltersTypeOK
    <2> QED BY <1>0, <1>3, <2>1, <2>2, TypesMove
  <1>6. Solo' /\ IdsAreNew' /\ Exclusive'
    BY <1>1, <1>3, MovesKeep
  <1>7. JobIsRight(j)'
    <2>1. OnTrack(j)'
      BY <1>1, <1>2 DEF OnTrack
    <2>2. Written(j)'
      <3>1. \A i \in DOMAIN job[j].mine : OnlyStamped(j, i)' = OnlyStamped(j, i)
        BY <1>1 DEF OnlyStamped
      <3> QED BY <1>0, <1>1, <3>1 DEF Written, JobIsRight
    <2>3. Meant(j)' /\ InHand(j)'
      BY <1>1, <1>2 DEF Meant, InHand
    <2> QED BY <2>1, <2>2, <2>3 DEF JobIsRight
  <1>8. \A k \in Jobs : JobIsRight(k)'
    BY <1>1, <1>7, OthersStay
  <1>9. InForce'
    <2> SUFFICES ASSUME NEW a \in settled', \A k \in Jobs : Installing(k)' => job'[k].owner # a
                 PROVE  Effective(a)' = compile_script(Owned(rules, a)')
      BY DEF InForce
    <2>1. a \in Accounts /\ Owned(rules, a)' = Owned(rules, a)
      BY <1>0, <1>2, <1>4 DEF FiltersTypeOK
    <2>2. CASE Installing(j) /\ a = o
      <3>1. done /\ o \in job[j].alone
        BY <1>4, <2>2
      <3>2. Effective(o) = compile_script(rules_for(j, o))
        BY <1>0, <2>2, <3>1 DEF JobIsRight, InHand
      <3>3. Effective(a)' = Effective(o)
        BY <2>2, <3>1 DEF Effective
      <3> QED BY <1>0, <2>1, <2>2, <3>2, <3>3, CommandSeesTheTable DEF JobIsRight
    <2>3. CASE ~(Installing(j) /\ a = o)
      <3>1. a \in settled /\ \A k \in Jobs : Installing(k) => job[k].owner # a
        BY <1>1, <1>4, <2>3, OthersAre
      <3>2. Effective(a)' = Effective(a)
        BY <2>1, <2>3 DEF Effective
      <3> QED BY <1>0, <2>1, <3>1, <3>2 DEF InForce
    <2> QED BY <2>2, <2>3
  <1>10. EditsAreKept' /\ Followed'
    BY <1>0, RecordsStay
  <1> QED BY <1>5, <1>6, <1>8, <1>9, <1>10 DEF FiltersInv

\* How a job leaves a mailbox: the request fails, the command passes it over, or is done with it.
Fails(j) == \E c \in Errors : Refused(j, c)
Skips(j) == job[j].work.kind = "sieve" /\ GoOn(j, FALSE)
Installs(j) == job[j].work.kind = "sieve" /\ GoOn(j, TRUE)

\* A failure ends a request, and the command goes on.
LEMMA FailedIs ==
    ASSUME NEW j \in Jobs, NEW c \in Errors, Failed(j, c)
    PROVE  Fails(j) \/ Skips(j)
  BY Zenon DEF Failed, Fails, Skips

\* The steps that end a job, or what it does on a mailbox.
LEMMA FailuresKeep ==
    ASSUME FiltersInv, NEW j \in Jobs,
           \/ CannotCompile(j) \/ DoveadmError(j) \/ CopyError(j) \/ Deadlocked(j)
           \/ CommitFails(j) \/ AccountDone(j)
    PROVE  FiltersInv'
  <1> DEFINE o == job[j].owner
  <1>0. /\ FiltersTypeOK /\ JobIsRight(j)
    BY DEF FiltersInv
  <1>1. /\ DOMAIN store = Accounts /\ faults \in 0..MaxFaults
        /\ \A a \in Accounts : /\ DOMAIN store[a] = {"stored", "active", "file"}
                               /\ store[a].active \in {"none", "link", "file"}
    BY <1>0 DEF FiltersTypeOK
  <1>2. Fault => faults' \in 0..MaxFaults
    BY <1>1, FilterAssumption DEF Fault
  <1>3. /\ job[j].stage \in {"compile", "put", "activate", "copy", "stamp", "installed", "next"}
        /\ UNCHANGED <<scene, rules, expected, last>> /\ faults' \in 0..MaxFaults
    BY <1>1, <1>2 DEF CannotCompile, DoveadmError, CopyError, Deadlocked, CommitFails, AccountDone, Ended
  <1>4. AtWork(j) /\ (job[j].stage # "next" => o \in Accounts)
    BY <1>0, <1>3 DEF AtWork, JobIsRight, OnTrack
  <1>5. CASE UNCHANGED store
    <2>1. DOMAIN store' = Accounts
          /\ \A a \in Accounts : /\ DOMAIN store'[a] = {"stored", "active", "file"}
                                 /\ store'[a].active \in {"none", "link", "file"}
      BY <1>1, <1>5
    <2>2. \/ Fails(j)
          \/ Skips(j) /\ job[j].stage # "next"
          \/ Installs(j) /\ job[j].stage = "installed"
      <3>1. CASE CannotCompile(j)
        <4>1. job[j].stage = "compile" /\ (Failed(j, 400) \/ Refused(j, 400))
          BY <3>1 DEF CannotCompile
        <4>2. Fails(j) \/ Skips(j)
          BY <4>1, FailedIs DEF Errors, Fails
        <4> QED BY <4>1, <4>2
      <3>2. CASE DoveadmError(j)
        <4>1. job[j].stage # "next" /\ Failed(j, 400)
          BY <3>2 DEF DoveadmError
        <4> QED BY <4>1, FailedIs DEF Errors
      <3>3. CASE CopyError(j)
        <4>1. job[j].stage # "next" /\ Failed(j, 502)
          BY <3>3 DEF CopyError
        <4> QED BY <4>1, FailedIs DEF Errors
      <3>4. CASE Deadlocked(j) \/ CommitFails(j)
        <4>1. Refused(j, 500)
          BY <3>4 DEF Deadlocked, CommitFails
        <4> QED BY <4>1 DEF Errors, Fails
      <3>5. CASE AccountDone(j)
        BY <3>5, Zenon DEF AccountDone, Installs
      <3> QED BY <3>1, <3>2, <3>3, <3>4, <3>5
    <2>3. CASE Fails(j)
      <3>1. PICK c \in Errors : Refused(j, c)
        BY <2>3 DEF Fails
      <3> QED BY <1>3, <1>4, <1>5, <2>1, <3>1, RefusedKeeps
    <2>4. CASE Skips(j) /\ job[j].stage # "next"
      BY <1>3, <1>4, <1>5, <2>1, <2>4, GoesOnKeeps, Zenon DEF Skips
    <2>5. CASE Installs(j) /\ job[j].stage = "installed"
      <3>1. job[j].stage # "next"
        BY <2>5
      <3> QED BY <1>3, <1>4, <1>5, <2>1, <2>5, <3>1, GoesOnKeeps, Zenon DEF Installs
    <2> QED BY <2>2, <2>3, <2>4, <2>5
  <1>6. CASE ~UNCHANGED store
    <2>1. /\ job[j].stage \in {"put", "activate"} /\ Failed(j, 400)
          /\ \/ store' = [store EXCEPT ![o].stored = job[j].script]
             \/ store' = [store EXCEPT ![o].active = "link"]
      BY <1>6 DEF CannotCompile, DoveadmError, CopyError, Deadlocked, CommitFails, AccountDone
    <2>2. Installing(j) /\ o \in Accounts /\ job[j].stage # "next"
      BY <1>4, <2>1 DEF Installing
    <2>3. /\ DOMAIN store' = Accounts /\ \A a \in Accounts \ {o} : store'[a] = store[a]
          /\ \A a \in Accounts : /\ DOMAIN store'[a] = {"stored", "active", "file"}
                                 /\ store'[a].active \in {"none", "link", "file"}
      BY <1>1, <2>1, <2>2
    <2>4. CASE Fails(j)
      <3>1. PICK c \in Errors : Refused(j, c)
        BY <2>4 DEF Fails
      <3> QED BY <1>3, <1>4, <2>2, <2>3, <3>1, RefusedKeeps
    <2>5. CASE Skips(j)
      BY <1>3, <1>4, <2>2, <2>3, <2>5, GoesOnKeeps, Zenon DEF Skips
    <2>6. Fails(j) \/ Skips(j)
      BY <2>1, FailedIs DEF Errors
    <2> QED BY <2>4, <2>5, <2>6
  <1> QED BY <1>5, <1>6

\* The command takes the next mailbox.
LEMMA NextAccountKeeps ==
    ASSUME FiltersInv, NEW j \in Jobs, NextAccount(j)
    PROVE  FiltersInv'
  <1>0. /\ FiltersTypeOK /\ JobIsRight(j) /\ InForce /\ EditsAreKept /\ Followed
    BY DEF FiltersInv
  <1>1. PICK a \in job[j].todo : job' = [job EXCEPT ![j].stage = "compile", ![j].owner = a]
    BY DEF NextAccount
  <1>2. /\ job[j].stage = "next"
        /\ UNCHANGED <<scene, rules, store, faults, expected, settled, last>>
    BY DEF NextAccount
  <1>3. /\ DOMAIN job' = Jobs /\ \A k \in Jobs \ {j} : job'[k] = job[k]
        /\ DOMAIN job'[j] = DOMAIN Idle /\ job'[j].work = job[j].work /\ job'[j].alone = job[j].alone
        /\ job'[j].stage = "compile" /\ job'[j].answer = job[j].answer /\ job'[j].mine = job[j].mine
        /\ job'[j].todo = job[j].todo /\ job'[j].handed = job[j].handed /\ job'[j].owner = a
    <2>1. DOMAIN job[j] = DOMAIN Idle /\ DOMAIN job = Jobs
      BY <1>0 DEF FiltersTypeOK
    <2> QED BY <1>1, <2>1 DEF Idle
  <1>4. /\ AtWork(j) /\ AtWork(j)' /\ ~Installing(j) /\ ~Installing(j)'
        /\ job[j].work.kind = "sieve" /\ a \in Accounts
    BY <1>0, <1>2, <1>3 DEF AtWork, Installing, JobIsRight, OnTrack, FiltersTypeOK
  <1>5. Moves(j)
    BY <1>2, <1>3, <1>4 DEF Moves
  <1>6. FiltersTypeOK'
    <2>1. /\ DOMAIN job'[j].mine \subseteq Ids /\ job'[j].todo \subseteq Accounts
          /\ \A i \in DOMAIN job'[j].mine : job'[j].mine[i] \in FilterRow \cup {NoRule}
          /\ job'[j].answer \in {0, 200, 400, 404, 500, 502} /\ job'[j].handed \in BOOLEAN
      BY <1>0, <1>3 DEF FiltersTypeOK
    <2>2. /\ {rules', expected'} \subseteq [Ids -> FilterRow \cup {NoRule}]
          /\ settled' \subseteq Accounts /\ faults' \in 0..MaxFaults /\ DOMAIN store' = Accounts
          /\ \A b \in Accounts : /\ DOMAIN store'[b] = {"stored", "active", "file"}
                                 /\ store'[b].active \in {"none", "link", "file"}
      BY <1>0, <1>2 DEF FiltersTypeOK
    <2>3. job'[j].stage \in FilterStages
      BY <1>3 DEF FilterStages
    <2> QED BY <1>0, <1>5, <2>1, <2>2, <2>3, TypesMove
  <1>7. Solo' /\ IdsAreNew' /\ Exclusive'
    BY <1>2, <1>3, <1>5, MovesKeep
  <1>8. JobIsRight(j)'
    <2>1. OnTrack(j)'
      BY <1>0, <1>3, <1>4 DEF OnTrack, JobIsRight
    <2>2. Written(j)'
      <3>1. \A i \in DOMAIN job[j].mine : OnlyStamped(j, i)' = OnlyStamped(j, i)
        BY <1>2, <1>3 DEF OnlyStamped
      <3> QED BY <1>0, <1>3, <1>4, <3>1 DEF Written, JobIsRight
    <2>3. Meant(j)' /\ InHand(j)'
      BY <1>3, <1>4 DEF Meant, InHand
    <2> QED BY <2>1, <2>2, <2>3 DEF JobIsRight
  <1>9. \A k \in Jobs : JobIsRight(k)'
    BY <1>2, <1>3, <1>8, OthersStay
  <1>10. InForce'
    <2>1. \A k \in Jobs : /\ Installing(k)' <=> Installing(k)
                          /\ Installing(k) => job'[k].owner = job[k].owner
      BY <1>3, <1>4, OthersAre
    <2> QED BY <1>0, <1>2, <2>1 DEF InForce, Effective
  <1>11. EditsAreKept' /\ Followed'
    BY <1>0, <1>2 DEF EditsAreKept, Followed
  <1> QED BY <1>6, <1>7, <1>9, <1>10, <1>11 DEF FiltersInv

\* A message is delivered.
LEMMA DeliverKeeps ==
    ASSUME FiltersInv, NEW a \in Accounts, Deliver(a)
    PROVE  FiltersInv'
  <1>1. UNCHANGED <<scene, rules, store, job, faults, expected, settled>>
    BY DEF Deliver
  <1>2. FiltersTypeOK' /\ Solo' /\ Exclusive' /\ IdsAreNew' /\ InForce' /\ EditsAreKept'
    BY <1>1 DEF FiltersInv, FiltersTypeOK, Solo, Exclusive, IdsAreNew, InForce, EditsAreKept, AtWork,
        Touches, Writing, Installing, Effective
  <1>3. ASSUME NEW j \in Jobs PROVE JobIsRight(j)'
    <2>1. JobIsRight(j)
      BY DEF FiltersInv
    <2>2. (JobIsRight(j)') = JobIsRight(j)
      BY <1>1 DEF JobIsRight, OnTrack, Written, Meant, InHand, Edited, OnlyStamped, AtWork, Installing,
          Effective, rules_for, View
    <2> QED BY <2>1, <2>2
  <1>4. Followed'
    <2>1. PICK m \in Mail[scene.mail] :
            last' = [mail |-> m, owner |-> a, verdict |-> analyse(m, FALSE), script |-> ScriptOf(a),
                     filed |-> Filed(ScriptOf(a), apply(m, analyse(m, FALSE),
                                                        spam_action(analyse(m, FALSE), a)))]
      BY DEF Deliver
    <2>2. m \in Message
      <3>1. scene.mail \in DOMAIN Mail
        BY FilterAssumption DEF FiltersInv, FiltersTypeOK
      <3> QED BY <3>1, FilterAssumption
    <2>3. /\ last'.mail = m /\ last'.owner = a /\ last'.verdict = analyse(m, FALSE)
          /\ last'.script = ScriptOf(a)
          /\ last'.filed = Filed(ScriptOf(a), apply(m, analyse(m, FALSE),
                                                    spam_action(analyse(m, FALSE), a)))
      BY <2>1
    <2> QED BY <2>2, <2>3 DEF Followed
  <1> QED BY <1>2, <1>3, <1>4 DEF FiltersInv

\* The rows of the mailbox are stamped (SieveInstaller.install).
LEMMA StampKeeps ==
    ASSUME FiltersInv, NEW j \in Jobs, Stamp(j)
    PROVE  FiltersInv'
  <1> DEFINE o    == job[j].owner
             work == job[j].work
             mine == job[j].mine
             new  == Stamped(j)
             all  == Over(new, mine)
  <1>0. /\ FiltersTypeOK /\ JobIsRight(j) /\ Exclusive /\ InForce /\ EditsAreKept /\ Followed
        /\ \A k \in Jobs : JobIsRight(k)
    BY DEF FiltersInv
  <1>1. /\ job[j].stage = "stamp" /\ Unlocked(j, DOMAIN new)
        /\ UNCHANGED <<scene, rules, store, faults, expected, settled, last>>
    BY DEF Stamp
  <1>2. /\ DOMAIN job' = Jobs /\ \A k \in Jobs \ {j} : job'[k] = job[k]
        /\ DOMAIN job'[j] = DOMAIN Idle /\ job'[j].work = work /\ job'[j].alone = job[j].alone
        /\ job'[j].stage = "installed" /\ job'[j].answer = job[j].answer /\ job'[j].mine = all
        /\ job'[j].todo = job[j].todo /\ job'[j].handed = job[j].handed /\ job'[j].owner = o
        /\ job'[j].script = job[j].script
    <2>1. DOMAIN job[j] = DOMAIN Idle /\ DOMAIN job = Jobs
      BY <1>0 DEF FiltersTypeOK
    <2>2. job' = [job EXCEPT ![j].mine = all, ![j].stage = "installed"]
      BY DEF Stamp
    <2> HIDE DEF all
    <2> QED BY <2>1, <2>2 DEF Idle
  <1>3. AtWork(j) /\ AtWork(j)' /\ Installing(j) /\ Installing(j)' /\ o \in Accounts
    BY <1>0, <1>1, <1>2 DEF AtWork, Installing, JobIsRight, OnTrack
  <1>4. Moves(j)
    BY <1>1, <1>2, <1>3 DEF Moves
  <1>5. /\ work.kind \in {"create", "update", "delete", "sieve"}
        /\ work.kind # "sieve" => o = work.owner
    BY <1>0, <1>1, <1>3, TouchesAre DEF JobIsRight, OnTrack
  <1>6. \A i \in Ids : View(j, i) \in FilterRow \cup {NoRule}
    BY <1>0 DEF View, FiltersTypeOK
  <1>7. /\ DOMAIN new = {i \in Ids : View(j, i) # NoRule /\ View(j, i).owner = o}
        /\ DOMAIN all = DOMAIN new \cup DOMAIN mine
        /\ \A i \in DOMAIN new : /\ all[i] \in FilterRow /\ all[i] # NoRule
                                 /\ all[i].owner = o /\ all[i].rule = View(j, i).rule
        /\ \A i \in DOMAIN mine \ DOMAIN new : all[i] = mine[i]
    <2>1. /\ DOMAIN new = {i \in Ids : View(j, i) # NoRule /\ View(j, i).owner = o}
          /\ \A i \in DOMAIN new : new[i] = [View(j, i) EXCEPT !.stamped = TRUE]
      BY DEF Stamped
    <2>2. /\ DOMAIN all = DOMAIN new \cup DOMAIN mine
          /\ \A i \in DOMAIN all : all[i] = IF i \in DOMAIN new THEN new[i] ELSE mine[i]
      BY DEF Over
    <2> HIDE DEF all, new
    <2>3. ASSUME NEW i \in DOMAIN new
          PROVE  /\ all[i] \in FilterRow /\ all[i] # NoRule
                 /\ all[i].owner = o /\ all[i].rule = View(j, i).rule
      <3>1. View(j, i) \in FilterRow /\ View(j, i).owner = o
        BY <1>6, <2>1
      <3>2. all[i] = [View(j, i) EXCEPT !.stamped = TRUE]
        BY <2>1, <2>2
      <3>3. /\ all[i] \in FilterRow /\ all[i].owner = o /\ all[i].rule = View(j, i).rule
        BY <3>1, <3>2 DEF FilterRow
      <3> QED BY <3>3, RowsAreThere
    <2> QED BY <2>1, <2>2, <2>3
  <1> HIDE DEF all, new
  <1>8. FiltersTypeOK'
    <2>1. /\ DOMAIN job'[j].mine \subseteq Ids /\ job'[j].todo \subseteq Accounts
          /\ \A i \in DOMAIN job'[j].mine : job'[j].mine[i] \in FilterRow \cup {NoRule}
          /\ job'[j].answer \in {0, 200, 400, 404, 500, 502} /\ job'[j].handed \in BOOLEAN
      BY <1>0, <1>2, <1>7 DEF FiltersTypeOK
    <2>2. /\ {rules', expected'} \subseteq [Ids -> FilterRow \cup {NoRule}]
          /\ settled' \subseteq Accounts /\ faults' \in 0..MaxFaults /\ DOMAIN store' = Accounts
          /\ \A b \in Accounts : /\ DOMAIN store'[b] = {"stored", "active", "file"}
                                 /\ store'[b].active \in {"none", "link", "file"}
      BY <1>0, <1>1 DEF FiltersTypeOK
    <2>3. job'[j].stage \in FilterStages
      BY <1>2 DEF FilterStages
    <2> QED BY <1>0, <1>4, <2>1, <2>2, <2>3, TypesMove
  <1>9. Solo' /\ IdsAreNew'
    BY <1>1, <1>4, MovesKeep
  <1>10. Exclusive'
    <2>1. \A k \in Jobs \ {j} : /\ AtWork(k)' <=> AtWork(k)
                                /\ Writing(k)' <=> Writing(k)
      BY <1>2, OthersAre
    <2>2. ASSUME NEW k \in Jobs \ {j}, NEW i \in DOMAIN all, i \in DOMAIN job[k].mine
          PROVE  FALSE
      <3>1. AtWork(k)
        BY <1>0, <2>2 DEF JobIsRight, OnTrack
      <3>2. Writing(k)
        BY <2>2, <3>1 DEF Writing
      <3>3. i \notin DOMAIN new
        BY <1>1, <2>2, <3>2 DEF Unlocked
      <3> QED BY <1>0, <1>7, <2>2, <3>3 DEF Exclusive
    <2>3. \A k \in Jobs \ {j} : Writing(k) => scene.database # "sqlite"
      BY <1>1 DEF Unlocked
    <2> QED BY <1>0, <1>1, <1>2, <2>1, <2>2, <2>3 DEF Exclusive
  <1>11. JobIsRight(j)'
    <2>1. OnTrack(j)'
      BY <1>0, <1>1, <1>2, <1>3 DEF OnTrack, JobIsRight
    <2>2. Written(j)'
      <3> SUFFICES ASSUME NEW i \in DOMAIN all
                   PROVE  (IF work.kind # "sieve" /\ i = work.id THEN Edited(j) ELSE OnlyStamped(j, i))'
        BY <1>2 DEF Written
      <3>0. i \in Ids /\ Written(j)
        BY <1>0, <1>7 DEF JobIsRight, FiltersTypeOK
      <3>1. CASE work.kind # "sieve" /\ i = work.id /\ i \in DOMAIN mine
        <4>1. Edited(j)
          BY <1>3, <3>0, <3>1 DEF Written
        <4>2. i \in DOMAIN new => View(j, i) = mine[i] /\ mine[i] # NoRule
          BY <1>7, <3>1 DEF View
        <4>3. work.kind = "delete" => i \notin DOMAIN new
          BY <3>1, <4>1, <4>2 DEF Edited
        <4>4. all[i] = mine[i] \/ /\ all[i] # NoRule /\ mine[i] # NoRule /\ i \in DOMAIN new
                                  /\ all[i].owner = o /\ all[i].rule = mine[i].rule
          BY <1>7, <3>1, <4>2
        <4>5. Edited(j)'
          <5>1. CASE all[i] = mine[i]
            <6>1. job'[j].mine[i] = job[j].mine[i] /\ job'[j].work = work
              BY <1>2, <5>1
            <6>2. UNCHANGED <<rules, scene>>
              BY <1>1
            <6> QED BY <3>1, <4>1, <6>1, <6>2 DEF Edited
          <5>2. CASE /\ all[i] # NoRule /\ mine[i] # NoRule /\ i \in DOMAIN new
                     /\ all[i].owner = o /\ all[i].rule = mine[i].rule
            <6>1. CASE work.kind = "create"
              BY <1>1, <1>2, <1>5, <3>1, <4>1, <5>2, <6>1 DEF Edited
            <6>2. CASE work.kind = "update"
              BY <1>1, <1>2, <1>5, <3>1, <4>1, <5>2, <6>2 DEF Edited
            <6> QED BY <1>5, <3>1, <4>3, <5>2, <6>1, <6>2
          <5> QED BY <4>4, <5>1, <5>2
        <4> QED BY <1>2, <3>1, <4>5
      <3>2. CASE work.kind # "sieve" /\ i = work.id /\ i \notin DOMAIN mine
        <4>1. i \in DOMAIN new /\ View(j, i) = rules[i]
          BY <1>7, <3>2 DEF View
        <4>2. /\ rules[i] # NoRule /\ rules[i].owner = work.owner /\ all[i] # NoRule
              /\ all[i].owner = work.owner /\ all[i].rule = rules[i].rule
          BY <1>5, <1>7, <3>2, <4>1
        <4>3. work.kind = "update" /\ scene.database # "sqlite"
          BY <1>0, <1>1, <1>3, <1>5, <3>2 DEF JobIsRight, Meant
        <4>4. Edited(j)'
          BY <1>1, <1>2, <3>2, <4>2, <4>3 DEF Edited
        <4> QED BY <1>2, <3>2, <4>4
      <3>3. CASE ~(work.kind # "sieve" /\ i = work.id)
        <4>1. i \in DOMAIN mine => OnlyStamped(j, i)
          BY <1>3, <3>0, <3>3 DEF Written
        <4>2. CASE i \in DOMAIN new
          <5>1. /\ View(j, i) # NoRule /\ View(j, i).owner = o /\ all[i] # NoRule
                /\ all[i].owner = o /\ all[i].rule = View(j, i).rule
            BY <1>7, <4>2
          <5>2. /\ rules[i] # NoRule /\ rules[i].owner = o /\ rules[i].rule = all[i].rule
            BY <4>1, <5>1 DEF OnlyStamped, View
          <5>3. OnlyStamped(j, i)'
            BY <1>1, <1>2, <1>5, <5>1, <5>2 DEF OnlyStamped
          <5> QED BY <1>2, <3>3, <5>3
        <4>3. CASE i \notin DOMAIN new
          <5>1. OnlyStamped(j, i) /\ all[i] = mine[i]
            BY <1>7, <4>1, <4>3
          <5>2. OnlyStamped(j, i)'
            BY <1>1, <1>2, <5>1 DEF OnlyStamped
          <5> QED BY <1>2, <3>3, <5>2
        <4> QED BY <4>2, <4>3
      <3> QED BY <3>1, <3>2, <3>3
    <2>3. Meant(j)'
      BY <1>0, <1>1, <1>2, <1>3, <1>7 DEF Meant, JobIsRight
    <2>4. InHand(j)'
      <3>1. \A i \in Ids : LET v == IF i \in DOMAIN all THEN all[i] ELSE rules[i]
                           IN  /\ v # NoRule /\ v.owner = o <=>
                                    View(j, i) # NoRule /\ View(j, i).owner = o
                               /\ v # NoRule /\ v.owner = o => v.rule = View(j, i).rule
        BY <1>7 DEF View
      <3>2. rules_for(j, o)' = rules_for(j, o)
        <4> DEFINE t == [i \in Ids |-> View(j, i)]
                   u == [i \in Ids |-> IF i \in DOMAIN all THEN all[i] ELSE rules[i]]
        <4>1. rules_for(j, o) = Owned(t, o)
          BY DEF rules_for
        <4>2. rules_for(j, o)' = Owned(u, o)
          BY <1>1, <1>2 DEF rules_for, View
        <4>3. \A i \in Ids : t[i] = View(j, i) /\ u[i] = IF i \in DOMAIN all THEN all[i] ELSE rules[i]
          OBVIOUS
        <4> HIDE DEF t, u
        <4>4. Owned(u, o) = Owned(t, o)
          BY <3>1, <4>3, OwnedIsLocal
        <4> QED BY <4>1, <4>2, <4>4
      <3>3. Effective(o)' = Effective(o)
        BY <1>1, <1>2 DEF Effective
      <3>4. InHand(j)
        BY <1>0 DEF JobIsRight
      <3> QED BY <1>1, <1>2, <1>3, <3>2, <3>3, <3>4 DEF InHand
    <2> QED BY <2>1, <2>2, <2>3, <2>4 DEF JobIsRight
  <1>12. \A k \in Jobs : JobIsRight(k)'
    BY <1>1, <1>2, <1>11, OthersStay
  <1>13. InForce'
    <2>1. \A k \in Jobs : /\ Installing(k)' <=> Installing(k)
                          /\ job'[k].owner = job[k].owner
      BY <1>2, <1>3, OthersAre
    <2> QED BY <1>0, <1>1, <2>1 DEF InForce, Effective
  <1>14. EditsAreKept' /\ Followed'
    BY <1>0, <1>1 DEF EditsAreKept, Followed
  <1> QED BY <1>8, <1>9, <1>10, <1>12, <1>13, <1>14 DEF FiltersInv

\* What the commit of a job makes of a row.
LEMMA CommitsAre ==
    ASSUME FiltersInv, NEW j \in Jobs, Ended(j), NEW i \in Ids
    PROVE  /\ AtWork(j) /\ job[j].stage # "write" /\ View(j, i) \in FilterRow \cup {NoRule}
           /\ i \notin DOMAIN job[j].mine => View(j, i) = rules[i]
           /\ job[j].work.kind = "sieve" \/ i # job[j].work.id =>
                /\ View(j, i) # NoRule <=> rules[i] # NoRule
                /\ rules[i] # NoRule => /\ View(j, i).owner = rules[i].owner
                                        /\ View(j, i).rule = rules[i].rule
           /\ job[j].work.kind # "sieve" /\ i = job[j].work.id /\ i \in DOMAIN job[j].mine =>
                /\ Edited(j)
                /\ View(j, i) = job[j].mine[i]
                /\ View(j, i) # NoRule => View(j, i).owner = job[j].work.owner
                /\ rules[i] # NoRule => rules[i].owner = job[j].work.owner
  <1>0. FiltersTypeOK /\ JobIsRight(j) /\ IdsAreNew
    BY DEF FiltersInv
  <1>1. AtWork(j) /\ job[j].stage \notin {"write", "done", "idle"}
    BY DEF Ended, AtWork
  <1>2. View(j, i) \in FilterRow \cup {NoRule} /\ (i \notin DOMAIN job[j].mine => View(j, i) = rules[i])
    BY <1>0 DEF View, FiltersTypeOK
  <1>3. ASSUME job[j].work.kind = "sieve" \/ i # job[j].work.id
        PROVE  /\ View(j, i) # NoRule <=> rules[i] # NoRule
               /\ rules[i] # NoRule => /\ View(j, i).owner = rules[i].owner
                                       /\ View(j, i).rule = rules[i].rule
    BY <1>0, <1>1, <1>3 DEF JobIsRight, Written, OnlyStamped, View
  <1>4. ASSUME job[j].work.kind # "sieve", i = job[j].work.id, i \in DOMAIN job[j].mine
        PROVE  /\ Edited(j) /\ View(j, i) = job[j].mine[i]
               /\ View(j, i) # NoRule => View(j, i).owner = job[j].work.owner
               /\ rules[i] # NoRule => rules[i].owner = job[j].work.owner
    <2>1. Edited(j) /\ View(j, i) = job[j].mine[i]
      BY <1>0, <1>1, <1>4 DEF JobIsRight, Written, View
    <2>2. job[j].work.kind \in {"create", "update", "delete"}
      BY <1>0, <1>1, <1>4, TouchesAre
    <2>3. job[j].work.kind = "create" => rules[i] = NoRule
      BY <1>0, <1>1, <1>4 DEF IdsAreNew
    <2> QED BY <1>4, <2>1, <2>2, <2>3 DEF Edited
  <1> QED BY <1>1, <1>2, <1>3, <1>4

\* A commit leaves the rules of every other mailbox.
LEMMA CommitIsLocal ==
    ASSUME FiltersInv, NEW j \in Jobs, Ended(j), NEW a,
           job[j].work.kind = "sieve" \/ a # job[j].work.owner, NEW i \in Ids
    PROVE  /\ View(j, i) # NoRule /\ View(j, i).owner = a <=> rules[i] # NoRule /\ rules[i].owner = a
           /\ View(j, i) # NoRule /\ View(j, i).owner = a => View(j, i).rule = rules[i].rule
  BY CommitsAre

\* What a job at work has in hand stays right while another commits.
LEMMA OthersSeeACommit ==
    ASSUME FiltersInv, NEW j \in Jobs, NEW k \in Jobs \ {j}, Ended(j), job'[k] = job[k],
           rules' = [i \in Ids |-> View(j, i)], UNCHANGED <<scene, store>>
    PROVE  JobIsRight(k)'
  <1> DEFINE o == job[k].owner
  <1>0. /\ FiltersTypeOK /\ JobIsRight(j) /\ JobIsRight(k) /\ Solo /\ Exclusive /\ IdsAreNew
    BY DEF FiltersInv
  <1>1. (AtWork(k)' <=> AtWork(k)) /\ (Installing(k)' <=> Installing(k))
    BY OthersAre
  <1>2. \A i \in Ids : rules'[i] = View(j, i)
    OBVIOUS
  <1>3. OnTrack(k)'
    BY <1>0, <1>1 DEF JobIsRight, OnTrack
  <1>4. ASSUME NEW i \in DOMAIN job[k].mine
        PROVE  rules'[i] = rules[i] /\ i \in Ids
    <2>1. i \in Ids /\ i \notin DOMAIN job[j].mine
      BY <1>0, <1>4 DEF FiltersTypeOK, Exclusive
    <2> QED BY <1>2, <2>1 DEF View
  <1>5. Written(k)'
    <2>1. Written(k)
      BY <1>0 DEF JobIsRight
    <2>2. ASSUME NEW i \in DOMAIN job[k].mine
          PROVE  OnlyStamped(k, i)' = OnlyStamped(k, i)
      BY <1>4 DEF OnlyStamped
    <2>3. job[k].work.id \in DOMAIN job[k].mine => Edited(k)' = Edited(k)
      BY <1>4 DEF Edited
    <2> QED BY <1>1, <2>1, <2>2, <2>3 DEF Written
  <1>6. Meant(k)'
    <2>1. Meant(k)
      BY <1>0 DEF JobIsRight
    <2>2. ASSUME job[k].stage = "write", job[k].work.kind = "update"
          PROVE  /\ rules'[job[k].work.id] # NoRule =>
                      rules'[job[k].work.id].owner = job[k].work.owner
                 /\ scene.database = "sqlite" => rules'[job[k].work.id] = rules[job[k].work.id]
      <3> DEFINE id == job[k].work.id
      <3>1. AtWork(k) /\ AtWork(j) /\ job[k].stage # "idle" /\ job[j].stage \notin {"idle", "done"}
        BY <2>2 DEF AtWork, Ended
      <3>2. id \in Ids /\ (rules[id] # NoRule => rules[id].owner = job[k].work.owner)
        BY <1>0, <2>1, <2>2, <3>1, TouchesAre DEF Meant
      <3>3. scene.database = "sqlite" => View(j, id) = rules[id]
        <4>1. Writing(k)
          BY <2>2, <3>1 DEF Writing
        <4>2. scene.database = "sqlite" => DOMAIN job[j].mine = {}
          BY <1>0, <3>1, <4>1 DEF Exclusive, Writing
        <4> QED BY <4>2 DEF View
      <3>4. View(j, id) # NoRule => View(j, id).owner = job[k].work.owner
        <4>1. CASE job[j].work.kind = "sieve" \/ id # job[j].work.id \/ id \notin DOMAIN job[j].mine
          BY <3>2, <4>1, CommitsAre
        <4>2. CASE job[j].work.kind # "sieve" /\ id = job[j].work.id /\ id \in DOMAIN job[j].mine
          <5>1. Edited(j) /\ job[j].work.kind \in {"create", "update", "delete"}
            BY <1>0, <3>1, <3>2, <4>2, CommitsAre, TouchesAre
          <5>2. job[j].work.kind # "create"
            BY <1>0, <2>2, <3>1, <4>2 DEF IdsAreNew
          <5> QED BY <3>2, <4>2, <5>1, <5>2 DEF Edited, View
        <4> QED BY <4>1, <4>2
      <3> QED BY <1>2, <3>2, <3>3, <3>4
    <2> QED BY <1>1, <2>1, <2>2 DEF Meant
  <1>7. InHand(k)'
    <2> SUFFICES ASSUME Installing(k), o \in job[k].alone
                 PROVE  InHand(k)'
      BY <1>1 DEF InHand
    <2>1. AtWork(k) /\ job[k].stage # "next" /\ AtWork(j) /\ job[j].stage # "idle"
      BY DEF AtWork, Installing, Ended
    <2>2. o \in Accounts /\ o \notin Touches(j)
      BY <1>0, <2>1 DEF JobIsRight, OnTrack, Solo
    <2>3. job[j].work.kind # "sieve" /\ o # job[j].work.owner
      BY <1>0, <2>1, <2>2, TouchesAre
    <2>4. rules_for(k, o)' = rules_for(k, o)
      <3> DEFINE t == [i \in Ids |-> View(k, i)]
                 u == [i \in Ids |-> IF i \in DOMAIN job[k].mine THEN job[k].mine[i] ELSE rules'[i]]
      <3>1. rules_for(k, o) = Owned(t, o)
        BY DEF rules_for
      <3>2. rules_for(k, o)' = Owned(u, o)
        BY DEF rules_for, View
      <3>3. \A i \in Ids : /\ i \in DOMAIN job[k].mine => u[i] = t[i]
                           /\ i \notin DOMAIN job[k].mine => u[i] = View(j, i) /\ t[i] = rules[i]
        BY <1>2 DEF View
      <3> HIDE DEF t, u
      <3>4. \A i \in Ids : /\ u[i] # NoRule /\ u[i].owner = o <=> t[i] # NoRule /\ t[i].owner = o
                           /\ u[i] # NoRule /\ u[i].owner = o => u[i].rule = t[i].rule
        BY <2>3, <3>3, CommitIsLocal
      <3>5. Owned(u, o) = Owned(t, o)
        BY <3>4, OwnedIsLocal
      <3> QED BY <3>1, <3>2, <3>5
    <2>5. Effective(o)' = Effective(o)
      BY DEF Effective
    <2> QED BY <1>0, <1>1, <2>4, <2>5 DEF JobIsRight, InHand
  <1> QED BY <1>3, <1>5, <1>6, <1>7 DEF JobIsRight

\* A job commits.
LEMMA CommitKeeps ==
    ASSUME FiltersInv, NEW j \in Jobs, Commit(j)
    PROVE  FiltersInv'
  <1> DEFINE work == job[j].work
             o    == job[j].owner
             seen == [i \in Ids |-> View(j, i)]
  <1>0. /\ FiltersTypeOK /\ JobIsRight(j) /\ Exclusive /\ IdsAreNew /\ InForce /\ EditsAreKept
        /\ Followed /\ \A k \in Jobs : JobIsRight(k)
    BY DEF FiltersInv
  <1>1. /\ Ended(j) /\ rules' = seen /\ expected' = Applied(expected, work)
        /\ IF work.kind = "sieve" THEN UNCHANGED settled ELSE Settle(j, TRUE)
        /\ UNCHANGED <<scene, store, faults, last>>
    BY DEF Commit
  <1>2. \A i \in Ids : rules'[i] = View(j, i)
    BY <1>1
  <1> HIDE DEF seen
  <1>3. /\ DOMAIN job' = Jobs /\ \A k \in Jobs \ {j} : job'[k] = job[k]
        /\ DOMAIN job'[j] = DOMAIN Idle /\ job'[j].work = work /\ job'[j].alone = job[j].alone
        /\ job'[j].stage = "done" /\ job'[j].answer = 200 /\ job'[j].mine = <<>>
        /\ job'[j].todo = job[j].todo /\ job'[j].handed = job[j].handed
    <2>1. DOMAIN job[j] = DOMAIN Idle /\ DOMAIN job = Jobs
      BY <1>0 DEF FiltersTypeOK
    <2> QED BY <2>1 DEF Commit, Idle
  <1>4. /\ AtWork(j) /\ ~AtWork(j)' /\ ~Installing(j)' /\ DOMAIN job'[j].mine = {}
        /\ job[j].stage \notin {"idle", "write", "done"}
        /\ work.kind = "sieve" => job[j].stage = "next"
        /\ work.kind # "sieve" => job[j].stage = "installed"
    BY <1>0, <1>1, <1>3 DEF AtWork, Installing, Ended, JobIsRight, OnTrack
  <1>5. Moves(j)
    BY <1>1, <1>3, <1>4 DEF Moves
  <1>6. /\ work.kind \in {"create", "update", "delete", "sieve"}
        /\ work.kind # "sieve" => work.id \in Ids /\ o = work.owner /\ o \in Accounts
        /\ work.kind = "create" => work.rule \in Rule
        /\ work.kind = "update" => Merged(spam_rule, work.rule) \in Rule
    BY <1>0, <1>4, TouchesAre DEF JobIsRight, OnTrack
  <1>7. settled' \subseteq Accounts
    BY <1>0, <1>1, <1>6 DEF Settle, FiltersTypeOK
  <1>8. /\ expected' \in [Ids -> FilterRow \cup {NoRule}]
        /\ \A i \in Ids : work.kind = "sieve" \/ i # work.id => expected'[i] = expected[i]
        /\ work.kind = "create" => expected'[work.id] # NoRule /\ expected'[work.id].rule = work.rule
        /\ work.kind = "delete" => expected'[work.id] = NoRule
        /\ work.kind = "update" /\ expected[work.id] # NoRule =>
             /\ expected'[work.id] # NoRule
             /\ expected'[work.id].rule = Merged(expected[work.id].rule, work.rule)
    <2>0. expected \in [Ids -> FilterRow \cup {NoRule}]
      BY <1>0 DEF FiltersTypeOK
    <2>1. CASE work.kind = "create"
      <3> DEFINE row == [owner |-> work.owner, rule |-> work.rule, stamped |-> FALSE]
      <3>1. row \in FilterRow /\ row.rule = work.rule
        BY <1>6, <2>1 DEF FilterRow
      <3>2. expected' = [expected EXCEPT ![work.id] = row]
        BY <1>1, <2>1 DEF Applied
      <3> HIDE DEF row
      <3> QED BY <1>6, <2>0, <2>1, <3>1, <3>2, RowsAreThere
    <2>2. CASE work.kind = "update" /\ expected[work.id] # NoRule
      <3> DEFINE row == [expected[work.id] EXCEPT !.rule = Merged(expected[work.id].rule, work.rule)]
      <3>1. expected[work.id] \in FilterRow
        BY <1>6, <2>0, <2>2
      <3>2. Merged(expected[work.id].rule, work.rule) \in Rule
        BY <1>6, <2>2, <3>1, MergedIsRule DEF FilterRow
      <3>3. row \in FilterRow /\ row.rule = Merged(expected[work.id].rule, work.rule)
        BY <3>1, <3>2 DEF FilterRow
      <3>4. expected' = [expected EXCEPT ![work.id] = row]
        BY <1>1, <1>6, <2>0, <2>2 DEF Applied
      <3> HIDE DEF row
      <3> QED BY <1>6, <2>0, <2>2, <3>3, <3>4, RowsAreThere
    <2>3. CASE work.kind = "delete"
      <3>1. expected' = [expected EXCEPT ![work.id] = NoRule]
        BY <1>1, <2>3 DEF Applied
      <3>2. \A i \in Ids : expected'[i] = IF i = work.id THEN NoRule ELSE expected[i]
        BY <1>6, <2>0, <2>3, <3>1
      <3>3. expected' \in [Ids -> FilterRow \cup {NoRule}]
        <4>1. DOMAIN expected' = Ids /\ expected' = [i \in Ids |-> expected'[i]]
          BY <2>0, <3>1
        <4> QED BY <2>0, <3>2, <4>1
      <3> QED BY <1>6, <2>0, <2>3, <3>2, <3>3
    <2>4. CASE work.kind = "sieve" \/ (work.kind = "update" /\ expected[work.id] = NoRule)
      BY <1>1, <2>0, <2>4 DEF Applied
    <2> QED BY <1>6, <2>1, <2>2, <2>3, <2>4
  <1>9. FiltersTypeOK'
    <2>1. /\ DOMAIN job'[j].mine \subseteq Ids /\ job'[j].todo \subseteq Accounts
          /\ \A i \in DOMAIN job'[j].mine : job'[j].mine[i] \in FilterRow \cup {NoRule}
          /\ job'[j].answer \in {0, 200, 400, 404, 500, 502} /\ job'[j].handed \in BOOLEAN
      BY <1>0, <1>3, <1>4 DEF FiltersTypeOK
    <2>2. rules' \in [Ids -> FilterRow \cup {NoRule}]
      BY <1>1, CommitsAre DEF seen
    <2>3. /\ faults' \in 0..MaxFaults /\ DOMAIN store' = Accounts
          /\ \A b \in Accounts : /\ DOMAIN store'[b] = {"stored", "active", "file"}
                                 /\ store'[b].active \in {"none", "link", "file"}
      BY <1>0, <1>1 DEF FiltersTypeOK
    <2>4. job'[j].stage \in FilterStages
      BY <1>3 DEF FilterStages
    <2> QED BY <1>0, <1>5, <1>7, <1>8, <2>1, <2>2, <2>3, <2>4, TypesMove
  <1>10. Solo' /\ Exclusive'
    BY <1>4, <1>5, MovesKeep
  <1>11. IdsAreNew'
    <2> SUFFICES ASSUME NEW k \in Jobs, job'[k].work.kind = "create", job'[k].stage # "done"
                 PROVE  /\ rules'[job'[k].work.id] = NoRule
                        /\ \A m \in Jobs : job'[m].work.kind \in {"update", "delete"} /\ AtWork(m)' =>
                                job'[m].work.id # job'[k].work.id
      BY DEF IdsAreNew
    <2>1. k # j /\ job'[k] = job[k]
      BY <1>3
    <2>2. job[k].stage # "idle"
      BY <1>0, <2>1 DEF JobIsRight, OnTrack
    <2>3. job[k].work.id \in Ids /\ rules[job[k].work.id] = NoRule
      BY <1>0, <2>1, <2>2, TouchesAre DEF IdsAreNew
    <2>4. work.kind = "create" => work.id # job[k].work.id
      BY <1>0, <1>4, <2>1, <2>2, FilterAssumption DEF FiltersTypeOK
    <2>5. View(j, job[k].work.id) = NoRule
      <3>1. CASE work.kind = "sieve" \/ job[k].work.id # work.id \/ job[k].work.id \notin DOMAIN job[j].mine
        BY <1>1, <2>3, <3>1, CommitsAre
      <3>2. CASE work.kind # "sieve" /\ job[k].work.id = work.id /\ job[k].work.id \in DOMAIN job[j].mine
        <4>1. Edited(j)
          BY <1>1, <2>3, <3>2, CommitsAre
        <4> QED BY <1>6, <2>3, <2>4, <3>2, <4>1 DEF Edited
      <3> QED BY <3>1, <3>2
    <2>6. \A m \in Jobs : job'[m].work.kind \in {"update", "delete"} /\ AtWork(m)' =>
                                job'[m].work.id # job'[k].work.id
      BY <1>0, <1>3, <1>4, <2>1, OthersAre DEF IdsAreNew
    <2> QED BY <1>2, <2>1, <2>3, <2>5, <2>6
  <1>12. JobIsRight(j)'
    BY <1>3, <1>4 DEF JobIsRight, OnTrack, Written, Meant, InHand
  <1>13. \A k \in Jobs : JobIsRight(k)'
    BY <1>1, <1>3, <1>12, OthersSeeACommit DEF seen
  <1>14. InForce'
    <2> SUFFICES ASSUME NEW a \in settled', \A k \in Jobs : Installing(k)' => job'[k].owner # a
                 PROVE  Effective(a)' = compile_script(Owned(rules, a)')
      BY DEF InForce
    <2>1. /\ Owned(rules, a)' = Owned(seen, a) /\ rules_for(j, a) = Owned(seen, a)
          /\ Effective(a)' = Effective(a)
      BY <1>1 DEF rules_for, seen, Effective
    <2>2. job[j].handed <=> Installing(j)
      BY <1>0, <1>4 DEF JobIsRight, OnTrack
    <2>3. CASE work.kind # "sieve" /\ a = o
      <3>1. Installing(j) /\ job[j].stage = "installed"
        BY <1>4, <2>3 DEF Installing
      <3>2. o \in job[j].alone
        BY <1>1, <2>2, <2>3, <3>1 DEF Settle
      <3>3. Effective(o) = compile_script(rules_for(j, o))
        BY <1>0, <3>1, <3>2 DEF JobIsRight, InHand
      <3> QED BY <2>1, <2>3, <3>3
    <2>4. CASE work.kind = "sieve" \/ a # o
      <3>1. a \in settled
        BY <1>1, <2>4 DEF Settle
      <3>2. Installing(j) => job[j].owner # a
        BY <1>4, <2>4 DEF Installing
      <3>3. \A k \in Jobs : Installing(k) => job[k].owner # a
        BY <1>3, <3>2, OthersAre
      <3>4. Owned(seen, a) = Owned(rules, a)
        <4>1. \A i \in Ids : seen[i] = View(j, i)
          BY DEF seen
        <4> QED BY <1>1, <1>6, <2>4, <4>1, CommitIsLocal, OwnedIsLocal
      <3> QED BY <1>0, <2>1, <3>1, <3>3, <3>4 DEF InForce
    <2> QED BY <2>3, <2>4
  <1>15. EditsAreKept'
    <2> SUFFICES ASSUME scene.database = "sqlite", NEW i \in Ids
                 PROVE  IF expected'[i] = NoRule THEN rules'[i] = NoRule
                        ELSE rules'[i] # NoRule /\ rules'[i].rule = expected'[i].rule
      BY <1>1 DEF EditsAreKept
    <2>1. IF expected[i] = NoRule THEN rules[i] = NoRule
          ELSE rules[i] # NoRule /\ rules[i].rule = expected[i].rule
      BY <1>0 DEF EditsAreKept
    <2>2. CASE work.kind = "sieve" \/ i # work.id
      BY <1>1, <1>2, <1>8, <2>1, <2>2, CommitsAre
    <2>3. CASE work.kind # "sieve" /\ i = work.id
      <3>1. i \in DOMAIN job[j].mine
        BY <1>0, <1>4, <1>6, <2>3 DEF JobIsRight, Meant
      <3>2. Edited(j) /\ View(j, i) = job[j].mine[i]
        BY <1>1, <2>3, <3>1, CommitsAre
      <3>3. CASE work.kind = "create"
        BY <1>2, <1>8, <2>3, <3>2, <3>3 DEF Edited
      <3>4. CASE work.kind = "delete"
        BY <1>2, <1>8, <2>3, <3>2, <3>4 DEF Edited
      <3>5. CASE work.kind = "update"
        BY <1>2, <1>8, <2>1, <2>3, <3>2, <3>5 DEF Edited
      <3> QED BY <1>6, <2>3, <3>3, <3>4, <3>5
    <2> QED BY <2>2, <2>3
  <1>16. Followed'
    BY <1>0, <1>1 DEF Followed
  <1> QED BY <1>9, <1>10, <1>11, <1>13, <1>14, <1>15, <1>16 DEF FiltersInv

-----------------------------------------------------------------------------
(* Every step. *)

\* Whatever a request, the command or a message does, the invariant is kept.
LEMMA FilterStepsKeep ==
    ASSUME FiltersInv, [FiltersNext]_filters_vars
    PROVE  FiltersInv'
  <1>1. ASSUME NEW j \in Jobs, JobStep(j) PROVE FiltersInv'
    <2>1. \/ create_filter(j) \/ update_filter(j) \/ delete_filter(j)
          \/ Write(j)
          \/ Compile(j) \/ sieve_put(j) \/ sieve_activate(j) \/ write_script(j)
          \/ CannotCompile(j) \/ DoveadmError(j) \/ CopyError(j) \/ Deadlocked(j)
          \/ CommitFails(j) \/ AccountDone(j)
          \/ Stamp(j) \/ Commit(j) \/ install_all(j) \/ NextAccount(j)
      BY <1>1 DEF JobStep
    <2> QED BY <2>1, RequestsBegin, WriteKeeps, InstallationKeeps, FailuresKeep, StampKeeps,
               CommitKeeps, InstallAllKeeps, NextAccountKeeps
  <1>2. ASSUME NEW a \in Accounts, Deliver(a) PROVE FiltersInv'
    BY <1>2, DeliverKeeps
  <1>3. ASSUME UNCHANGED filters_vars PROVE FiltersInv'
    <2>1. UNCHANGED <<scene, rules, store, job, faults, expected, settled, last>>
      BY <1>3 DEF filters_vars
    <2>2. FiltersTypeOK' /\ Solo' /\ Exclusive'
      BY <2>1 DEF FiltersInv, FiltersTypeOK, Solo, Exclusive, AtWork, Touches, Writing
    <2>4. IdsAreNew' /\ InForce'
      BY <2>1 DEF FiltersInv, IdsAreNew, InForce, AtWork, Installing, Effective
    <2>5. EditsAreKept' /\ Followed'
      BY <2>1 DEF FiltersInv, EditsAreKept, Followed
    <2>3. ASSUME NEW j \in Jobs PROVE JobIsRight(j)'
      <3>1. JobIsRight(j)
        BY DEF FiltersInv
      <3>2. (JobIsRight(j)') = JobIsRight(j)
        BY <2>1 DEF JobIsRight, OnTrack, Written, Meant, InHand, Edited, OnlyStamped, AtWork,
            Installing, Effective, rules_for, View
      <3> QED BY <3>1, <3>2
    <2> QED BY <2>2, <2>3, <2>4, <2>5 DEF FiltersInv
  <1> QED BY <1>1, <1>2, <1>3 DEF FiltersNext

\* So it holds for ever.
LEMMA FiltersStayRight == FiltersSpec => []FiltersInv
  BY FiltersStart, FilterStepsKeep, PTL DEF FiltersSpec

\* The tables of rules, the scripts, the transactions and what they hold have their types.
THEOREM FilterTypesAreKept == FiltersSpec => []FiltersTypeOK
  <1>1. FiltersInv => FiltersTypeOK
    BY DEF FiltersInv
  <1> QED BY <1>1, FiltersStayRight, PTL

\* After an installation that nobody joined, and while nobody is at work on the mailbox,
\* what Dovecot runs is the mailbox's rules, compiled (api/filters.py, sieve_install.py).
THEOREM ScriptsFollowTheTable == FiltersSpec => []ScriptFollowsTable
  <1>1. ASSUME FiltersInv PROVE ScriptFollowsTable
    <2> SUFFICES ASSUME NEW a \in settled, \A j \in Jobs : AtWork(j) => a \notin Touches(j)
                 PROVE  Effective(a) = compile_script(Owned(rules, a))
      BY DEF ScriptFollowsTable
    <2>1. FiltersTypeOK /\ InForce /\ \A j \in Jobs : JobIsRight(j)
      BY <1>1 DEF FiltersInv
    <2>2. ASSUME NEW j \in Jobs, Installing(j) PROVE job[j].owner # a
      <3>1. AtWork(j) /\ job[j].stage # "next"
        BY <2>2 DEF Installing, AtWork
      <3>2. job[j].owner \in Touches(j)
        BY <2>1, <3>1, OwnerIsTouched DEF JobIsRight
      <3> QED BY <3>1, <3>2
    <2> QED BY <2>1, <2>2 DEF InForce
  <1> QED BY <1>1, FiltersStayRight, PTL

\* On SQLite the table is what the successful requests say, one after the other: the
\* key's row that each writes first keeps the others out (api/filters.py, apikeys.py).
THEOREM EditsAreNotLost == FiltersSpec => []EditsAreKept
  <1>1. FiltersInv => EditsAreKept
    BY DEF FiltersInv
  <1> QED BY <1>1, FiltersStayRight, PTL

-----------------------------------------------------------------------------
(* Spam. *)

\* A script of one block does what the block does.
LEMMA OneBlock ==
    ASSUME NEW b, NEW m, NEW st
    PROVE  RunScript(<<b>>, m, st) = IF Matches(b, m) THEN FoldLeft(Do, st, b.commands) ELSE st
  <1> DEFINE One(s, c) == IF Matches(c, m) THEN FoldLeft(Do, s, c.commands) ELSE s
             Is(H) == H = [s \in SUBSET {1} |-> IF s = {} THEN st
                                               ELSE One(H[s \ {Max(s)}], <<b>>[Max(s)])]
             G == [s \in SUBSET {1} |-> IF s = {} THEN st ELSE One(st, b)]
             K == CHOOSE H : Is(H)
  <1>1. DOMAIN <<b>> = {1} /\ Max({1}) = 1 /\ <<b>>[1] = b
    BY DEF Max
  <1>2. RunScript(<<b>>, m, st) = K[{1}]
    BY <1>1 DEF RunScript, FoldLeft, MapThenFoldSet
  <1>3. Is(G)
    <2>1. ASSUME NEW s \in SUBSET {1}, s # {}
          PROVE  One(st, b) = One(G[s \ {Max(s)}], <<b>>[Max(s)])
      <3>1. s = {1} /\ s \ {Max(s)} = {}
        BY <1>1, <2>1
      <3> HIDE DEF One
      <3> QED BY <1>1, <3>1
    <2> HIDE DEF One
    <2> QED BY <2>1
  <1> HIDE DEF G, One
  <1>4. Is(K)
    BY <1>3
  <1> HIDE DEF K
  <1>5. K[{1}] = One(st, b)
    <2>1. {1} \in SUBSET {1} /\ {} \in SUBSET {1} /\ {1} \ {Max({1})} = {}
      BY <1>1
    <2>2. K[{}] = st
      BY <1>4, <2>1
    <2>3. K[{1}] = One(K[{1} \ {Max({1})}], <<b>>[Max({1})])
      BY <1>4, <2>1
    <2> QED BY <1>1, <2>1, <2>2, <2>3
  <1> QED BY <1>2, <1>5 DEF One

\* Two commands are one after the other.
LEMMA TwoCommands ==
    ASSUME NEW b, NEW c, NEW st
    PROVE  FoldLeft(Do, st, <<b, c>>) = Do(Do(st, b), c)
  <1> DEFINE P == SUBSET {1, 2}
             Is(H) == H = [s \in P |-> IF s = {} THEN st ELSE Do(H[s \ {Max(s)}], <<b, c>>[Max(s)])]
             After(s) == CASE s = {}     -> st
                           [] s = {1}    -> Do(st, b)
                           [] s = {2}    -> Do(st, c)
                           [] s = {1, 2} -> Do(Do(st, b), c)
             G == [s \in P |-> After(s)]
             K == CHOOSE H : Is(H)
  <1>1. /\ DOMAIN <<b, c>> = {1, 2} /\ <<b, c>>[1] = b /\ <<b, c>>[2] = c
        /\ Max({1}) = 1 /\ Max({2}) = 2 /\ Max({1, 2}) = 2
    BY DEF Max
  <1>2. /\ {} \in P /\ {1} \in P /\ {2} \in P /\ {1, 2} \in P
        /\ \A s \in P : s = {} \/ s = {1} \/ s = {2} \/ s = {1, 2}
        /\ {1} \ {1} = {} /\ {2} \ {2} = {} /\ {1, 2} \ {2} = {1}
        /\ {1} # {} /\ {2} # {} /\ {1, 2} # {} /\ {1} # {2} /\ {1} # {1, 2} /\ {2} # {1, 2}
    <2>1. \A s \in P : s = {} \/ s = {1} \/ s = {2} \/ s = {1, 2}
      <3>1. ASSUME NEW s \in P PROVE s = {} \/ s = {1} \/ s = {2} \/ s = {1, 2}
        <4>1. s \subseteq {1, 2}
          OBVIOUS
        <4>2. CASE 1 \in s /\ 2 \in s
          BY <4>1, <4>2
        <4>3. CASE 1 \in s /\ 2 \notin s
          BY <4>1, <4>3
        <4>4. CASE 1 \notin s /\ 2 \in s
          BY <4>1, <4>4
        <4>5. CASE 1 \notin s /\ 2 \notin s
          BY <4>1, <4>5
        <4> QED BY <4>2, <4>3, <4>4, <4>5
      <3> QED BY <3>1
    <2>2. {} \in P /\ {1} \in P /\ {2} \in P /\ {1, 2} \in P
      OBVIOUS
    <2>3. {1} \ {1} = {} /\ {2} \ {2} = {} /\ {1, 2} \ {2} = {1}
      OBVIOUS
    <2>4. {1} # {} /\ {2} # {} /\ {1, 2} # {} /\ {1} # {2} /\ {1} # {1, 2} /\ {2} # {1, 2}
      OBVIOUS
    <2> QED BY <2>1, <2>2, <2>3, <2>4
  <1>3. FoldLeft(Do, st, <<b, c>>) = K[{1, 2}]
    BY <1>1 DEF FoldLeft, MapThenFoldSet
  <1> HIDE DEF P
  <1>4. /\ DOMAIN G = P /\ \A s \in P : G[s] = After(s)
        /\ G[{}] = st /\ G[{1}] = Do(st, b) /\ G[{2}] = Do(st, c) /\ G[{1, 2}] = Do(Do(st, b), c)
    BY <1>2
  <1>5. Is(G)
    <2>1. \A s \in P : G[s] = IF s = {} THEN st ELSE Do(G[s \ {Max(s)}], <<b, c>>[Max(s)])
      BY <1>1, <1>2, <1>4
    <2>2. \A s \in P : After(s) = IF s = {} THEN st ELSE Do(G[s \ {Max(s)}], <<b, c>>[Max(s)])
      BY <1>4, <2>1
    <2> HIDE DEF After
    <2> QED BY <2>2
  <1> HIDE DEF G
  <1>6. Is(K)
    BY <1>5
  <1> HIDE DEF K
  <1>7. K[{}] = st
    BY <1>2, <1>6
  <1>8. K[{1}] = Do(st, b)
    <2>1. {1} # {} /\ {1} \ {Max({1})} = {} /\ <<b, c>>[Max({1})] = b
      BY <1>1
    <2>2. K[{1}] = Do(K[{1} \ {Max({1})}], <<b, c>>[Max({1})])
      BY <1>2, <1>6, <2>1
    <2> QED BY <1>7, <2>1, <2>2
  <1>9. K[{1, 2}] = Do(K[{1}], c)
    <2>1. {1, 2} # {} /\ {1, 2} \ {Max({1, 2})} = {1} /\ <<b, c>>[Max({1, 2})] = c
      BY <1>1
    <2>2. K[{1, 2}] = Do(K[{1, 2} \ {Max({1, 2})}], <<b, c>>[Max({1, 2})])
      BY <1>2, <1>6, <2>1
    <2> QED BY <2>1, <2>2
  <1> QED BY <1>3, <1>8, <1>9

\* The server-wide script, on mail that is marked.
LEMMA MarkedMailIsJunk ==
    ASSUME NEW script, NEW m, SpamMark \in m.words
    PROVE  Filed(script, m) = [folders |-> {<<"Junk", {}>>}, sent |-> {}]
  <1> DEFINE block == compile_rule(spam_rule)
             done  == RunScript(spam_script, m, Arrived)
  <1>1. block.commands = <<<<"file_into", "Junk">>, <<"stop", "">>>>
    BY DEF compile_rule, spam_rule
  <1>2. Matches(block, m)
    <2> DEFINE test == [field |-> "header", op |-> "equals", number |-> NotANumber,
                        word |-> "X-Lightr-Spam-Action: junk"]
    <2>1. block.all = (spam_rule.match_type = "all") /\ block.tests = spam_rule.conditions
      BY DEF compile_rule
    <2>2. spam_rule.match_type = "all" /\ spam_rule.conditions = <<test>>
      BY DEF spam_rule
    <2>3. Passes(test, m)
      BY DEF Passes, SpamMark, AuthFields
    <2> HIDE DEF block, test
    <2>4. DOMAIN <<test>> = {1} /\ <<test>>[1] = test
      OBVIOUS
    <2>5. DOMAIN block.tests = {1} /\ block.tests[1] = test /\ block.all
      BY <2>1, <2>2, <2>4
    <2> QED BY <2>3, <2>5 DEF Matches
  <1>3. done = FoldLeft(Do, Arrived, <<<<"file_into", "Junk">>, <<"stop", "">>>>)
    <2> HIDE DEF block
    <2> QED BY <1>1, <1>2, OneBlock DEF spam_script, block
  <1>4. done = Do(Do(Arrived, <<"file_into", "Junk">>), <<"stop", "">>)
    BY <1>3, TwoCommands
  <1> HIDE DEF done
  <1>5. Do(Arrived, <<"file_into", "Junk">>) =
            [folders |-> {<<"Junk", {}>>}, flags |-> {}, sent |-> {}, keep |-> FALSE, stopped |-> FALSE]
    BY DEF Do, Arrived
  <1>6. done.folders = {<<"Junk", {}>>} /\ done.sent = {} /\ done.keep = FALSE
    <2> DEFINE filed == [folders |-> {<<"Junk", {}>>}, flags |-> {}, sent |-> {}, keep |-> FALSE,
                         stopped |-> FALSE]
    <2>1. /\ DOMAIN filed = {"folders", "flags", "sent", "keep", "stopped"} /\ filed.stopped = FALSE
          /\ filed.folders = {<<"Junk", {}>>} /\ filed.sent = {} /\ filed.keep = FALSE
      OBVIOUS
    <2> HIDE DEF filed
    <2>2. Do(filed, <<"stop", "">>) = [filed EXCEPT !.stopped = TRUE]
      BY <2>1 DEF Do
    <2>3. done = [filed EXCEPT !.stopped = TRUE]
      BY <1>4, <1>5, <2>2 DEF filed
    <2> QED BY <2>1, <2>3
  <1>7. Filed(script, m) = [folders |-> done.folders \cup {}, sent |-> done.sent]
    BY <1>6 DEF Filed, done
  <1> QED BY <1>6, <1>7

\* Mail judged spam ends in Junk, whatever the mailbox's rules and the message's own
\* headers say; all other mail is filed by those rules (mail/headers.py, dovecot/config.py).
THEOREM SpamGoesToJunk == FiltersSpec => []SpamIsFiled
  <1>1. ASSUME Followed PROVE SpamIsFiled
    <2> DEFINE m      == last.mail
               v      == last.verdict
               honest == [m EXCEPT !.words = @ \ {SpamMark}]
    <2> SUFFICES ASSUME last # NoMail
                 PROVE  IF v.spam /\ last.owner \notin TagPolicy
                        THEN last.filed = [folders |-> {<<"Junk", {}>>}, sent |-> {}]
                        ELSE last.filed = Filed(last.script, apply(honest, v, {}))
      BY DEF SpamIsFiled
    <2>1. /\ m \in Message
          /\ last.filed = Filed(last.script, apply(m, v, spam_action(v, last.owner)))
      BY <1>1 DEF Followed
    <2> HIDE DEF m, v
    <2>2. CASE v.spam /\ last.owner \notin TagPolicy
      <3>1. SpamMark \in apply(m, v, spam_action(v, last.owner)).words
        BY <2>2 DEF apply, spam_action
      <3> QED BY <2>1, <2>2, <3>1, MarkedMailIsJunk
    <2>3. CASE ~(v.spam /\ last.owner \notin TagPolicy)
      <3>1. spam_action(v, last.owner) = {}
        BY <2>3 DEF spam_action
      <3>2. /\ honest.words = m.words \ {SpamMark} /\ honest.size = m.size
        BY <2>1 DEF Message
      <3>3. apply(honest, v, {}) = apply(m, v, {})
        BY <3>2 DEF apply
      <3> QED BY <2>1, <2>3, <3>1, <3>3
    <2> QED BY <2>2, <2>3
  <1>2. FiltersInv => Followed
    BY DEF FiltersInv
  <1> QED BY <1>1, <1>2, FiltersStayRight, PTL

-----------------------------------------------------------------------------
(* Outages. *)

\* What answering in the sender's favour leaves of a message.
LEMMA AnsweredIs ==
    ASSUME NEW m \in Message
    PROVE  LET a == Answered(m)
           IN  /\ a.spf = IF m.spf \in {"timeout", "error"} THEN "pass" ELSE m.spf
               /\ a.dkim = IF m.dkim \in {"timeout", "error"} THEN "valid" ELSE m.dkim
               /\ \A z \in AddressZones \cup DomainZones :
                    a.manner[z] = IF m.manner[z] \in {"honest", "everything"} THEN m.manner[z] ELSE "down"
               /\ a.dmarc = m.dmarc /\ a.global = m.global /\ a.sender = m.sender /\ a.helo = m.helo
               /\ a.signer = m.signer /\ a.from = m.from /\ a.links = m.links
               /\ a.entries = m.entries /\ a.flaws = m.flaws /\ a.executables = m.executables
               /\ a.rspamd = m.rspamd
  <1>1. DOMAIN m.manner = AddressZones \cup DomainZones
    BY DEF Message
  <1> DEFINE S == IF m.spf \in {"timeout", "error"} THEN "pass" ELSE m.spf
             D == IF m.dkim \in {"timeout", "error"} THEN "valid" ELSE m.dkim
             M == [z \in DOMAIN m.manner |-> IF m.manner[z] \in {"honest", "everything"}
                                             THEN m.manner[z] ELSE "down"]
  <1>2. Answered(m) = [m EXCEPT !.spf = S, !.dkim = D, !.manner = M]
    BY DEF Answered
  <1>3. \A z \in AddressZones \cup DomainZones :
            M[z] = IF m.manner[z] \in {"honest", "everything"} THEN m.manner[z] ELSE "down"
    BY <1>1
  <1> HIDE DEF S, D, M
  <1>4. Answered(m).spf = S /\ Answered(m).dkim = D /\ Answered(m).manner = M
    BY <1>2 DEF Message
  <1>5. LET a == Answered(m)
        IN  /\ a.dmarc = m.dmarc /\ a.global = m.global /\ a.sender = m.sender /\ a.helo = m.helo
            /\ a.signer = m.signer /\ a.from = m.from /\ a.links = m.links
            /\ a.entries = m.entries /\ a.flaws = m.flaws /\ a.executables = m.executables
            /\ a.rspamd = m.rspamd
    BY <1>2 DEF Message
  <1> QED BY <1>3, <1>4, <1>5 DEF S, D

\* Whom a list calls listed: those it has, and, when it has everyone, everyone.
LEMMA ListedBy ==
    ASSUME NEW manner, NEW entry
    PROVE  (\E a \in ListAnswers(manner, entry) : classify(a) = "listed")
                <=> (manner = "honest" /\ entry) \/ manner = "everything"
  <1>1. /\ classify("127.0.0.2") = "listed" /\ classify("127.255.255.254") # "listed"
        /\ classify("127.0.0.1") # "listed" /\ classify("198.51.100.7") # "listed"
    BY DEF classify
  <1> QED BY <1>1 DEF ListAnswers

\* So the listings are the same.
LEMMA ListingsAreKept ==
    ASSUME NEW m \in Message
    PROVE  check(Answered(m)) = check(m)
  <1> DEFINE a == Answered(m)
  <1>1. lookups(a) = lookups(m) /\ a.entries = m.entries
    BY AnsweredIs DEF lookups, Subjects, link_domains
  <1>2. \A l \in lookups(m) : l[1] \in AddressZones \cup DomainZones
    BY DEF lookups
  <1>3. ASSUME NEW l \in lookups(m)
        PROVE  (\E x \in ListAnswers(a.manner[l[1]], l \in a.entries) : classify(x) = "listed")
                  <=> (\E x \in ListAnswers(m.manner[l[1]], l \in m.entries) : classify(x) = "listed")
    <2>1. a.manner[l[1]] = IF m.manner[l[1]] \in {"honest", "everything"} THEN m.manner[l[1]] ELSE "down"
      BY <1>2, <1>3, AnsweredIs
    <2> DEFINE e == l \in m.entries
               p == a.manner[l[1]]
               q == m.manner[l[1]]
    <2>2. p = (IF q \in {"honest", "everything"} THEN q ELSE "down") /\ (l \in a.entries) = e
      BY <1>1, <2>1
    <2> HIDE DEF a, e, p, q
    <2>3. (\E x \in ListAnswers(p, e) : classify(x) = "listed")
             <=> (\E x \in ListAnswers(q, e) : classify(x) = "listed")
      BY <2>2, ListedBy
    <2> QED BY <2>2, <2>3 DEF e, p, q
  <1> HIDE DEF a
  <1>4. check(a) = check(m)
    BY <1>1, <1>3 DEF check
  <1> QED BY <1>4 DEF a

\* A list that names whom it has no entry for lists everything.
LEMMA ListsThatNameAnyone ==
    ASSUME NEW m \in Message, NEW l \in check(m) \ m.entries
    PROVE  probe(m.manner[l[1]]) # "working"
  <1>1. m.manner[l[1]] = "everything"
    <2> DEFINE q == m.manner[l[1]]
               e == l \in m.entries
    <2>1. ~e /\ \E a \in ListAnswers(q, e) : classify(a) = "listed"
      BY DEF check
    <2> HIDE DEF q, e
    <2>2. q = "everything"
      BY <2>1, ListedBy
    <2> QED BY <2>2 DEF q
  <1>2. \A b \in BOOLEAN : ListAnswers("everything", b) = {"127.0.0.2"}
    BY DEF ListAnswers
  <1>3. {classify(x) : x \in ListAnswers("everything", TRUE)} = {"listed"}
    BY <1>2 DEF classify
  <1>4. probe("everything") = "lists everything"
    BY <1>2, <1>3 DEF probe
  <1> QED BY <1>1, <1>4

LEMMA FirstOf == \A what, points : <<what, points>>[1] = what
  OBVIOUS

\* What authentication blames stays blamed when the look-ups that failed are answered,
\* but for the DMARC failure of a DKIM look-up that raised.
LEMMA BlameIsEarned ==
    ASSUME NEW m \in Message,
           NEW r \in score_authentication(check_spf(m.spf), check_dkim(m.dkim),
                                          check_dmarc(m, check_spf(m.spf), check_dkim(m.dkim)),
                                          dmarc_policy(m.dmarc)),
           r[1] # <<"nothing to verify">>,
           m.dkim = "error" => r[1] # <<"dmarc=fail">>
    PROVE  LET a == Answered(m)
           IN  r \in score_authentication(check_spf(a.spf), check_dkim(a.dkim),
                                          check_dmarc(a, check_spf(a.spf), check_dkim(a.dkim)),
                                          dmarc_policy(a.dmarc))
  <1> DEFINE a     == Answered(m)
             spf   == check_spf(m.spf)
             dkim  == check_dkim(m.dkim)
             dmarc == check_dmarc(m, spf, dkim)
  <1>1. /\ a.dmarc = m.dmarc /\ a.from = m.from /\ a.signer = m.signer /\ SpfDomain(a) = SpfDomain(m)
        /\ m.spf \notin {"timeout", "error"} => a.spf = m.spf
        /\ m.dkim \notin {"timeout", "error"} => a.dkim = m.dkim
    BY AnsweredIs DEF SpfDomain
  <1> HIDE DEF a
  <1>2. /\ m.spf \in {"timeout", "error"} => spf = "temperror"
        /\ m.dkim = "timeout" => dkim = "temperror"
        /\ m.dkim = "error" => dkim = "permerror"
    BY DEF check_spf, check_dkim
  <1> HIDE DEF spf, dkim
  <1>3. spf # "temperror" => check_spf(a.spf) = spf
    BY <1>1, <1>2 DEF spf
  <1>4. dkim # "temperror" /\ m.dkim # "error" => check_dkim(a.dkim) = dkim
    BY <1>1, <1>2 DEF dkim
  <1>5. dmarc = "fail" /\ m.dkim # "error" =>
            check_dmarc(a, check_spf(a.spf), check_dkim(a.dkim)) = "fail"
    <2>1. dmarc = "fail" => spf # "temperror" /\ dkim # "temperror"
      BY DEF check_dmarc
    <2>2. check_dmarc(a, spf, dkim) = dmarc
      BY <1>1 DEF check_dmarc
    <2> QED BY <1>3, <1>4, <2>1, <2>2
  <1> HIDE DEF dmarc
  <1>6. \/ r \in When(spf = "fail", "spf=fail", 30) \/ r \in When(spf = "softfail", "spf=softfail", 10)
        \/ r \in When(dkim = "fail", "dkim=fail", 25)
        \/ r \in When(dmarc = "fail", "dmarc=fail", IF dmarc_policy(m.dmarc) = {"reject"} THEN 50 ELSE 35)
        \/ r \in When(spf = "none" /\ is_inconclusive(dkim) /\ is_inconclusive(dmarc),
                      "nothing to verify", 5)
    BY DEF score_authentication, spf, dkim, dmarc
  <1>7. r \notin When(spf = "none" /\ is_inconclusive(dkim) /\ is_inconclusive(dmarc),
                      "nothing to verify", 5)
    <2>1. ASSUME r = <<<<"nothing to verify">>, 5>> PROVE FALSE
      BY <2>1
    <2> QED BY <2>1 DEF When
  <1>8. \/ r \in When(check_spf(a.spf) = "fail", "spf=fail", 30)
        \/ r \in When(check_spf(a.spf) = "softfail", "spf=softfail", 10)
        \/ r \in When(check_dkim(a.dkim) = "fail", "dkim=fail", 25)
        \/ r \in When(check_dmarc(a, check_spf(a.spf), check_dkim(a.dkim)) = "fail", "dmarc=fail",
                      IF dmarc_policy(a.dmarc) = {"reject"} THEN 50 ELSE 35)
    <2>1. m.dkim = "error" => dkim # "fail"
      BY <1>2
    <2> DEFINE points == IF dmarc_policy(m.dmarc) = {"reject"} THEN 50 ELSE 35
    <2> HIDE DEF points
    <2>2. r \in When(dmarc = "fail", "dmarc=fail", points) => r[1] = <<"dmarc=fail">>
      <3>1. SUFFICES ASSUME r \in When(dmarc = "fail", "dmarc=fail", points)
                     PROVE  r[1] = <<"dmarc=fail">>
        OBVIOUS
      <3>2. dmarc = "fail"
        BY <3>1 DEF When
      <3>3. r \in {<<<<"dmarc=fail">>, points>>}
        BY <3>1, <3>2 DEF When
      <3>4. r = <<<<"dmarc=fail">>, points>>
        BY <3>3, Zenon
      <3> QED BY <3>4, FirstOf, Zenon
    <2>3. ~(m.dkim = "error" /\ r \in When(dmarc = "fail", "dmarc=fail", points))
      BY <2>2
    <2> QED BY <1>1, <1>3, <1>4, <1>5, <1>6, <1>7, <2>1, <2>3 DEF When, points
  <1>9. r \in score_authentication(check_spf(a.spf), check_dkim(a.dkim),
                                   check_dmarc(a, check_spf(a.spf), check_dkim(a.dkim)),
                                   dmarc_policy(a.dmarc))
    BY <1>8 DEF score_authentication
  <1> QED BY <1>9 DEF a

\* A look-up that fails, or that a list refuses, adds no reason against the sender,
\* except that a DKIM look-up that raised may add dmarc=fail (mail/authentication.py,
\* mail/reputation.py, mail/spam.py).
THEOREM OutagesAreNotForgery == FiltersSpec => []OutageIsNotForgery
  <1>1. ASSUME Followed PROVE OutageIsNotForgery
    <2> DEFINE m == last.mail
               a == Answered(m)
    <2> SUFFICES ASSUME last # NoMail, m.rspamd = {}
                 PROVE  /\ OutageBlame \subseteq IF m.dkim = "error" THEN {<<"dmarc=fail">>} ELSE {}
                        /\ \A l \in check(m) \ m.entries : probe(m.manner[l[1]]) # "working"
      BY DEF OutageIsNotForgery
    <2>1. m \in Message /\ last.verdict = analyse(m, FALSE)
      BY <1>1 DEF Followed
    <2>2. \A l \in check(m) \ m.entries : probe(m.manner[l[1]]) # "working"
      BY <2>1, ListsThatNameAnyone
    <2>3. ASSUME NEW r \in analyse(m, FALSE).reasons, r[1] # <<"nothing to verify">>,
                 m.dkim = "error" => r[1] # <<"dmarc=fail">>
          PROVE  r \in analyse(a, FALSE).reasons
      <3> DEFINE Reasons(n) == score_message(n, check_spf(n.spf), check_dkim(n.dkim),
                                             check_dmarc(n, check_spf(n.spf), check_dkim(n.dkim)))
      <3>1. SpamEnabled
        <4>1. ~SpamEnabled => analyse(m, FALSE).reasons = {}
          BY DEF analyse, Unjudged
        <4> QED BY <2>3, <4>1
      <3>2. a.rspamd = {} /\ a.flaws = m.flaws /\ a.executables = m.executables /\ check(a) = check(m)
        BY <2>1, AnsweredIs, ListingsAreKept
      <3> HIDE DEF m, a
      <3>3. analyse(m, FALSE).reasons = Reasons(m) /\ analyse(a, FALSE).reasons = Reasons(a)
        BY <3>1, <3>2 DEF analyse, m
      <3>4. CASE r \in score_reputation(check(m)) \cup score_content(m)
        <4>1. score_content(a) = score_content(m)
          BY <3>2 DEF score_content
        <4> QED BY <3>2, <3>3, <3>4, <4>1 DEF score_message
      <3>5. CASE r \notin score_reputation(check(m)) \cup score_content(m)
        <4>1. r \in score_authentication(check_spf(m.spf), check_dkim(m.dkim),
                                         check_dmarc(m, check_spf(m.spf), check_dkim(m.dkim)),
                                         dmarc_policy(m.dmarc))
          BY <2>3, <3>3, <3>5 DEF score_message
        <4>2. r \in score_authentication(check_spf(a.spf), check_dkim(a.dkim),
                                         check_dmarc(a, check_spf(a.spf), check_dkim(a.dkim)),
                                         dmarc_policy(a.dmarc))
          BY <2>1, <2>3, <4>1, BlameIsEarned DEF a
        <4> QED BY <3>3, <4>2 DEF score_message
      <3> QED BY <3>4, <3>5
    <2>4. ASSUME NEW x \in Blame(last.verdict), m.dkim = "error" => x # <<"dmarc=fail">>
          PROVE  x \in Blame(analyse(a, FALSE))
      <3>1. PICK r \in analyse(m, FALSE).reasons : x = r[1]
        BY <2>1 DEF Blame
      <3>2. x # <<"nothing to verify">>
        <4>1. \/ x \in {<<"spf=fail">>, <<"spf=softfail">>, <<"dkim=fail">>, <<"dmarc=fail">>}
              \/ x \in (AddressZones \cup DomainZones) \X (Subjects(m) \cup {Address})
          BY DEF Blame
        <4>2. \A p, q : <<p, q>> # <<"nothing to verify">>
          OBVIOUS
        <4> HIDE DEF m
        <4>3. x \in (AddressZones \cup DomainZones) \X (Subjects(m) \cup {Address}) =>
                  \E p, q : x = <<p, q>>
          OBVIOUS
        <4>4. x \in {<<"spf=fail">>, <<"spf=softfail">>, <<"dkim=fail">>, <<"dmarc=fail">>} =>
                  x # <<"nothing to verify">>
          <5>1. \A s \in STRING : <<s>>[1] = s
            OBVIOUS
          <5>2. \A s, t \in STRING : <<s>> = <<t>> => s = t
            BY <5>1
          <5>3. <<"spf=fail">> # <<"nothing to verify">> /\ <<"spf=softfail">> # <<"nothing to verify">>
            BY <5>2
          <5>4. <<"dkim=fail">> # <<"nothing to verify">> /\ <<"dmarc=fail">> # <<"nothing to verify">>
            BY <5>2
          <5> QED BY <5>3, <5>4
        <4> QED BY <4>1, <4>2, <4>3, <4>4
      <3> QED BY <2>3, <2>4, <3>1, <3>2 DEF Blame
    <2>5. OutageBlame \subseteq IF m.dkim = "error" THEN {<<"dmarc=fail">>} ELSE {}
      BY <2>4 DEF OutageBlame
    <2> QED BY <2>2, <2>5
  <1>2. FiltersInv => Followed
    BY DEF FiltersInv
  <1> QED BY <1>1, <1>2, FiltersStayRight, PTL

=============================================================================
