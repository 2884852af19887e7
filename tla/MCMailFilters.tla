--------------------------- MODULE MCMailFilters ----------------------------
(* Instances of MailFilters for TLC. *)
EXTENDS MailFilters

Test(field, op, word, number) == [field |-> field, op |-> op, word |-> word, number |-> number]

Row(owner, rule) == [owner |-> owner, rule |-> rule, stamped |-> FALSE]

Bank == [name |-> 2, priority |-> 10, match_type |-> "all", is_active |-> TRUE, stop_on_match |-> TRUE,
         conditions |-> <<Test("from", "contains", "bank", NotANumber)>>,
         actions |-> <<<<"flag", "">>, <<"file_into", "Receipts">>>>]

Bulk == [name |-> 1, priority |-> 0, match_type |-> "any", is_active |-> TRUE, stop_on_match |-> FALSE,
         conditions |-> <<Test("spam_score", "gt", "", 20), Test("size", "gt", "", 90),
                          Test("dkim_result", "equals", "fail", NotANumber)>>,
         actions |-> <<<<"mark_read", "">>, <<"file_into", "Bulk">>>>]

Forward == [Bank EXCEPT !.name = 3, !.priority = 100, !.actions = <<<<"redirect", "me@elsewhere.org">>>>,
                        !.conditions = <<Test("attachment", "equals", "no", NotANumber)>>]

\* Rows written by hand.
Unreadable == [Bank EXCEPT !.name = 4, !.is_active = FALSE, !.actions = <<<<"vacation", "">>>>]
Illegible  == [Bank EXCEPT !.name = 4, !.match_type = "either"]
Empty      == [Bank EXCEPT !.name = 4, !.conditions = <<>>]

Table(one, two, three) == 1 :> one @@ 2 :> two @@ 3 :> three
MCIds == 1..3

Create(id, owner, rule) == [kind |-> "create", id |-> id, owner |-> owner, rule |-> rule]
Update(id, owner, body) == [kind |-> "update", id |-> id, owner |-> owner, rule |-> body]
Delete(id, owner)       == [kind |-> "delete", id |-> id, owner |-> owner, rule |-> NoRule]
Sieve                   == [kind |-> "sieve"]

Example == <<"example", "org">>
Other   == <<"other", "net">>

Plain == [global |-> TRUE, spf |-> "pass", dkim |-> "valid", dmarc |-> "none",
          sender |-> Example, helo |-> Example, signer |-> Example, from |-> Example, links |-> <<>>,
          manner |-> "zen" :> "honest" @@ "dbl" :> "honest", entries |-> {},
          flaws |-> {}, executables |-> {}, parts |-> {}, rspamd |-> {}, size |-> 10,
          words |-> {}]

FromBank == [Plain EXCEPT !.words = {<<"from", "bank">>, SpamMark}]

\* What the checks and the lists may say of a message, and what may be wrong with it.
Judged ==
    {[Plain EXCEPT !.spf = spf, !.dkim = dkim, !.dmarc = dmarc, !.sender = sender, !.signer = signer,
                   !.manner = "zen" :> zen @@ "dbl" :> dbl, !.entries = entries,
                   !.flaws = flaws] :
        spf \in {"pass", "fail", "softfail", "none", "timeout", "error"},
        dkim \in {"unsigned", "valid", "invalid", "malformed", "timeout", "error"},
        dmarc \in {"absent", "none", "reject"},
        sender \in {Example, Other}, signer \in {<<"mail", "example", "org">>, Other},
        zen \in {"honest", "refuses", "everything"},
        dbl \in {"honest", "rewrites"},
        entries \in {{}, {<<"zen", Address>>, <<"dbl", Example>>, <<"dbl", Other>>}},
        flaws \in {{}, {"no date", "all caps"}}}

\* A message of eleven links, and which of them a list has.
MCLinks == LET names == <<"a", "b", "c", "d", "e", "f", "g", "h", "i", "j", "k">>
         IN  [i \in DOMAIN names |-> <<names[i], "net">>]

Linked ==
    {[Plain EXCEPT !.links = MCLinks, !.entries = {<<"dbl", MCLinks[i]>> : i \in listed}] :
        listed \in {{10}, {11}, {1, 2, 3}}}

\* What its own headers, its parts and rspamd may say.
Carried ==
    {[Plain EXCEPT !.rspamd = rspamd, !.words = words, !.size = size, !.executables = executables,
                   !.parts = {[disposition |-> d, named |-> TRUE] : d \in disposition},
                   !.sender = NoDomain, !.global = FALSE] :
        rspamd \in {{}} \cup {{<<<<"rspamd">>, n>>} : n \in {-10, 25, 60}},
        words \in SUBSET {<<"from", "bank">>, SpamMark}, size \in {10, 100},
        executables \in SUBSET {1, 2}, disposition \in {{}, {"inline"}, {"attachment", "inline"}}}

MCMail == "bank" :> {FromBank} @@ "carried" :> Carried @@ "judged" :> (Judged \cup Linked)

Scene(table, work, mail, database, doveadm) ==
    [rules |-> table, work |-> work, mail |-> mail, database |-> database, doveadm |-> doveadm]

Busy ==
    {Scene(Table(Row("ann", Bank), Row("ben", Bulk), NoRule), work, "bank", database, doveadm) :
        work \in {"r1" :> Create(3, "ann", Bulk) @@ "r2" :> Update(1, "ann", [is_active |-> FALSE]),
                  "r1" :> Update(1, "ann", [priority |-> 200]) @@ "r2" :> Delete(1, "ann"),
                  "r1" :> Update(1, "ann", [priority |-> 0])
                      @@ "r2" :> Update(1, "ann", [is_active |-> FALSE]),
                  "r1" :> Create(3, "ann", Forward) @@ "r2" :> Delete(2, "ann"),
                  "r1" :> Create(3, "ann", Bulk) @@ "r2" :> Delete(1, "ann") @@ "cmd" :> Sieve,
                  "r1" :> Update(3, "ben", [priority |-> 1]) @@ "cmd" :> Sieve,
                  "r1" :> Update(1, "ann", [stop_on_match |-> FALSE]) @@ "cmd" :> Sieve,
                  "r1" :> Create(3, "ben", [Forward EXCEPT !.actions[1] = <<"stop", "">>])
                      @@ "r2" :> Update(2, "ben", [conditions |-> <<>>])},
        database \in {"sqlite", "postgres"}, doveadm \in BOOLEAN}

Handmade ==
    {Scene(Table(Row("ann", row), Row("ben", Bank), Row("ann", Bulk)), work, "bank",
           "postgres", TRUE) :
        row \in {Unreadable, Illegible, Empty},
        work \in {"r1" :> Update(3, "ann", [priority |-> 1]) @@ "cmd" :> Sieve,
                  "r1" :> Delete(1, "ann") @@ "cmd" :> Sieve}}

Quiet == {Scene(Table(Row("ann", Bank), Row("ann", Bulk), Row("ann", Forward)),
                "cmd" :> Sieve, "carried", "sqlite", FALSE),
          Scene(Table(Row("ann", Bulk), NoRule, NoRule), <<>>, "judged", "sqlite", FALSE)}

MCScenarios == Busy \cup Handmade \cup Quiet

MCKey == "r1" :> "phone" @@ "r2" :> "laptop" @@ "cmd" :> "none"

=============================================================================
