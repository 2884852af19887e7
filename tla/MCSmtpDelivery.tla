--------------------------- MODULE MCSmtpDelivery ---------------------------
(* Instances of SmtpDelivery for TLC. *)
EXTENDS SmtpDelivery

CONSTANTS ann, sales, team, x, y, k1, k2, m1, m2

Open == [a \in Mailboxes |-> IF a = ann THEN "open" ELSE "none"]

Dir(account, alias) ==
    [hosted |-> TRUE, account |-> account, alias |-> alias, suppressed |-> {},
     token |-> [k \in Tokens |-> NoToken]]

To(type, to) == [type |-> type, to |-> to]

Aliases(a, b, c) ==
    [q \in Mailboxes |-> CASE q = ann -> a [] q = sales -> b [] q = team -> c]

\* ann is an account; sales is an alias of ann and x, team an alias of sales and
\* of ann (they converge); or ann is a bridge to x.
Plain ==
    Dir(Open, Aliases(NoAlias, To("forward", {ann, x}), To("forward", {sales, ann})))
Bridge ==
    Dir(Open, Aliases(To("bridge", {x}), To("forward", {ann}), NoAlias))
TwoAccounts ==
    Dir([a \in Mailboxes |-> IF a = team THEN "none" ELSE "open"],
        Aliases(NoAlias, NoAlias, To("forward", {x})))

\* A bridge whose destination leads back to it, and an alias of itself.
Loop ==
    Dir(Open, Aliases(To("bridge", {sales}), To("forward", {ann}),
                      To("forward", {sales, team})))

\* A domain without mailboxes.
Forwarder ==
    Dir([a \in Mailboxes |-> "none"],
        Aliases(NoAlias, To("forward", {x}), To("bridge", {sales, y})))

AllDirectories == {Plain, Bridge, TwoAccounts, Loop, Forwarder}

Mail(from, to) ==
    [from |-> from, header |-> IF from = NullSender THEN y ELSE from, to |-> to,
     login |-> NoLogin, reports |-> IF from = NullSender THEN {x} ELSE {}, looping |-> FALSE]

\* m1 is written by a stranger, or submitted by ann, as herself, as an alias of
\* hers or as someone else; m2 is the answer of x or of a stranger, a bounce, or a
\* message that has been round too often.
Conversation ==
    [m \in Mails |->
        IF m = m1
        THEN {Mail(y, {ann, sales, x}), Mail(y, {sales, team})} \cup
             {[Mail(from, {x, team}) EXCEPT !.login = ann] : from \in {sales, y}} \cup
             {[Mail(ann, {x, y, team}) EXCEPT !.login = ann]}
        ELSE {Mail(x, {k1}), Mail(y, {k1, ann}), Mail(NullSender, {k1}),
              [Mail(x, {ann}) EXCEPT !.looping = TRUE]}]

OnlyM1Retries == [m \in Mails |-> IF m = m1 THEN 2 ELSE 1]

AnnEdits == {<<ann, "disabled">>, <<ann, "muted">>, <<ann, "none">>}
SalesEdits == {<<sales, NoAlias>>, <<sales, To("forward", {team})>>}

=============================================================================
