---------------------------- MODULE SmtpDelivery ----------------------------
(***************************************************************************)
(* A mail transaction on :25 or :587, from RCPT to the answer to DATA      *)
(* (mail/smtp.py), with the hand-off to Dovecot (dovecot/lmtp.py), the     *)
(* reply routes (mail/replies.py) and the suppression list                 *)
(* (mail/bounce.py).  Routing reads the directory as it stands at that     *)
(* step: a step is one database transaction or one LMTP transaction, and   *)
(* the operator may come between any two.                                  *)
(*                                                                         *)
(* A client repeats a transaction that was answered 4xx.  What a message   *)
(* says, its headers and the scoring of spam are left out; whether it was  *)
(* judged spam is kept.                                                    *)
(***************************************************************************)
EXTENDS Routing

CONSTANTS
    Mails,          \* messages clients have to send
    Envelopes,      \* Envelopes[m]: what m may be
    Directories,    \* the directory at the start
    TagPolicy,      \* mailboxes of domains whose spam_policy is "tag"
    MaxRecipients,  \* cfg.smtp.max_recipients
    AccountEdits,   \* <<a, st>>: how the operator may change accounts
    AliasEdits,     \* <<a, al>>: how the operator may change aliases
    MayDelete,      \* whether the operator may delete the domain
    MaxTries,       \* bound: MaxTries[m], attempts at m
    MaxOps,         \* bound: changes to the directory, but for that
    MaxFaults,      \* bound: database errors and throttled messages
    NoEnvelope,
    NoLogin

\* login: who authenticated on :587; NoLogin on :25.  header: the From header.  reports: the
\* dead addresses a bounce names.  looping: MAX_HOPS is reached.
Envelope == [from : Addresses \cup {NullSender}, header : Addresses, to : SUBSET Addresses,
             login : Mailboxes \cup {NoLogin}, reports : SUBSET Addresses, looping : BOOLEAN]

\* What the database holds of the domain, its accounts, aliases, suppression_list and
\* alias_reply_routes.
Directory == [hosted : BOOLEAN,
              account : [Mailboxes -> {"none", "open", "disabled", "blocked", "muted"}],
              alias : [Mailboxes -> Alias \cup {NoAlias}],
              suppressed : SUBSET Addresses,
              token : [Tokens -> ReplyRoutes \cup {NoToken}]]

\* The queue begins empty, so no copy of an alias has gone out and no reply route exists.
ASSUME DeliveryAssumption ==
    /\ \A m \in Mails : \A e \in Envelopes[m] : e \in Envelope /\ e.to # {}
    /\ \A d \in Directories : d \in Directory /\ \A k \in Tokens : d.token[k] = NoToken
    /\ AccountEdits \subseteq Mailboxes \X {"none", "open", "disabled", "blocked", "muted"}
    /\ AliasEdits \subseteq Mailboxes \X (Alias \cup {NoAlias})
    /\ MaxRecipients \in Nat \ {0} /\ MaxTries \in [Mails -> Nat \ {0}]
    /\ MaxOps \in Nat /\ MaxFaults \in Nat

VARIABLES
    directory,  \* domains, accounts, aliases, suppression_list, alias_reply_routes
    tx,         \* the transaction of each mail, or its latest attempt
    inbox,      \* history: copies in mailboxes
    refused,    \* history: copies Dovecot refused
    queue,      \* history: rows of email_queue
    ops, faults

vars == <<directory, tx, inbox, refused, queue, ops, faults>>

\* The transaction is on the submission listener: require_auth.
Submitted(m) == tx[m].envelope # NoEnvelope /\ tx[m].envelope.login # NoLogin

NoOutcome == [delivered |-> {}, forwarded |-> {}, rejected |-> {}, accepted |-> {},
              error |-> "none"]

NoTx == [envelope |-> NoEnvelope, stage |-> "new", try |-> 0,
         offered |-> {}, rcpts |-> {},  \* envelope.rcpt_tos
         spam |-> FALSE,                \* analysis.is_spam
         plan |-> {},                   \* what route_all returned
         steps |-> {},                  \* queueing still to be done
         boxes |-> {},                  \* mailboxes for Dovecot
         groups |-> {},                 \* of them, the LMTP transactions to come
         outcome |-> NoOutcome,         \* DeliveryOutcome
         answer |-> 0]                  \* the answer to DATA; 0 before it

Init ==
    /\ directory \in Directories
    /\ tx = [m \in Mails |-> NoTx]
    /\ inbox = {} /\ refused = {} /\ queue = {}
    /\ ops = 0 /\ faults = 0

-----------------------------------------------------------------------------
(* The answer. *)

\* Mutant: having nothing to refuse is a success.
smtp_response_mut(o) ==
    IF o.error # "none" THEN {451}
    ELSE IF o.rejected = {} THEN {250} ELSE {550}

\* DeliveryOutcome.smtp_response. The first of several refusals answers for
\* all; any of them may be first.
smtp_response(o) ==
    IF o.error = "permanent" THEN {554}
    ELSE IF o.error = "temporary" THEN {451}
    ELSE IF o.delivered \cup o.forwarded \cup o.accepted # {} THEN {250}
    ELSE IF o.rejected # {} THEN {smtp_code(reason) : reason \in o.rejected}
    ELSE {550}

Closed(m, t) ==
    \E code \in smtp_response(t.outcome) :
        tx' = [tx EXCEPT ![m] = [t EXCEPT !.stage = "closed", !.answer = code,
                                          !.steps = {}, !.groups = {}]]

\* An exception anywhere in deliver() is a 451.
Aborted(m) == Closed(m, [tx[m] EXCEPT !.outcome.error = "temporary"])

\* Mutant: only the group marked for Junk is delivered.
spam_groups_mut(t) == IF t.spam THEN {t.boxes \ TagPolicy} \ {{}} ELSE {t.boxes}

\* _spam_actions: one LMTP transaction per spam action.
spam_groups(t) ==
    IF t.spam THEN {t.boxes \cap TagPolicy, t.boxes \ TagPolicy} \ {{}} ELSE {t.boxes}

\* deliver() goes on to the next hand-off, to Dovecot, or to its end.
Proceed(m, t) ==
    IF t.steps # {} THEN tx' = [tx EXCEPT ![m] = [t EXCEPT !.stage = "handoff"]]
    ELSE IF t.boxes = {} THEN Closed(m, t)
    ELSE tx' = [tx EXCEPT ![m] = [t EXCEPT !.stage = "store", !.groups = spam_groups(t)]]

-----------------------------------------------------------------------------
(* The envelope. *)

Connect(m) ==
    /\ tx[m].stage = "new"
    /\ \E e \in Envelopes[m] :
        tx' = [tx EXCEPT ![m] = [NoTx EXCEPT !.envelope = e, !.stage = "rcpt", !.try = 1]]
    /\ UNCHANGED <<directory, inbox, refused, queue, ops, faults>>

\* The client tries again what was answered 4xx.
Retry(m) ==
    /\ tx[m].stage = "closed" /\ tx[m].answer = 451
    /\ tx[m].try < MaxTries[m]
    /\ tx' = [tx EXCEPT ![m] = [NoTx EXCEPT !.envelope = tx[m].envelope, !.stage = "rcpt",
                                            !.try = tx[m].try + 1]]
    /\ UNCHANGED <<directory, inbox, refused, queue, ops, faults>>

Full(rcpts) == Cardinality(rcpts) >= MaxRecipients

\* handle_RCPT: only the receive listener routes here.
handle_RCPT(m, r) ==
    /\ tx[m].stage = "rcpt" /\ r \in tx[m].envelope.to \ tx[m].offered
    /\ LET taken == Submitted(m) \/ route(directory, r).disposition # "reject"
       IN  tx' = [tx EXCEPT ![m].offered = @ \cup {r},
                            ![m].rcpts = IF taken /\ ~Full(@) THEN @ \cup {r} ELSE @]
    /\ UNCHANGED <<directory, inbox, refused, queue, ops, faults>>

\* An exception in handle_RCPT refuses that recipient.
RcptError(m, r) ==
    /\ faults < MaxFaults /\ faults' = faults + 1
    /\ ~Submitted(m)
    /\ tx[m].stage = "rcpt" /\ r \in tx[m].envelope.to \ tx[m].offered
    /\ tx' = [tx EXCEPT ![m].offered = @ \cup {r}]
    /\ UNCHANGED <<directory, inbox, refused, queue, ops>>

\* handle_DATA. With no recipient left the client cannot go on.
handle_DATA(m) ==
    /\ tx[m].stage = "rcpt" /\ tx[m].offered = tx[m].envelope.to
    /\ IF tx[m].rcpts = {} THEN Closed(m, tx[m])
       ELSE tx' = [tx EXCEPT ![m].stage =
                IF Submitted(m) THEN "may_send"
                ELSE IF tx[m].envelope.from = NullSender THEN "bounce" ELSE "route"]
    /\ UNCHANGED <<directory, inbox, refused, queue, ops, faults>>

-----------------------------------------------------------------------------
(* deliver(). *)

\* _may_send: as oneself, or as an active alias that delivers to oneself; never
\* as the null sender.
SendAllowed(login, from) ==
    /\ directory.account[login] \notin {"none", "muted"}
    /\ \/ from = login
       \/ /\ from \in Mailboxes /\ directory.hosted /\ HasAlias(directory, from)
          /\ login \in directory.alias[from].to

may_send(m) ==
    /\ tx[m].stage = "may_send"
    /\ IF SendAllowed(tx[m].envelope.login, tx[m].envelope.from)
       THEN tx' = [tx EXCEPT ![m].stage = "route"]
       ELSE Closed(m, [tx[m] EXCEPT !.outcome.error = "permanent"])
    /\ UNCHANGED <<directory, inbox, refused, queue, ops, faults>>

\* record_bounces: BounceRepo.suppress of each dead address.
record_bounces(m) ==
    /\ tx[m].stage = "bounce"
    /\ directory' = [directory EXCEPT !.suppressed = @ \cup tx[m].envelope.reports]
    /\ tx' = [tx EXCEPT ![m].stage = "route"]
    /\ UNCHANGED <<inbox, refused, queue, ops, faults>>

MailLoop(m) ==
    /\ tx[m].stage = "route" /\ tx[m].envelope.looping
    /\ Closed(m, [tx[m] EXCEPT !.outcome.error = "permanent"])
    /\ UNCHANGED <<directory, inbox, refused, queue, ops, faults>>

\* What a submitting user sends elsewhere is not a refusal.
Outbound(m, R) == {r \in R : Submitted(m) /\ r.reason = "not_local"}

Forwarding(R) == {r \in R : r.to # {}}
Replying(R)   == {r \in R : r.disposition = "reply"}

\* The analysis, route_all, and the sorting of the routes.  Mail of an
\* authenticated user is not judged.
route_all(m) ==
    LET R == {route(directory, r) : r \in tx[m].rcpts}
        out == Outbound(m, R)
    IN  /\ tx[m].stage = "route" /\ ~tx[m].envelope.looping
        /\ \E verdict \in IF Submitted(m) THEN {FALSE} ELSE BOOLEAN :
            Proceed(m, [tx[m] EXCEPT
                !.plan = R,
                !.spam = verdict,
                !.outcome.rejected =
                    {r.reason : r \in {q \in R \ out : q.disposition = "reject"}},
                !.boxes = {r.recipient : r \in
                    {q \in R : q.disposition \in {"local", "bridge"}}},
                !.steps = (IF out # {} THEN {"outbound"} ELSE {})
                    \cup (IF Forwarding(R) # {} THEN {"forward"} ELSE {})
                    \cup (IF Replying(R) # {} THEN {"reply"} ELSE {})])
        /\ UNCHANGED <<directory, inbox, refused, queue, ops, faults>>

\* A row of email_queue, with where it came from and what the analysis said.
Row(m, via, source, to, envelope_from) ==
    [mail |-> m, try |-> tx[m].try, via |-> via, source |-> source, to |-> to,
     envelope_from |-> envelope_from, spam |-> tx[m].spam]

\* _enqueue_outbound. The sender's domain may have been deleted meanwhile.
enqueue_outbound(m) ==
    /\ tx[m].stage = "handoff" /\ "outbound" \in tx[m].steps
    /\ LET from == tx[m].envelope.from
           to == {r.recipient : r \in Outbound(m, tx[m].plan)}
       IN  IF directory.hosted
           THEN /\ queue' = queue \cup {Row(m, "submission", from, to, from)}
                /\ Proceed(m, [tx[m] EXCEPT !.steps = @ \ {"outbound"},
                                            !.outcome.forwarded = @ \cup to])
           ELSE /\ Proceed(m, [tx[m] EXCEPT !.steps = @ \ {"outbound"},
                                            !.outcome.error = "permanent"])
                /\ UNCHANGED queue
    /\ UNCHANGED <<directory, inbox, refused, ops, faults>>

\* What of an alias's copies leaves the server: nothing, if it is spam.
Leaving(t, r) == {a \in r.to : ~IsLocal(directory, a) /\ ~t.spam}

\* The reply route created for a forward.
ReplyRoute(t, r) ==
    [kind |-> IF r.disposition = "bridge" THEN "bridge" ELSE "forward",
     local_address |-> r.recipient, to |-> Leaving(t, r),
     original_from |-> t.envelope.header, expired |-> FALSE]

\* _forward: a token per alias route, in the transaction that queues its copies;
\* the alias's domain must still be there.
forward(m) ==
    LET t == tx[m]
        F == Forwarding(t.plan)
        leaving == {r \in F : Leaving(t, r) # {}}
        free == {k \in Tokens : directory.token[k] = NoToken}
    IN  /\ t.stage = "handoff" /\ "forward" \in t.steps /\ "outbound" \notin t.steps
        /\ IF leaving # {} /\ ~directory.hosted
           THEN Aborted(m) /\ UNCHANGED <<directory, queue>>
           ELSE \E token \in [leaving -> free] :
                /\ \A q, r \in leaving : q # r => token[q] # token[r]
                /\ directory' = [directory EXCEPT !.token =
                        [k \in Tokens |->
                            IF \E r \in leaving : token[r] = k
                            THEN ReplyRoute(t, CHOOSE r \in leaving : token[r] = k)
                            ELSE @[k]]]
                /\ queue' = queue \cup {Row(m, "forward", r.recipient, Leaving(t, r), token[r]) :
                                            r \in leaving}
                /\ Proceed(m, [t EXCEPT
                        !.steps = @ \ {"forward"},
                        !.outcome.forwarded = @ \cup UNION {Leaving(t, r) : r \in leaving},
                        !.boxes = @ \cup {a \in UNION {r.to : r \in F} : IsLocal(directory, a)}])
        /\ UNCHANGED <<inbox, refused, ops, faults>>

\* Mutant: anyone who knows the token may answer.
accepts_reply_from_mut(reply, e) == TRUE

\* ReplyRoute.accepts_reply_from the envelope sender or the From header.
accepts_reply_from(reply, e) == e.from \in reply.to \/ e.header \in reply.to

\* _relay_replies: a bounce of a bridged copy, or spam, goes to the bridge's own
\* mailbox; a bounce of a plain forward is taken and dropped; a reply goes back
\* to who wrote in; the rest is refused.  Every bridge token has a mailbox:
\* _forward gives it its route's, and Router.route finds no bridge without one.
relay_replies(m) ==
    LET t == tx[m]
        R == Replying(t.plan)
        bridged == {r \in R : r.reply.kind = "bridge"}
        null == t.envelope.from = NullSender
        answered == {r \in bridged : ~null /\ accepts_reply_from(r.reply, t.envelope)}
        relayed == IF t.spam THEN {} ELSE answered
        kept == IF null THEN bridged ELSE answered \ relayed
    IN  /\ t.stage = "handoff" /\ t.steps = {"reply"}
        /\ IF relayed # {} /\ ~directory.hosted
           THEN Aborted(m) /\ UNCHANGED queue
           ELSE /\ queue' = queue \cup
                        {Row(m, "reply", r.recipient, {r.reply.original_from},
                             r.reply.local_address) : r \in relayed}
                /\ Proceed(m, [t EXCEPT
                        !.steps = {},
                        !.boxes = @ \cup {r.reply.local_address : r \in kept},
                        !.outcome.forwarded = @ \cup {r.reply.original_from : r \in relayed},
                        !.outcome.accepted = @ \cup
                            {r.recipient : r \in IF null THEN R \ bridged ELSE {}},
                        !.outcome.rejected = @ \cup
                            {"no_such" : r \in IF null THEN {} ELSE R \ answered}])
        /\ UNCHANGED <<directory, inbox, refused, ops, faults>>

Copies(m, B) == {[mail |-> m, try |-> tx[m].try, box |-> b] : b \in B}

\* One LMTP transaction. Each recipient has an answer of its own; a refusal, even
\* a temporary one, is only logged.
lmtp_deliver(m) ==
    /\ tx[m].stage = "store"
    /\ \E g \in tx[m].groups : \E ok \in SUBSET g :
        LET t == [tx[m] EXCEPT !.groups = @ \ {g}, !.outcome.delivered = @ \cup ok]
        IN  /\ inbox' = inbox \cup Copies(m, ok)
            /\ refused' = refused \cup Copies(m, g \ ok)
            /\ IF t.groups = {} THEN Closed(m, t) ELSE tx' = [tx EXCEPT ![m] = t]
    /\ UNCHANGED <<directory, queue, ops, faults>>

\* LMTPError: Dovecot is not there, or falls silent before every answer is in.
\* An error that was final stays final.
LmtpError(m) ==
    /\ tx[m].stage = "store"
    /\ \E g \in tx[m].groups : \E got \in SUBSET g : inbox' = inbox \cup Copies(m, got)
    /\ Closed(m, [tx[m] EXCEPT !.outcome.error =
            IF @ = "permanent" THEN "permanent" ELSE "temporary"])
    /\ UNCHANGED <<directory, refused, queue, ops, faults>>

\* The database fails a transaction of deliver(), or handle_DATA throttles the
\* client: 4xx.
DatabaseError(m) ==
    /\ faults < MaxFaults /\ faults' = faults + 1
    /\ tx[m].stage \in {"may_send", "bounce", "route", "handoff", "store"}
    /\ Aborted(m)
    /\ UNCHANGED <<directory, inbox, refused, queue, ops>>

-----------------------------------------------------------------------------
(* The directory changes under a transaction. *)

Operator == ops < MaxOps /\ ops' = ops + 1

EditAccount(a, st) ==
    /\ Operator /\ directory.hosted /\ directory.account[a] # st
    /\ directory' = [directory EXCEPT !.account[a] = st]
    /\ UNCHANGED <<tx, inbox, refused, queue, faults>>

EditAlias(a, al) ==
    /\ Operator /\ directory.hosted /\ directory.alias[a] # al
    /\ directory' = [directory EXCEPT !.alias[a] = al]
    /\ UNCHANGED <<tx, inbox, refused, queue, faults>>

\* A domain is deleted once its accounts are; what is left of its aliases is no
\* longer found.
DeleteDomain ==
    /\ MayDelete /\ directory.hosted
    /\ \A a \in Mailboxes : directory.account[a] = "none"
    /\ directory' = [directory EXCEPT !.hosted = FALSE,
                                      !.alias = [a \in Mailboxes |-> NoAlias]]
    /\ UNCHANGED <<tx, inbox, refused, queue, ops, faults>>

\* BounceRepo.unsuppress.
unsuppress(a) ==
    /\ Operator /\ a \in directory.suppressed
    /\ directory' = [directory EXCEPT !.suppressed = @ \ {a}]
    /\ UNCHANGED <<tx, inbox, refused, queue, faults>>

\* RETENTION passes: the token no longer works, swept or not.
Expire(k) ==
    /\ Operator /\ directory.token[k] # NoToken /\ ~directory.token[k].expired
    /\ directory' = [directory EXCEPT !.token[k].expired = TRUE]
    /\ UNCHANGED <<tx, inbox, refused, queue, faults>>

-----------------------------------------------------------------------------
Step(m) ==
    \/ Connect(m) \/ Retry(m) \/ (\E r \in Addresses : handle_RCPT(m, r)) \/ handle_DATA(m)
    \/ may_send(m) \/ record_bounces(m) \/ MailLoop(m) \/ route_all(m)
    \/ enqueue_outbound(m) \/ forward(m) \/ relay_replies(m) \/ lmtp_deliver(m)

Fault(m) == (\E r \in Addresses : RcptError(m, r)) \/ LmtpError(m) \/ DatabaseError(m)

OperatorStep ==
    \/ \E e \in AccountEdits : EditAccount(e[1], e[2])
    \/ \E e \in AliasEdits : EditAlias(e[1], e[2])
    \/ DeleteDomain
    \/ \E a \in Addresses : unsuppress(a)
    \/ \E k \in Tokens : Expire(k)

Next == (\E m \in Mails : Step(m) \/ Fault(m)) \/ OperatorStep

Spec == Init /\ [][Next]_vars

-----------------------------------------------------------------------------
(* Properties. *)

Final(m) == tx[m].stage = "closed"
Took(m) == {c \in inbox : c.mail = m /\ c.try = tx[m].try}
Sent(m) == {q \in queue : q.mail = m /\ q.try = tx[m].try}

\* A copy offered to Dovecot, and a row of email_queue.
Copy == [mail : Mails, try : Nat, box : Mailboxes]
QueueRow == [mail : Mails, try : Nat, via : {"submission", "forward", "reply"},
             source : Addresses \cup {NullSender},
             to : (SUBSET (Addresses \cup {NullSender})) \ {{}},
             envelope_from : Addresses \cup {NullSender}, spam : BOOLEAN]

\* Every variable keeps its type.
TypeOK ==
    /\ directory \in Directory
    /\ \A m \in Mails :
        /\ tx[m].envelope \in Envelopes[m] \cup {NoEnvelope}
        /\ tx[m].stage \in {"new", "rcpt", "may_send", "bounce", "route", "handoff", "store",
                            "closed"}
        /\ tx[m].try \in 0..MaxTries[m]
        /\ tx[m].rcpts \subseteq tx[m].offered /\ tx[m].offered \subseteq Addresses
        /\ Cardinality(tx[m].rcpts) <= MaxRecipients
        /\ tx[m].spam \in BOOLEAN
        /\ tx[m].plan \subseteq Routes
        /\ tx[m].steps \subseteq {"outbound", "forward", "reply"}
        /\ tx[m].boxes \subseteq Mailboxes /\ tx[m].groups \subseteq SUBSET Mailboxes
        /\ tx[m].outcome.rejected \subseteq Reasons
        /\ tx[m].answer \in {0, 250, 451, 550, 554}
    /\ inbox \subseteq Copy /\ refused \subseteq Copy
    /\ queue \subseteq QueueRow
    /\ ops \in 0..MaxOps /\ faults \in 0..MaxFaults

\* Expansion of aliases is reachability in their graph, in every directory the
\* operator can bring about.
RoutingIsReachability == ExpandsToReachable(directory)

\* smtp.py, "what stops the server being an open relay": what a client that did
\* not log in gets queued is the copy of an alias, or the answer to such a copy
\* from one of the addresses it was sent to.
RelayIsEarned ==
    \A q \in queue : ~Submitted(q.mail) =>
        \/ q.via = "forward"
        \/ /\ q.via = "reply"
           /\ \E p \in queue :
                /\ p.via = "forward" /\ p.envelope_from = q.source
                /\ {tx[q.mail].envelope.from, tx[q.mail].envelope.header} \cap p.to # {}
                /\ q.to = {tx[p.mail].envelope.header}

\* "Mail already judged to be spam is not forwarded off the server", nor relayed
\* as a reply.
SpamStaysHome == \A q \in queue : ~q.spam

\* A 250 is earned: something of this attempt was delivered, queued, or was the
\* bounce of a forward, which nobody wants.  A forward dropped is not a success.
SuccessIsEarned ==
    \A m \in Mails : Final(m) /\ tx[m].answer = 250 =>
        Took(m) # {} \/ Sent(m) # {} \/ tx[m].outcome.accepted # {}

\* Every recipient of a message answered 250 was dealt with as its route said,
\* whatever the other recipients needed and the operator did meanwhile: no kind
\* of route, hand-off or spam group is passed over.
EveryRecipientIsAccountedFor ==
    \A m \in Mails : Final(m) /\ tx[m].answer = 250 =>
        LET t == tx[m]
            Offered(a) == [mail |-> m, try |-> t.try, box |-> a] \in inbox \cup refused
            Queued(a) == \E q \in Sent(m) : a \in q.to
            Withheld(a) == t.spam /\ ~IsLocal(directory, a)
        IN  \A r \in t.plan :
            /\ r.disposition \in {"local", "bridge"} => Offered(r.recipient)
            /\ \A a \in r.to : Offered(a) \/ Queued(a) \/ Withheld(a)
            /\ r.disposition = "reply" =>
                \/ Offered(r.reply.local_address) \/ Queued(r.reply.original_from)
                \/ r.recipient \in t.outcome.accepted \/ "no_such" \in t.outcome.rejected
            /\ r.disposition = "reject" =>
                r.reason \in t.outcome.rejected \/ Queued(r.recipient)

\* smtp.py, "silently losing the rest is not [recoverable]", and lmtp.py, "the
\* caller has to be told which": a mailbox of a message answered 250 has a copy.
\* The code does not keep this (README, section 6).
NothingIsLost ==
    \A m \in Mails : Final(m) /\ tx[m].answer = 250 =>
        \A a \in tx[m].boxes : [mail |-> m, try |-> tx[m].try, box |-> a] \in inbox

\* smtp_response, "Anything delivered means success -- reporting failure would
\* make the sender retry and duplicate the copies that worked": what has been
\* queued is told as a success.  (Copies an LMTP transaction delivered before it
\* failed are left out: deliver() says of those that it prefers a duplicate.)
\* The code does not keep this (README, section 6).
AnythingSentMeansSuccess == \A m \in Mails : Final(m) /\ tx[m].answer # 250 => Sent(m) = {}

=============================================================================
